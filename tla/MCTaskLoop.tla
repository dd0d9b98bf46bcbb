----------------------------- MODULE MCTaskLoop -----------------------------
(* Small instances of TaskLoop for TLC. *)
EXTENDS TaskLoop

Proc(pid, start, name, rss) ==
    [pid |-> pid, start_time |-> start, name |-> name, command |-> name,
     user |-> <<120>>, rss_bytes |-> rss]                    \* user "x"

Init1   == Proc(1, 1, <<105>>, 1)                            \* "i"
MCSelf  == Proc(2, 2, <<116>>, 2)                            \* "t"
Worker  == Proc(3, 3, <<97>>, 1)                             \* "a"
Reused  == Proc(3, 9, <<98>>, 1)                             \* "b", pid reused
Other   == Proc(4, 4, <<65, 98>>, 1)                         \* "Ab"

(* The kill runs: an unkillable process, the program itself, and a pid     *)
(* that two processes have one after the other.                            *)
KillProcs == {Init1, MCSelf, Worker, Reused}
KillKeySet == {121, 110, 107, 75, 47, TERM_KEY_DOWN, TERM_KEY_ENTER, 97, 113}

(* The view runs: rows that tie on CPU and memory, and pages of 1 and 2.   *)
ViewProcs == {Init1, MCSelf, Worker, Other}
ViewKeySet == {TERM_KEY_UP, TERM_KEY_DOWN, TERM_KEY_PGUP, TERM_KEY_PGDN,
               TERM_KEY_HOME, TERM_KEY_END, 47, 97, TERM_KEY_ESC,
               TERM_KEY_ENTER, TERM_KEY_BACKSPACE, 99, 112, 114, 32}

NoFilter   == {<< >>}
SomeFilters == {<< >>, <<97>>, <<122>>}                      \* "", "a", "z"
=============================================================================
