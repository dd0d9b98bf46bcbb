------------------------------ MODULE TaskLoop ------------------------------
(***************************************************************************)
(* The dashboard of taskman.c: start-up, the live loop (sample, sort,      *)
(* clamp, paint, poll, handle one key) and the way out, among processes    *)
(* that come and go, signals, and a user who presses any key at any poll.  *)
(*                                                                         *)
(* One pass of the loop is three steps with a wait after the first.        *)
(* Iterate is the part from the test of g_stop to the poll; it only reads  *)
(* the system and paints.  Polled is the test of g_stop behind the poll,   *)
(* and a key action is what follows it.  What is on the glass while the    *)
(* program waits is therefore what Iterate painted; the world may have     *)
(* moved on when the key is handled, and a signal that comes behind the    *)
(* test no longer keeps the key from being handled.                        *)
(***************************************************************************)
EXTENDS ProcView

CONSTANTS
    Procs,           \* every process there will ever be: records with pid,
                     \* start_time, name, command, user and rss_bytes
    Self,            \* the task manager's own process
    CpuPcts,         \* what a sample may report as cpu_pct of a row
    Keys,            \* the keys the user presses (term.h codes)
    Heights,         \* terminal heights, as term_size clamps them
    Filters,         \* what --filter may say
    SortArgs,        \* what --sort may say
    FILTER_CAP,      \* bytes of the filter, its terminator included
    SNAP_MAX_PROCS,  \* rows a snapshot can hold
    Hosts,           \* the hosts to consider (collect_host_name)
    Signals          \* the signals that may arrive from outside

ASSUME ProcsAssumption ==
    /\ Procs \subseteq ProcSample
    /\ Self \in Procs
    /\ IsFiniteSet(Procs)

ASSUME InputAssumption ==
    /\ CpuPcts \subseteq Int /\ CpuPcts # {}
    /\ Keys \subseteq Nat
    /\ Heights \subseteq 10..120 /\ Heights # {}
    /\ FILTER_CAP \in Nat \ {0}
    /\ Filters \subseteq {f \in Seq(Nat) : Len(f) < FILTER_CAP}
    /\ SortArgs \subseteq SortKeys

ASSUME HostAssumption ==
    /\ SNAP_MAX_PROCS \in Nat \ {0}
    /\ Hosts \subseteq {"Linux", "macOS", "Windows"}
    /\ Signals \subseteq {"interrupt", "hangup"}

-----------------------------------------------------------------------------
(* Keys, as term_poll_key reports them. *)

TERM_KEY_ESC       == 27
TERM_KEY_ENTER     == 13
TERM_KEY_BACKSPACE == 127
TERM_KEY_UP        == 1001
TERM_KEY_DOWN      == 1002
TERM_KEY_PGUP      == 1003
TERM_KEY_PGDN      == 1004
TERM_KEY_HOME      == 1005
TERM_KEY_END       == 1006

YesKeys     == {121, 89}                               \* y Y
NoKeys      == {110, 78, TERM_KEY_ESC, 113, 81}        \* n N esc q Q
QuitKeys    == {113, 81, 3}                            \* q Q ctrl-c
PauseKeys   == {32}                                    \* space
ReverseKeys == {114, 82}                               \* r R
EditKeys    == {47}                                    \* /
KillKeys    == {107, 75}                               \* k K
ForceKey    == 75                                      \* K
DownKeys    == {TERM_KEY_DOWN, 106}                    \* down j

SortOfKey == [k \in {99, 67, 109, 77, 112, 80, 110, 78} |->
                CASE k \in {99, 67}  -> SORT_CPU       \* c C
                  [] k \in {109, 77} -> SORT_MEM       \* m M
                  [] k \in {112, 80} -> SORT_PID       \* p P
                  [] OTHER           -> SORT_NAME]     \* n N

MoveKeys == {TERM_KEY_UP, TERM_KEY_PGUP, TERM_KEY_PGDN,
             TERM_KEY_HOME, TERM_KEY_END} \cup DownKeys

CommandKeys == QuitKeys \cup PauseKeys \cup ReverseKeys \cup EditKeys
                 \cup KillKeys \cup MoveKeys \cup {TERM_KEY_ESC}
                 \cup DOMAIN SortOfKey

-----------------------------------------------------------------------------
NoPrompt == [pid |-> NoPid, force |-> FALSE]
NoSignal == [pid |-> NoPid, force |-> FALSE, ok |-> FALSE, hit |-> {}]
NoBanner == [pid |-> NoPid, ok |-> FALSE]

Pids == {p.pid : p \in Procs}

VARIABLES
    host,          \* the host the program was compiled for
    pc,            \* "start", "primed", "top", "poll", "key" (behind the
                   \* test of g_stop), "restore"; the program is over at
                   \* "done", "killed" and "hungup"
    os,            \* each process is "unborn", "running" or "gone"
    procs,         \* the rows of the snapshot
    sorted,        \* the order procs was last sorted by
    g_sort,        \* g_sort_key and g_sort_rev
    filter, filter_edit, selected_pid, scroll, confirm_kill, kill_force,
    banner,        \* pid and outcome of the last kill, NoBanner when empty
    paused, rows, g_stop,
    tty,           \* the terminal: "cooked" as the shell left it, or "raw"
    glass,         \* what the last painted frame shows
    signalled      \* the signal sent by the last key, NoSignal if none

vars == <<host, pc, os, procs, sorted, g_sort, filter, filter_edit, selected_pid,
          scroll, confirm_kill, kill_force, banner, paused, rows, g_stop,
          tty, glass, signalled>>

table   == <<procs, sorted>>
editing == <<filter, filter_edit>>
asking  == <<confirm_kill, kill_force>>
options == <<g_sort, editing, selected_pid, scroll, asking, banner, paused, rows>>
screen  == <<tty, glass>>

(* The task manager itself, and the idle process or init of the host. *)
Permanent == {Self} \cup {p \in Procs : p.pid <= 1}

Running == {p \in Procs : os[p] = "running"}
Over    == pc \in {"done", "killed", "hungup"}

-----------------------------------------------------------------------------
(* What the program reads and paints. *)

(* The tables a sample can produce.  The host lists as many running        *)
(* processes as fit, or none at all when the enumeration itself fails,     *)
(* which collect_snapshot does not report to its caller.                   *)
Samples ==
    LET fit == IF Cardinality(Running) < SNAP_MAX_PROCS
               THEN Cardinality(Running) ELSE SNAP_MAX_PROCS
        row(p, c) == [proc |-> p, cpu_pct |-> c]
    IN  {{}} \cup UNION {{ {row(p, cpu[p]) : p \in S} : cpu \in [S -> CpuPcts] }
                           : S \in {T \in SUBSET Running : Cardinality(T) = fit}}

(* The frame paint() composes from the state the step has reached.  The    *)
(* line under the table shows the first of: the question, the filter being *)
(* typed, the banner.                                                      *)
Frame(edit, ask, text) ==
    LET page == Painted(procs', sorted', filter, scroll', rows')
        asks == ask /\ selected_pid' >= 0
    IN  [highlighted |-> IF \E row \in page : row.proc.pid = selected_pid'
                         THEN selected_pid' ELSE NoPid,
         prompt |-> IF asks THEN [pid |-> selected_pid', force |-> kill_force]
                            ELSE NoPrompt,
         banner |-> IF asks \/ edit THEN NoBanner ELSE text,
         label  |-> g_sort]

BlankGlass == [highlighted |-> NoPid, prompt |-> NoPrompt, banner |-> NoBanner,
               label |-> [key |-> SORT_CPU, rev |-> FALSE]]

CanKill(pid) == pid > 1 \/ (pid > 0 /\ host = "Windows")

-----------------------------------------------------------------------------
(* Start-up: handlers are installed, nothing is sampled yet. *)

Init ==
    /\ host \in Hosts
    /\ pc = "start"
    /\ os \in [Procs -> {"unborn", "running"}]
    /\ \A p \in Permanent : os[p] = "running"
    /\ \A p, q \in Running : p.pid = q.pid => p = q
    /\ procs = {}
    /\ sorted = [key |-> SORT_CPU, rev |-> FALSE]
    /\ g_sort \in [key : SortArgs, rev : {FALSE}]
    /\ filter \in Filters
    /\ filter_edit = FALSE
    /\ selected_pid = NoPid
    /\ scroll = 0
    /\ confirm_kill = FALSE /\ kill_force = FALSE
    /\ banner = NoBanner
    /\ paused = FALSE
    /\ rows = 24
    /\ g_stop = FALSE
    /\ tty = "cooked"
    /\ glass = BlankGlass
    /\ signalled = NoSignal

(* calloc of the snapshot may fail; otherwise the first sample only stores *)
(* counters, and the program sleeps one interval.                          *)
Prime ==
    /\ pc = "start"
    /\ pc' \in {"primed", "done"}
    /\ UNCHANGED <<os, table, options, g_stop, screen, signalled>>

(* The second sample is sorted and gets its first selection.  With --once, *)
(* or without a terminal, one frame is printed and that is all; a live     *)
(* dashboard switches the terminal over and enters the loop.               *)
Startup(live) ==
    /\ pc = "primed"
    /\ procs' \in Samples
    /\ sorted' = g_sort
    /\ rows' \in Heights
    /\ LET view == clamp_view(procs', g_sort, filter, NoPid, 0, rows')
       IN  /\ selected_pid' = view.selected_pid
           /\ scroll' = view.scroll
    /\ glass' = IF live THEN glass ELSE Frame(FALSE, FALSE, NoBanner)
    /\ pc' = IF live THEN "top" ELSE "done"
    /\ tty' = IF live THEN "raw" ELSE tty
    /\ UNCHANGED <<os, g_sort, filter, filter_edit, confirm_kill, kill_force,
                   banner, paused, g_stop, signalled>>

-----------------------------------------------------------------------------
(* The first half of a pass: from the test of g_stop to the poll. *)

(* Mutant: the table keeps moving under the question. *)
RefreshingWhileAsked == ~paused /\ ~filter_edit

(* No sample is taken while the user has paused, types or is asked. *)
Refreshing == ~paused /\ ~filter_edit /\ ~confirm_kill

Iterate ==
    /\ pc = "top" /\ ~g_stop
    /\ rows' \in Heights
    /\ procs'  \in IF Refreshing THEN Samples ELSE {procs}
    /\ sorted' = IF Refreshing THEN g_sort ELSE sorted
    /\ LET view == clamp_view(procs', sorted', filter, selected_pid, scroll, rows')
       IN  /\ selected_pid' = view.selected_pid
           /\ scroll' = view.scroll
    /\ glass' = Frame(filter_edit, confirm_kill, banner)
    /\ banner' = IF filter_edit \/ confirm_kill THEN banner ELSE NoBanner
    /\ pc' = "poll"
    /\ UNCHANGED <<os, g_sort, editing, asking, paused, g_stop, tty, signalled>>

(* Mutant: the signal restarts the poll. *)
StopSeenAtTop == pc = "top" /\ g_stop

(* g_stop is tested before the pass and again when the poll returns. *)
StopSeen == pc \in {"top", "poll"} /\ g_stop

Stopped ==
    /\ StopSeen
    /\ pc' = "restore"
    /\ UNCHANGED <<os, table, options, g_stop, screen, signalled>>

Restore ==
    /\ pc = "restore"
    /\ pc' = "done" /\ tty' = "cooked"
    /\ UNCHANGED <<os, table, options, g_stop, glass, signalled>>

-----------------------------------------------------------------------------
(* The second half: the poll returned a key, or nothing. *)

(* No signal came while the program waited.  Which key it got is decided   *)
(* by the step that handles it.                                            *)
Polled ==
    /\ pc = "poll" /\ ~g_stop
    /\ pc' = "key"
    /\ UNCHANGED <<os, table, options, g_stop, screen, signalled>>

Handling == pc = "key"

(* Mutant: the commands stay alive while the question is open. *)
CommandingAsked == Handling /\ ~filter_edit

Commanding == Handling /\ ~confirm_kill /\ ~filter_edit

(* The poll timed out, or the key means nothing here. *)
Nothing ==
    /\ Handling
    /\ pc' = "top"
    /\ signalled' = NoSignal
    /\ UNCHANGED <<os, table, options, g_stop, screen>>

(* collect_signal.  It refuses the pids that name nobody in particular and *)
(* hands the bare number to the host, which delivers to whatever process   *)
(* has that pid now, if it permits it at all.                              *)
Refused(pid) == IF host = "Windows" THEN pid <= 0 ELSE pid <= 1

Holders(pid) == {p \in Running : p.pid = pid}

collect_signal(pid, force, permitted) ==
    LET hit  == IF Refused(pid) \/ ~permitted THEN {} ELSE Holders(pid)
        dies == force \/ host = "Windows"
    IN  /\ signalled' = [pid |-> pid, force |-> force, ok |-> hit # {}, hit |-> hit]
        /\ os' = [p \in Procs |-> IF p \in hit /\ dies THEN "gone" ELSE os[p]]
        /\ g_stop' = (g_stop \/ (Self \in hit /\ ~dies))
        /\ pc' = IF Self \in hit /\ dies THEN "killed" ELSE "top"

(* Mutant: 0, the success of collect_signal, is taken for failure. *)
OutcomeInverted(pid) == [pid |-> pid, ok |-> ~signalled'.ok]

(* The banner after collect_signal. *)
Outcome(pid) == [pid |-> pid, ok |-> signalled'.ok]

AnswerYes(permitted) ==
    /\ Handling /\ confirm_kill
    /\ \E key \in Keys : key \in YesKeys
    /\ collect_signal(selected_pid, kill_force, permitted)
    /\ banner' = Outcome(selected_pid)
    /\ confirm_kill' = FALSE /\ kill_force' = FALSE
    /\ UNCHANGED <<table, g_sort, editing, selected_pid, scroll, paused, rows,
                   screen>>

AnswerNo ==
    /\ Handling /\ confirm_kill
    /\ \E key \in Keys : key \in NoKeys
    /\ pc' = "top"
    /\ confirm_kill' = FALSE /\ kill_force' = FALSE
    /\ signalled' = NoSignal
    /\ UNCHANGED <<os, table, g_sort, editing, selected_pid, scroll, banner,
                   paused, rows, g_stop, screen>>

(* Mutant: the terminator is forgotten. *)
filter_add_full(text, ch) ==
    IF Len(text) < FILTER_CAP /\ ch \in 32..126 THEN Append(text, ch) ELSE text

(* Typing a filter.  filter_add ignores what does not fit or cannot be     *)
(* printed.                                                                *)
filter_add(text, ch) ==
    IF Len(text) + 1 < FILTER_CAP /\ ch \in 32..126 THEN Append(text, ch) ELSE text

filter_backspace(text) == IF text = << >> THEN text ELSE SubSeq(text, 1, Len(text) - 1)

EditKey(key) ==
    /\ Handling /\ ~confirm_kill /\ filter_edit
    /\ key \in 1..255
    /\ filter' = CASE key = TERM_KEY_ENTER     -> filter
                   [] key = TERM_KEY_ESC       -> << >>
                   [] key = TERM_KEY_BACKSPACE -> filter_backspace(filter)
                   [] OTHER                    -> filter_add(filter, key)
    /\ filter_edit' = (key \notin {TERM_KEY_ENTER, TERM_KEY_ESC})
    /\ pc' = "top"
    /\ signalled' = NoSignal
    /\ UNCHANGED <<os, table, g_sort, selected_pid, scroll, asking, banner,
                   paused, rows, g_stop, screen>>

Quit ==
    /\ Commanding
    /\ \E key \in Keys : key \in QuitKeys
    /\ pc' = "restore"
    /\ signalled' = NoSignal
    /\ UNCHANGED <<os, table, options, g_stop, screen>>

Pause ==
    /\ Commanding
    /\ \E key \in Keys : key \in PauseKeys
    /\ paused' = ~paused
    /\ pc' = "top"
    /\ signalled' = NoSignal
    /\ UNCHANGED <<os, table, g_sort, editing, selected_pid, scroll, asking,
                   banner, rows, g_stop, screen>>

(* Mutant: the new order waits for the next sample. *)
ResortLater(order) ==
    /\ Commanding
    /\ g_sort' = order
    /\ pc' = "top"
    /\ signalled' = NoSignal
    /\ UNCHANGED <<os, table, editing, selected_pid, scroll, asking, banner,
                   paused, rows, g_stop, screen>>

(* A new order takes hold of the table at once. *)
Resort(order) ==
    /\ Commanding
    /\ g_sort' = order
    /\ sorted' = order
    /\ pc' = "top"
    /\ signalled' = NoSignal
    /\ UNCHANGED <<os, procs, editing, selected_pid, scroll, asking, banner,
                   paused, rows, g_stop, screen>>

SortBy(key) ==
    /\ key \in DOMAIN SortOfKey
    /\ Resort([g_sort EXCEPT !.key = SortOfKey[key]])

Reverse(key) ==
    /\ key \in ReverseKeys
    /\ Resort([g_sort EXCEPT !.rev = ~@])

(* "/" opens the filter for typing, esc empties it. *)
EditFilter(key) ==
    /\ Commanding
    /\ key \in EditKeys \cup {TERM_KEY_ESC}
    /\ filter_edit' = (key \in EditKeys)
    /\ filter' = IF key \in EditKeys THEN filter ELSE << >>
    /\ pc' = "top"
    /\ signalled' = NoSignal
    /\ UNCHANGED <<os, table, g_sort, selected_pid, scroll, asking, banner,
                   paused, rows, g_stop, screen>>

AskKill(key) ==
    /\ Commanding
    /\ key \in KillKeys
    /\ CanKill(selected_pid)
    /\ confirm_kill' = TRUE
    /\ kill_force' = (key = ForceKey)
    /\ pc' = "top"
    /\ signalled' = NoSignal
    /\ UNCHANGED <<os, table, g_sort, editing, selected_pid, scroll, banner,
                   paused, rows, g_stop, screen>>

(* Where a movement key takes the selection. *)
Moved(key) ==
    LET page == render_page_rows(rows)
        n    == render_filtered_count(procs, filter)
        by(delta) == move_sel(procs, sorted, filter, selected_pid, delta)
    IN  CASE key = TERM_KEY_UP   -> by(-1)
          [] key \in DownKeys    -> by(1)
          [] key = TERM_KEY_PGUP -> by(-page)
          [] key = TERM_KEY_PGDN -> by(page)
          [] key = TERM_KEY_HOME -> pid_at(procs, sorted, filter, 0)
          [] OTHER               -> IF n > 0 THEN pid_at(procs, sorted, filter, n - 1)
                                             ELSE selected_pid

Move(key) ==
    /\ Commanding
    /\ key \in MoveKeys
    /\ selected_pid' = Moved(key)
    /\ pc' = "top"
    /\ signalled' = NoSignal
    /\ UNCHANGED <<os, table, g_sort, editing, scroll, asking, banner, paused,
                   rows, g_stop, screen>>

-----------------------------------------------------------------------------
(* The world around the program. *)

(* A process appears.  Its pid is free; an earlier process may have had it. *)
Spawn(p) ==
    /\ ~Over
    /\ os[p] = "unborn"
    /\ Holders(p.pid) = {}
    /\ os' = [os EXCEPT ![p] = "running"]
    /\ UNCHANGED <<pc, table, options, g_stop, screen, signalled>>

Exit(p) ==
    /\ ~Over
    /\ p \notin Permanent /\ os[p] = "running"
    /\ os' = [os EXCEPT ![p] = "gone"]
    /\ UNCHANGED <<pc, table, options, g_stop, screen, signalled>>

(* SIGINT or SIGTERM: on_stop only raises the flag. *)
on_stop ==
    /\ "interrupt" \in Signals /\ ~Over
    /\ g_stop' = TRUE
    /\ UNCHANGED <<pc, os, table, options, screen, signalled>>

(* The C library of Windows takes a handler away when it calls it, and     *)
(* on_stop does not put itself back: a second ctrl-c before the loop has   *)
(* seen the first ends the process without running atexit.                 *)
SecondInterrupt ==
    /\ "interrupt" \in Signals /\ host = "Windows" /\ g_stop /\ ~Over
    /\ pc' = "killed"
    /\ UNCHANGED <<os, table, options, g_stop, screen, signalled>>

(* SIGHUP has no handler: the process is gone without running atexit. *)
Hangup ==
    /\ "hangup" \in Signals /\ ~Over
    /\ pc' = "hungup"
    /\ UNCHANGED <<os, table, options, g_stop, screen, signalled>>

-----------------------------------------------------------------------------
KeyStep(key) ==
    \/ EditKey(key)
    \/ SortBy(key)
    \/ Reverse(key)
    \/ EditFilter(key)
    \/ AskKill(key)
    \/ Move(key)

(* Every step the program itself takes. *)
Program ==
    /\ host' = host
    /\ \/ Prime
       \/ \E live \in BOOLEAN : Startup(live)
       \/ Iterate
       \/ Polled
       \/ Nothing
       \/ \E permitted \in BOOLEAN : AnswerYes(permitted)
       \/ AnswerNo
       \/ Quit
       \/ Pause
       \/ \E key \in Keys : KeyStep(key)
       \/ Stopped
       \/ Restore

World ==
    /\ host' = host
    /\ \/ \E p \in Procs : Spawn(p) \/ Exit(p)
       \/ on_stop
       \/ SecondInterrupt
       \/ Hangup

(* The program is over and nothing here moves any more. *)
Terminated == Over /\ UNCHANGED vars

Next == Program \/ World \/ Terminated

(* The poll has a timeout, so the program keeps taking steps; the world    *)
(* owes it nothing.                                                        *)
Spec == Init /\ [][Next]_vars /\ WF_vars(Program)

-----------------------------------------------------------------------------
(* Properties. *)

(* Every variable has its type.  The filter never outgrows its buffer,     *)
(* terminator included, whatever is typed (filter_add), and the scroll     *)
(* offset never leaves the table (clamp_view).                             *)
TypeOK ==
    /\ host \in Hosts
    /\ pc \in {"start", "primed", "top", "poll", "key", "restore",
               "done", "killed", "hungup"}
    /\ os \in [Procs -> {"unborn", "running", "gone"}]
    /\ procs \subseteq [proc : Procs, cpu_pct : CpuPcts]
    /\ sorted \in Orders /\ g_sort \in Orders
    /\ filter \in Seq(Nat) /\ Len(filter) < FILTER_CAP
    /\ filter_edit \in BOOLEAN
    /\ selected_pid \in Pids \cup {NoPid}
    /\ scroll \in Nat
    /\ confirm_kill \in BOOLEAN /\ kill_force \in BOOLEAN
    /\ banner \in [pid : Pids \cup {NoPid}, ok : BOOLEAN]
    /\ paused \in BOOLEAN /\ g_stop \in BOOLEAN
    /\ rows \in Heights \cup {24}
    /\ tty \in {"cooked", "raw"}
    /\ glass \in [highlighted : Pids \cup {NoPid},
                  prompt : [pid : Pids \cup {NoPid}, force : BOOLEAN],
                  banner : [pid : Pids \cup {NoPid}, ok : BOOLEAN],
                  label : Orders]
    /\ signalled \in [pid : Pids \cup {NoPid}, force : BOOLEAN,
                      ok : BOOLEAN, hit : SUBSET Procs]

(* While the program asks whether to kill, the row it asks about is in the *)
(* filtered table it shows and may be killed, and no filter is being typed *)
(* that could take it away (the k, K, / and esc branches and clamp_view).  *)
ConfirmTarget ==
    confirm_kill => /\ selected_pid \in ViewPids(procs, filter)
                    /\ CanKill(selected_pid)
                    /\ ~filter_edit

(* While the program waits for a key, the selection is a row of the        *)
(* filtered table and that row is on the page the glass shows, highlighted;*)
(* there is none only when no row matches (clamp_view and paint).          *)
SelectedVisible ==
    pc = "poll" =>
        /\ glass.highlighted = selected_pid
        /\ IF View(procs, filter) = {}
           THEN selected_pid = NoPid
           ELSE selected_pid \in ViewPids(procs, filter)

(* The order named in the footer is the order the rows stand in, also when *)
(* the order was changed while sampling is paused (the sort keys).         *)
LabelMatchesOrder == pc = "poll" => glass.label = sorted

(* The frame after a signal tells its outcome for its pid, before the      *)
(* banner is erased (the y branch and the banner reset of the loop).       *)
OutcomeShown ==
    pc = "poll" /\ signalled # NoSignal =>
        glass.banner = [pid |-> signalled.pid, ok |-> signalled.ok]

(* The selection follows the process, not the position: a refresh, a new   *)
(* order or a new height moves it only when its pid has left the filtered  *)
(* table (clamp_view).                                                     *)
SelectionSticky ==
    [][pc = "top" /\ pc' = "poll" =>
           \/ selected_pid' = selected_pid
           \/ selected_pid \notin ViewPids(procs', filter)]_vars

(* A request to stop ends the program, with the terminal as the shell left *)
(* it unless the program is killed first (the loop and term_restore).      *)
Shutdown ==
    g_stop ~> \/ pc = "done" /\ tty = "cooked"
              \/ pc \in {"killed", "hungup"}

(* The promise of the kill keys, with this module's state put for its own. *)
Promise == INSTANCE ConfirmedKill WITH
    highlighted <- glass.highlighted,
    prompt      <- IF confirm_kill THEN [pid |-> selected_pid, force |-> kill_force]
                                   ELSE NoPrompt,
    shown       <- glass.prompt,
    sent        <- [pid |-> signalled.pid, force |-> signalled.force]

(* Every signal is the answer to a question on the glass about the row     *)
(* that was highlighted when it was asked (ConfirmedKill).                 *)
KillsAsPromised == Promise!ASpec

-----------------------------------------------------------------------------
(* What the documentation says and the program does not do. *)

(* README.md:16: "k / K signal the selected row".  The process that gets   *)
(* a signal is, when it is sent, the one the frozen table shows in that    *)
(* row.                                                                    *)
SignalsTheRow ==
    [][signalled' \notin {signalled, NoSignal} =>
           signalled'.hit \subseteq {row.proc : row \in procs}]_vars

(* WORKINGS.md:102: "Closing the terminal sends SIGHUP/SIGINT and          *)
(* term_restore runs from atexit if we got that far".                      *)
ClosingRestores == pc = "hungup" => tty = "cooked"
=============================================================================
