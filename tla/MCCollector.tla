---------------------------- MODULE MCCollector -----------------------------
(* Small instances of Collector for TLC. *)
EXTENDS Collector

Proc(pid, start) == [pid |-> pid, start_time |-> start]

(* Two processes, and a third that has the pid of the first later. *)
MCProcs == {Proc(2, 1), Proc(2, 5), Proc(3, 2)}
=============================================================================
