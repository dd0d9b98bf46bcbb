----------------------------- MODULE KeyChannel -----------------------------
(***************************************************************************)
(* What a keyboard reader promises to one who waits for the answer to each *)
(* key: every key pressed is reported once, as itself and in its turn.     *)
(* A key the program knows nothing of is reported too, as no key at all.   *)
(***************************************************************************)
EXTENDS Integers, Sequences

CONSTANT KeyCodes      \* what a key may be reported as

VARIABLES
    typed,             \* the keys pressed so far
    reported           \* the keys reported so far

Init == typed = << >> /\ reported = << >>

Press == \E key \in KeyCodes :
    /\ typed' = Append(typed, key)
    /\ UNCHANGED reported

Report ==
    /\ Len(reported) < Len(typed)
    /\ reported' = Append(reported, typed[Len(reported) + 1])
    /\ UNCHANGED typed

Next == Press \/ Report
Spec == Init /\ [][Next]_<<typed, reported>>
=============================================================================
