--------------------------- MODULE ConfirmedKill ----------------------------
(***************************************************************************)
(* What the k and K keys promise, without the dashboard around them: a     *)
(* signal is sent only as the answer to a question that is on the glass,   *)
(* and the question is about the row that was highlighted when it was      *)
(* asked.  TaskLoop implements this module.                                *)
(***************************************************************************)
EXTENDS Integers

CONSTANT Pids    \* the pids a row may have

Nobody   == -1
NoPrompt == [pid |-> Nobody, force |-> FALSE]
Prompts  == [pid : Pids, force : BOOLEAN]

VARIABLES
    highlighted,   \* the row highlighted on the glass
    prompt,        \* the question the program waits to have answered
    shown,         \* the question on the glass
    sent           \* the signal the last key sent

avars == <<highlighted, prompt, shown, sent>>

AInit ==
    /\ highlighted = Nobody
    /\ prompt = NoPrompt /\ shown = NoPrompt /\ sent = NoPrompt

(* A frame.  While a question is open the row it is about stays highlighted. *)
Paint ==
    /\ highlighted' \in Pids \cup {Nobody}
    /\ prompt # NoPrompt => highlighted' = prompt.pid
    /\ shown' = prompt
    /\ UNCHANGED <<prompt, sent>>

Ask ==
    /\ prompt = NoPrompt /\ highlighted # Nobody
    /\ prompt' \in Prompts
    /\ prompt'.pid = highlighted
    /\ sent' = NoPrompt
    /\ UNCHANGED <<highlighted, shown>>

Yes ==
    /\ prompt # NoPrompt /\ shown = prompt
    /\ sent' = prompt
    /\ prompt' = NoPrompt
    /\ UNCHANGED <<highlighted, shown>>

(* Any other key, or none: the question may be dropped, nothing is sent. *)
Other ==
    /\ prompt' \in {prompt, NoPrompt}
    /\ sent' = NoPrompt
    /\ UNCHANGED <<highlighted, shown>>

ANext == Paint \/ Ask \/ Yes \/ Other

ASpec == AInit /\ [][ANext]_avars

(* A signal goes to the highlighted row, and only while the glass asks for *)
(* exactly that signal (the y branch of the loop in taskman.c).            *)
SentAsAsked ==
    [][sent' \notin {sent, NoPrompt} =>
           sent' = shown /\ sent' = prompt /\ sent'.pid = highlighted]_avars
=============================================================================
