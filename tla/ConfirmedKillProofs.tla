------------------------ MODULE ConfirmedKillProofs -------------------------
(***************************************************************************)
(* The promise of ConfirmedKill, put as what a sent signal means.          *)
(***************************************************************************)
EXTENDS ConfirmedKill, TLAPS

(* An open question is about the highlighted row. *)
PromptHighlighted == prompt # NoPrompt => prompt.pid = highlighted

LEMMA PromptInit == AInit => PromptHighlighted
BY DEF AInit, PromptHighlighted

LEMMA PromptNext == PromptHighlighted /\ [ANext]_avars => PromptHighlighted'
<1> SUFFICES ASSUME PromptHighlighted, [ANext]_avars PROVE PromptHighlighted'
  OBVIOUS
<1> USE DEF PromptHighlighted
<1>1. CASE Paint
  BY <1>1 DEF Paint, NoPrompt
<1>2. CASE Ask
  BY <1>2 DEF Ask
<1>3. CASE Yes
  BY <1>3 DEF Yes, NoPrompt
<1>4. CASE Other
  BY <1>4 DEF Other, NoPrompt
<1>5. CASE UNCHANGED avars
  BY <1>5 DEF avars, NoPrompt
<1> QED
  BY <1>1, <1>2, <1>3, <1>4, <1>5 DEF ANext

(* A signal goes to the highlighted row, and only while the glass asks for *)
(* exactly that signal (the y branch of the loop in taskman.c).            *)
THEOREM PromiseMeans == ASpec => SentAsAsked
<1> DEFINE Asked == sent' \notin {sent, NoPrompt} =>
                        sent' = shown /\ sent' = prompt /\ sent'.pid = highlighted
<1>1. PromptHighlighted /\ [ANext]_avars => [Asked]_avars
  <2> SUFFICES ASSUME PromptHighlighted, ANext, sent' \notin {sent, NoPrompt}
               PROVE  sent' = shown /\ sent' = prompt /\ sent'.pid = highlighted
    OBVIOUS
  <2>1. Yes
    BY DEF ANext, Paint, Ask, Other
  <2> QED
    BY <2>1 DEF Yes, PromptHighlighted
<1> QED
  BY <1>1, PromptInit, PromptNext, PTL DEF ASpec, SentAsAsked
=============================================================================
