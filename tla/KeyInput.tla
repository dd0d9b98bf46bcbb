------------------------------ MODULE KeyInput ------------------------------
(***************************************************************************)
(* term_poll_key of term.c, and the keyboard in front of it.               *)
(*                                                                         *)
(* A key is one byte or several.  The program reads bytes: on Unix an Esc  *)
(* is followed by a wait of 30 ms and by as many bytes as are there, seven *)
(* at most; on Windows a byte 0 or 224 is followed by a second one.  The   *)
(* bytes of a key may come together or apart, and a user may type faster   *)
(* than the loop polls.                                                    *)
(*                                                                         *)
(* A byte carries the number of the press it belongs to and its place in   *)
(* it.  The program never looks at these two; the properties do.           *)
(***************************************************************************)
EXTENDS Integers, Sequences

CONSTANTS
    Presses,     \* the keys there are: what each sends on Unix (csi) and on
                 \* Windows (win), and the key it stands for
    MaxPresses,  \* how often the user presses a key
    Links,       \* how bytes travel: "whole", "split" or "slow"
    Typists      \* how the user types: "patient" or "ahead"

Byte == 0..255

ASSUME KeyAssumption ==
    /\ Presses \subseteq [csi : Seq(Byte), win : Seq(Byte), key : Nat]
    /\ MaxPresses \in Nat
    /\ Links \subseteq {"whole", "split", "slow"}
    /\ Typists \subseteq {"patient", "ahead"}

TERM_KEY_NONE      == 0
TERM_KEY_ESC       == 27
TERM_KEY_ENTER     == 13
TERM_KEY_BACKSPACE == 127
TERM_KEY_UP        == 1001
TERM_KEY_DOWN      == 1002
TERM_KEY_PGUP      == 1003
TERM_KEY_PGDN      == 1004
TERM_KEY_HOME      == 1005
TERM_KEY_END       == 1006

(* What keyboards send is no part of the program.  The keys the program    *)
(* has names for, in the words of a terminal and of the Windows console:   *)
CursorKeys == {
    [key |-> TERM_KEY_UP,   csi |-> <<27, 91, 65>>,      win |-> 72],
    [key |-> TERM_KEY_DOWN, csi |-> <<27, 91, 66>>,      win |-> 80],
    [key |-> TERM_KEY_HOME, csi |-> <<27, 91, 72>>,      win |-> 71],
    [key |-> TERM_KEY_END,  csi |-> <<27, 91, 70>>,      win |-> 79],
    [key |-> TERM_KEY_PGUP, csi |-> <<27, 91, 53, 126>>, win |-> 73],
    [key |-> TERM_KEY_PGDN, csi |-> <<27, 91, 54, 126>>, win |-> 81]}

(* A terminal sends one byte for a character (those beyond ASCII are left  *)
(* out), or an Esc and no more than seven bytes behind it, of which two or *)
(* three tell which key it is.                                             *)
TerminalSends(csi, key) ==
    \/ csi = <<27>> /\ key = TERM_KEY_ESC
    \/ csi \in {<<8>>, <<127>>} /\ key = TERM_KEY_BACKSPACE
    \/ csi \in {<<10>>, <<13>>} /\ key = TERM_KEY_ENTER
    \/ \E c \in Byte \ {8, 10, 13, 27, 127} : csi = <<c>> /\ key = c
    \/ \E k \in CursorKeys : csi = k.csi /\ key = k.key
    \/ /\ Len(csi) > 1 /\ Len(csi) <= 8 /\ csi[1] = 27
       /\ \/ csi[2] # 91
          \/ Len(csi) > 2 /\ csi[3] \notin {53, 54, 65, 66, 70, 72}
          \/ Len(csi) > 3 /\ csi[3] \in {53, 54} /\ csi[4] # 126
       /\ key = TERM_KEY_NONE

(* The console sends one byte, or two that begin with 0 or 224.            *)
ConsoleSends(win, key) ==
    \/ win = <<8>> /\ key = TERM_KEY_BACKSPACE
    \/ win = <<13>> /\ key = TERM_KEY_ENTER
    \/ \E c \in Byte \ {0, 8, 13, 224} : win = <<c>> /\ key = c
    \/ \E lead \in {0, 224}, k \in CursorKeys : win = <<lead, k.win>> /\ key = k.key
    \/ \E lead \in {0, 224}, c \in Byte \ {71, 72, 73, 79, 80, 81} :
           win = <<lead, c>> /\ key = TERM_KEY_NONE

ASSUME PressAssumption ==
    \A p \in Presses : TerminalSends(p.csi, p.key) /\ ConsoleSends(p.win, p.key)

VARIABLES
    host,      \* the host the program was compiled for
    timeout,   \* the poll's timeout: "finite", "never" (negative) or "zero"
    keyboard,  \* standard input is a terminal
    open,      \* standard input has not come to its end
    link, typist,
    typed,     \* the presses so far
    sent,      \* bytes on their way
    queue,     \* bytes that can be read
    pc,        \* "work" outside term_poll_key; inside it "poll", after an
               \* Esc "escape" and "drain", after a byte 0 or 224 "pair"
    read,      \* the bytes this call has read
    last,      \* what the last call reported, from which bytes, and whether
               \* it waited for them or for its timeout
    reported   \* the keys reported by calls that read anything

vars == <<host, timeout, keyboard, open, link, typist, typed, sent, queue, pc,
          read, last, reported>>

setting == <<host, timeout, keyboard, link, typist>>
user    == <<typed, open>>

Windows == host = "Windows"

(* A negative timeout waits for ever, except on Windows, where it becomes  *)
(* no time at all.                                                         *)
Wait == IF Windows /\ timeout = "never" THEN "zero" ELSE timeout

Nothing == [key |-> TERM_KEY_NONE, read |-> << >>, waited |-> TRUE]

-----------------------------------------------------------------------------
(* The keyboard. *)

(* The bytes a press of p sends, as the n-th press. *)
Bytes(p, n) ==
    LET codes == IF Windows THEN p.win ELSE p.csi
    IN  [i \in 1..Len(codes) |-> [b |-> codes[i], n |-> n, i |-> i]]

(* A patient user presses a key when the program waits for one. *)
Press(p) ==
    /\ Len(typed) < MaxPresses /\ open
    /\ typist = "patient" =>
         sent = << >> /\ queue = << >> /\ pc \in {"work", "poll"}
    /\ typed' = Append(typed, p)
    /\ IF link = "whole"
       THEN queue' = queue \o Bytes(p, Len(typed) + 1) /\ UNCHANGED sent
       ELSE sent' = sent \o Bytes(p, Len(typed) + 1) /\ UNCHANGED queue
    /\ UNCHANGED <<setting, open, pc, read, last, reported>>

Deliver ==
    /\ sent # << >>
    /\ queue' = Append(queue, Head(sent))
    /\ sent' = Tail(sent)
    /\ UNCHANGED <<setting, user, pc, read, last, reported>>

(* A file or a pipe ends; a terminal does not.  On Windows keys come from  *)
(* the console whatever standard input is.                                 *)
CloseInput ==
    /\ ~keyboard /\ ~Windows
    /\ open /\ sent = << >>
    /\ open' = FALSE
    /\ UNCHANGED <<setting, typed, sent, queue, pc, read, last, reported>>

-----------------------------------------------------------------------------
(* From bytes to keys. *)

(* A byte that begins no sequence. *)
Plain(c) ==
    IF Windows
    THEN CASE c = 8  -> TERM_KEY_BACKSPACE
           [] c = 13 -> TERM_KEY_ENTER
           [] OTHER  -> c
    ELSE CASE c \in {127, 8}  -> TERM_KEY_BACKSPACE
           [] c \in {10, 13}  -> TERM_KEY_ENTER
           [] OTHER           -> c

(* Mutant: the tilde is looked for one byte too early. *)
decode_csi_early(seq) ==
    IF Len(seq) < 2 \/ seq[1] # 91 THEN TERM_KEY_NONE
    ELSE CASE seq[2] = 65 -> TERM_KEY_UP
           [] Len(seq) > 3 /\ seq[2] \in {53, 54} /\ seq[3] = 126 ->
                  IF seq[2] = 53 THEN TERM_KEY_PGUP ELSE TERM_KEY_PGDN
           [] OTHER -> TERM_KEY_NONE

(* The bytes behind an Esc: [ and a letter, or [ 5 ~ and [ 6 ~. *)
decode_csi(seq) ==
    IF Len(seq) < 2 \/ seq[1] # 91 THEN TERM_KEY_NONE
    ELSE CASE seq[2] = 65 -> TERM_KEY_UP
           [] seq[2] = 66 -> TERM_KEY_DOWN
           [] seq[2] = 72 -> TERM_KEY_HOME
           [] seq[2] = 70 -> TERM_KEY_END
           [] Len(seq) >= 3 /\ seq[2] \in {53, 54} /\ seq[3] = 126 ->
                  IF seq[2] = 53 THEN TERM_KEY_PGUP ELSE TERM_KEY_PGDN
           [] OTHER -> TERM_KEY_NONE

decode_win_special(k) ==
    CASE k = 72 -> TERM_KEY_UP
      [] k = 80 -> TERM_KEY_DOWN
      [] k = 73 -> TERM_KEY_PGUP
      [] k = 81 -> TERM_KEY_PGDN
      [] k = 71 -> TERM_KEY_HOME
      [] k = 79 -> TERM_KEY_END
      [] OTHER  -> TERM_KEY_NONE

-----------------------------------------------------------------------------
(* One call of term_poll_key. *)

Call ==
    /\ pc = "work"
    /\ pc' = "poll"
    /\ UNCHANGED <<setting, user, sent, queue, read, last, reported>>

(* The call ends: it reports key, made of these bytes. *)
Return(key, bytes, waited) ==
    /\ pc' = "work"
    /\ read' = << >>
    /\ last' = [key |-> key, read |-> bytes, waited |-> waited]
    /\ reported' = IF bytes = << >> THEN reported ELSE Append(reported, key)
    /\ UNCHANGED <<setting, user, sent>>

(* The next byte is taken and the call goes on. *)
Take(next) ==
    /\ read' = Append(read, Head(queue))
    /\ queue' = Tail(queue)
    /\ pc' = next
    /\ UNCHANGED <<setting, user, sent, last, reported>>

TimedOut ==
    /\ pc = "poll"
    /\ Wait # "never"
    /\ (queue = << >> /\ open) \/ (Windows /\ Wait = "zero")
    /\ Return(TERM_KEY_NONE, << >>, Wait # "zero")
    /\ UNCHANGED queue

(* The poll finds the end of the input readable, and there is nothing to   *)
(* read.                                                                   *)
EndOfInput ==
    /\ pc = "poll" /\ queue = << >> /\ ~open
    /\ Return(TERM_KEY_NONE, << >>, FALSE)
    /\ UNCHANGED queue

(* Mutant: no host looks without a finite time to do it in. *)
ReadyInTime == pc = "poll" /\ queue # << >> /\ Wait = "finite"

(* On Windows a call that has no time does not even look. *)
Ready == pc = "poll" /\ queue # << >> /\ (Windows => Wait # "zero")

BeginsSequence(c) == IF Windows THEN c \in {0, 224} ELSE c = 27

ReadPlain ==
    /\ Ready /\ ~BeginsSequence(Head(queue).b)
    /\ Return(Plain(Head(queue).b), <<Head(queue)>>, TRUE)
    /\ queue' = Tail(queue)

ReadFirst ==
    /\ Ready /\ BeginsSequence(Head(queue).b)
    /\ Take(IF Windows THEN "pair" ELSE "escape")

(* The second _getch waits as long as it takes. *)
ReadPair ==
    /\ pc = "pair" /\ queue # << >>
    /\ Return(decode_win_special(Head(queue).b), Append(read, Head(queue)), TRUE)
    /\ queue' = Tail(queue)

(* Mutant: the Esc is reported without waiting for what belongs to it. *)
EscapeIsAlone0 == pc = "escape"

(* Mutant: the wait for the rest of a sequence has no end. *)
EscapeWaitsForEver == pc = "escape" /\ queue = << >> /\ ~open

(* 30 ms have gone by: more than lies between the bytes of one key, unless *)
(* the link is slow.                                                       *)
EscapeIsAlone == pc = "escape" /\ queue = << >> /\ open /\ (link # "slow" => sent = << >>)

EscapeAlone ==
    /\ EscapeIsAlone
    /\ Return(TERM_KEY_ESC, read, TRUE)
    /\ UNCHANGED queue

(* Mutant: the loop runs until the buffer of eight is more than full. *)
SeqMaxPastEnd == 9

(* The most bytes read behind an Esc. *)
SeqMax == 7

(* Only the first byte is waited for; the others are read if they are      *)
(* there.                                                                  *)
ReadSeq ==
    /\ pc \in {"escape", "drain"}
    /\ Len(read) - 1 < SeqMax /\ queue # << >>
    /\ Take("drain")

(* Nothing more to read, or seven bytes read; also when the end of the     *)
(* input is what the 30 ms wait found, and the Esc is dropped.             *)
Decode ==
    /\ \/ pc = "drain" /\ (Len(read) - 1 = SeqMax \/ queue = << >>)
       \/ pc = "escape" /\ queue = << >> /\ ~open
    /\ Return(decode_csi([i \in 1..Len(read) - 1 |-> read[i + 1].b]), read, TRUE)
    /\ UNCHANGED queue

-----------------------------------------------------------------------------
Begin ==
    /\ open = TRUE
    /\ link \in Links /\ typist \in Typists
    /\ typed = << >> /\ sent = << >> /\ queue = << >>
    /\ pc = "work" /\ read = << >> /\ last = Nothing /\ reported = << >>

Keyboard == (\E p \in Presses : Press(p)) \/ CloseInput

Program ==
    \/ Call \/ TimedOut \/ EndOfInput
    \/ ReadPlain \/ ReadFirst \/ ReadPair
    \/ EscapeAlone \/ ReadSeq \/ Decode

-----------------------------------------------------------------------------
(* Properties. *)

ByteRecords == [b : Byte, n : 1..MaxPresses, i : Nat]

(* Every variable has its type, and what is read behind an Esc never runs  *)
(* past the eight bytes of its buffer.                                     *)
TypeOK ==
    /\ typed \in Seq(Presses) /\ Len(typed) <= MaxPresses
    /\ {sent, queue, read, last.read} \subseteq Seq(ByteRecords)
    /\ pc \in {"work", "poll", "escape", "drain", "pair"}
    /\ open \in BOOLEAN /\ last.waited \in BOOLEAN
    /\ Len(read) - 1 <= 8
    /\ (pc \in {"work", "poll"}) = (read = << >>)

(* A user at a terminal who waits for each key, and whose keys arrive in   *)
(* one piece.                                                              *)
Careful == keyboard /\ link = "whole" /\ typist = "patient"

Channel == INSTANCE KeyChannel
    WITH KeyCodes <- {p.key : p \in Presses},
         typed    <- [i \in 1..Len(typed) |-> typed[i].key],
         reported <- reported

(* term_poll_key gives a careful user what a keyboard should: each press   *)
(* of a key is reported once, as that key, in the order typed, whether it  *)
(* is one byte, an Esc on its own or a sequence.                           *)
KeysAsTyped ==
    Channel!Init /\ [][Careful => Channel!Next]_<<typed, reported>>

(* A key is not mistaken because others were typed behind it: a call whose *)
(* first byte is the first byte of a press reports that press.  Only an    *)
(* Esc cannot be told from the beginning of what follows it.               *)
SpecialKeysSurvive ==
    link = "whole" /\ last.read # << >> =>
        LET first == last.read[1]
            press == typed[first.n]
        IN  first.i = 1 /\ press.key # TERM_KEY_ESC => last.key = press.key

(* The bytes of a sequence never act as keys: what is reported is a key    *)
(* that was pressed (EXECUTION_FLOW.md: leftovers are drained, ignored).   *)
LeftoversIgnored ==
    last.key # TERM_KEY_NONE => \E i \in 1..Len(typed) : typed[i].key = last.key
=============================================================================
