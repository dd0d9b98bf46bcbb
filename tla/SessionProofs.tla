--------------------------- MODULE SessionProofs ---------------------------
(***************************************************************************)
(* Proofs about Session and KeyInput, for every keyboard, every way the    *)
(* bytes of a key may travel, and every start of the program: the keys a   *)
(* careful user types are reported once and as themselves, a key is not    *)
(* mistaken for another, and the loop is never without its clock.          *)
(***************************************************************************)
EXTENDS Session, SequenceTheorems, TLAPS

-----------------------------------------------------------------------------
(* Lemmas on what a press sends and what is made of it. *)

Codes(win, p) == IF win THEN p.win ELSE p.csi

LEMMA CursorCodes ==
    ASSUME NEW k \in CursorKeys
    PROVE  /\ Len(k.csi) \in 3..4
           /\ k.key # TERM_KEY_ESC
<1>1. \/ k.csi = <<27, 91, 65>> \/ k.csi = <<27, 91, 66>> \/ k.csi = <<27, 91, 72>>
      \/ k.csi = <<27, 91, 70>> \/ k.csi = <<27, 91, 53, 126>>
      \/ k.csi = <<27, 91, 54, 126>>
    BY DEF CursorKeys
<1>2. k.key # TERM_KEY_ESC
    BY DEF CursorKeys, TERM_KEY_ESC, TERM_KEY_UP, TERM_KEY_DOWN, TERM_KEY_HOME,
        TERM_KEY_END, TERM_KEY_PGUP, TERM_KEY_PGDN
<1> QED BY <1>1, <1>2

(* A press sends bytes, at least one. *)
LEMMA CodesAreBytes ==
    ASSUME NEW p \in Presses, NEW win \in BOOLEAN
    PROVE  /\ p.key \in Nat
           /\ Codes(win, p) \in Seq(Byte) /\ Len(Codes(win, p)) >= 1
<1>1. p.csi \in Seq(Byte) /\ p.win \in Seq(Byte) /\ p.key \in Nat
    BY KeyAssumption
<1>2. TerminalSends(p.csi, p.key) /\ ConsoleSends(p.win, p.key)
    BY PressAssumption
<1>3. Len(p.csi) >= 1
    <2>1. \/ p.csi = <<27>> \/ p.csi = <<8>> \/ p.csi = <<127>>
          \/ p.csi = <<10>> \/ p.csi = <<13>>
          \/ \E c \in Byte : p.csi = <<c>>
          \/ \E k \in CursorKeys : p.csi = k.csi
          \/ Len(p.csi) > 1
        BY <1>2 DEF TerminalSends
    <2>2. CASE \E k \in CursorKeys : p.csi = k.csi
        <3>1. PICK k \in CursorKeys : p.csi = k.csi
            BY <2>2
        <3>2. Len(k.csi) \in 3..4
            BY CursorCodes
        <3>3. Len(p.csi) \in 3..4
            BY <3>1, <3>2, Zenon
        <3> QED BY <3>3
    <2>3. \A c : Len(<<c>>) >= 1
        OBVIOUS
    <2>4. Len(p.csi) > 1 => Len(p.csi) >= 1
        BY <1>1, LenProperties
    <2>5. CASE \E c : p.csi = <<c>>
        BY <2>3, <2>5
    <2>6. CASE Len(p.csi) > 1
        BY <2>4, <2>6
    <2> QED BY <2>1, <2>2, <2>5, <2>6
<1>4. Len(p.win) >= 1
    <2>1. \/ \E c : p.win = <<c>>
          \/ \E c, d : p.win = <<c, d>>
        BY <1>2 DEF ConsoleSends
    <2>2. \A c, d : Len(<<c>>) >= 1 /\ Len(<<c, d>>) >= 1
        OBVIOUS
    <2> QED BY <2>1, <2>2
<1> QED BY <1>1, <1>3, <1>4 DEF Codes

(* A byte that begins no sequence is a key of its own. *)
LEMMA PlainKey ==
    ASSUME NEW p \in Presses, ~BeginsSequence(Codes(Windows, p)[1])
    PROVE  Len(Codes(Windows, p)) = 1 /\ Plain(Codes(Windows, p)[1]) = p.key
<1>1. CASE Windows
    <2>1. ConsoleSends(p.win, p.key) /\ p.win[1] \notin {0, 224}
        BY <1>1, PressAssumption DEF BeginsSequence, Codes
    <2>2. \/ p.win = <<8>> /\ p.key = TERM_KEY_BACKSPACE
          \/ p.win = <<13>> /\ p.key = TERM_KEY_ENTER
          \/ \E c \in Byte \ {0, 8, 13, 224} : p.win = <<c>> /\ p.key = c
        BY <2>1 DEF ConsoleSends
    <2> QED BY <1>1, <2>2 DEF Codes, Plain
<1>2. CASE ~Windows
    <2>1. TerminalSends(p.csi, p.key) /\ p.csi[1] # 27
        BY <1>2, PressAssumption DEF BeginsSequence, Codes
    <2>2. \/ p.csi \in {<<8>>, <<127>>} /\ p.key = TERM_KEY_BACKSPACE
          \/ p.csi \in {<<10>>, <<13>>} /\ p.key = TERM_KEY_ENTER
          \/ \E c \in Byte \ {8, 10, 13, 27, 127} : p.csi = <<c>> /\ p.key = c
        BY <2>1 DEF TerminalSends, CursorKeys
    <2> QED BY <1>2, <2>2 DEF Codes, Plain
<1> QED BY <1>1, <1>2

(* A byte 0 or 224 is followed by the one that tells the key. *)
LEMMA PairKey ==
    ASSUME NEW p \in Presses, p.win[1] \in {0, 224}
    PROVE  Len(p.win) = 2 /\ decode_win_special(p.win[2]) = p.key
<1>1. ConsoleSends(p.win, p.key)
    BY PressAssumption
<1>2. \/ \E lead \in {0, 224}, k \in CursorKeys : p.win = <<lead, k.win>> /\ p.key = k.key
      \/ \E lead \in {0, 224}, c \in Byte \ {71, 72, 73, 79, 80, 81} :
             p.win = <<lead, c>> /\ p.key = TERM_KEY_NONE
    BY <1>1 DEF ConsoleSends
<1> QED BY <1>2 DEF CursorKeys, decode_win_special

(* An Esc is a key of its own, or it has bytes behind it, no more than     *)
(* SeqMax.                                                                 *)
LEMMA EscOrSequence ==
    ASSUME NEW p \in Presses, p.csi[1] = 27
    PROVE  /\ Len(p.csi) \in 1..SeqMax + 1
           /\ Len(p.csi) = 1 => p.key = TERM_KEY_ESC
           /\ Len(p.csi) > 1 => p.key # TERM_KEY_ESC
<1>1. TerminalSends(p.csi, p.key) /\ p.csi \in Seq(Byte)
    BY PressAssumption, KeyAssumption
<1>2. \/ p.csi = <<27>> /\ p.key = TERM_KEY_ESC
      \/ \E k \in CursorKeys : p.csi = k.csi /\ p.key = k.key
      \/ Len(p.csi) > 1 /\ Len(p.csi) <= 8 /\ p.key = TERM_KEY_NONE
    BY <1>1 DEF TerminalSends
<1>3. CASE p.csi = <<27>> /\ p.key = TERM_KEY_ESC
    BY <1>3 DEF SeqMax
<1>4. CASE \E k \in CursorKeys : p.csi = k.csi /\ p.key = k.key
    <2>1. PICK k \in CursorKeys : p.csi = k.csi /\ p.key = k.key
        BY <1>4
    <2>2. Len(k.csi) \in 3..4 /\ k.key # TERM_KEY_ESC
        BY CursorCodes
    <2>3. Len(p.csi) \in 3..4 /\ p.key # TERM_KEY_ESC
        BY <2>1, <2>2
    <2> QED BY <2>3 DEF SeqMax
<1>5. CASE Len(p.csi) > 1 /\ Len(p.csi) <= 8 /\ p.key = TERM_KEY_NONE
    <2>1. Len(p.csi) \in Nat
        BY <1>1, LenProperties
    <2>2. p.key # TERM_KEY_ESC
        BY <1>5 DEF TERM_KEY_ESC, TERM_KEY_NONE
    <2>3. \A n \in Nat : n > 1 /\ n <= 8 => n \in 1..SeqMax + 1 /\ n # 1
        BY DEF SeqMax
    <2> QED BY ONLY <1>5, <2>1, <2>2, <2>3, Zenon
<1> QED BY <1>2, <1>3, <1>4, <1>5

(* What follows the Esc tells the key, whatever stands behind it. *)
LEMMA SequenceKey ==
    ASSUME NEW p \in Presses, p.csi[1] = 27, Len(p.csi) > 1,
           NEW seq \in Seq(Byte), Len(seq) >= Len(p.csi) - 1,
           \A j \in 1..Len(p.csi) - 1 : seq[j] = p.csi[j + 1]
    PROVE  decode_csi(seq) = p.key
<1>1. TerminalSends(p.csi, p.key) /\ p.csi \in Seq(Byte)
    BY PressAssumption, KeyAssumption
<1>2. CASE \E k \in CursorKeys : p.csi = k.csi /\ p.key = k.key
    <2>1. PICK k \in CursorKeys : p.csi = k.csi /\ p.key = k.key
        BY <1>2
    <2>2. CASE k.key \in {TERM_KEY_PGUP, TERM_KEY_PGDN}
        <3>1. Len(p.csi) = 4 /\ p.csi[2] = 91 /\ p.csi[3] \in {53, 54} /\ p.csi[4] = 126
              /\ p.key = IF p.csi[3] = 53 THEN TERM_KEY_PGUP ELSE TERM_KEY_PGDN
            BY <2>1, <2>2 DEF CursorKeys, TERM_KEY_UP, TERM_KEY_DOWN, TERM_KEY_HOME,
                TERM_KEY_END, TERM_KEY_PGUP, TERM_KEY_PGDN
        <3>2. Len(seq) >= 3 /\ seq[1] = 91 /\ seq[2] = p.csi[3] /\ seq[3] = 126
            BY <3>1
        <3> QED BY <3>1, <3>2 DEF decode_csi
    <2>3. CASE k.key \notin {TERM_KEY_PGUP, TERM_KEY_PGDN}
        <3>1. /\ Len(p.csi) = 3 /\ p.csi[2] = 91
              /\ \/ p.csi[3] = 65 /\ p.key = TERM_KEY_UP
                 \/ p.csi[3] = 66 /\ p.key = TERM_KEY_DOWN
                 \/ p.csi[3] = 72 /\ p.key = TERM_KEY_HOME
                 \/ p.csi[3] = 70 /\ p.key = TERM_KEY_END
            BY <2>1, <2>3 DEF CursorKeys
        <3>2. Len(seq) >= 2 /\ seq[1] = 91 /\ seq[2] = p.csi[3]
            BY <3>1
        <3> QED BY <3>1, <3>2 DEF decode_csi
    <2> QED BY <2>2, <2>3
<1>3. CASE /\ \/ p.csi[2] # 91
              \/ Len(p.csi) > 2 /\ p.csi[3] \notin {53, 54, 65, 66, 70, 72}
              \/ Len(p.csi) > 3 /\ p.csi[3] \in {53, 54} /\ p.csi[4] # 126
           /\ p.key = TERM_KEY_NONE
    <2>1. seq[1] = p.csi[2]
        OBVIOUS
    <2>2. Len(p.csi) > 2 => Len(seq) >= 2 /\ seq[2] = p.csi[3]
        OBVIOUS
    <2>3. Len(p.csi) > 3 => Len(seq) >= 3 /\ seq[3] = p.csi[4]
        OBVIOUS
    <2> QED BY <1>3, <2>1, <2>2, <2>3 DEF decode_csi
<1>4. \/ \E k \in CursorKeys : p.csi = k.csi /\ p.key = k.key
      \/ /\ \/ p.csi[2] # 91
            \/ Len(p.csi) > 2 /\ p.csi[3] \notin {53, 54, 65, 66, 70, 72}
            \/ Len(p.csi) > 3 /\ p.csi[3] \in {53, 54} /\ p.csi[4] # 126
         /\ p.key = TERM_KEY_NONE
    BY <1>1 DEF TerminalSends
<1> QED BY <1>2, <1>3, <1>4

(* Whatever the bytes are, a key code comes of them. *)
LEMMA KeysAreCodes ==
    ASSUME NEW c \in Nat, NEW seq
    PROVE  Plain(c) \in Nat /\ decode_win_special(c) \in Nat /\ decode_csi(seq) \in Nat
<1> USE DEF TERM_KEY_NONE, TERM_KEY_ENTER, TERM_KEY_BACKSPACE, TERM_KEY_UP,
        TERM_KEY_DOWN, TERM_KEY_PGUP, TERM_KEY_PGDN, TERM_KEY_HOME, TERM_KEY_END
<1>1. Plain(c) \in Nat
    BY DEF Plain
<1>2. decode_win_special(c) \in Nat
    BY DEF decode_win_special
<1>3. decode_csi(seq) \in Nat
    BY DEF decode_csi
<1> QED BY <1>1, <1>2, <1>3

-----------------------------------------------------------------------------
(* Types. *)

Types ==
    /\ typed \in Seq(Presses) /\ Len(typed) <= MaxPresses
    /\ sent \in Seq(ByteRecords) /\ queue \in Seq(ByteRecords)
    /\ read \in Seq(ByteRecords)
    /\ last \in [key : Nat, read : Seq(ByteRecords), waited : BOOLEAN]
    /\ reported \in Seq(Nat)
    /\ pc \in {"work", "poll", "escape", "drain", "pair"}
    /\ open \in BOOLEAN
    /\ Len(read) <= SeqMax + 1
    /\ (pc \in {"work", "poll"}) <=> (read = << >>)

LEMMA TypesSuffice == Types => TypeOK
<1> SUFFICES ASSUME Types PROVE TypeOK
    OBVIOUS
<1>1. Len(read) \in Nat /\ Len(read) <= 8
    BY LenProperties DEF Types, SeqMax
<1>2. Len(read) - 1 <= 8
    BY <1>1
<1>3. (pc \in {"work", "poll"}) = (read = << >>)
    BY DEF Types
<1> QED BY <1>2, <1>3, Zenon DEF Types, TypeOK

(* What a press adds to the queue. *)
LEMMA BytesSent ==
    ASSUME NEW p \in Presses, NEW n \in 1..MaxPresses
    PROVE  /\ Bytes(p, n) \in Seq(ByteRecords)
           /\ Len(Bytes(p, n)) = Len(Codes(Windows, p))
           /\ \A i \in 1..Len(Codes(Windows, p)) :
                  Bytes(p, n)[i] = [b |-> Codes(Windows, p)[i], n |-> n, i |-> i]
<1> DEFINE codes == Codes(Windows, p)
<1>1. codes \in Seq(Byte) /\ Len(codes) \in Nat
    BY CodesAreBytes, LenProperties DEF Windows
<1>2. Bytes(p, n) = [i \in 1..Len(codes) |-> [b |-> codes[i], n |-> n, i |-> i]]
    BY DEF Bytes, Codes
<1>3. \A i \in 1..Len(codes) : codes[i] \in Byte
    BY <1>1, ElementOfSeq
<1> HIDE DEF codes
<1>4. Bytes(p, n) \in [1..Len(codes) -> ByteRecords]
    BY <1>1, <1>2, <1>3 DEF ByteRecords
<1>5. Bytes(p, n) \in Seq(ByteRecords) /\ Len(Bytes(p, n)) = Len(codes)
    BY <1>1, <1>2, <1>4, SeqDef, LenProperties
<1> QED BY <1>2, <1>5 DEF codes

LEMMA TypesFirst == Begin => Types
<1>1. << >> \in Seq(ByteRecords) /\ << >> \in Seq(Presses) /\ << >> \in Seq(Nat)
    OBVIOUS
<1>2. Nothing \in [key : Nat, read : Seq(ByteRecords), waited : BOOLEAN]
    BY <1>1 DEF Nothing, TERM_KEY_NONE
<1> QED BY <1>1, <1>2, KeyAssumption DEF Begin, Types, SeqMax

LEMMA TypesPress ==
    ASSUME Types, NEW p \in Presses, Press(p)
    PROVE  Types'
<1>1. Len(typed) \in Nat /\ Len(typed) + 1 \in 1..MaxPresses
    BY LenProperties, KeyAssumption DEF Types, Press
<1>2. Bytes(p, Len(typed) + 1) \in Seq(ByteRecords)
    BY <1>1, BytesSent
<1>3. typed' \in Seq(Presses) /\ Len(typed') = Len(typed) + 1
    BY AppendProperties DEF Types, Press
<1>4. sent' \in Seq(ByteRecords) /\ queue' \in Seq(ByteRecords)
    <2>1. /\ sent \o Bytes(p, Len(typed) + 1) \in Seq(ByteRecords)
          /\ queue \o Bytes(p, Len(typed) + 1) \in Seq(ByteRecords)
        BY <1>2, ConcatProperties DEF Types
    <2> QED BY <2>1 DEF Types, Press
<1> QED BY <1>1, <1>3, <1>4 DEF Types, Press

LEMMA TypesDeliver ==
    ASSUME Types, Deliver
    PROVE  Types'
<1>1. Head(sent) \in ByteRecords /\ Tail(sent) \in Seq(ByteRecords)
    BY HeadTailProperties DEF Types, Deliver
<1>2. sent' \in Seq(ByteRecords) /\ queue' \in Seq(ByteRecords)
    BY <1>1, AppendProperties DEF Types, Deliver
<1> QED BY <1>2 DEF Types, Deliver, user

(* The call ends, with what it took from the queue or without. *)
LEMMA TypesReturn ==
    ASSUME Types, NEW key \in Nat, NEW bytes \in Seq(ByteRecords), NEW waited \in BOOLEAN,
           Return(key, bytes, waited), queue' \in Seq(ByteRecords)
    PROVE  Types'
<1>1. last' \in [key : Nat, read : Seq(ByteRecords), waited : BOOLEAN]
    BY DEF Return
<1>2. reported' \in Seq(Nat)
    BY AppendProperties DEF Types, Return
<1>3. read' = << >> /\ << >> \in Seq(ByteRecords) /\ Len(<< >>) = 0
    BY DEF Return
<1> QED BY <1>1, <1>2, <1>3 DEF Types, Return, user, SeqMax

LEMMA TypesTake ==
    ASSUME Types, NEW next \in {"escape", "drain", "pair"}, queue # << >>,
           Len(read) <= SeqMax, Take(next)
    PROVE  Types'
<1>1. Head(queue) \in ByteRecords /\ Tail(queue) \in Seq(ByteRecords)
    BY HeadTailProperties DEF Types
<1>2. read' \in Seq(ByteRecords) /\ Len(read') = Len(read) + 1
    BY <1>1, AppendProperties DEF Types, Take
<1>3. Len(read) \in Nat
    BY LenProperties DEF Types
<1>4. read' # << >> /\ Len(read') <= SeqMax + 1
    BY <1>2, <1>3 DEF SeqMax
<1> QED BY <1>1, <1>2, <1>4 DEF Types, Take, user

LEMMA TypesProgram ==
    ASSUME Types, Program
    PROVE  Types'
<1>1. ASSUME queue # << >>
      PROVE  /\ Head(queue) \in ByteRecords /\ Head(queue).b \in Nat
             /\ Tail(queue) \in Seq(ByteRecords)
             /\ <<Head(queue)>> \in Seq(ByteRecords)
             /\ Append(read, Head(queue)) \in Seq(ByteRecords)
    <2>1. Head(queue) \in ByteRecords /\ Tail(queue) \in Seq(ByteRecords)
        BY <1>1, HeadTailProperties DEF Types
    <2>2. Head(queue).b \in Byte
        BY <2>1 DEF ByteRecords
    <2>3. \A b \in Byte : b \in Nat
        BY DEF Byte
    <2>4. Append(read, Head(queue)) \in Seq(ByteRecords)
        BY <2>1, AppendProperties DEF Types
    <2> QED BY <2>1, <2>2, <2>3, <2>4
<1>2. Len(read) \in Nat
    BY LenProperties DEF Types
<1>3. TERM_KEY_NONE \in Nat /\ TERM_KEY_ESC \in Nat /\ << >> \in Seq(ByteRecords)
    BY DEF TERM_KEY_NONE, TERM_KEY_ESC
<1>4. CASE Call
    BY <1>4 DEF Types, Call, user
<1>5. CASE TimedOut
    BY <1>3, <1>5, TypesReturn DEF Types, TimedOut
<1>6. CASE EndOfInput
    BY <1>3, <1>6, TypesReturn DEF Types, EndOfInput
<1>7. CASE ReadPlain
    <2>1. queue # << >> /\ queue' = Tail(queue)
          /\ Return(Plain(Head(queue).b), <<Head(queue)>>, TRUE)
        BY <1>7 DEF ReadPlain, Ready
    <2>2. Plain(Head(queue).b) \in Nat
        BY <1>1, <2>1, KeysAreCodes
    <2> QED BY <1>1, <2>1, <2>2, TypesReturn
<1>8. CASE ReadFirst
    <2>1. /\ queue # << >> /\ read = << >>
          /\ \E next \in {"escape", "pair"} : Take(next)
        BY <1>8 DEF ReadFirst, Ready, Types
    <2> QED BY <2>1, TypesTake DEF SeqMax
<1>9. CASE ReadPair
    <2>1. queue # << >> /\ queue' = Tail(queue)
          /\ Return(decode_win_special(Head(queue).b), Append(read, Head(queue)), TRUE)
        BY <1>9 DEF ReadPair
    <2>2. decode_win_special(Head(queue).b) \in Nat
        BY <1>1, <2>1, KeysAreCodes
    <2> QED BY <1>1, <2>1, <2>2, TypesReturn
<1>10. CASE EscapeAlone
    BY <1>3, <1>10, TypesReturn DEF Types, EscapeAlone
<1>11. CASE ReadSeq
    <2>1. queue # << >> /\ Len(read) <= SeqMax /\ Take("drain")
        BY <1>2, <1>11 DEF ReadSeq, SeqMax
    <2> QED BY <2>1, TypesTake
<1>12. CASE Decode
    <2>1. decode_csi([i \in 1..Len(read) - 1 |-> read[i + 1].b]) \in Nat
        BY KeysAreCodes
    <2> QED BY <1>12, <2>1, TypesReturn DEF Types, Decode
<1> QED BY <1>4, <1>5, <1>6, <1>7, <1>8, <1>9, <1>10, <1>11, <1>12 DEF Program

LEMMA TypesKeyboard ==
    ASSUME Types, Keyboard
    PROVE  Types'
<1>1. CASE \E p \in Presses : Press(p)
    BY <1>1, TypesPress
<1>2. CASE CloseInput
    BY <1>2 DEF Types, CloseInput
<1> QED BY <1>1, <1>2 DEF Keyboard

LEMMA TypesNext == Types /\ [Next]_allvars => Types'
<1> SUFFICES ASSUME Types, [Next]_allvars PROVE Types'
    OBVIOUS
<1>1. CASE Starting \/ UNCHANGED allvars
    BY <1>1 DEF Types, Starting, heard, allvars, vars
<1>2. CASE During(Keyboard) \/ During(Deliver) \/ During(Program)
    BY <1>2, TypesKeyboard, TypesDeliver, TypesProgram DEF During
<1> QED BY <1>1, <1>2 DEF Next

(* Every variable of the keyboard and of the call has its type, and the    *)
(* bytes behind an Esc stay inside their buffer (term.c, 233-242), however *)
(* much is typed ahead.                                                    *)
THEOREM KeyTypes == Spec => []TypeOK
<1>1. Init => Types
    BY TypesFirst DEF Init
<1> QED BY <1>1, TypesNext, TypesSuffice, PTL DEF Spec

-----------------------------------------------------------------------------
(* The start of the program is that of Startup. *)

SP == INSTANCE StartupProofs WITH pc <- stage

StartInv == SP!TInv /\ SP!OnceInv /\ SP!GivenInv

LEMMA StartAssumed == SP!StartAssumption
BY SessionAssumption DEF SP!StartAssumption, SP!Words, S!Words, SP!Flags, S!Flags,
    SP!TwoWords, S!TwoWords, SP!OneWord, S!OneWord, SP!Values, S!Values

(* The module whose proofs are used and the module the session is made of  *)
(* are instances of the same one.                                          *)
LEMMA SameInit == S!Init => SP!Init
BY DEF S!Init, SP!Init, S!Defaults, SP!Defaults

LEMMA SameNext == [S!Next]_S!vars => [SP!Next]_SP!vars
<1> USE DEF S!world, SP!world, S!instance, SP!instance, S!family, SP!family
<1>1. S!Looking <=> SP!Looking
    BY DEF S!Looking, SP!Looking
<1>2. S!Word = SP!Word /\ (S!Takes <=> SP!Takes) /\ S!OneWord = SP!OneWord
      /\ S!TwoWords = SP!TwoWords /\ S!Defaults = SP!Defaults
    BY DEF S!Word, SP!Word, S!Takes, SP!Takes, S!OneWord, SP!OneWord, S!TwoWords,
        SP!TwoWords, S!Defaults, SP!Defaults
<1>3. \A code : S!Over(code) <=> SP!Over(code)
    BY DEF S!Over, SP!Over
<1>4. \A option, value : S!Set(option, value) = SP!Set(option, value)
    BY DEF S!Set, SP!Set, S!parse_interval, SP!parse_interval, S!parse_sort,
        SP!parse_sort, S!util_copy_trunc, SP!util_copy_trunc, S!LeastInterval,
        SP!LeastInterval, S!GreatestInterval, SP!GreatestInterval
<1>5. S!Flag => SP!Flag
    BY <1>1, <1>2 DEF S!Flag, SP!Flag
<1>6. S!Attached => SP!Attached
    BY <1>1, <1>2, <1>4 DEF S!Attached, SP!Attached
<1>7. S!Separate => SP!Separate
    BY <1>1, <1>2, <1>4 DEF S!Separate, SP!Separate, S!Past, SP!Past
<1>8. S!Help => SP!Help
    BY <1>1, <1>2, <1>3 DEF S!Help, SP!Help
<1>9. S!Unknown => SP!Unknown
    BY <1>1, <1>2, <1>3 DEF S!Unknown, SP!Unknown
<1>10. S!OptionsRead => SP!OptionsRead
    BY DEF S!OptionsRead, SP!OptionsRead
<1>11. S!Proceed => SP!Proceed
    BY DEF S!Proceed, SP!Proceed, S!Detached, SP!Detached
<1>12. S!Fork => SP!Fork
    BY DEF S!Fork, SP!Fork, S!MayLaunch, SP!MayLaunch
<1>13. S!ParentReturns => SP!ParentReturns
    BY DEF S!ParentReturns, SP!ParentReturns
<1>14. S!NotLaunched => SP!NotLaunched
    BY <1>3 DEF S!NotLaunched, SP!NotLaunched
<1>15. S!Relaunch => SP!Relaunch
    BY <1>2 DEF S!Relaunch, SP!Relaunch
<1>16. S!NoTerminal => SP!NoTerminal
    BY <1>3 DEF S!NoTerminal, SP!NoTerminal
<1>17. S!Prime => SP!Prime
    BY <1>3 DEF S!Prime, SP!Prime
<1>18. S!Enter => SP!Enter
    BY <1>3 DEF S!Enter, SP!Enter, S!Live, SP!Live
<1>19. S!vars = SP!vars /\ S!vars' = SP!vars'
    BY DEF S!vars, SP!vars
<1> QED BY <1>5, <1>6, <1>7, <1>8, <1>9, <1>10, <1>11, <1>12, <1>13, <1>14, <1>15,
    <1>16, <1>17, <1>18, <1>19 DEF S!Next, SP!Next

(* Nothing the keyboard or the call does touches the start. *)
LEMMA StartNext == [Next]_allvars => [S!Next]_S!vars
<1>1. ASSUME Starting PROVE S!Next
    BY <1>1 DEF Starting
<1>2. ASSUME UNCHANGED start, UNCHANGED host PROVE UNCHANGED S!vars
    BY <1>2 DEF start, S!vars
<1>3. ASSUME During(Keyboard) PROVE UNCHANGED start /\ UNCHANGED host
    BY <1>3 DEF During, Keyboard, Press, CloseInput, setting
<1>4. ASSUME During(Deliver) PROVE UNCHANGED start /\ UNCHANGED host
    BY <1>4 DEF During, Deliver, setting
<1>5. ASSUME During(Program) PROVE UNCHANGED start /\ UNCHANGED host
    BY <1>5 DEF During, Program, Call, TimedOut, EndOfInput, ReadPlain, ReadFirst,
        ReadPair, EscapeAlone, ReadSeq, Decode, Return, Take, setting
<1>6. ASSUME UNCHANGED allvars PROVE UNCHANGED start /\ UNCHANGED host
    BY <1>6 DEF allvars, vars
<1> QED BY <1>1, <1>2, <1>3, <1>4, <1>5, <1>6 DEF Next

LEMMA StartInvFirst == Init => StartInv
BY StartAssumed, SameInit, SP!TInvInit, SP!OnceInit, SP!GivenInit DEF Init, StartInv

LEMMA StartInvNext == StartInv /\ [Next]_allvars => StartInv'
BY StartAssumed, StartNext, SameNext, SP!TInvNext, SP!OnceNext, SP!GivenNext DEF StartInv

(* What is heard of the user leaves the way to the loop as it is: the      *)
(* session starts the way Startup does.                                    *)
THEOREM SessionStarts == Spec => S!Init /\ [][S!Next]_S!vars
<1>1. Init => S!Init
    BY DEF Init
<1> QED BY <1>1, StartNext, PTL DEF Spec

(* So what is proved of the start holds of the session: the options the    *)
(* loop runs with are those of the command line it was given.              *)
THEOREM SessionOptions == Spec => []SP!OptionsAsGiven
<1>1. StartInv => SP!OptionsAsGiven
    <2> SUFFICES ASSUME StartInv PROVE SP!OptionsAsGiven
        OBVIOUS
    <2>1. CASE stage = "options"
        BY <2>1 DEF SP!OptionsAsGiven
    <2>2. CASE stage = "over"
        BY <2>2 DEF SP!OptionsAsGiven, StartInv, SP!GivenInv
    <2>3. CASE stage \notin {"options", "over"}
        BY <2>3, SP!ReadAsGiven, StartAssumed DEF StartInv
    <2> QED BY <2>1, <2>2, <2>3
<1> QED BY <1>1, StartInvFirst, StartInvNext, PTL DEF Spec

-----------------------------------------------------------------------------
(* The clock of the loop. *)

(* Before the loop nothing was heard.  In it the poll has a finite time    *)
(* unless the interval is no number, and a keyboard does not end.          *)
PaceInv ==
    /\ stage # "live" => last = Nothing /\ open
    /\ keyboard => open
    /\ stage = "live" /\ opts.interval # NaN => timeout = "finite"
    /\ Paced

LEMMA PaceFirst == Init => PaceInv
BY DEF Init, Begin, S!Init, PaceInv, Paced, Nothing

(* The live program leaves its start behind it. *)
LEMMA LiveStays ==
    ASSUME stage = "live", Starting
    PROVE  stage' = stage /\ opts' = opts
BY DEF Starting, S!Next, S!Flag, S!Attached, S!Separate, S!Help, S!Unknown,
    S!OptionsRead, S!Proceed, S!Fork, S!ParentReturns, S!NotLaunched,
    S!Relaunch, S!NoTerminal, S!Prime, S!Enter, S!Looking, S!Over, S!MayLaunch,
    S!instance, S!world, S!family

(* Nobody changes the host. *)
LEMMA HostStays ==
    ASSUME Starting
    PROVE  host' = host
BY DEF Starting, S!Next, S!Flag, S!Attached, S!Separate, S!Help, S!Unknown,
    S!OptionsRead, S!Proceed, S!Fork, S!ParentReturns, S!NotLaunched,
    S!Relaunch, S!NoTerminal, S!Prime, S!Enter, S!world

(* The loop takes its timeout from an interval that is within its bounds.  *)
LEMMA PaceStarting ==
    ASSUME StartInv, PaceInv, Starting
    PROVE  PaceInv'
<1>1. CASE stage = "primed" /\ stage' = "live"
    <2>1. opts' = opts /\ timeout' \in S!Timeouts(opts.interval)
        BY <1>1 DEF Starting, S!Next, S!Flag, S!Attached, S!Separate, S!Help, S!Unknown,
            S!OptionsRead, S!Proceed, S!Fork, S!ParentReturns, S!NotLaunched,
            S!Relaunch, S!NoTerminal, S!Prime, S!Enter
    <2>2. opts.interval \in SP!LeastInterval..SP!GreatestInterval \/ opts.interval = NaN
        BY <1>1, SP!IntervalRead, StartAssumed DEF StartInv
    <2>3. ASSUME opts.interval # NaN PROVE timeout' = "finite"
        <3>1. opts.interval \in Int /\ opts.interval > 0
            <4>1. SP!LeastInterval \in Nat \ {0} /\ SP!GreatestInterval \in Nat
                BY DEF SP!LeastInterval, SP!GreatestInterval
            <4> QED BY <2>2, <2>3, <4>1
        <3>2. S!Timeouts(opts.interval) = {"finite"}
            BY <2>3, <3>1 DEF S!Timeouts
        <3> QED BY <2>1, <3>2
    <2>4. last' = Nothing /\ open' /\ UNCHANGED <<last, open>>
        BY <1>1 DEF PaceInv, Starting, heard
    <2> QED BY <1>1, <2>1, <2>3, <2>4 DEF PaceInv, Paced, Nothing
<1>2. CASE stage = "live"
    <2>1. stage' = stage /\ opts' = opts
        BY <1>2, LiveStays
    <2>2. UNCHANGED <<timeout, keyboard, last, open>>
        BY <1>2 DEF Starting, heard
    <2> QED BY <2>1, <2>2 DEF PaceInv, Paced
<1>3. CASE stage # "live" /\ stage' # "live"
    BY <1>3 DEF PaceInv, Paced, Starting, heard, Nothing
<1>4. CASE stage # "primed" /\ stage # "live" /\ stage' = "live"
    BY <1>4 DEF Starting, S!Next, S!Flag, S!Attached, S!Separate, S!Help, S!Unknown,
        S!OptionsRead, S!Proceed, S!Fork, S!ParentReturns, S!NotLaunched,
        S!Relaunch, S!NoTerminal, S!Prime, S!Enter, S!Looking, S!Over, S!MayLaunch,
        S!instance, S!world, S!family
<1> QED BY <1>1, <1>2, <1>3, <1>4

(* A call that brings nothing has waited, and one that does not wait       *)
(* brings something.                                                       *)
LEMMA PaceReturn ==
    ASSUME PaceInv, stage = "live", UNCHANGED start, NEW key, NEW bytes, NEW waited,
           Return(key, bytes, waited),
           keyboard /\ opts.interval # NaN /\ bytes = << >> => waited
    PROVE  PaceInv'
<1>1. /\ last'.read = bytes /\ last'.waited = waited
      /\ UNCHANGED <<stage, opts, keyboard, open, timeout>>
    BY DEF Return, start, setting, user
<1> QED BY <1>1 DEF PaceInv, Paced

LEMMA PaceProgram ==
    ASSUME Types, PaceInv, stage = "live", UNCHANGED start, Program
    PROVE  PaceInv'
<1>1. \A b : <<b>> # << >> /\ (b \in ByteRecords => Append(read, b) # << >>)
    BY AppendProperties DEF Types
<1>2. queue # << >> => Head(queue) \in ByteRecords
    BY HeadTailProperties DEF Types
<1>3. ASSUME NEW next, Take(next) PROVE PaceInv'
    BY <1>3 DEF Take, setting, user, start, PaceInv, Paced
<1>4. CASE Call
    BY <1>4 DEF Call, setting, user, start, PaceInv, Paced
<1>5. CASE TimedOut
    <2>1. keyboard /\ opts.interval # NaN => Wait # "zero"
        BY DEF PaceInv, Wait
    <2> QED BY <1>5, <2>1, PaceReturn DEF TimedOut
<1>6. CASE EndOfInput
    <2>1. ~keyboard
        BY <1>6 DEF EndOfInput, PaceInv
    <2> QED BY <1>6, <2>1, PaceReturn DEF EndOfInput
<1>7. CASE ReadPlain
    BY <1>1, <1>7, PaceReturn DEF ReadPlain
<1>8. CASE ReadPair
    BY <1>1, <1>2, <1>8, PaceReturn DEF ReadPair
<1>9. CASE EscapeAlone \/ Decode
    <2>1. read # << >>
        BY <1>9 DEF Types, EscapeAlone, EscapeIsAlone, Decode
    <2> QED BY <1>9, <2>1, PaceReturn DEF EscapeAlone, Decode
<1>10. CASE ReadFirst \/ ReadSeq
    BY <1>3, <1>10 DEF ReadFirst, ReadSeq
<1> QED BY <1>4, <1>5, <1>6, <1>7, <1>8, <1>9, <1>10 DEF Program

LEMMA PaceNext == Types /\ StartInv /\ PaceInv /\ [Next]_allvars => PaceInv'
<1> SUFFICES ASSUME Types, StartInv, PaceInv, [Next]_allvars PROVE PaceInv'
    OBVIOUS
<1>1. CASE Starting
    BY <1>1, PaceStarting
<1>2. CASE During(Keyboard)
    BY <1>2 DEF During, Keyboard, Press, CloseInput, setting, start, PaceInv, Paced
<1>3. CASE During(Deliver)
    BY <1>3 DEF During, Deliver, setting, user, start, PaceInv, Paced
<1>4. CASE During(Program)
    BY <1>4, PaceProgram DEF During
<1>5. CASE UNCHANGED allvars
    BY <1>5 DEF allvars, vars, start, PaceInv, Paced
<1> QED BY <1>1, <1>2, <1>3, <1>4, <1>5 DEF Next

(* With every interval that is a number, a call with the keyboard on       *)
(* standard input that brings no key has waited for its time: the way from *)
(* parse_interval to the poll leaves no command line without it            *)
(* (taskman.c, 104-114 and 492-497).                                       *)
THEOREM LoopIsPaced == Spec => []Paced
<1>1. Init => Types
    BY TypesFirst DEF Init
<1>2. PaceInv => Paced
    BY DEF PaceInv
<1> QED BY <1>1, <1>2, TypesNext, StartInvFirst, StartInvNext, PaceFirst, PaceNext,
    PTL DEF Spec

-----------------------------------------------------------------------------
(* The bytes of a key stay together. *)

(* The bytes that have arrived and are not yet reported on. *)
Pending == read \o queue

(* Byte j of s belongs to a press that sends codes, and the rest of the    *)
(* press follows it.                                                       *)
Follows(s, j, codes) ==
    /\ s[j].i \in 1..Len(codes)
    /\ \A d \in 0..Len(codes) - s[j].i :
           /\ j + d \in 1..Len(s)
           /\ s[j + d] = [b |-> codes[s[j].i + d], n |-> s[j].n, i |-> s[j].i + d]

Chain(s, presses, win) ==
    \A j \in 1..Len(s) :
        /\ s[j].n \in 1..Len(presses)
        /\ Follows(s, j, Codes(win, presses[s[j].n]))

(* What remains when bytes are taken from the front. *)
LEMMA ChainRest ==
    ASSUME NEW s \in Seq(ByteRecords), NEW presses, NEW win, Chain(s, presses, win),
           NEW m \in 0..Len(s), NEW t \in Seq(ByteRecords), Len(t) = Len(s) - m,
           \A j \in 1..Len(t) : t[j] = s[j + m]
    PROVE  Chain(t, presses, win)
<1> SUFFICES ASSUME NEW j \in 1..Len(t)
             PROVE  /\ t[j].n \in 1..Len(presses)
                    /\ Follows(t, j, Codes(win, presses[t[j].n]))
    BY DEF Chain
<1> DEFINE codes == Codes(win, presses[t[j].n])
<1>0. Len(s) \in Nat /\ Len(t) \in Nat
    BY LenProperties
<1>1. j + m \in 1..Len(s) /\ t[j] = s[j + m]
    BY <1>0
<1>2. t[j].n \in 1..Len(presses) /\ Follows(s, j + m, codes)
    BY <1>1 DEF Chain
<1> HIDE DEF codes
<1>3. ASSUME NEW d \in 0..Len(codes) - t[j].i
      PROVE  /\ j + d \in 1..Len(t)
             /\ t[j + d] = [b |-> codes[t[j].i + d], n |-> t[j].n, i |-> t[j].i + d]
    <2>1. /\ j + m + d \in 1..Len(s)
          /\ s[j + m + d] = [b |-> codes[t[j].i + d], n |-> t[j].n, i |-> t[j].i + d]
        BY <1>1, <1>2 DEF Follows
    <2>2. d \in Nat
        BY DEF Follows
    <2>3. j + d \in 1..Len(t) /\ (j + d) + m = j + m + d
        BY <1>0, <2>1, <2>2
    <2> QED BY <2>1, <2>3
<1>4. t[j].i \in 1..Len(codes)
    BY <1>1, <1>2 DEF Follows
<1> QED BY <1>2, <1>3, <1>4 DEF Follows, codes

(* A press comes behind what is there, in one piece. *)
LEMMA ChainPress ==
    ASSUME NEW s \in Seq(ByteRecords), NEW presses \in Seq(Presses),
           Chain(s, presses, Windows), Len(presses) < MaxPresses, NEW p \in Presses
    PROVE  Chain(s \o Bytes(p, Len(presses) + 1), Append(presses, p), Windows)
<1> DEFINE n == Len(presses) + 1
           new == Bytes(p, n)
           t == s \o new
           more == Append(presses, p)
<1>0. Len(presses) \in Nat /\ Len(s) \in Nat /\ n \in 1..MaxPresses
    BY LenProperties, KeyAssumption
<1>1. /\ new \in Seq(ByteRecords) /\ Len(new) = Len(Codes(Windows, p))
      /\ \A i \in 1..Len(Codes(Windows, p)) :
             new[i] = [b |-> Codes(Windows, p)[i], n |-> n, i |-> i]
    BY <1>0, BytesSent
<1>2. /\ Len(more) = n /\ more[n] = p
      /\ \A k \in 1..Len(presses) : more[k] = presses[k]
    BY AppendProperties
<1>3. Len(new) \in Nat
    BY <1>1, LenProperties
<1> HIDE DEF new, more
<1>4. /\ Len(t) = Len(s) + Len(new)
      /\ \A j \in 1..Len(s) : t[j] = s[j]
      /\ \A j \in 1..Len(new) : t[Len(s) + j] = new[j]
    <2>1. /\ Len(t) = Len(s) + Len(new)
          /\ \A j \in 1..Len(s) + Len(new) :
                 t[j] = IF j <= Len(s) THEN s[j] ELSE new[j - Len(s)]
        BY <1>1, ConcatProperties
    <2> HIDE DEF t
    <2> QED BY <1>0, <1>3, <2>1
<1> HIDE DEF t, n
<1> SUFFICES ASSUME NEW j \in 1..Len(t)
             PROVE  /\ t[j].n \in 1..Len(more)
                    /\ Follows(t, j, Codes(Windows, more[t[j].n]))
    BY DEF Chain, t, more, new, n
<1>5. CASE j \in 1..Len(s)
    <2>1. t[j] = s[j] /\ s[j].n \in 1..Len(presses)
        BY <1>4, <1>5 DEF Chain
    <2>2. t[j].n \in 1..Len(more) /\ more[t[j].n] = presses[s[j].n]
        BY <1>0, <1>2, <2>1 DEF n
    <2> DEFINE codes == Codes(Windows, presses[s[j].n])
    <2>3. Follows(s, j, codes)
        BY <1>5 DEF Chain
    <2> HIDE DEF codes
    <2>4. ASSUME NEW d \in 0..Len(codes) - s[j].i
          PROVE  j + d \in 1..Len(t) /\ t[j + d] = s[j + d]
        <3>1. j + d \in 1..Len(s)
            BY <2>3 DEF Follows
        <3> QED BY <1>0, <1>3, <1>4, <3>1
    <2>5. Follows(t, j, codes)
        BY <2>1, <2>3, <2>4 DEF Follows
    <2> QED BY <2>2, <2>5 DEF codes
<1>6. CASE j \notin 1..Len(s)
    <2> DEFINE i == j - Len(s)
               codes == Codes(Windows, p)
    <2>1. i \in 1..Len(codes) /\ j = Len(s) + i /\ i \in 1..Len(new)
        BY <1>0, <1>1, <1>3, <1>4, <1>6
    <2>2. t[j] = [b |-> codes[i], n |-> n, i |-> i]
        BY <1>1, <1>4, <2>1
    <2>3. t[j].n = n /\ t[j].i = i
        BY <2>2
    <2>4. n \in 1..Len(more) /\ more[n] = p
        BY <1>0, <1>2 DEF n
    <2>5. ASSUME NEW d \in 0..Len(codes) - i
          PROVE  /\ j + d \in 1..Len(t)
                 /\ t[j + d] = [b |-> codes[i + d], n |-> n, i |-> i + d]
        <3> HIDE DEF i, codes
        <3>1. i + d \in 1..Len(new) /\ j + d = Len(s) + (i + d) /\ j + d \in 1..Len(t)
            BY <1>0, <1>1, <1>3, <1>4, <2>1 DEF codes
        <3>2. t[j + d] = new[i + d]
            BY <1>4, <3>1
        <3> QED BY <1>1, <3>1, <3>2 DEF codes
    <2> HIDE DEF i, codes
    <2>6. Follows(t, j, codes)
        BY <2>1, <2>3, <2>5 DEF Follows
    <2> QED BY <2>3, <2>4, <2>6 DEF codes
<1> QED BY <1>5, <1>6

(* Where a press begins, all of it is there. *)
LEMMA ChainWhole ==
    ASSUME NEW s \in Seq(ByteRecords), NEW presses, NEW win, Chain(s, presses, win),
           s # << >>, s[1].i = 1
    PROVE  /\ s[1].n \in 1..Len(presses)
           /\ \A d \in 1..Len(Codes(win, presses[s[1].n])) :
                  d \in 1..Len(s) /\ s[d].b = Codes(win, presses[s[1].n])[d]
<1> DEFINE codes == Codes(win, presses[s[1].n])
<1>0. Len(s) \in Nat /\ 1 \in 1..Len(s)
    BY LenProperties, EmptySeq
<1>1. s[1].n \in 1..Len(presses) /\ Follows(s, 1, codes)
    BY <1>0 DEF Chain
<1> HIDE DEF codes
<1>2. ASSUME NEW d \in 1..Len(codes)
      PROVE  d \in 1..Len(s) /\ s[d].b = codes[d]
    <2>1. Len(codes) \in Int
        BY <1>1 DEF Follows
    <2>2. d - 1 \in 0..Len(codes) - s[1].i /\ 1 + (d - 1) = d
        BY <2>1
    <2>3. /\ 1 + (d - 1) \in 1..Len(s)
          /\ s[1 + (d - 1)].b = codes[s[1].i + (d - 1)]
        <3>1. /\ 1 + (d - 1) \in 1..Len(s)
              /\ s[1 + (d - 1)] = [b |-> codes[s[1].i + (d - 1)], n |-> s[1].n,
                                   i |-> s[1].i + (d - 1)]
            BY <1>1, <2>2 DEF Follows
        <3> QED BY <3>1
    <2>4. s[1].i + (d - 1) = d
        BY <2>1
    <2> QED BY <2>2, <2>3, <2>4
<1> QED BY <1>1, <1>2 DEF codes

-----------------------------------------------------------------------------
(* What a call makes of the bytes. *)

LEMMA Joined ==
    ASSUME NEW r \in Seq(ByteRecords), NEW q \in Seq(ByteRecords)
    PROVE  /\ r \o q \in Seq(ByteRecords)
           /\ Len(r) \in Nat /\ Len(q) \in Nat /\ Len(r \o q) = Len(r) + Len(q)
           /\ \A j \in 1..Len(r) : (r \o q)[j] = r[j]
           /\ \A j \in 1..Len(q) : (r \o q)[Len(r) + j] = q[j]
           /\ r = << >> => r \o q = q
           /\ q = << >> => r \o q = r
           /\ r \o q = << >> <=> r = << >> /\ q = << >>
<1>0. Len(r) \in Nat /\ Len(q) \in Nat
    BY LenProperties
<1>1. /\ r \o q \in Seq(ByteRecords) /\ Len(r \o q) = Len(r) + Len(q)
      /\ \A i \in 1..Len(r) + Len(q) : (r \o q)[i] = IF i <= Len(r) THEN r[i] ELSE q[i - Len(r)]
    BY ConcatProperties
<1>2. \A j \in 1..Len(r) : (r \o q)[j] = r[j]
    BY <1>0, <1>1
<1>3. ASSUME NEW j \in 1..Len(q) PROVE (r \o q)[Len(r) + j] = q[j]
    <2>1. Len(r) + j \in 1..Len(r) + Len(q) /\ ~(Len(r) + j <= Len(r))
          /\ (Len(r) + j) - Len(r) = j
        BY <1>0
    <2> QED BY <1>1, <2>1
<1>4. /\ r = << >> => r \o q = q
      /\ q = << >> => r \o q = r
    BY ConcatEmptySeq
<1>5. r \o q = << >> => r = << >> /\ q = << >>
    BY <1>0, <1>1, EmptySeq
<1> QED BY <1>0, <1>1, <1>2, <1>3, <1>4, <1>5

(* Reading a byte moves it and changes nothing of what is pending. *)
LEMMA Moved ==
    ASSUME NEW r \in Seq(ByteRecords), NEW q \in Seq(ByteRecords), q # << >>
    PROVE  Append(r, Head(q)) \o Tail(q) = r \o q
<1>1. Head(q) \in ByteRecords /\ Tail(q) \in Seq(ByteRecords) /\ q = <<Head(q)>> \o Tail(q)
    BY HeadTailProperties, ConcatProperties
<1>2. Append(r, Head(q)) = r \o <<Head(q)>>
    BY <1>1, AppendIsConcat
<1>3. <<Head(q)>> \in Seq(ByteRecords)
    BY <1>1
<1> QED BY <1>1, <1>2, <1>3, ConcatAssociative

(* Where a call stands, and what it has read by then. *)
Standing ==
    /\ pc \in {"escape", "drain"} => ~Windows /\ read[1].b = 27
    /\ pc = "escape" => Len(read) = 1
    /\ pc = "drain" => Len(read) > 1
    /\ pc = "pair" => Windows /\ Len(read) = 1 /\ read[1].b \in {0, 224}

LEMMA StandingProgram ==
    ASSUME Types, Standing, Program
    PROVE  Standing'
<1>0. Len(read) \in Nat /\ (read = << >> => Len(read) = 0)
    BY LenProperties, EmptySeq DEF Types
<1>1. ASSUME queue # << >>
      PROVE  /\ Len(Append(read, Head(queue))) = Len(read) + 1
             /\ read # << >> => Append(read, Head(queue))[1] = read[1]
             /\ read = << >> => Append(read, Head(queue))[1] = Head(queue)
    <2>1. Head(queue) \in ByteRecords
        BY <1>1, HeadTailProperties DEF Types
    <2>2. /\ Len(Append(read, Head(queue))) = Len(read) + 1
          /\ \A i \in 1..Len(read) : Append(read, Head(queue))[i] = read[i]
          /\ Append(read, Head(queue))[Len(read) + 1] = Head(queue)
        BY <2>1, AppendProperties DEF Types
    <2>3. read # << >> => 1 \in 1..Len(read)
        BY <1>0, EmptySeq DEF Types
    <2> QED BY <1>0, <2>2, <2>3
<1>2. ASSUME NEW key, NEW bytes, NEW waited, Return(key, bytes, waited)
      PROVE  Standing'
    BY <1>2 DEF Return, Standing
<1>3. CASE Call
    BY <1>3 DEF Call, Standing, setting, Windows
<1>4. CASE TimedOut \/ EndOfInput \/ ReadPlain \/ ReadPair \/ EscapeAlone \/ Decode
    BY <1>2, <1>4 DEF TimedOut, EndOfInput, ReadPlain, ReadPair, EscapeAlone, Decode
<1>5. CASE ReadFirst
    <2>1. queue # << >> /\ read = << >> /\ BeginsSequence(Head(queue).b)
          /\ Take(IF Windows THEN "pair" ELSE "escape")
        BY <1>5 DEF ReadFirst, Ready, Types
    <2>2. read' = Append(read, Head(queue)) /\ Len(read') = 1 /\ read'[1] = Head(queue)
        BY <1>0, <1>1, <2>1 DEF Take
    <2>3. pc' = IF Windows THEN "pair" ELSE "escape"
        BY <2>1 DEF Take
    <2>4. Windows' = Windows
        BY <2>1 DEF Take, setting, Windows
    <2> QED BY <2>1, <2>2, <2>3, <2>4 DEF Standing, BeginsSequence
<1>6. CASE ReadSeq
    <2>1. queue # << >> /\ read # << >> /\ Take("drain") /\ pc \in {"escape", "drain"}
        BY <1>6 DEF ReadSeq, Types
    <2>2. read' = Append(read, Head(queue)) /\ Len(read') > 1 /\ read'[1] = read[1]
        <3>1. Len(read) > 0
            BY <1>0, <2>1, EmptySeq DEF Types
        <3> QED BY <1>0, <1>1, <2>1, <3>1 DEF Take
    <2>3. pc' = "drain" /\ Windows' = Windows
        BY <2>1 DEF Take, setting, Windows
    <2> QED BY <2>1, <2>2, <2>3 DEF Standing
<1> QED BY <1>3, <1>4, <1>5, <1>6 DEF Program

(* The call reports key, made of the first bytes there are. *)
Reports(key) ==
    /\ Pending # << >>
    /\ last'.key = key /\ last'.read # << >> /\ last'.read[1] = Pending[1]
    /\ reported' = Append(reported, key)
    /\ UNCHANGED <<setting, user, sent>>

(* Where a press begins, the key reported is that press, an Esc excepted.  *)
(* If nothing stands behind it there is no exception, and nothing is left. *)
Rightly(key) ==
    Pending[1].i = 1 =>
        LET press == typed[Pending[1].n]
        IN  /\ press.key # TERM_KEY_ESC => key = press.key
            /\ open /\ Len(Pending) = Len(Codes(Windows, press)) =>
                 key = press.key /\ Pending' = << >>

(* All of a press is there when its first byte is. *)
LEMMA PressIsThere ==
    ASSUME Types, Chain(Pending, typed, Windows), Pending # << >>, Pending[1].i = 1,
           NEW press, press = typed[Pending[1].n],
           NEW codes, codes = Codes(Windows, press)
    PROVE  /\ press \in Presses
           /\ codes \in Seq(Byte) /\ Len(codes) \in Nat \ {0} /\ Len(Pending) >= Len(codes)
           /\ \A d \in 1..Len(codes) : Pending[d].b = codes[d]
<1>1. Pending \in Seq(ByteRecords) /\ Len(Pending) \in Nat
    BY Joined, LenProperties DEF Types, Pending
<1>2. /\ Pending[1].n \in 1..Len(typed)
      /\ \A d \in 1..Len(codes) : d \in 1..Len(Pending) /\ Pending[d].b = codes[d]
    BY <1>1, ChainWhole
<1>3. press \in Presses
    BY <1>2, ElementOfSeq DEF Types
<1>4. codes \in Seq(Byte) /\ Len(codes) >= 1 /\ Len(codes) \in Nat
    BY <1>3, CodesAreBytes, LenProperties DEF Windows
<1>5. Len(codes) \in 1..Len(Pending)
    BY <1>2, <1>4
<1> QED BY <1>1, <1>2, <1>3, <1>4, <1>5

LEMMA PlainReports ==
    ASSUME Types, Chain(Pending, typed, Windows), ReadPlain
    PROVE  \E key : Reports(key) /\ Rightly(key)
<1> DEFINE key == Plain(Head(queue).b)
<1>1. /\ queue # << >> /\ read = << >> /\ ~BeginsSequence(Head(queue).b)
      /\ Return(key, <<Head(queue)>>, TRUE) /\ queue' = Tail(queue)
    BY DEF ReadPlain, Ready, Types
<1>2. Pending = queue /\ Pending[1] = Head(queue) /\ Pending # << >>
    BY <1>1, Joined DEF Types, Pending
<1>3. Tail(queue) \in Seq(ByteRecords) /\ Len(Tail(queue)) = Len(queue) - 1
    BY <1>1, HeadTailProperties DEF Types
<1>4. Pending' = Tail(queue)
    <2>1. Pending' = << >> \o Tail(queue)
        BY <1>1 DEF Pending, Return
    <2> QED BY <1>3, <2>1, ConcatEmptySeq
<1>5. Reports(key)
    BY <1>1, <1>2 DEF Reports, Return
<1>6. ASSUME Pending[1].i = 1, NEW press, press = typed[Pending[1].n]
      PROVE  key = press.key /\ (Len(Pending) = Len(Codes(Windows, press)) => Pending' = << >>)
    <2>1. press \in Presses /\ Pending[1].b = Codes(Windows, press)[1]
        BY <1>2, <1>6, PressIsThere
    <2>2. Len(Codes(Windows, press)) = 1 /\ key = press.key
        BY <1>1, <1>2, <2>1, PlainKey
    <2>3. Len(Pending) = 1 => Pending' = << >>
        BY <1>2, <1>3, <1>4, EmptySeq
    <2> QED BY <2>2, <2>3
<1> HIDE DEF key
<1>7. Rightly(key)
    BY <1>6 DEF Rightly
<1> QED BY <1>5, <1>7

LEMMA PairReports ==
    ASSUME Types, Standing, Chain(Pending, typed, Windows), ReadPair
    PROVE  \E key : Reports(key) /\ Rightly(key)
<1> DEFINE key == decode_win_special(Head(queue).b)
<1>1. /\ queue # << >> /\ Windows /\ Len(read) = 1 /\ read[1].b \in {0, 224}
      /\ Return(key, Append(read, Head(queue)), TRUE) /\ queue' = Tail(queue)
    BY DEF ReadPair, Standing
<1>2. /\ Len(queue) \in Nat /\ Len(Pending) = 1 + Len(queue) /\ 1 \in 1..Len(queue)
      /\ Pending[1] = read[1] /\ Pending[2] = Head(queue) /\ Pending # << >>
    <2>1. Len(queue) \in Nat /\ 1 \in 1..Len(queue) /\ Head(queue) = queue[1]
        BY <1>1, LenProperties, EmptySeq DEF Types
    <2>2. /\ Len(Pending) = Len(read) + Len(queue)
          /\ \A j \in 1..Len(read) : Pending[j] = read[j]
          /\ \A j \in 1..Len(queue) : Pending[Len(read) + j] = queue[j]
          /\ Pending = << >> => queue = << >>
        BY Joined DEF Types, Pending
    <2> QED BY <1>1, <2>1, <2>2
<1>3. Tail(queue) \in Seq(ByteRecords) /\ Len(Tail(queue)) = Len(queue) - 1
    BY <1>1, HeadTailProperties DEF Types
<1>4. Pending' = Tail(queue)
    <2>1. Pending' = << >> \o Tail(queue)
        BY <1>1 DEF Pending, Return
    <2> QED BY <1>3, <2>1, ConcatEmptySeq
<1>5. Reports(key)
    <2>1. Append(read, Head(queue)) # << >> /\ Append(read, Head(queue))[1] = read[1]
        <3>1. Head(queue) \in ByteRecords /\ read \in Seq(ByteRecords) /\ 1 \in 1..Len(read)
            BY <1>1, HeadTailProperties DEF Types
        <3> QED BY <3>1, AppendProperties
    <2> QED BY <1>1, <1>2, <2>1 DEF Reports, Return
<1>6. ASSUME Pending[1].i = 1, NEW press, press = typed[Pending[1].n]
      PROVE  key = press.key /\ (Len(Pending) = Len(Codes(Windows, press)) => Pending' = << >>)
    <2>1. /\ press \in Presses /\ Pending[1].b = Codes(Windows, press)[1]
          /\ \A d \in 1..Len(Codes(Windows, press)) : Pending[d].b = Codes(Windows, press)[d]
        BY <1>2, <1>6, PressIsThere
    <2>2. Codes(Windows, press) = press.win /\ press.win[1] \in {0, 224}
        BY <1>1, <1>2, <2>1 DEF Codes
    <2>3. Len(press.win) = 2 /\ decode_win_special(press.win[2]) = press.key
        BY <2>1, <2>2, PairKey
    <2>4. key = press.key
        BY <1>2, <2>1, <2>2, <2>3
    <2>5. Len(Pending) = 2 => Pending' = << >>
        <3>1. Len(Pending) = 2 => Len(Tail(queue)) = 0
            <4>1. \A m \in Nat : 1 + m = 2 => m - 1 = 0
                OBVIOUS
            <4> QED BY <1>2, <1>3, <4>1, Zenon
        <3> QED BY <1>3, <1>4, <3>1, EmptySeq
    <2> QED BY <2>2, <2>3, <2>4, <2>5
<1> HIDE DEF key
<1>7. Rightly(key)
    BY <1>6 DEF Rightly
<1> QED BY <1>5, <1>7

LEMMA EscapeReports ==
    ASSUME Types, Standing, Chain(Pending, typed, Windows), EscapeAlone
    PROVE  \E key : Reports(key) /\ Rightly(key)
<1>1. /\ queue = << >> /\ ~Windows /\ Len(read) = 1 /\ read[1].b = 27
      /\ Return(TERM_KEY_ESC, read, TRUE) /\ queue' = queue
    BY DEF EscapeAlone, EscapeIsAlone, Standing
<1>2. Pending = read /\ read # << >>
    <2>1. read \in Seq(ByteRecords) /\ queue \in Seq(ByteRecords)
        BY DEF Types
    <2>2. read # << >>
        BY <1>1, <2>1, EmptySeq
    <2> QED BY <1>1, <2>1, <2>2, Joined DEF Pending
<1>3. Pending' = << >>
    <2>1. Pending' = << >> \o << >>
        BY <1>1 DEF Pending, Return
    <2> QED BY <2>1
<1>4. Reports(TERM_KEY_ESC)
    BY <1>1, <1>2 DEF Reports, Return
<1>5. ASSUME Pending[1].i = 1, NEW press, press = typed[Pending[1].n]
      PROVE  press.key = TERM_KEY_ESC
    <2>1. /\ press \in Presses /\ Len(Codes(Windows, press)) \in Nat \ {0}
          /\ Len(Pending) >= Len(Codes(Windows, press))
          /\ Pending[1].b = Codes(Windows, press)[1]
        BY <1>2, <1>5, PressIsThere
    <2>2. Codes(Windows, press) = press.csi
        BY <1>1 DEF Codes
    <2>3. press.csi[1] = 27
        BY <1>1, <1>2, <2>1, <2>2
    <2>4. Len(press.csi) = 1
        <3>1. Len(Pending) = 1
            BY <1>1, <1>2
        <3>2. Len(press.csi) \in Nat \ {0} /\ 1 >= Len(press.csi)
            BY <2>1, <2>2, <3>1
        <3>3. \A n \in Nat \ {0} : 1 >= n => n = 1
            OBVIOUS
        <3> QED BY <3>2, <3>3, Zenon
    <2> QED BY <2>1, <2>3, <2>4, EscOrSequence
<1>6. Rightly(TERM_KEY_ESC)
    BY <1>3, <1>5 DEF Rightly
<1> QED BY <1>4, <1>6

(* By the time the bytes behind an Esc are looked at, all of a sequence    *)
(* has been read: either nothing more was there, or seven bytes were.      *)
LEMMA DecodeReports ==
    ASSUME Types, Standing, Chain(Pending, typed, Windows), Decode
    PROVE  \E key : Reports(key) /\ Rightly(key)
<1> DEFINE seq == [i \in 1..Len(read) - 1 |-> read[i + 1].b]
           key == decode_csi(seq)
<1>0. /\ read \in Seq(ByteRecords) /\ queue \in Seq(ByteRecords)
      /\ Len(read) \in Nat /\ Len(queue) \in Nat
    BY LenProperties DEF Types
<1>1. /\ ~Windows /\ read[1].b = 27 /\ Len(read) >= 1
      /\ Return(key, read, TRUE) /\ queue' = queue
      /\ \/ Len(read) > 1 /\ (Len(read) = SeqMax + 1 \/ queue = << >>)
         \/ Len(read) = 1 /\ queue = << >> /\ ~open
    <2>1. Return(key, read, TRUE) /\ queue' = queue
        BY DEF Decode
    <2>2. CASE pc = "drain" /\ (Len(read) - 1 = SeqMax \/ queue = << >>)
        <3>1. ~Windows /\ read[1].b = 27 /\ Len(read) > 1
            BY <2>2 DEF Standing
        <3>2. Len(read) >= 1 /\ (Len(read) - 1 = SeqMax => Len(read) = SeqMax + 1)
            BY <1>0, <3>1 DEF SeqMax
        <3> QED BY <2>1, <2>2, <3>1, <3>2, Zenon
    <2>3. CASE pc = "escape" /\ queue = << >> /\ ~open
        <3>1. ~Windows /\ read[1].b = 27 /\ Len(read) = 1
            BY <2>3 DEF Standing
        <3>2. Len(read) >= 1
            BY <3>1
        <3> QED BY <2>1, <2>3, <3>1, <3>2, Zenon
    <2> QED BY <2>2, <2>3 DEF Decode
<1>2. /\ Pending # << >> /\ Len(Pending) = Len(read) + Len(queue)
      /\ \A j \in 1..Len(read) : Pending[j] = read[j]
    <2>1. read # << >>
        BY <1>0, <1>1, EmptySeq
    <2> QED BY <1>0, <2>1, Joined DEF Pending
<1>3. Pending' = queue
    <2>1. Pending' = << >> \o queue
        BY <1>1 DEF Pending, Return
    <2> QED BY <1>0, <2>1, ConcatEmptySeq
<1>4. read # << >> /\ Pending[1] = read[1]
    BY <1>0, <1>1, <1>2, EmptySeq
<1>5. Reports(key)
    BY <1>1, <1>2, <1>4 DEF Reports, Return
<1>6. seq \in Seq(Byte) /\ Len(seq) = Len(read) - 1
      /\ \A i \in 1..Len(read) - 1 : seq[i] = read[i + 1].b
    <2>1. Len(read) - 1 \in Nat
        BY <1>0, <1>1
    <2>2. \A i \in 1..Len(read) - 1 : read[i + 1].b \in Byte
        <3> SUFFICES ASSUME NEW i \in 1..Len(read) - 1 PROVE read[i + 1].b \in Byte
            OBVIOUS
        <3>1. read[i + 1] \in ByteRecords
            BY <1>0, ElementOfSeq
        <3> QED BY <3>1 DEF ByteRecords
    <2> QED BY <2>1, <2>2
<1> HIDE DEF seq
<1>7. ASSUME Pending[1].i = 1, NEW press, press = typed[Pending[1].n]
      PROVE  /\ press.key # TERM_KEY_ESC => key = press.key
             /\ open /\ Len(Pending) = Len(Codes(Windows, press)) =>
                  key = press.key /\ Pending' = << >>
    <2> DEFINE codes == press.csi
    <2>1. /\ press \in Presses /\ Len(codes) \in Nat \ {0} /\ Len(Pending) >= Len(codes)
          /\ \A d \in 1..Len(codes) : Pending[d].b = codes[d]
          /\ Codes(Windows, press) = codes
        <3>1. Codes(Windows, press) = codes
            BY <1>1 DEF Codes
        <3> HIDE DEF codes
        <3> QED BY <1>2, <1>7, <3>1, PressIsThere
    <2>2. codes[1] = 27
        BY <1>1, <1>4, <2>1
    <2>3. /\ Len(codes) <= SeqMax + 1
          /\ Len(codes) = 1 => press.key = TERM_KEY_ESC
          /\ Len(codes) > 1 => press.key # TERM_KEY_ESC
        <3>1. \A n \in 1..SeqMax + 1 : n <= SeqMax + 1
            BY DEF SeqMax
        <3> QED BY <2>1, <2>2, <3>1, EscOrSequence, Zenon
    <2>4. Len(codes) <= Len(read) /\ (Len(read) > 1 \/ (~open /\ Len(codes) = 1))
        <3> DEFINE l == Len(codes)
        <3>1. l \in Nat \ {0} /\ Len(read) + Len(queue) >= l /\ l <= SeqMax + 1
            BY <1>2, <2>1, <2>3
        <3>2. queue = << >> => Len(queue) = 0
            BY <1>0, EmptySeq
        <3> HIDE DEF l
        <3>3. l <= Len(read) /\ (Len(read) > 1 \/ (~open /\ l = 1))
            BY <1>0, <1>1, <3>1, <3>2
        <3> QED BY <3>3 DEF l
    <2>5. ASSUME Len(codes) > 1 PROVE key = press.key
        <3>1. Len(seq) >= Len(codes) - 1
            BY <1>0, <1>6, <2>1, <2>4
        <3>2. ASSUME NEW j \in 1..Len(codes) - 1 PROVE seq[j] = codes[j + 1]
            <4>1. j \in 1..Len(read) - 1 /\ j + 1 \in 1..Len(codes) /\ j + 1 \in 1..Len(read)
                BY <1>0, <2>1, <2>4
            <4> QED BY <1>2, <1>6, <2>1, <4>1
        <3> QED BY <1>6, <2>1, <2>2, <2>5, <3>1, <3>2, SequenceKey
    <2>6. ASSUME open, Len(Pending) = Len(codes)
          PROVE  Len(codes) > 1 /\ Pending' = << >>
        <3> DEFINE l == Len(codes)
        <3>1. l \in Nat /\ Len(read) + Len(queue) = l /\ l <= Len(read) /\ Len(read) > 1
            BY <1>2, <2>1, <2>4, <2>6
        <3> HIDE DEF l
        <3>2. Len(queue) = 0 /\ l > 1
            BY <1>0, <3>1
        <3> QED BY <1>0, <1>3, <3>2, EmptySeq DEF l
    <2>7. Len(codes) = 1 \/ Len(codes) > 1
        <3>1. \A n \in Nat \ {0} : n = 1 \/ n > 1
            OBVIOUS
        <3> QED BY <2>1, <3>1, Zenon
    <2> HIDE DEF codes, key
    <2> QED BY <2>1, <2>3, <2>5, <2>6, <2>7
<1> HIDE DEF key
<1>8. Rightly(key)
    BY <1>7 DEF Rightly
<1> QED BY <1>5, <1>8

(* A step of a call that reports nothing leaves the bytes as they are, and *)
(* one that does takes them from the front.                                *)
Quiet ==
    /\ Pending' = Pending /\ reported' = reported
    /\ last' = last \/ last'.read = << >>
    /\ UNCHANGED <<setting, typed, sent>>

LEMMA QuietSteps ==
    ASSUME Types, Call \/ TimedOut \/ EndOfInput \/ ReadFirst \/ ReadSeq
    PROVE  Quiet
<1>1. CASE Call
    BY <1>1 DEF Call, Quiet, Pending, user
<1>2. CASE TimedOut \/ EndOfInput
    <2>1. read = << >> /\ read' = read /\ queue' = queue
        BY <1>2 DEF TimedOut, EndOfInput, Return, Types
    <2> QED BY <1>2, <2>1 DEF TimedOut, EndOfInput, Return, Quiet, Pending, user
<1>3. ASSUME NEW next, Take(next), queue # << >> PROVE Quiet
    <2>1. Pending' = Pending
        BY <1>3, Moved DEF Take, Types, Pending
    <2> QED BY <1>3, <2>1 DEF Take, Quiet, user
<1>4. CASE ReadFirst \/ ReadSeq
    BY <1>3, <1>4 DEF ReadFirst, ReadSeq, Ready
<1> QED BY <1>1, <1>2, <1>4

LEMMA ProgramSteps ==
    ASSUME Types, Standing, Program
    PROVE  \/ Quiet
           \/ Chain(Pending, typed, Windows) => \E key : Reports(key) /\ Rightly(key)
BY QuietSteps, PlainReports, PairReports, EscapeReports, DecodeReports DEF Program

LEMMA ChainProgram ==
    ASSUME Types, Program, Chain(Pending, typed, Windows)
    PROVE  Chain(Pending', typed', Windows')
<1>0. /\ read \in Seq(ByteRecords) /\ queue \in Seq(ByteRecords)
      /\ Len(read) \in Nat /\ Len(queue) \in Nat
    BY LenProperties DEF Types
<1>1. /\ Pending \in Seq(ByteRecords) /\ Len(Pending) = Len(read) + Len(queue)
      /\ \A j \in 1..Len(queue) : Pending[Len(read) + j] = queue[j]
    BY <1>0, Joined DEF Pending
<1>2. ASSUME NEW key, NEW bytes, NEW waited, Return(key, bytes, waited),
             queue' = queue \/ (queue # << >> /\ queue' = Tail(queue))
      PROVE  Chain(Pending', typed', Windows')
    <2>1. typed' = typed /\ Windows' = Windows /\ queue' \in Seq(ByteRecords)
        BY <1>0, <1>2, HeadTailProperties DEF Return, setting, user, Windows
    <2>2. Pending' = queue'
        <3>1. Pending' = << >> \o queue'
            BY <1>2 DEF Return, Pending
        <3> QED BY <2>1, <3>1, ConcatEmptySeq
    <2>3. \E m \in 0..Len(Pending) :
              /\ Len(queue') = Len(Pending) - m
              /\ \A j \in 1..Len(queue') : queue'[j] = Pending[j + m]
        <3>1. CASE queue' = queue
            <4>1. Len(read) \in 0..Len(Pending) /\ Len(queue) = Len(Pending) - Len(read)
                BY <1>0, <1>1
            <4>2. \A j \in 1..Len(queue) : queue[j] = Pending[j + Len(read)]
                BY <1>0, <1>1
            <4> QED BY <3>1, <4>1, <4>2
        <3>2. CASE queue # << >> /\ queue' = Tail(queue)
            <4>1. /\ Len(queue') = Len(queue) - 1 /\ Len(queue) > 0
                  /\ \A j \in 1..Len(queue') : queue'[j] = queue[j + 1]
                BY <1>0, <3>2, HeadTailProperties, EmptySeq
            <4>2. Len(read) + 1 \in 0..Len(Pending)
                  /\ Len(queue') = Len(Pending) - (Len(read) + 1)
                BY <1>0, <1>1, <4>1
            <4>3. ASSUME NEW j \in 1..Len(queue') PROVE queue'[j] = Pending[j + (Len(read) + 1)]
                <5>1. j + 1 \in 1..Len(queue) /\ Len(read) + (j + 1) = j + (Len(read) + 1)
                    BY <1>0, <4>1
                <5> QED BY <1>1, <4>1, <5>1
            <4> QED BY <4>2, <4>3
        <3> QED BY <1>2, <3>1, <3>2
    <2> QED BY <1>1, <2>1, <2>2, <2>3, ChainRest
<1>3. CASE Call \/ TimedOut \/ EndOfInput \/ ReadFirst \/ ReadSeq
    <2>1. Pending' = Pending /\ typed' = typed /\ Windows' = Windows
        BY <1>3, QuietSteps DEF Quiet, setting, Windows
    <2> QED BY <2>1
<1>4. CASE ReadPlain \/ ReadPair \/ EscapeAlone \/ Decode
    BY <1>2, <1>4 DEF ReadPlain, ReadPair, EscapeAlone, Decode, Ready
<1> QED BY <1>3, <1>4 DEF Program

-----------------------------------------------------------------------------
(* No key is mistaken for another. *)

(* Before the loop nothing was typed and nothing heard. *)
Unheard ==
    stage # "live" =>
        /\ typed = << >> /\ sent = << >> /\ queue = << >> /\ read = << >>
        /\ reported = << >> /\ last = Nothing

(* Where no byte travels alone, the bytes there are form whole presses,    *)
(* but for the first, which may have been begun.                           *)
WholeInv ==
    link = "whole" =>
        /\ sent = << >>
        /\ Chain(Pending, typed, Windows)
        /\ last.read # << >> => last.read[1].n \in 1..Len(typed)

HeardInv == Standing /\ Unheard /\ WholeInv /\ SpecialKeysSurvive

LEMMA HeardFirst == Init => HeardInv
<1> SUFFICES ASSUME Init PROVE HeardInv
    OBVIOUS
<1>1. /\ pc = "work" /\ last = Nothing /\ typed = << >> /\ sent = << >>
      /\ queue = << >> /\ read = << >> /\ reported = << >>
    BY DEF Init, Begin
<1>2. Pending = << >>
    BY <1>1 DEF Pending
<1>3. Chain(Pending, typed, Windows)
    BY <1>2 DEF Chain
<1>4. last.read = << >>
    BY <1>1 DEF Nothing
<1> QED BY <1>1, <1>3, <1>4 DEF HeardInv, Standing, Unheard, WholeInv, SpecialKeysSurvive

(* What is said of the bytes rests on what is heard, and on the host.      *)
LEMMA HeardStays ==
    ASSUME HeardInv, UNCHANGED <<heard, host>>, stage' # "live" => stage # "live"
    PROVE  HeardInv'
<1>1. Pending' = Pending /\ Windows' = Windows
    BY DEF heard, Pending, Windows
<1> QED BY <1>1 DEF heard, HeardInv, Standing, Unheard, WholeInv, SpecialKeysSurvive

LEMMA HeardPress ==
    ASSUME Types, HeardInv, stage = "live", stage' = stage, NEW p \in Presses, Press(p)
    PROVE  HeardInv'
<1> DEFINE new == Bytes(p, Len(typed) + 1)
<1>1. /\ typed' = Append(typed, p) /\ Len(typed) < MaxPresses
      /\ UNCHANGED <<pc, read, last, link, host>>
    BY DEF Press, setting
<1>2. /\ Len(typed) \in Nat /\ Len(typed') = Len(typed) + 1
      /\ \A i \in 1..Len(typed) : typed'[i] = typed[i]
    BY <1>1, LenProperties, AppendProperties DEF Types
<1>3. Standing' /\ Unheard'
    BY <1>1 DEF HeardInv, Standing, Unheard, Windows
<1>4. ASSUME link = "whole"
      PROVE  /\ sent' = << >>
             /\ Chain(Pending', typed', Windows')
             /\ last.read # << >> => last.read[1].n \in 1..Len(typed')
             /\ SpecialKeysSurvive'
    <2>1. sent = << >> /\ sent' = sent /\ queue' = queue \o new
        BY <1>4 DEF Press, HeardInv, WholeInv
    <2>2. new \in Seq(ByteRecords)
        BY <1>1, <1>2, BytesSent, KeyAssumption
    <2>3. Pending \in Seq(ByteRecords) /\ Pending' = Pending \o new
        <3> HIDE DEF new
        <3>1. read \in Seq(ByteRecords) /\ queue \in Seq(ByteRecords)
            BY DEF Types
        <3>2. (read \o queue) \o new = read \o (queue \o new)
            BY <2>2, <3>1, ConcatAssociative
        <3> QED BY <1>1, <2>1, <3>1, <3>2, Joined DEF Pending
    <2>4. Chain(Pending', typed', Windows')
        <3>1. Chain(Pending, typed, Windows) /\ Windows' = Windows
            BY <1>1, <1>4 DEF HeardInv, WholeInv, Windows
        <3> QED BY <1>1, <2>3, <3>1, ChainPress DEF Types
    <2>5. last.read # << >> => last.read[1].n \in 1..Len(typed)
        BY <1>4 DEF HeardInv, WholeInv
    <2>6. SpecialKeysSurvive'
        BY <1>1, <1>2, <1>4, <2>5 DEF HeardInv, SpecialKeysSurvive
    <2> HIDE DEF new
    <2> QED BY <1>2, <2>1, <2>4, <2>5, <2>6
<1>5. WholeInv'
    BY <1>1, <1>4 DEF WholeInv
<1>6. SpecialKeysSurvive'
    BY <1>1, <1>4 DEF SpecialKeysSurvive
<1> QED BY <1>3, <1>5, <1>6 DEF HeardInv

LEMMA SettingStays ==
    ASSUME Program
    PROVE  UNCHANGED <<setting, user>>
BY DEF Program, Call, TimedOut, EndOfInput, ReadPlain, ReadFirst, ReadPair, EscapeAlone,
    ReadSeq, Decode, Return, Take

LEMMA HeardProgram ==
    ASSUME Types, HeardInv, stage = "live", stage' = stage, Program
    PROVE  HeardInv'
<1>1. Standing'
    BY StandingProgram DEF HeardInv
<1>2. Unheard'
    BY DEF Unheard
<1>3. CASE Quiet
    <2>1. UNCHANGED <<link, typed, sent>> /\ (last' = last \/ last'.read = << >>)
        BY <1>3 DEF Quiet, setting
    <2>2. WholeInv'
        <3> SUFFICES ASSUME link = "whole" PROVE WholeInv'
            BY <2>1 DEF WholeInv
        <3>1. Chain(Pending', typed', Windows')
            BY ChainProgram DEF HeardInv, WholeInv
        <3> QED BY <2>1, <3>1 DEF HeardInv, WholeInv
    <2>3. SpecialKeysSurvive'
        BY <2>1 DEF HeardInv, SpecialKeysSurvive
    <2> QED BY <1>1, <1>2, <2>2, <2>3 DEF HeardInv
<1>4. CASE ~Quiet
    <2>1. link' = link
        BY SettingStays DEF setting
    <2>2. CASE link # "whole"
        BY <1>1, <1>2, <2>1, <2>2 DEF HeardInv, WholeInv, SpecialKeysSurvive
    <2>3. CASE link = "whole"
        <3>1. Chain(Pending, typed, Windows) /\ sent = << >>
            BY <2>3 DEF HeardInv, WholeInv
        <3>2. PICK key : Reports(key) /\ Rightly(key)
            BY <1>4, <3>1, ProgramSteps DEF HeardInv
        <3>3. /\ last'.key = key /\ last'.read[1] = Pending[1] /\ Pending # << >>
              /\ typed' = typed /\ sent' = sent
            BY <3>2 DEF Reports, user
        <3>4. Chain(Pending', typed', Windows')
            BY <3>1, ChainProgram
        <3>5. Pending[1].n \in 1..Len(typed)
            <4>1. Pending \in Seq(ByteRecords)
                BY Joined DEF Types, Pending
            <4>2. 1 \in 1..Len(Pending)
                BY <3>3, <4>1, LenProperties, EmptySeq
            <4> QED BY <3>1, <4>2 DEF Chain
        <3>6. WholeInv'
            BY <3>1, <3>3, <3>4, <3>5 DEF WholeInv
        <3>7. SpecialKeysSurvive'
            BY <3>2, <3>3 DEF SpecialKeysSurvive, Rightly
        <3> QED BY <1>1, <1>2, <3>6, <3>7 DEF HeardInv
    <2> QED BY <2>2, <2>3
<1> QED BY <1>3, <1>4

LEMMA HeardNext == Types /\ HeardInv /\ [Next]_allvars => HeardInv'
<1> SUFFICES ASSUME Types, HeardInv, [Next]_allvars PROVE HeardInv'
    OBVIOUS
<1>1. CASE Starting
    BY <1>1, HostStays, LiveStays, HeardStays DEF Starting
<1>2. CASE UNCHANGED allvars
    BY <1>2, HeardStays DEF allvars, vars, start, heard
<1>3. CASE During(Keyboard)
    <2>1. stage = "live" /\ stage' = stage
        BY <1>3 DEF During, start
    <2>2. CASE \E p \in Presses : Press(p)
        BY <2>1, <2>2, HeardPress
    <2>3. CASE CloseInput
        <3>1. UNCHANGED <<typed, sent, queue, pc, read, last, reported, link, host>>
            BY <2>3 DEF CloseInput, setting
        <3>2. Pending' = Pending /\ Windows' = Windows
            BY <3>1 DEF Pending, Windows
        <3> QED BY <2>1, <3>1, <3>2 DEF HeardInv, Standing, Unheard, WholeInv, SpecialKeysSurvive
    <2> QED BY <1>3, <2>2, <2>3 DEF During, Keyboard
<1>4. CASE During(Deliver)
    <2>1. /\ stage = "live" /\ stage' = stage /\ sent # << >>
          /\ UNCHANGED <<pc, read, last, link, host, typed>>
        BY <1>4 DEF During, start, Deliver, setting, user
    <2>2. link # "whole"
        BY <2>1 DEF HeardInv, WholeInv
    <2> QED BY <2>1, <2>2 DEF HeardInv, Standing, Unheard, WholeInv, SpecialKeysSurvive, Windows
<1>5. CASE During(Program)
    BY <1>5, HeardProgram DEF During, start
<1> QED BY <1>1, <1>2, <1>3, <1>4, <1>5 DEF Next

(* Where the bytes of a key come in one piece, a key is not mistaken       *)
(* because others were typed behind it, on either host and however fast.   *)
THEOREM KeysSurvive == Spec => []SpecialKeysSurvive
<1>1. Init => Types
    BY TypesFirst DEF Init
<1>2. HeardInv => SpecialKeysSurvive
    BY DEF HeardInv
<1> QED BY <1>1, <1>2, TypesNext, HeardFirst, HeardNext, PTL DEF Spec

-----------------------------------------------------------------------------
(* Keys as they were typed. *)

(* A careful user has at most one key under way: all of it is there and    *)
(* nothing else, until it is reported.                                     *)
OneAtATime ==
    Careful =>
        IF Pending = << >>
        THEN Len(reported) = Len(typed)
        ELSE /\ Len(typed) = Len(reported) + 1
             /\ Pending[1].i = 1 /\ Pending[1].n = Len(typed)
             /\ Len(Pending) = Len(Codes(Windows, typed[Len(typed)]))

(* What the abstract keyboard sees of the presses. *)
Keys(presses) == [i \in 1..Len(presses) |-> presses[i].key]

LEMMA KeysAppend ==
    ASSUME NEW presses \in Seq(Presses), NEW p \in Presses
    PROVE  /\ Keys(Append(presses, p)) = Append(Keys(presses), p.key)
           /\ Len(Keys(presses)) = Len(presses)
<1>0. Len(presses) \in Nat
    BY LenProperties
<1>1. /\ Len(Append(presses, p)) = Len(presses) + 1
      /\ \A i \in 1..Len(presses) : Append(presses, p)[i] = presses[i]
      /\ Append(presses, p)[Len(presses) + 1] = p
    BY AppendProperties
<1>2. \A q \in Presses : q.key \in Nat
    BY KeyAssumption
<1>3. Keys(presses) \in Seq(Nat) /\ Len(Keys(presses)) = Len(presses)
    <2>1. \A i \in 1..Len(presses) : presses[i].key \in Nat
        BY <1>2, ElementOfSeq
    <2> QED BY <1>0, <2>1 DEF Keys
<1>4. Keys(Append(presses, p)) \in Seq(Nat)
    <2>1. Append(presses, p) \in Seq(Presses)
        BY AppendProperties
    <2>2. \A i \in 1..Len(Append(presses, p)) : Append(presses, p)[i].key \in Nat
        BY <1>2, <2>1, ElementOfSeq
    <2>3. Len(Append(presses, p)) \in Nat
        BY <1>0, <1>1
    <2> QED BY <2>2, <2>3 DEF Keys
<1>5. /\ Append(Keys(presses), p.key) \in Seq(Nat)
      /\ Len(Append(Keys(presses), p.key)) = Len(presses) + 1
      /\ \A i \in 1..Len(presses) : Append(Keys(presses), p.key)[i] = presses[i].key
      /\ Append(Keys(presses), p.key)[Len(presses) + 1] = p.key
    <2>1. p.key \in Nat
        BY <1>2
    <2>2. \A i \in 1..Len(presses) : Keys(presses)[i] = presses[i].key
        BY DEF Keys
    <2> HIDE DEF Keys
    <2> QED BY <1>3, <2>1, <2>2, AppendProperties
<1>6. Len(Keys(Append(presses, p))) = Len(presses) + 1
    BY <1>0, <1>1 DEF Keys
<1>7. ASSUME NEW i \in 1..Len(presses) + 1
      PROVE  Keys(Append(presses, p))[i] = Append(Keys(presses), p.key)[i]
    <2>1. Keys(Append(presses, p))[i] = Append(presses, p)[i].key
        BY <1>1 DEF Keys
    <2>2. i \in 1..Len(presses) \/ i = Len(presses) + 1
        BY <1>0
    <2> QED BY <1>1, <1>5, <2>1, <2>2
<1> QED BY <1>3, <1>4, <1>5, <1>6, <1>7, SeqEqual

(* A step of the key channel, or none, if the user is careful. *)
ChannelStep == [Careful => Channel!Next]_<<typed, reported>>

LEMMA OneFirst == Init => OneAtATime
<1> SUFFICES ASSUME Init PROVE OneAtATime
    OBVIOUS
<1>1. typed = << >> /\ reported = << >> /\ Pending = << >>
    BY DEF Init, Begin, Pending
<1> QED BY <1>1 DEF OneAtATime

LEMMA OneStays ==
    ASSUME OneAtATime, UNCHANGED <<typed, read, queue, reported, host, link, typist, keyboard>>
    PROVE  OneAtATime' /\ ChannelStep
<1>1. Pending' = Pending /\ Windows' = Windows /\ (Careful' <=> Careful)
    BY DEF Pending, Windows, Careful
<1> QED BY <1>1 DEF OneAtATime, ChannelStep

LEMMA OnePress ==
    ASSUME Types, HeardInv, OneAtATime, NEW p \in Presses, Press(p)
    PROVE  OneAtATime' /\ ChannelStep
<1>1. /\ typed' = Append(typed, p) /\ Len(typed) < MaxPresses
      /\ UNCHANGED <<read, reported, link, typist, keyboard, host>>
    BY DEF Press, setting
<1>2. /\ typed \in Seq(Presses) /\ Len(typed) \in Nat /\ Len(typed') = Len(typed) + 1
      /\ typed'[Len(typed)+ 1] = p
    BY <1>1, LenProperties, AppendProperties DEF Types
<1>3. ASSUME Careful PROVE Channel!Next
    <2>1. Keys(typed') = Append(Keys(typed), p.key) /\ reported' = reported
        BY <1>1, <1>2, KeysAppend
    <2> QED BY <2>1 DEF Channel!Next, Channel!Press, Keys
<1>4. ASSUME Careful
      PROVE  /\ Pending' # << >> /\ Len(typed') = Len(reported') + 1
             /\ Pending'[1].i = 1 /\ Pending'[1].n = Len(typed')
             /\ Len(Pending') = Len(Codes(Windows', typed'[Len(typed')]))
    <2> DEFINE new == Bytes(p, Len(typed) + 1)
    <2>1. /\ queue = << >> /\ queue' = queue \o new /\ read = << >>
        BY <1>4 DEF Press, Careful, Types
    <2>2. /\ new \in Seq(ByteRecords) /\ Len(new) = Len(Codes(Windows, p))
          /\ \A i \in 1..Len(Codes(Windows, p)) :
                 new[i] = [b |-> Codes(Windows, p)[i], n |-> Len(typed) + 1, i |-> i]
        <3>1. Len(typed) + 1 \in 1..MaxPresses
            BY <1>1, <1>2, KeyAssumption
        <3> QED BY <3>1, BytesSent
    <2>3. Len(Codes(Windows, p)) \in Nat /\ Len(Codes(Windows, p)) >= 1
        BY CodesAreBytes, LenProperties DEF Windows
    <2> HIDE DEF new
    <2>4. Pending' = new /\ Pending = << >>
        <3>1. << >> \o new = new
            BY <2>2, ConcatEmptySeq
        <3> QED BY <1>1, <2>1, <3>1 DEF Pending
    <2>5. Len(reported) = Len(typed)
        BY <1>4, <2>4 DEF OneAtATime
    <2>6. new # << >> /\ new[1].i = 1 /\ new[1].n = Len(typed) + 1
        <3>1. 1 \in 1..Len(Codes(Windows, p))
            BY <2>3
        <3>2. new # << >>
            BY <2>2, <2>3, EmptySeq
        <3>3. new[1] = [b |-> Codes(Windows, p)[1], n |-> Len(typed) + 1, i |-> 1]
            BY <2>2, <3>1
        <3> QED BY <3>2, <3>3
    <2>7. Windows' = Windows
        BY <1>1 DEF Windows
    <2> QED BY <1>1, <1>2, <2>2, <2>4, <2>5, <2>6, <2>7
<1>5. OneAtATime'
    BY <1>1, <1>4 DEF OneAtATime, Careful
<1> QED BY <1>3, <1>5 DEF ChannelStep

LEMMA OneProgram ==
    ASSUME Types, HeardInv, PaceInv, OneAtATime, Program
    PROVE  OneAtATime' /\ ChannelStep
<1>1. CASE Quiet
    <2>1. /\ Pending' = Pending /\ typed' = typed /\ reported' = reported
          /\ Windows' = Windows /\ (Careful' <=> Careful)
        BY <1>1 DEF Quiet, setting, Windows, Careful
    <2> QED BY <2>1 DEF OneAtATime, ChannelStep
<1>2. CASE ~Quiet
    <2>0. Careful' <=> Careful
        BY SettingStays DEF setting, Careful
    <2>1. CASE ~Careful
        BY <2>0, <2>1 DEF OneAtATime, ChannelStep
    <2>2. CASE Careful
        <3>1. Chain(Pending, typed, Windows)
            BY <2>2 DEF Careful, HeardInv, WholeInv
        <3>2. PICK key : Reports(key) /\ Rightly(key)
            BY <1>2, <3>1, ProgramSteps DEF HeardInv
        <3>3. /\ Pending # << >> /\ reported' = Append(reported, key)
              /\ typed' = typed /\ open
            BY <2>2, <3>2 DEF Reports, user, Careful, PaceInv
        <3>4. /\ Len(typed) = Len(reported) + 1
              /\ Pending[1].i = 1 /\ Pending[1].n = Len(typed)
              /\ Len(Pending) = Len(Codes(Windows, typed[Len(typed)]))
            BY <2>2, <3>3 DEF OneAtATime
        <3>5. key = typed[Len(typed)].key /\ Pending' = << >>
            BY <3>2, <3>3, <3>4 DEF Rightly
        <3>6. key \in Nat /\ Len(reported) \in Nat /\ Len(reported') = Len(reported) + 1
            <4>1. Len(typed) \in 1..Len(typed)
                BY <3>4, LenProperties DEF Types
            <4>2. typed[Len(typed)] \in Presses
                BY <4>1, ElementOfSeq DEF Types
            <4>3. key \in Nat
                BY <3>5, <4>2, KeyAssumption
            <4> QED BY <3>3, <4>3, LenProperties, AppendProperties DEF Types
        <3>7. OneAtATime'
            BY <3>3, <3>4, <3>5, <3>6 DEF OneAtATime
        <3>8. Channel!Report
            <4>1. /\ Len(Keys(typed)) = Len(typed)
                  /\ Keys(typed)[Len(reported) + 1] = key
                <5>1. Len(typed) \in 1..Len(typed)
                    BY <3>4, <3>6
                <5>2. Len(Keys(typed)) = Len(typed)
                    BY <3>4, <3>6 DEF Keys
                <5> QED BY <3>4, <3>5, <5>1, <5>2 DEF Keys
            <4>2. Len(reported) < Len(Keys(typed))
                BY <3>4, <3>6, <4>1
            <4>3. Keys(typed') = Keys(typed)
                BY <3>3
            <4> QED BY <3>3, <4>1, <4>2, <4>3 DEF Channel!Report, Keys
        <3> QED BY <3>7, <3>8 DEF ChannelStep, Channel!Next
    <2> QED BY <2>1, <2>2
<1> QED BY <1>1, <1>2

LEMMA OneNext ==
    Types /\ HeardInv /\ PaceInv /\ OneAtATime /\ [Next]_allvars => OneAtATime' /\ ChannelStep
<1> SUFFICES ASSUME Types, HeardInv, PaceInv, OneAtATime, [Next]_allvars
             PROVE  OneAtATime' /\ ChannelStep
    OBVIOUS
<1>1. CASE Starting
    <2>1. CASE stage = "live"
        <3>1. stage' = stage
            BY <1>1, <2>1, LiveStays
        <3> QED BY <1>1, <2>1, <3>1, HostStays, OneStays DEF Starting, heard
    <2>2. CASE stage # "live"
        <3>1. /\ typed = << >> /\ reported = << >> /\ Pending = << >>
              /\ typed' = typed /\ reported' = reported /\ Pending' = Pending
            BY <1>1, <2>2 DEF Starting, heard, HeardInv, Unheard, Pending
        <3> QED BY <3>1 DEF OneAtATime, ChannelStep
    <2> QED BY <2>1, <2>2
<1>2. CASE UNCHANGED allvars
    BY <1>2, OneStays DEF allvars, vars
<1>3. CASE During(Keyboard)
    <2>1. CASE \E p \in Presses : Press(p)
        BY <2>1, OnePress
    <2>2. CASE CloseInput
        BY <2>2, OneStays DEF CloseInput, setting
    <2> QED BY <1>3, <2>1, <2>2 DEF During, Keyboard
<1>4. CASE During(Deliver)
    <2>1. sent # << >> /\ UNCHANGED <<link, typed, reported>>
        BY <1>4 DEF During, Deliver, setting, user
    <2>2. ~Careful /\ ~Careful'
        BY <2>1 DEF HeardInv, WholeInv, Careful
    <2> QED BY <2>1, <2>2 DEF OneAtATime, ChannelStep
<1>5. CASE During(Program)
    BY <1>5, OneProgram DEF During
<1> QED BY <1>1, <1>2, <1>3, <1>4, <1>5 DEF Next

(* term_poll_key is a key channel to a careful user: each press is         *)
(* reported once, as itself and in its turn, with every keyboard.          *)
THEOREM KeysComeAsTyped == Spec => KeysAsTyped
<1>1. Init => Types /\ Channel!Init
    <2>1. Init => Channel!Init
        <3> SUFFICES ASSUME Init PROVE Channel!Init
            OBVIOUS
        <3>1. typed = << >> /\ reported = << >>
            BY DEF Init, Begin
        <3> QED BY <3>1 DEF Channel!Init
    <2> QED BY <2>1, TypesFirst DEF Init
<1>2. ChannelStep <=> [Careful => Channel!Next]_<<typed, reported>>
    BY DEF ChannelStep
<1> QED BY <1>1, <1>2, TypesNext, StartInvFirst, StartInvNext, PaceFirst, PaceNext,
    HeardFirst, HeardNext, OneFirst, OneNext, PTL DEF Spec, KeysAsTyped
=============================================================================
