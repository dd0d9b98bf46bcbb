--------------------------- MODULE StartupProofs ---------------------------
(***************************************************************************)
(* Proofs about Startup, for every command line and every terminal the     *)
(* program may find: types, one terminal at most, --once, and that each    *)
(* option has the value of the last word that gave it.                     *)
(***************************************************************************)
EXTENDS Startup, FiniteSetTheorems, SequenceTheorems, TLAPS

-----------------------------------------------------------------------------
(* Lemmas on values. *)

Options == [once : BOOLEAN, ascii : BOOLEAN, color : BOOLEAN,
            interval : Int \cup {NaN}, sort_key : 0..3, filter : Seq(Nat)]

(* A copy fits its buffer, terminator included. *)
LEMMA CopyFits ==
    ASSUME NEW text \in Seq(Nat)
    PROVE  /\ util_copy_trunc(text) \in Seq(Nat)
           /\ Len(util_copy_trunc(text)) < FILTER_CAP
<1>1. CASE Len(text) < FILTER_CAP
    BY <1>1 DEF util_copy_trunc
<1>2. CASE ~(Len(text) < FILTER_CAP)
    <2>1. FILTER_CAP - 1 \in 0..Len(text)
        BY <1>2, StartAssumption
    <2>2. util_copy_trunc(text) = SubSeq(text, 1, FILTER_CAP - 1)
        BY <1>2 DEF util_copy_trunc
    <2> QED BY <2>1, <2>2, StartAssumption
<1> QED BY <1>1, <1>2

LEMMA DefaultsAreOptions ==
    Defaults \in Options /\ Len(Defaults.filter) < FILTER_CAP
<1>1. << >> \in Seq(Nat) /\ Len(<< >>) = 0
    OBVIOUS
<1>2. 1000 \in Int \cup {NaN}
    OBVIOUS
<1>3. Defaults \in Options
    BY <1>1, <1>2 DEF Defaults, Options
<1>4. Len(Defaults.filter) = 0
    BY <1>1 DEF Defaults
<1> QED BY <1>3, <1>4, StartAssumption

(* A value leaves options of their type, whatever it says. *)
LEMMA SetKeepsTypes ==
    ASSUME opts \in Options, Len(opts.filter) < FILTER_CAP,
           NEW option \in TwoWords \cup OneWord, NEW value \in Values
    PROVE  Set(option, value) \in Options /\ Len(Set(option, value).filter) < FILTER_CAP
<1>0. value.ms \in Int \cup {NaN} /\ value.text \in Seq(Nat)
    BY DEF Values
<1>1. CASE option \in {"interval", "interval="}
    <2>1. parse_interval(value.ms) \in Int \cup {NaN}
        BY <1>0, StartAssumption DEF parse_interval, LeastInterval, GreatestInterval
    <2>2. Set(option, value) = [opts EXCEPT !.interval = parse_interval(value.ms)]
        BY <1>1 DEF Set
    <2> QED BY <2>1, <2>2 DEF Options
<1>2. CASE option \in {"sort", "sort="}
    <2>1. parse_sort(value.name) \in 0..3
        BY DEF parse_sort
    <2>2. Set(option, value) = [opts EXCEPT !.sort_key = parse_sort(value.name)]
        BY <1>2 DEF Set
    <2> QED BY <2>1, <2>2 DEF Options
<1>3. CASE option \notin {"interval", "interval=", "sort", "sort="}
    <2>1. Set(option, value) = [opts EXCEPT !.filter = util_copy_trunc(value.text)]
        BY <1>3 DEF Set
    <2> QED BY <1>0, <2>1, CopyFits DEF Options
<1> QED BY <1>1, <1>2, <1>3

(* None is a flag.                                                         *)
LEMMA SetKeepsOnce ==
    ASSUME opts \in Options, NEW option, NEW value
    PROVE  Set(option, value).once = opts.once
<1>1. CASE option \in {"interval", "interval="}
    BY <1>1 DEF Set, Options
<1>2. CASE option \in {"sort", "sort="}
    BY <1>2 DEF Set, Options
<1>3. CASE option \notin {"interval", "interval=", "sort", "sort="}
    <2>1. Set(option, value) = [opts EXCEPT !.filter = util_copy_trunc(value.text)]
        BY <1>3 DEF Set
    <2> QED BY <2>1 DEF Options
<1> QED BY <1>1, <1>2, <1>3

-----------------------------------------------------------------------------
(* Lemmas on which words are values. *)

(* The options right before word j that want a value, and j. *)
Run(line, j) == {k \in 1..j : \A m \in k..j - 1 : line[m].is \in TwoWords}

LEMMA RunIsFinite ==
    ASSUME NEW line, NEW j \in Nat
    PROVE  IsFiniteSet(Run(line, j)) /\ Cardinality(Run(line, j)) \in Nat
<1>1. Run(line, j) \subseteq 1..j
    BY DEF Run
<1>2. IsFiniteSet(1..j)
    BY FS_Interval
<1> QED BY <1>1, <1>2, FS_Subset, FS_CardinalityType

(* The first word, and a word behind one that wants nothing, is no value. *)
LEMMA RunBegins ==
    ASSUME NEW line, NEW j \in Nat, j > 0,
           j > 1 => line[j - 1].is \notin TwoWords
    PROVE  ~Valued(line, j)
<1>1. Run(line, j) = {j}
    <2>1. ASSUME NEW k \in Run(line, j) PROVE k = j
        BY <2>1 DEF Run
    <2>2. j \in Run(line, j)
        BY DEF Run
    <2> QED BY <2>1, <2>2
<1>2. Cardinality(Run(line, j)) = 1
    BY <1>1, FS_Singleton
<1>3. Valued(line, j) <=> Cardinality(Run(line, j)) % 2 = 0
    BY DEF Valued, Run
<1>4. 1 % 2 # 0
    OBVIOUS
<1> QED BY <1>2, <1>3, <1>4

(* Behind a word that wants a value the two kinds alternate. *)
LEMMA RunAlternates ==
    ASSUME NEW line, NEW j \in Nat, j > 0, line[j].is \in TwoWords
    PROVE  Valued(line, j + 1) <=> ~Valued(line, j)
<1>1. Run(line, j + 1) = Run(line, j) \cup {j + 1}
    <2>1. ASSUME NEW k \in Run(line, j + 1) PROVE k \in Run(line, j) \cup {j + 1}
        BY <2>1 DEF Run
    <2>2. ASSUME NEW k \in Run(line, j) PROVE k \in Run(line, j + 1)
        <3>1. \A m \in k..j : m \in k..j - 1 \/ m = j
            BY <2>2 DEF Run
        <3> QED BY <2>2, <3>1 DEF Run
    <2>3. j + 1 \in Run(line, j + 1)
        BY DEF Run
    <2> QED BY <2>1, <2>2, <2>3
<1>2. j + 1 \notin Run(line, j)
    BY DEF Run
<1>3. Cardinality(Run(line, j + 1)) = Cardinality(Run(line, j)) + 1
    BY <1>1, <1>2, RunIsFinite, FS_AddElement
<1>4. Valued(line, j) <=> Cardinality(Run(line, j)) % 2 = 0
    BY DEF Valued, Run
<1>5. Valued(line, j + 1) <=> Cardinality(Run(line, j + 1)) % 2 = 0
    BY DEF Valued, Run
<1>6. \A c \in Nat : (c + 1) % 2 = 0 <=> c % 2 # 0
    OBVIOUS
<1> QED BY <1>3, <1>4, <1>5, <1>6, RunIsFinite

-----------------------------------------------------------------------------
(* Types, and one terminal. *)

(* What the types and LaunchOnce rest on: the words are words, and an      *)
(* instance knows whether a terminal was opened before it.                 *)
TInv ==
    /\ TypeOK
    /\ asked \in Argvs /\ no_color \in BOOLEAN
    /\ launches = IF in_term THEN 1 ELSE 0
    /\ pc = "child" => in_term

LEMMA WordIsWord ==
    ASSUME TInv
    PROVE  /\ argv \in Seq(Words)
           /\ \A j \in 1..Len(argv) : argv[j] \in Words
<1>1. asked \in Seq(Words)
    BY StartAssumption DEF TInv
<1>2. << >> \in Seq(Words)
    OBVIOUS
<1>3. argv = asked \/ argv = << >>
    BY DEF TInv, TypeOK
<1>4. argv \in Seq(Words)
    BY <1>1, <1>2, <1>3
<1> QED BY <1>4

LEMMA TypeFacts ==
    ASSUME TInv
    PROVE  /\ Len(argv) \in Nat
           /\ at \in 1..Len(argv) + 1 /\ at \in Nat
           /\ opts \in Options
<1>1. Len(argv) \in Nat
    BY WordIsWord, LenProperties
<1>2. at \in 1..Len(argv) + 1
    BY DEF TInv, TypeOK
<1>3. opts \in Options
    BY DEF TInv, TypeOK, Options
<1> QED BY <1>1, <1>2, <1>3

(* Behind an option that takes a value there is still a next word, or the  *)
(* end.                                                                    *)
LEMMA TwoFurther ==
    ASSUME NEW n \in Nat, NEW j \in 1..n, j + 1 \in 1..n
    PROVE  j + 2 \in 1..n + 1
OBVIOUS

LEMMA TInvInit == Init => TInv
<1> SUFFICES ASSUME Init PROVE TInv
    OBVIOUS
<1>1. Defaults \in Options /\ Len(Defaults.filter) < FILTER_CAP
    BY DefaultsAreOptions
<1>2. asked \in Seq(Words)
    BY StartAssumption DEF Init
<1>3. at \in 1..Len(argv) + 1
    BY <1>2 DEF Init
<1> QED BY <1>1, <1>3 DEF Init, TInv, TypeOK, Options

LEMMA TInvNext == TInv /\ [Next]_vars => TInv'
<1> SUFFICES ASSUME TInv, [Next]_vars PROVE TInv'
    OBVIOUS
<1> USE DEF TInv, TypeOK
<1>0. opts \in Options /\ argv \in Seq(Words) /\ Len(argv) \in Nat
    BY WordIsWord, TypeFacts
<1>1. CASE Flag
    <2>1. opts' \in Options /\ opts'.filter = opts.filter
        BY <1>0, <1>1 DEF Flag, Options
    <2>2. at' \in 1..Len(argv) + 1
        BY <1>0, <1>1 DEF Flag, Looking
    <2> QED BY <1>1, <2>1, <2>2 DEF Flag, world, instance, family, Options
<1>2. CASE Attached
    <2>1. Word \in Words
        BY <1>2, WordIsWord DEF Attached, Looking, Word
    <2>2. opts' \in Options /\ Len(opts'.filter) < FILTER_CAP
        BY <1>0, <1>2, <2>1, SetKeepsTypes DEF Attached, Words
    <2>3. at' \in 1..Len(argv) + 1
        BY <1>0, <1>2 DEF Attached, Looking
    <2> QED BY <1>2, <2>2, <2>3 DEF Attached, world, instance, family, Options
<1>3. CASE Separate
    <2>1. at \in 1..Len(argv) /\ at + 1 \in 1..Len(argv)
        BY <1>0, <1>3 DEF Separate, Looking, Takes
    <2>2. argv[at + 1] \in Words /\ Word.is \in TwoWords
        BY <1>3, <2>1, WordIsWord DEF Separate, Takes
    <2>3. opts' \in Options /\ Len(opts'.filter) < FILTER_CAP
        BY <1>0, <1>3, <2>2, SetKeepsTypes DEF Separate, Words
    <2>4. at' = at + 2
        BY <1>3 DEF Separate, Past
    <2>5. at' \in 1..Len(argv) + 1
        BY <1>0, <2>1, <2>4, TwoFurther
    <2> QED BY <1>3, <2>3, <2>5 DEF Separate, world, instance, family, Options
<1>4. CASE Help
    BY <1>4 DEF Help, Over, world, instance, family
<1>5. CASE Unknown
    BY <1>5 DEF Unknown, Over, world, instance, family
<1>6. CASE OptionsRead
    <2>1. opts' \in Options /\ opts'.filter = opts.filter
        BY <1>0, <1>6 DEF OptionsRead, Options
    <2> QED BY <1>6, <2>1 DEF OptionsRead, world, instance, family, Options
<1>7. CASE Proceed
    BY <1>7 DEF Proceed, world, instance, family
<1>8. CASE Fork
    BY <1>8 DEF Fork, MayLaunch, world
<1>9. CASE ParentReturns
    BY <1>9 DEF ParentReturns, world, instance
<1>10. CASE NotLaunched
    BY <1>10 DEF NotLaunched, Over, world, instance, family
<1>11. CASE Relaunch
    <2> QED BY <1>11, DefaultsAreOptions DEF Relaunch, world, family, Options
<1>12. CASE NoTerminal
    BY <1>12 DEF NoTerminal, Over, world, instance, family
<1>13. CASE Prime
    BY <1>13 DEF Prime, Over, world, instance, family
<1>14. CASE Enter
    BY <1>14 DEF Enter, Over, world, instance, family
<1>15. CASE UNCHANGED vars
    <2>1. TypeOK'
        BY <1>15 DEF vars
    <2>2. UNCHANGED <<asked, no_color, launches, in_term, pc>>
        BY <1>15 DEF vars
    <2> QED BY <2>1, <2>2
<1> QED
    BY <1>1, <1>2, <1>3, <1>4, <1>5, <1>6, <1>7, <1>8, <1>9, <1>10, <1>11,
       <1>12, <1>13, <1>14, <1>15 DEF Next

(* The options and the instance keep their types, and the filter its       *)
(* buffer, for every command line.                                         *)
THEOREM TypeCorrect == Spec => []TypeOK
<1>1. TInv => TypeOK
    BY DEF TInv
<1> QED BY <1>1, TInvInit, TInvNext, PTL DEF Spec

(* At most one terminal is opened for one start, whatever the terminal     *)
(* gives the instance in it.                                               *)
THEOREM OneTerminal == Spec => []LaunchOnce
<1>1. TInv => LaunchOnce
    <2> SUFFICES ASSUME TInv PROVE LaunchOnce
        OBVIOUS
    <2>1. CASE in_term
        BY <2>1 DEF TInv, LaunchOnce
    <2>2. CASE ~in_term
        BY <2>2 DEF TInv, LaunchOnce
    <2> QED BY <2>1, <2>2
<1> QED BY <1>1, TInvInit, TInvNext, PTL DEF Spec

-----------------------------------------------------------------------------
(* --once. *)

(* Between two words the program stands before one that is no value, and   *)
(* it has heeded every --once it has passed.  So it is never detached, and *)
(* never runs without the words it was given.                              *)
OnceInv ==
    /\ launches = 0 => argv = asked
    /\ pc = "options" /\ at <= Len(argv) => ~Valued(argv, at)
    /\ pc \notin {"options", "over"} => at > Len(argv)
    /\ \A j \in Wanted(argv) : j < at /\ argv[j].is = "once" => opts.once
    /\ Says(asked, "once") => launches = 0 /\ pc \notin {"detached", "child", "live"}

(* Whoever has read all the words knows whether --once was among them.     *)
LEMMA OnceHeeded ==
    ASSUME TInv, OnceInv, pc \notin {"options", "over"}, ~opts.once
    PROVE  ~Says(asked, "once")
<1> SUFFICES ASSUME Says(asked, "once") PROVE FALSE
    OBVIOUS
<1>1. argv = asked /\ at > Len(argv)
    BY DEF OnceInv
<1>2. PICK j \in Wanted(argv) : argv[j].is = "once"
    BY <1>1 DEF Says
<1>3. j \in 1..Len(argv) /\ Len(argv) \in Nat /\ at \in Int
    BY TypeFacts DEF Wanted
<1>4. j < at
    BY <1>1, <1>3
<1> QED BY <1>2, <1>4 DEF OnceInv

LEMMA OnceInit == Init => OnceInv
<1> SUFFICES ASSUME Init PROVE OnceInv
    OBVIOUS
<1>1. ~Valued(argv, 1)
    BY RunBegins
<1>2. \A j \in Wanted(argv) : ~(j < at)
    BY DEF Init, Wanted
<1> QED BY <1>1, <1>2 DEF Init, OnceInv

LEMMA OnceNext == TInv /\ OnceInv /\ [Next]_vars => OnceInv'
<1> SUFFICES ASSUME TInv, OnceInv, [Next]_vars PROVE OnceInv'
    OBVIOUS
<1>0. Len(argv) \in Nat /\ at \in 1..Len(argv) + 1 /\ at \in Nat /\ opts \in Options
    BY TypeFacts
<1>1. CASE Flag
    <2>1. argv' = argv /\ asked' = asked /\ launches' = launches /\ pc' = pc
        BY <1>1 DEF Flag, world, instance, family
    <2>2. at' = at + 1 /\ at <= Len(argv) /\ pc = "options"
        BY <1>1 DEF Flag, Looking
    <2>3. argv[at].is \notin TwoWords
        BY <1>1 DEF Flag, Word, TwoWords
    <2>4. ~Valued(argv, at + 1)
        BY <1>0, <2>3, RunBegins
    <2>5. argv[at].is = "once" \/ opts.once => opts'.once
        BY <1>0, <1>1 DEF Flag, Word, Options
    <2>6. \A j \in Wanted(argv) : j < at + 1 => j < at \/ j = at
        BY <1>0 DEF Wanted
    <2>7. \A j \in Wanted(argv) : j < at + 1 /\ argv[j].is = "once" => opts'.once
        BY <2>5, <2>6 DEF OnceInv
    <2> QED BY <2>1, <2>2, <2>4, <2>7 DEF OnceInv, Says, Wanted
<1>2. CASE Attached
    <2>1. argv' = argv /\ asked' = asked /\ launches' = launches /\ pc' = pc
        BY <1>2 DEF Attached, world, instance, family
    <2>2. at' = at + 1 /\ at <= Len(argv) /\ pc = "options"
        BY <1>2 DEF Attached, Looking
    <2>3. argv[at].is \notin TwoWords /\ argv[at].is # "once"
        BY <1>2 DEF Attached, Word, OneWord, TwoWords
    <2>4. ~Valued(argv, at + 1)
        BY <1>0, <2>3, RunBegins
    <2>5. opts'.once = opts.once
        BY <1>0, <1>2, SetKeepsOnce DEF Attached
    <2>6. \A j \in Wanted(argv) : j < at + 1 => j < at \/ j = at
        BY <1>0 DEF Wanted
    <2>7. \A j \in Wanted(argv) : j < at + 1 /\ argv[j].is = "once" => opts'.once
        BY <2>3, <2>5, <2>6 DEF OnceInv
    <2> QED BY <2>1, <2>2, <2>4, <2>7 DEF OnceInv, Says, Wanted
<1>3. CASE Separate
    <2>1. argv' = argv /\ asked' = asked /\ launches' = launches /\ pc' = pc
        BY <1>3 DEF Separate, world, instance, family
    <2>2. at' = at + 2 /\ at <= Len(argv) /\ pc = "options"
        BY <1>3 DEF Separate, Past, Looking
    <2>3. argv[at].is \in TwoWords /\ argv[at].is # "once"
        BY <1>3 DEF Separate, Takes, Word, TwoWords
    <2>4. Valued(argv, at + 1)
        BY <1>0, <2>2, <2>3, RunAlternates DEF OnceInv
    <2>5. ~Valued(argv, at + 2)
        <3>1. (at + 1) + 1 = at + 2 /\ (at + 2) - 1 = at + 1
            BY <1>0
        <3>2. CASE argv[at + 1].is \in TwoWords
            BY <1>0, <2>4, <3>1, <3>2, RunAlternates
        <3>3. CASE argv[at + 1].is \notin TwoWords
            BY <1>0, <3>1, <3>3, RunBegins
        <3> QED BY <3>2, <3>3
    <2>6. opts'.once = opts.once
        BY <1>0, <1>3, SetKeepsOnce DEF Separate
    <2>7. \A j \in Wanted(argv) : j < at + 2 => j < at \/ j = at \/ j = at + 1
        BY <1>0 DEF Wanted
    <2>8. at + 1 \notin Wanted(argv)
        BY <2>4 DEF Wanted
    <2>9. \A j \in Wanted(argv) : j < at + 2 /\ argv[j].is = "once" => opts'.once
        BY <2>3, <2>6, <2>7, <2>8 DEF OnceInv
    <2> QED BY <2>1, <2>2, <2>5, <2>9 DEF OnceInv, Says, Wanted
<1>4. CASE Help \/ Unknown \/ NotLaunched \/ Prime
    <2>1. UNCHANGED <<argv, asked, launches, at, opts>>
        BY <1>4 DEF Help, Unknown, NotLaunched, Prime, world, instance, family
    <2>2. pc' = "over" \/ (pc = "init" /\ pc' = "primed")
        BY <1>4 DEF Help, Unknown, NotLaunched, Prime, Over
    <2> QED BY <2>1, <2>2 DEF OnceInv, Says, Wanted
<1>5. CASE OptionsRead
    <2>1. UNCHANGED <<argv, asked, launches, at>>
        BY <1>5 DEF OptionsRead, world, instance, family
    <2>2. opts'.once = opts.once
        BY <1>0, <1>5 DEF OptionsRead, Options
    <2>3. pc' = "options read" /\ at > Len(argv)
        BY <1>5 DEF OptionsRead
    <2> QED BY <2>1, <2>2, <2>3 DEF OnceInv, Says, Wanted
<1>6. CASE Proceed
    <2>1. UNCHANGED <<argv, asked, launches, at, opts>>
        BY <1>6 DEF Proceed, world, instance, family
    <2>2. pc = "options read" /\ pc' \in {"detached", "init"}
        BY <1>6 DEF Proceed
    <2>3. pc' = "detached" => ~opts.once
        BY <1>6 DEF Proceed, Detached
    <2>4. pc' = "detached" => ~Says(asked, "once")
        BY <2>2, <2>3, OnceHeeded
    <2> QED BY <2>1, <2>2, <2>4 DEF OnceInv, Says, Wanted
<1>7. CASE Fork
    <2>1. UNCHANGED <<argv, asked, at, opts>>
        BY <1>7 DEF Fork, world
    <2>2. pc = "detached" /\ pc' = "child" /\ launches' = launches + 1
        BY <1>7 DEF Fork, MayLaunch
    <2>3. launches' # 0
        BY <2>2 DEF TInv, TypeOK
    <2> QED BY <2>1, <2>2, <2>3 DEF OnceInv, Says, Wanted
<1>8. CASE ParentReturns
    <2>1. UNCHANGED <<argv, asked, launches, at, opts, pc>>
        BY <1>8 DEF ParentReturns, world, instance
    <2> QED BY <2>1 DEF OnceInv, Says, Wanted
<1>9. CASE Relaunch
    <2>1. asked' = asked /\ launches' = launches /\ argv' = << >> /\ at' = 1
        BY <1>9 DEF Relaunch, world, family
    <2>2. pc = "child" /\ pc' = "options"
        BY <1>9 DEF Relaunch
    <2>3. launches' # 0
        BY <2>1, <2>2 DEF TInv
    <2>4. Wanted(argv') = {} /\ ~(at' <= Len(argv'))
        BY <2>1 DEF Wanted
    <2> QED BY <2>1, <2>2, <2>3, <2>4 DEF OnceInv, Says, Wanted
<1>10. CASE NoTerminal \/ Enter
    <2>1. UNCHANGED <<argv, asked, launches, at, opts>>
        BY <1>10 DEF NoTerminal, Enter, world, instance, family
    <2>2. pc' = "over" \/ (pc = "primed" /\ pc' = "live" /\ ~opts.once)
        BY <1>10 DEF NoTerminal, Enter, Over, Live
    <2>3. pc' = "live" => ~Says(asked, "once")
        BY <2>2, OnceHeeded
    <2> QED BY <2>1, <2>2, <2>3 DEF OnceInv, Says, Wanted
<1>11. CASE UNCHANGED vars
    <2>1. UNCHANGED <<argv, asked, launches, at, opts, pc>>
        BY <1>11 DEF vars
    <2> QED BY <2>1 DEF OnceInv, Says, Wanted
<1> QED
    BY <1>1, <1>2, <1>3, <1>4, <1>5, <1>6, <1>7, <1>8, <1>9, <1>10, <1>11 DEF Next

(* A program that was asked for one snapshot opens no terminal and never   *)
(* enters the live loop.                                                   *)
THEOREM OnceNeverLaunches == Spec => []OncePrints
<1>1. OnceInv => OncePrints
    BY DEF OnceInv, OncePrints
<1> QED BY <1>1, TInvInit, TInvNext, OnceInit, OnceNext, PTL DEF Spec
-----------------------------------------------------------------------------
(* The options are those of the command line. *)

(* The words of a line before word n that give an option a value.          *)
GivenBefore(line, n, option, attached) ==
    {j \in Wanted(line) : j < n /\ line[j].is \in {option, attached}}

(* What the words before n have said.                                      *)
ValueBefore(line, n, option, attached, field, default) ==
    LastGiven(line, GivenBefore(line, n, option, attached), option, field, default)

SaidBefore(line, n, is) == \E j \in Wanted(line) : j < n /\ line[j].is = is

(* The words before n are heeded, each as what it is, and so is NO_COLOR   *)
(* where it is quiet.                                                      *)
HeededIn(line, n, o, quiet) ==
    /\ \A j \in Stops(line) : n <= j
    /\ o.once <=> SaidBefore(line, n, "once")
    /\ o.ascii <=> SaidBefore(line, n, "ascii")
    /\ o.color <=> ~(SaidBefore(line, n, "no-color") \/ quiet)
    /\ o.interval = parse_interval(ValueBefore(line, n, "interval", "interval=", "ms", 1000))
    /\ o.sort_key = parse_sort(ValueBefore(line, n, "sort", "sort=", "name", "cpu"))
    /\ o.filter = util_copy_trunc(ValueBefore(line, n, "filter", "filter=", "text", << >>))

(* What the words before n say are values.                                 *)
ValuesIn(line, n) ==
    /\ ValueBefore(line, n, "interval", "interval=", "ms", 1000) \in Int \cup {NaN}
    /\ ValueBefore(line, n, "filter", "filter=", "text", << >>) \in Seq(Nat)

Heeded == HeededIn(argv, at, opts, pc # "options" /\ no_color)

(* A line that was read to its end was accepted, and the status says so.   *)
GivenInv ==
    /\ pc # "over" => Heeded /\ ValuesIn(argv, at)
    /\ launches = 1 => Accepted(asked)
    /\ returning => launches = 1
    /\ pc # "over" \/ launches = 1 => status # 2
    /\ pc = "over" =>
         (status = 2 <=> (~Accepted(asked) /\ asked[FirstStop(asked)].is # "help"))

(* The word n is passed on the way to m, and no other word.                *)
Passes(line, n, m) ==
    /\ n \in Wanted(line) /\ n \in Nat /\ m \in Nat /\ n < m
    /\ \A j \in Wanted(line) : j < m => j < n \/ j = n

LEMMA PassSaid ==
    ASSUME NEW line, NEW n, NEW m, NEW is, Passes(line, n, m)
    PROVE  SaidBefore(line, m, is) <=> SaidBefore(line, n, is) \/ line[n].is = is
<1>1. \A j \in Wanted(line) : j \in Nat
    BY DEF Wanted
<1> QED BY <1>1 DEF Passes, SaidBefore

(* A word that is another option leaves a value as it was, ...             *)
LEMMA PassOther ==
    ASSUME NEW line, NEW n, NEW m, NEW option, NEW attached, NEW field, NEW default,
           Passes(line, n, m), line[n].is \notin {option, attached}
    PROVE  ValueBefore(line, m, option, attached, field, default) =
           ValueBefore(line, n, option, attached, field, default)
<1>1. \A j \in Wanted(line) : j \in Nat
    BY DEF Wanted
<1>2. ASSUME NEW j \in Wanted(line)
      PROVE  j < m /\ line[j].is \in {option, attached} <=>
             j < n /\ line[j].is \in {option, attached}
    <2>1. j < m <=> j < n \/ j = n
        BY <1>1 DEF Passes
    <2> QED BY <2>1
<1>3. GivenBefore(line, m, option, attached) = GivenBefore(line, n, option, attached)
    BY <1>2 DEF GivenBefore
<1> QED BY <1>3 DEF ValueBefore

(* ... and one that is this option gives the last so far.                  *)
LEMMA PassGiven ==
    ASSUME NEW line, NEW n, NEW m, NEW option, NEW attached, NEW field, NEW default,
           Passes(line, n, m), line[n].is \in {option, attached}
    PROVE  ValueBefore(line, m, option, attached, field, default) =
             IF line[n].is = option THEN line[n + 1].whole[field] ELSE line[n].part[field]
<1> DEFINE G == GivenBefore(line, m, option, attached)
           j == CHOOSE k \in G : \A i \in G : i <= k
<1>1. \A k \in Wanted(line) : k \in Nat
    BY DEF Wanted
<1>2. n \in G /\ \A i \in G : i \in Nat /\ i <= n
    BY <1>1 DEF Passes, GivenBefore
<1> HIDE DEF G
<1>3. j \in G /\ \A i \in G : i <= j
    BY <1>2
<1>4. j = n
    BY <1>2, <1>3
<1> QED BY <1>2, <1>4 DEF ValueBefore, LastGiven, G

LEMMA PassValues ==
    ASSUME NEW line, NEW n, NEW m, Passes(line, n, m), ValuesIn(line, n),
           line[n].is \in OneWord => line[n].part \in Values,
           line[n].is \in TwoWords => line[n + 1].whole \in Values
    PROVE  ValuesIn(line, m)
<1>1. ASSUME NEW value \in Values
      PROVE  value["ms"] \in Int \cup {NaN} /\ value["text"] \in Seq(Nat)
    BY DEF Values
<1>2. ValueBefore(line, m, "interval", "interval=", "ms", 1000) \in Int \cup {NaN}
    <2>1. CASE line[n].is = "interval"
        BY <1>1, <2>1, PassGiven DEF TwoWords
    <2>2. CASE line[n].is = "interval="
        BY <1>1, <2>2, PassGiven DEF OneWord
    <2>3. CASE line[n].is \notin {"interval", "interval="}
        BY <2>3, PassOther DEF ValuesIn
    <2> QED BY <2>1, <2>2, <2>3
<1>3. ValueBefore(line, m, "filter", "filter=", "text", << >>) \in Seq(Nat)
    <2>1. CASE line[n].is = "filter"
        BY <1>1, <2>1, PassGiven DEF TwoWords
    <2>2. CASE line[n].is = "filter="
        BY <1>1, <2>2, PassGiven DEF OneWord
    <2>3. CASE line[n].is \notin {"filter", "filter="}
        BY <2>3, PassOther DEF ValuesIn
    <2> QED BY <2>1, <2>2, <2>3
<1> QED BY <1>2, <1>3 DEF ValuesIn

(* What setting a value leaves of the options.                             *)
LEMMA SetSets ==
    ASSUME opts \in Options, NEW option \in TwoWords \cup OneWord, NEW value
    PROVE  /\ Set(option, value).once = opts.once
           /\ Set(option, value).ascii = opts.ascii
           /\ Set(option, value).color = opts.color
           /\ Set(option, value).interval =
                IF option \in {"interval", "interval="} THEN parse_interval(value.ms)
                                                        ELSE opts.interval
           /\ Set(option, value).sort_key =
                IF option \in {"sort", "sort="} THEN parse_sort(value.name)
                                                ELSE opts.sort_key
           /\ Set(option, value).filter =
                IF option \in {"filter", "filter="} THEN util_copy_trunc(value.text)
                                                    ELSE opts.filter
<1>1. CASE option \in {"interval", "interval="}
    BY <1>1 DEF Set, Options
<1>2. CASE option \in {"sort", "sort="}
    BY <1>2 DEF Set, Options
<1>3. CASE option \in {"filter", "filter="}
    <2>1. Set(option, value) = [opts EXCEPT !.filter = util_copy_trunc(value.text)]
        BY <1>3 DEF Set
    <2> QED BY <1>3, <2>1 DEF Options
<1> QED BY <1>1, <1>2, <1>3 DEF TwoWords, OneWord

(* Before the first word everything is as it is without options.           *)
LEMMA HeededAtFirst ==
    ASSUME NEW line, NEW n, \A j \in Wanted(line) : ~(j < n),
           \A j \in Stops(line) : n <= j
    PROVE  HeededIn(line, n, Defaults, FALSE)
<1>1. \A option, attached : GivenBefore(line, n, option, attached) = {}
    BY DEF GivenBefore
<1>2. /\ ValueBefore(line, n, "interval", "interval=", "ms", 1000) = 1000
      /\ ValueBefore(line, n, "sort", "sort=", "name", "cpu") = "cpu"
      /\ ValueBefore(line, n, "filter", "filter=", "text", << >>) = << >>
    <2>1. ASSUME NEW option, NEW attached, NEW field, NEW default
          PROVE  ValueBefore(line, n, option, attached, field, default) = default
        <3>1. GivenBefore(line, n, option, attached) = {}
            BY <1>1
        <3>2. LastGiven(line, {}, option, field, default) = default
            BY DEF LastGiven
        <3> QED BY <3>1, <3>2 DEF ValueBefore
    <2> QED BY <2>1
<1>3. parse_interval(1000) = 1000 /\ parse_sort("cpu") = 0
    BY DEF parse_interval, parse_sort, LeastInterval, GreatestInterval
<1>4. util_copy_trunc(<< >>) = << >>
    BY StartAssumption DEF util_copy_trunc
<1>5. \A is : ~SaidBefore(line, n, is)
    BY DEF SaidBefore
<1> QED BY <1>2, <1>3, <1>4, <1>5 DEF HeededIn, Defaults

LEMMA ValuesAtFirst ==
    ASSUME NEW line, NEW n, \A j \in Wanted(line) : ~(j < n)
    PROVE  ValuesIn(line, n)
<1>1. ASSUME NEW option, NEW attached, NEW field, NEW default
      PROVE  ValueBefore(line, n, option, attached, field, default) = default
    <2>1. GivenBefore(line, n, option, attached) = {}
        BY DEF GivenBefore
    <2>2. LastGiven(line, {}, option, field, default) = default
        BY DEF LastGiven
    <2> QED BY <2>1, <2>2 DEF ValueBefore
<1>2. 1000 \in Int \cup {NaN} /\ << >> \in Seq(Nat)
    OBVIOUS
<1>3. ValueBefore(line, n, "interval", "interval=", "ms", 1000) = 1000
    BY <1>1
<1>4. ValueBefore(line, n, "filter", "filter=", "text", << >>) = << >>
    BY <1>1
<1>5. ValueBefore(line, n, "interval", "interval=", "ms", 1000) \in Int \cup {NaN}
    BY <1>3, SMT
<1>6. ValueBefore(line, n, "filter", "filter=", "text", << >>) \in Seq(Nat)
    BY <1>2, <1>4, Zenon
<1> QED BY <1>5, <1>6, Zenon DEF ValuesIn

(* A flag that is passed is heeded.                                        *)
LEMMA HeededFlag ==
    ASSUME NEW line, NEW n, NEW m, NEW o \in Options, HeededIn(line, n, o, FALSE),
           Passes(line, n, m), n \notin Stops(line),
           line[n].is \in {"once", "ascii", "no-color"}
    PROVE  HeededIn(line, m,
               CASE line[n].is = "once"  -> [o EXCEPT !.once = TRUE]
                 [] line[n].is = "ascii" -> [o EXCEPT !.ascii = TRUE]
                 [] OTHER                -> [o EXCEPT !.color = FALSE], FALSE)
<1> DEFINE q == CASE line[n].is = "once"  -> [o EXCEPT !.once = TRUE]
                  [] line[n].is = "ascii" -> [o EXCEPT !.ascii = TRUE]
                  [] OTHER                -> [o EXCEPT !.color = FALSE]
<1>1. \A j \in Stops(line) : m <= j
    BY DEF HeededIn, Passes, Stops, Wanted
<1>2. /\ q.interval = o.interval /\ q.sort_key = o.sort_key /\ q.filter = o.filter
      /\ q.once <=> o.once \/ line[n].is = "once"
      /\ q.ascii <=> o.ascii \/ line[n].is = "ascii"
      /\ q.color <=> o.color /\ line[n].is # "no-color"
    BY DEF Options
<1> HIDE DEF q
<1>3. \A is : SaidBefore(line, m, is) <=> SaidBefore(line, n, is) \/ line[n].is = is
    BY PassSaid
<1>4. /\ ValueBefore(line, m, "interval", "interval=", "ms", 1000) =
         ValueBefore(line, n, "interval", "interval=", "ms", 1000)
      /\ ValueBefore(line, m, "sort", "sort=", "name", "cpu") =
         ValueBefore(line, n, "sort", "sort=", "name", "cpu")
      /\ ValueBefore(line, m, "filter", "filter=", "text", << >>) =
         ValueBefore(line, n, "filter", "filter=", "text", << >>)
    BY PassOther
<1>5. HeededIn(line, m, q, FALSE)
    BY <1>1, <1>2, <1>3, <1>4 DEF HeededIn
<1> QED BY <1>5 DEF q

(* A word that is passed with its value is heeded.                         *)
LEMMA HeededSet ==
    ASSUME opts \in Options, HeededIn(argv, at, opts, FALSE), NEW n,
           Passes(argv, at, n), argv[at].is \in TwoWords \cup OneWord, NEW value,
           value = IF argv[at].is \in TwoWords THEN argv[at + 1].whole ELSE argv[at].part,
           at \notin Stops(argv)
    PROVE  HeededIn(argv, n, Set(argv[at].is, value), FALSE)
<1> DEFINE o == Set(argv[at].is, value)
<1>1. \A j \in Stops(argv) : n <= j
    BY DEF HeededIn, Passes, Stops, Wanted
<1>2. /\ o.once = opts.once /\ o.ascii = opts.ascii /\ o.color = opts.color
      /\ o.interval = IF argv[at].is \in {"interval", "interval="}
                          THEN parse_interval(value.ms) ELSE opts.interval
      /\ o.sort_key = IF argv[at].is \in {"sort", "sort="}
                          THEN parse_sort(value.name) ELSE opts.sort_key
      /\ o.filter = IF argv[at].is \in {"filter", "filter="}
                        THEN util_copy_trunc(value.text) ELSE opts.filter
    BY SetSets
<1>3. /\ SaidBefore(argv, n, "once") <=> SaidBefore(argv, at, "once")
      /\ SaidBefore(argv, n, "ascii") <=> SaidBefore(argv, at, "ascii")
      /\ SaidBefore(argv, n, "no-color") <=> SaidBefore(argv, at, "no-color")
    BY PassSaid DEF TwoWords, OneWord
<1>4. o.interval =
        parse_interval(ValueBefore(argv, n, "interval", "interval=", "ms", 1000))
    <2>1. CASE argv[at].is \in {"interval", "interval="}
        <3>1. ValueBefore(argv, n, "interval", "interval=", "ms", 1000) = value["ms"]
            BY <2>1, PassGiven DEF TwoWords
        <3> QED BY <1>2, <2>1, <3>1
    <2>2. CASE argv[at].is \notin {"interval", "interval="}
        BY <1>2, <2>2, PassOther DEF HeededIn
    <2> QED BY <2>1, <2>2
<1>5. o.sort_key =
        parse_sort(ValueBefore(argv, n, "sort", "sort=", "name", "cpu"))
    <2>1. CASE argv[at].is \in {"sort", "sort="}
        <3>1. ValueBefore(argv, n, "sort", "sort=", "name", "cpu") = value["name"]
            BY <2>1, PassGiven DEF TwoWords
        <3> QED BY <1>2, <2>1, <3>1
    <2>2. CASE argv[at].is \notin {"sort", "sort="}
        BY <1>2, <2>2, PassOther DEF HeededIn
    <2> QED BY <2>1, <2>2
<1>6. o.filter =
        util_copy_trunc(ValueBefore(argv, n, "filter", "filter=", "text", << >>))
    <2>1. CASE argv[at].is \in {"filter", "filter="}
        <3>1. ValueBefore(argv, n, "filter", "filter=", "text", << >>) = value["text"]
            BY <2>1, PassGiven DEF TwoWords
        <3> QED BY <1>2, <2>1, <3>1
    <2>2. CASE argv[at].is \notin {"filter", "filter="}
        BY <1>2, <2>2, PassOther DEF HeededIn
    <2> QED BY <2>1, <2>2
<1> HIDE DEF o
<1>7. /\ o.once <=> SaidBefore(argv, n, "once")
      /\ o.ascii <=> SaidBefore(argv, n, "ascii")
      /\ o.color <=> ~SaidBefore(argv, n, "no-color")
    BY <1>2, <1>3 DEF HeededIn
<1>8. HeededIn(argv, n, o, FALSE)
    BY <1>1, <1>4, <1>5, <1>6, <1>7 DEF HeededIn
<1> QED BY <1>8 DEF o
(* The word that is looked at is an option, and behind it stands one, or   *)
(* behind its value.                                                       *)
LEMMA WordWanted ==
    ASSUME TInv, OnceInv, Looking
    PROVE  /\ at \in Wanted(argv) /\ at \in Nat /\ at <= Len(argv) /\ Len(argv) \in Nat
           /\ Passes(argv, at, at + 1)
           /\ argv[at].is \in TwoWords => Passes(argv, at, at + 2)
<1>1. /\ at \in Nat /\ at \in 1..Len(argv) + 1 /\ at <= Len(argv) /\ Len(argv) \in Nat
      /\ ~Valued(argv, at)
    BY TypeFacts DEF Looking, OnceInv
<1>2. at \in Wanted(argv)
    BY <1>1 DEF Wanted
<1>3. \A j \in Wanted(argv) : j \in Nat
    BY DEF Wanted
<1>4. Passes(argv, at, at + 1)
    BY <1>1, <1>2, <1>3 DEF Passes
<1>5. ASSUME argv[at].is \in TwoWords PROVE Passes(argv, at, at + 2)
    <2>1. Valued(argv, at + 1)
        BY <1>1, <1>5, RunAlternates
    <2>2. at + 1 \notin Wanted(argv)
        BY <2>1 DEF Wanted
    <2>3. \A j \in Wanted(argv) : j < at + 2 => j < at \/ j = at \/ j = at + 1
        BY <1>1, <1>3
    <2> QED BY <1>1, <1>2, <2>2, <2>3 DEF Passes
<1> QED BY <1>1, <1>2, <1>4, <1>5

(* A line whose words are all heeded is accepted.                          *)
LEMMA ReadIsAccepted ==
    ASSUME TInv, Heeded, at > Len(argv) PROVE Accepted(argv)
<1>1. \A j \in Stops(argv) : j \in Nat /\ j <= Len(argv) /\ at <= j
    BY DEF Heeded, HeededIn, Stops, Wanted
<1>2. Len(argv) \in Nat /\ at \in Nat
    BY TypeFacts
<1> QED BY <1>1, <1>2 DEF Accepted

(* The first word that stops the program is the one at which it stops.     *)
LEMMA StopsAtFirst ==
    ASSUME TInv, Heeded, at \in Stops(argv)
    PROVE  ~Accepted(argv) /\ FirstStop(argv) = at
<1> DEFINE T == Stops(argv)
           f == CHOOSE j \in T : \A k \in T : j <= k
<1>1. at \in T /\ \A k \in T : k \in Nat /\ at <= k
    BY DEF Heeded, HeededIn, Stops, Wanted
<1> HIDE DEF T
<1>2. f \in T /\ \A k \in T : f <= k
    BY <1>1
<1>3. f = at
    BY <1>1, <1>2
<1> QED BY <1>1, <1>3 DEF FirstStop, Accepted, T

LEMMA GivenInit == Init => GivenInv
<1> SUFFICES ASSUME Init PROVE GivenInv
    OBVIOUS
<1>1. \A j \in Wanted(argv) : ~(j < 1)
    BY DEF Wanted
<1>2. \A j \in Stops(argv) : 1 <= j
    BY DEF Wanted, Stops
<1>3. HeededIn(argv, 1, Defaults, FALSE)
    BY <1>1, <1>2, HeededAtFirst
<1>4. (pc # "options" /\ no_color) <=> FALSE
    BY DEF Init
<1>5. Heeded
    BY <1>3, <1>4 DEF Init, Heeded, HeededIn
<1>6. pc = "options" /\ launches = 0 /\ ~returning /\ status = -1
    BY DEF Init
<1>7. ValuesIn(argv, at)
    BY <1>1, ValuesAtFirst DEF Init
<1> QED BY <1>5, <1>6, <1>7 DEF GivenInv

(* An end with the status of what ends it.                                 *)
LEMMA GivenOver ==
    ASSUME TInv, OnceInv, GivenInv, pc # "over", NEW code, Over(code),
           UNCHANGED <<asked, argv, launches, returning>>,
           launches = 0 =>
               (code = 2 <=> (~Accepted(argv) /\ argv[FirstStop(argv)].is # "help"))
    PROVE  GivenInv'
<1>1. pc' = "over" /\ status' = IF launches = 0 THEN code ELSE status
    BY DEF Over
<1>2. CASE launches = 0
    <2>1. argv = asked
        BY <1>2 DEF OnceInv
    <2>2. ~returning
        BY <1>2 DEF GivenInv
    <2> QED BY <1>1, <1>2, <2>1, <2>2 DEF GivenInv, Accepted, FirstStop, Stops, Wanted
<1>3. CASE launches = 1
    BY <1>1, <1>3 DEF GivenInv, Accepted, FirstStop, Stops, Wanted
<1> QED BY <1>2, <1>3 DEF TInv

(* What is read stays read.                                                *)
LEMMA GivenStays ==
    ASSUME GivenInv, UNCHANGED <<asked, argv, at, opts, no_color>>,
           pc # "over", pc' # "over", pc = "options" <=> pc' = "options",
           launches' = 1 => Accepted(asked), returning' => launches' = 1, status' # 2
    PROVE  GivenInv'
<1>1. Heeded' /\ ValuesIn(argv, at)'
    BY DEF GivenInv, Heeded
<1> QED BY <1>1 DEF GivenInv, Accepted, Stops, Wanted
LEMMA GivenNext == TInv /\ OnceInv /\ GivenInv /\ [Next]_vars => GivenInv'
<1> SUFFICES ASSUME TInv, OnceInv, GivenInv, [Next]_vars PROVE GivenInv'
    OBVIOUS
<1>0. opts \in Options /\ (launches = 0 \/ launches = 1)
    BY TypeFacts DEF TInv
<1>a. pc = "options" => HeededIn(argv, at, opts, FALSE) /\ Heeded
    BY DEF GivenInv, Heeded, HeededIn
<1>b. pc \notin {"options", "over"} => Accepted(argv) /\ (launches = 0 => Accepted(asked))
    <2>1. ASSUME pc \notin {"options", "over"} PROVE Accepted(argv)
        BY <2>1, ReadIsAccepted DEF OnceInv, GivenInv
    <2> QED BY <2>1 DEF OnceInv
<1>1. CASE Flag \/ Attached \/ Separate
    <2>0. /\ UNCHANGED <<asked, argv, pc, launches, returning, status, no_color>>
          /\ Looking /\ pc = "options"
        BY <1>1 DEF Flag, Attached, Separate, Looking, world, instance, family
    <2>1. at \notin Stops(argv) /\ Word = argv[at]
        BY <1>1, <2>0, WordWanted DEF Flag, Attached, Separate, Takes, Stops, Word,
                                       OneWord, TwoWords
    <2>2. HeededIn(argv, at', opts', FALSE)
        <3>1. CASE Flag
            <4>1. /\ at' = at + 1 /\ argv[at].is \in {"once", "ascii", "no-color"}
                  /\ opts' = CASE argv[at].is = "once"  -> [opts EXCEPT !.once = TRUE]
                               [] argv[at].is = "ascii" -> [opts EXCEPT !.ascii = TRUE]
                               [] OTHER                 -> [opts EXCEPT !.color = FALSE]
                BY <3>1 DEF Flag, Word
            <4> QED BY <1>0, <1>a, <2>0, <2>1, <4>1, WordWanted, HeededFlag
        <3>2. CASE Attached
            <4>1. /\ at' = at + 1 /\ argv[at].is \in OneWord /\ argv[at].is \notin TwoWords
                  /\ opts' = Set(argv[at].is, argv[at].part)
                BY <3>2 DEF Attached, Word, OneWord, TwoWords
            <4> QED BY <1>0, <1>a, <2>0, <2>1, <4>1, WordWanted, HeededSet
        <3>3. CASE Separate
            <4>1. /\ at' = at + 2 /\ argv[at].is \in TwoWords
                  /\ opts' = Set(argv[at].is, argv[at + 1].whole)
                BY <3>3 DEF Separate, Takes, Past, Word
            <4> QED BY <1>0, <1>a, <2>0, <2>1, <4>1, WordWanted, HeededSet
        <3> QED BY <1>1, <3>1, <3>2, <3>3
    <2>3. Heeded'
        BY <2>0, <2>2 DEF Heeded, HeededIn
    <2>4. /\ argv[at].is \in OneWord => argv[at].part \in Values
          /\ argv[at].is \in TwoWords /\ at < Len(argv) => argv[at + 1].whole \in Values
        <3>1. \A j \in 1..Len(argv) : argv[j].part \in Values /\ argv[j].whole \in Values
            BY WordIsWord DEF Words
        <3>2. at \in 1..Len(argv) /\ (at < Len(argv) => at + 1 \in 1..Len(argv))
            BY <2>0, TypeFacts DEF Looking
        <3> QED BY <3>1, <3>2
    <2>5. ValuesIn(argv, at')
        <3>1. CASE Flag
            BY <1>a, <2>0, <2>1, <3>1, WordWanted, PassValues DEF Flag, OneWord, TwoWords, GivenInv
        <3>2. CASE Attached
            BY <1>a, <2>0, <2>1, <2>4, <3>2, WordWanted, PassValues DEF Attached, OneWord, TwoWords, GivenInv
        <3>3. CASE Separate
            BY <1>a, <2>0, <2>1, <2>4, <3>3, WordWanted, PassValues
               DEF Separate, Takes, Past, OneWord, TwoWords, GivenInv
        <3> QED BY <1>1, <3>1, <3>2, <3>3
    <2> QED BY <2>0, <2>3, <2>5 DEF GivenInv, Accepted, Stops, Wanted
<1>2. CASE Help
    <2>1. /\ UNCHANGED <<asked, argv, launches, returning>> /\ Looking /\ Over(0)
          /\ pc = "options" /\ argv[at].is = "help"
        BY <1>2 DEF Help, Looking, Word, world, instance, family
    <2>2. at \in Stops(argv)
        BY <2>1, WordWanted DEF Stops
    <2>3. argv[FirstStop(argv)].is = "help"
        BY <1>a, <2>1, <2>2, StopsAtFirst
    <2> QED BY <2>1, <2>3, GivenOver
<1>3. CASE Unknown
    <2>1. /\ UNCHANGED <<asked, argv, launches, returning>> /\ Looking /\ Over(2)
          /\ pc = "options"
          /\ argv[at].is = "unknown" \/ (argv[at].is \in TwoWords /\ ~(at < Len(argv)))
        BY <1>3 DEF Unknown, Looking, Word, Takes, world, instance, family
    <2>2. at \in Stops(argv) /\ argv[at].is # "help"
        BY <2>1, WordWanted DEF Stops, TwoWords
    <2>3. ~Accepted(argv) /\ argv[FirstStop(argv)].is # "help"
        BY <1>a, <2>1, <2>2, StopsAtFirst
    <2> QED BY <2>1, <2>3, GivenOver
<1>4. CASE OptionsRead
    <2>1. /\ UNCHANGED <<asked, argv, at, no_color, launches, returning, status>>
          /\ pc = "options" /\ pc' = "options read"
          /\ opts' = [opts EXCEPT !.color = opts.color /\ ~no_color]
        BY <1>4 DEF OptionsRead, world, instance, family
    <2>2. /\ opts'.once = opts.once /\ opts'.ascii = opts.ascii
          /\ opts'.interval = opts.interval /\ opts'.sort_key = opts.sort_key
          /\ opts'.filter = opts.filter /\ (opts'.color <=> opts.color /\ ~no_color)
        BY <1>0, <2>1 DEF Options
    <2>a. HeededIn(argv, at, opts, FALSE)
        BY <1>a, <2>1
    <2>3. /\ opts'.once <=> SaidBefore(argv, at, "once")
          /\ opts'.ascii <=> SaidBefore(argv, at, "ascii")
        <3>1. /\ opts.once <=> SaidBefore(argv, at, "once")
              /\ opts.ascii <=> SaidBefore(argv, at, "ascii")
            BY <2>a, Zenon DEF HeededIn
        <3> QED BY <2>2, <3>1, Zenon
    <2>4. opts'.color <=> ~(SaidBefore(argv, at, "no-color") \/ no_color)
        <3>1. opts.color <=> ~SaidBefore(argv, at, "no-color")
            BY <2>a, Zenon DEF HeededIn
        <3> QED BY <2>2, <3>1, Zenon
    <2>5. opts'.color <=> ~(SaidBefore(argv, at, "no-color") \/ (pc' # "options" /\ no_color'))
        BY <2>1, <2>4
    <2>6. /\ \A j \in Stops(argv) : at <= j
          /\ opts'.interval =
               parse_interval(ValueBefore(argv, at, "interval", "interval=", "ms", 1000))
          /\ opts'.sort_key =
               parse_sort(ValueBefore(argv, at, "sort", "sort=", "name", "cpu"))
          /\ opts'.filter =
               util_copy_trunc(ValueBefore(argv, at, "filter", "filter=", "text", << >>))
        <3>1. /\ \A j \in Stops(argv) : at <= j
              /\ opts.interval =
                   parse_interval(ValueBefore(argv, at, "interval", "interval=", "ms", 1000))
              /\ opts.sort_key =
                   parse_sort(ValueBefore(argv, at, "sort", "sort=", "name", "cpu"))
              /\ opts.filter =
                   util_copy_trunc(ValueBefore(argv, at, "filter", "filter=", "text", << >>))
            BY <2>a, Zenon DEF HeededIn
        <3>2. /\ opts'.interval = opts.interval /\ opts'.sort_key = opts.sort_key
              /\ opts'.filter = opts.filter
            BY <2>2
        <3> QED BY <3>1, <3>2
    <2>7. HeededIn(argv, at, opts', pc' # "options" /\ no_color')
        BY <2>3, <2>5, <2>6, Zenon DEF HeededIn
    <2>8. Heeded'
        BY <2>1, <2>7 DEF Heeded
    <2>9. ValuesIn(argv, at)'
        BY <2>1 DEF GivenInv
    <2> QED BY <2>1, <2>8, <2>9 DEF GivenInv, Accepted, Stops, Wanted
<1>5. CASE Proceed
    <2>1. /\ UNCHANGED <<asked, argv, at, opts, no_color, launches, returning, status>>
          /\ pc = "options read" /\ pc' \in {"detached", "init"}
        BY <1>5 DEF Proceed, world, instance, family
    <2> QED BY <2>1, GivenStays DEF GivenInv
<1>6. CASE Fork
    <2>1. /\ UNCHANGED <<asked, argv, at, opts, no_color, status>>
          /\ pc = "detached" /\ pc' = "child" /\ ~in_term /\ launches' = launches + 1
        BY <1>6 DEF Fork, MayLaunch, world
    <2>2. launches = 0 /\ launches' = 1
        BY <2>1 DEF TInv
    <2> QED BY <1>b, <2>1, <2>2, GivenStays DEF GivenInv
<1>7. CASE ParentReturns
    <2>1. /\ UNCHANGED <<asked, argv, at, opts, no_color, launches, pc>>
          /\ returning /\ returning' = FALSE /\ status' = 0
        BY <1>7 DEF ParentReturns, world, instance
    <2>2. CASE pc = "over"
        BY <2>1, <2>2 DEF GivenInv, Accepted, FirstStop, Stops, Wanted
    <2>3. CASE pc # "over"
        BY <2>1, <2>3, GivenStays DEF GivenInv
    <2> QED BY <2>2, <2>3
<1>8. CASE NotLaunched \/ (Prime /\ pc' = "over") \/ (Enter /\ pc' = "over") \/ NoTerminal
    <2>1. /\ UNCHANGED <<asked, argv, launches, returning>>
          /\ pc \notin {"options", "over"}
        BY <1>8 DEF NotLaunched, Prime, Enter, NoTerminal, world, instance, family
    <2>2. PICK code \in {0, 1, 127} : Over(code)
        BY <1>8 DEF NotLaunched, Prime, Enter, NoTerminal
    <2> QED BY <1>b, <2>1, <2>2, GivenOver
<1>9. CASE (Prime /\ pc' # "over") \/ (Enter /\ pc' # "over")
    <2>1. /\ UNCHANGED <<asked, argv, at, opts, no_color, launches, returning, status>>
          /\ pc \notin {"options", "over"} /\ pc' \notin {"options", "over"}
        BY <1>9 DEF Prime, Enter, Over, world, instance, family
    <2> QED BY <2>1, GivenStays DEF GivenInv
<1>10. CASE Relaunch
    <2>1. /\ UNCHANGED <<asked, no_color, launches, returning, status>>
          /\ argv' = << >> /\ at' = 1 /\ opts' = Defaults
          /\ pc = "child" /\ pc' = "options"
        BY <1>10 DEF Relaunch, world, family
    <2>2. Wanted(<< >>) = {} /\ Stops(<< >>) = {}
        BY DEF Wanted, Stops
    <2>3. HeededIn(<< >>, 1, Defaults, FALSE)
        BY <2>2, HeededAtFirst
    <2>4. Heeded'
        BY <2>1, <2>3 DEF Heeded, HeededIn
    <2>5. ValuesIn(argv, at)'
        BY <2>1, <2>2, ValuesAtFirst
    <2> QED BY <2>1, <2>4, <2>5 DEF GivenInv, Accepted, Stops, Wanted
<1>11. CASE UNCHANGED vars
    <2>1. UNCHANGED <<asked, argv, at, opts, no_color, launches, returning, status, pc>>
        BY <1>11 DEF vars
    <2> QED BY <2>1 DEF GivenInv, Heeded, Accepted, FirstStop, Stops, Wanted
<1> QED
    BY <1>1, <1>2, <1>3, <1>4, <1>5, <1>6, <1>7, <1>8, <1>9, <1>10, <1>11 DEF Next
(* With all the words read the last value of all is the last so far.       *)
LEMMA ReadToEnd ==
    ASSUME TInv, at > Len(argv)
    PROVE  /\ \A is : SaidBefore(argv, at, is) <=> Says(argv, is)
           /\ \A option, attached, field, default :
                  ValueBefore(argv, at, option, attached, field, default) =
                  Given(argv, option, attached, field, default)
<1>1. \A j \in Wanted(argv) : j < at
    BY TypeFacts DEF Wanted
<1>2. ASSUME NEW option, NEW attached
      PROVE  GivenBefore(argv, at, option, attached) =
             {j \in Wanted(argv) : argv[j].is \in {option, attached}}
    BY <1>1 DEF GivenBefore
<1> QED BY <1>1, <1>2 DEF SaidBefore, Says, ValueBefore, Given

(* A filter that is cut short keeps its beginning.                         *)
LEMMA CopyBegins ==
    ASSUME NEW text \in Seq(Nat), NEW k \in 1..Len(text), k < FILTER_CAP
    PROVE  util_copy_trunc(text)[k] = text[k]
<1>1. CASE Len(text) < FILTER_CAP
    BY <1>1 DEF util_copy_trunc
<1>2. CASE ~(Len(text) < FILTER_CAP)
    <2>1. util_copy_trunc(text) = SubSeq(text, 1, FILTER_CAP - 1)
        BY <1>2 DEF util_copy_trunc
    <2>2. FILTER_CAP - 1 \in Nat /\ k \in 1..FILTER_CAP - 1 /\ FILTER_CAP - 1 <= Len(text)
        BY <1>2, StartAssumption, LenProperties
    <2> QED BY <2>1, <2>2
<1> QED BY <1>1, <1>2

(* An interval that is a number keeps to its bounds.                       *)
LEMMA IntervalBounds ==
    ASSUME NEW ms \in Int \cup {NaN}
    PROVE  /\ parse_interval(ms) \in LeastInterval..GreatestInterval \/ ms = NaN
           /\ ms \in LeastInterval..GreatestInterval => parse_interval(ms) = ms
<1>1. /\ NaN \notin Int
      /\ LeastInterval \in Int /\ GreatestInterval \in Int /\ LeastInterval <= GreatestInterval
    BY StartAssumption DEF LeastInterval, GreatestInterval
<1>2. CASE ms = NaN
    BY <1>1, <1>2
<1>3. CASE ms \in Int
    BY <1>1, <1>3 DEF parse_interval
<1> QED BY <1>2, <1>3

LEMMA ReadAsGiven ==
    ASSUME TInv, OnceInv, GivenInv, pc \notin {"options", "over"}
    PROVE  OptionsAsGiven
<1> DEFINE ms   == Given(argv, "interval", "interval=", "ms", 1000)
           text == Given(argv, "filter", "filter=", "text", << >>)
<1>1. at > Len(argv) /\ Heeded /\ ValuesIn(argv, at)
    BY DEF OnceInv, GivenInv
<1>2. Accepted(argv)
    BY <1>1, ReadIsAccepted
<1>3. /\ opts.once <=> Says(argv, "once")
      /\ opts.ascii <=> Says(argv, "ascii")
      /\ opts.color <=> ~(Says(argv, "no-color") \/ no_color)
      /\ opts.interval = parse_interval(ms)
      /\ opts.sort_key = parse_sort(Given(argv, "sort", "sort=", "name", "cpu"))
      /\ opts.filter = util_copy_trunc(text)
    BY <1>1, ReadToEnd DEF Heeded, HeededIn
<1>0. ms \in Int \cup {NaN} /\ text \in Seq(Nat)
    BY <1>1, ReadToEnd DEF ValuesIn
<1>4. opts \in Options /\ Len(opts.filter) < FILTER_CAP
    BY DEF TInv, TypeOK, Options
<1> HIDE DEF ms, text
<1>5. /\ opts.interval \in LeastInterval..GreatestInterval \/ ms = NaN
      /\ ms \in LeastInterval..GreatestInterval => opts.interval = ms
    BY <1>0, <1>3, IntervalBounds
<1>6. \A k \in 1..Len(text) : k < FILTER_CAP => opts.filter[k] = text[k]
    BY <1>0, <1>3, CopyBegins
<1>7. /\ opts.once = Says(argv, "once") /\ opts.ascii = Says(argv, "ascii")
      /\ opts.color = ~(Says(argv, "no-color") \/ no_color)
    <2>1. /\ opts.once \in BOOLEAN /\ opts.ascii \in BOOLEAN /\ opts.color \in BOOLEAN
          /\ Says(argv, "once") \in BOOLEAN /\ Says(argv, "ascii") \in BOOLEAN
        BY <1>4 DEF Options, Says
    <2> QED BY <1>3, <2>1
<1>8. pc # "over"
    OBVIOUS
<1>9. /\ opts.sort_key = parse_sort(Given(argv, "sort", "sort=", "name", "cpu"))
      /\ Len(opts.filter) < FILTER_CAP
    BY <1>3, <1>4
<1> QED BY <1>2, <1>5, <1>6, <1>7, <1>8, <1>9, Zenon DEF OptionsAsGiven, ms, text

(* Whoever has read all the words has an interval within its bounds, or    *)
(* none.                                                                   *)
LEMMA IntervalRead ==
    ASSUME TInv, OnceInv, GivenInv, pc \notin {"options", "over"}
    PROVE  opts.interval \in LeastInterval..GreatestInterval \/ opts.interval = NaN
<1> DEFINE ms == Given(argv, "interval", "interval=", "ms", 1000)
<1>1. at > Len(argv) /\ Heeded /\ ValuesIn(argv, at)
    BY DEF OnceInv, GivenInv
<1>2. opts.interval = parse_interval(ms)
    BY <1>1, ReadToEnd DEF Heeded, HeededIn
<1>3. ms \in Int \cup {NaN}
    BY <1>1, ReadToEnd DEF ValuesIn
<1> HIDE DEF ms
<1>4. ms = NaN => parse_interval(ms) = NaN
    BY DEF parse_interval
<1> QED BY <1>2, <1>3, <1>4, IntervalBounds

(* The options the program runs with are those of its command line, and    *)
(* what it cannot read ends it with status 2 (the loop over argv in main). *)
THEOREM OptionsAreGiven == Spec => []OptionsAsGiven
<1>1. TInv /\ OnceInv /\ GivenInv => OptionsAsGiven
    <2> SUFFICES ASSUME TInv, OnceInv, GivenInv PROVE OptionsAsGiven
        OBVIOUS
    <2>1. CASE pc = "options"
        BY <2>1 DEF OptionsAsGiven
    <2>2. CASE pc = "over"
        BY <2>2 DEF OptionsAsGiven, GivenInv
    <2>3. CASE pc \notin {"options", "over"}
        BY <2>3, ReadAsGiven
    <2> QED BY <2>1, <2>2, <2>3
<1> QED
    BY <1>1, TInvInit, TInvNext, OnceInit, OnceNext, GivenInit, GivenNext, PTL DEF Spec
=============================================================================
