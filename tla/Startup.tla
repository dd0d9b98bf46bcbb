------------------------------ MODULE Startup ------------------------------
(***************************************************************************)
(* The way from the command line to the live dashboard: the options, and   *)
(* on Linux the terminal that is opened for a program started from the     *)
(* desktop, in which the program starts once more.                         *)
(*                                                                         *)
(* A word of the command line is a record: what it is as an option (is),   *)
(* what it says as the value of an option before it (whole), and what the  *)
(* part behind its = says (part).  A value is read in three ways: as a     *)
(* number of milliseconds (NaN for what atof reads as a NaN), as the name  *)
(* of a column, and as text, a sequence of character codes.                *)
(***************************************************************************)
EXTENDS Integers, Sequences, FiniteSets

CONSTANTS
    Hosts,        \* the hosts to consider
    Argvs,        \* the command lines, without the program's name
    FILTER_CAP,   \* bytes of the filter, its terminator included
    NaN           \* the number that compares with nothing

Flags      == {"once", "ascii", "no-color", "help", "unknown"}
TwoWords   == {"interval", "sort", "filter"}
OneWord    == {"interval=", "sort=", "filter="}
Values     == [ms : Int \cup {NaN}, name : STRING, text : Seq(Nat)]
Words      == [is : Flags \cup TwoWords \cup OneWord, whole : Values, part : Values]

ASSUME StartAssumption ==
    /\ Hosts \subseteq {"Linux", "macOS", "Windows"}
    /\ Argvs \subseteq Seq(Words)
    /\ FILTER_CAP \in Nat \ {0}
    /\ NaN \notin Int

VARIABLES
    host,        \* the host the program was compiled for
    asked,       \* the command line the user gave
    argv,        \* the command line of the instance that runs
    in_term,     \* TASK_MANAGER_IN_TERM is set for it
    no_color,    \* so is NO_COLOR, to more than nothing
    tty,         \* which of its three standard files are terminals
    pc,          \* "options", "options read", "detached", "child", "init",
                 \* "primed", "live", "over"
    at,          \* the word that is looked at
    opts,        \* what the words before it have set
    launches,    \* how often a terminal was opened
    returning,   \* a parent has not yet returned to the desktop
    status       \* exit status of the process the user started, -1 before

vars == <<host, asked, argv, in_term, no_color, tty, pc, at, opts, launches,
          returning, status>>

world    == <<host, asked, no_color>>
instance == <<argv, in_term, tty>>
family   == <<launches, returning>>

Defaults == [once |-> FALSE, ascii |-> FALSE, color |-> TRUE, interval |-> 1000,
             sort_key |-> 0, filter |-> << >>]

-----------------------------------------------------------------------------
(* Values. *)

(* The bounds of the interval. *)
LeastInterval    == 200
GreatestInterval == 60000

(* Mutant: only the upper bound is kept. *)
parse_interval_unbounded(ms) ==
    IF ms # NaN /\ ms > GreatestInterval THEN GreatestInterval ELSE ms

(* Neither comparison holds of a NaN. *)
parse_interval(ms) ==
    CASE ms # NaN /\ ms < LeastInterval    -> LeastInterval
      [] ms # NaN /\ ms > GreatestInterval -> GreatestInterval
      [] OTHER                             -> ms

(* The numbers of the SORT_* keys. *)
parse_sort(name) ==
    CASE name \in {"mem", "memory"} -> 1
      [] name = "pid"               -> 2
      [] name \in {"name", "cmd"}   -> 3
      [] OTHER                      -> 0

(* Mutant: the terminator is forgotten. *)
util_copy_trunc_full(text) ==
    IF Len(text) <= FILTER_CAP THEN text ELSE SubSeq(text, 1, FILTER_CAP)

util_copy_trunc(text) ==
    IF Len(text) < FILTER_CAP THEN text ELSE SubSeq(text, 1, FILTER_CAP - 1)

(* What setting a value does to the options. *)
Set(option, value) ==
    CASE option \in {"interval", "interval="} ->
             [opts EXCEPT !.interval = parse_interval(value.ms)]
      [] option \in {"sort", "sort="} ->
             [opts EXCEPT !.sort_key = parse_sort(value.name)]
      [] OTHER ->
             [opts EXCEPT !.filter = util_copy_trunc(value.text)]

-----------------------------------------------------------------------------
(* The options, one word at a time. *)

Init ==
    /\ host \in Hosts
    /\ asked \in Argvs /\ argv = asked
    /\ in_term = FALSE
    /\ no_color \in BOOLEAN
    /\ tty \in [stdin : BOOLEAN, stdout : BOOLEAN, stderr : BOOLEAN]
    /\ pc = "options" /\ at = 1 /\ opts = Defaults
    /\ launches = 0 /\ returning = FALSE /\ status = -1

Looking == pc = "options" /\ at <= Len(argv)
Word    == argv[at]

(* An option that needs a value is one only if a word follows it. *)
Takes == Word.is \in TwoWords /\ at < Len(argv)

(* Nobody waits for an instance that a terminal started. *)
Over(code) == pc' = "over" /\ status' = IF launches = 0 THEN code ELSE status

Flag ==
    /\ Looking /\ Word.is \in {"once", "ascii", "no-color"}
    /\ opts' = CASE Word.is = "once"  -> [opts EXCEPT !.once = TRUE]
                 [] Word.is = "ascii" -> [opts EXCEPT !.ascii = TRUE]
                 [] OTHER             -> [opts EXCEPT !.color = FALSE]
    /\ at' = at + 1
    /\ UNCHANGED <<world, instance, pc, family, status>>

Attached ==
    /\ Looking /\ Word.is \in OneWord
    /\ opts' = Set(Word.is, Word.part)
    /\ at' = at + 1
    /\ UNCHANGED <<world, instance, pc, family, status>>

(* Mutant: the value is looked at again, as an option. *)
PastNot == at + 1

(* Mutant: nobody steps over what was read. *)
PastStuck == at

(* The next word is the value, whatever it looks like. *)
Past == at + 2

Separate ==
    /\ Looking /\ Takes
    /\ opts' = Set(Word.is, argv[at + 1].whole)
    /\ at' = Past
    /\ UNCHANGED <<world, instance, pc, family, status>>

Help ==
    /\ Looking /\ Word.is = "help"
    /\ Over(0)
    /\ UNCHANGED <<world, instance, at, opts, family>>

Unknown ==
    /\ Looking
    /\ Word.is = "unknown" \/ (Word.is \in TwoWords /\ ~Takes)
    /\ Over(2)
    /\ UNCHANGED <<world, instance, at, opts, family>>

OptionsRead ==
    /\ pc = "options" /\ at > Len(argv)
    /\ pc' = "options read"
    /\ opts' = [opts EXCEPT !.color = @ /\ ~no_color]
    /\ UNCHANGED <<world, instance, at, family, status>>

-----------------------------------------------------------------------------
(* A program without any terminal. *)

(* Mutant: a snapshot asked for from a script opens a window. *)
DetachedAnyway == host = "Linux" /\ ~(tty.stdin \/ tty.stdout \/ tty.stderr)

Detached == host = "Linux" /\ ~opts.once /\ ~(tty.stdin \/ tty.stdout \/ tty.stderr)

Proceed ==
    /\ pc = "options read"
    /\ pc' = IF Detached THEN "detached" ELSE "init"
    /\ UNCHANGED <<world, instance, at, opts, family, status>>

(* Mutant: the child forgets what it is. *)
MayLaunchAgain == pc = "detached"

MayLaunch == pc = "detached" /\ ~in_term

(* linux_spawn_in_terminal up to the fork.  The child goes on; the parent  *)
(* has only to return.                                                     *)
Fork ==
    /\ MayLaunch
    /\ pc' = "child"
    /\ in_term' = TRUE
    /\ launches' = launches + 1
    /\ returning' = TRUE
    /\ UNCHANGED <<world, argv, tty, at, opts, status>>

ParentReturns ==
    /\ returning
    /\ returning' = FALSE
    /\ status' = 0
    /\ UNCHANGED <<world, instance, pc, at, opts, launches>>

(* Launched before, no path to start, or no process to be had. *)
NotLaunched ==
    /\ pc = "detached"
    /\ Over(1)
    /\ UNCHANGED <<world, instance, at, opts, family>>

(* A terminal starts the program, with its path and nothing else.  The     *)
(* instance may again find itself without a terminal.                      *)
Relaunch ==
    /\ pc = "child"
    /\ argv' = << >> /\ at' = 1 /\ opts' = Defaults
    /\ \E t \in BOOLEAN : tty' = [stdin |-> t, stdout |-> t, stderr |-> t]
    /\ pc' = "options"
    /\ UNCHANGED <<world, in_term, family, status>>

(* None of the three terminals could be executed. *)
NoTerminal ==
    /\ pc = "child"
    /\ Over(127)
    /\ UNCHANGED <<world, instance, at, opts, family>>

-----------------------------------------------------------------------------
(* The two samples and the way into the loop. *)

(* calloc of the snapshot may fail; the samples do not. *)
Prime ==
    /\ pc = "init"
    /\ \/ pc' = "primed" /\ UNCHANGED status
       \/ Over(1)
    /\ UNCHANGED <<world, instance, at, opts, family>>

Live == ~opts.once /\ tty.stdout

(* One frame is printed, or the loop begins. *)
Enter ==
    /\ pc = "primed"
    /\ IF Live THEN pc' = "live" /\ UNCHANGED status ELSE Over(0)
    /\ UNCHANGED <<world, instance, at, opts, family>>

Next ==
    \/ Flag \/ Attached \/ Separate \/ Help \/ Unknown \/ OptionsRead
    \/ Proceed \/ Fork \/ ParentReturns \/ NotLaunched \/ Relaunch \/ NoTerminal
    \/ Prime \/ Enter

Spec == Init /\ [][Next]_vars /\ WF_vars(Next)

-----------------------------------------------------------------------------
(* What the poll gets: the interval as a whole number of milliseconds.     *)
(* The conversion of a NaN to int is undefined: it gives INT_MIN on one    *)
(* processor and 0 on another.                                             *)
Timeouts(ms) ==
    IF ms = NaN THEN {"never", "zero"}
    ELSE CASE ms < 0 -> {"never"}
           [] ms = 0 -> {"zero"}
           [] ms > 0 -> {"finite"}

-----------------------------------------------------------------------------
(* Properties. *)

(* Every variable has its type. *)
TypeOK ==
    /\ argv \in {asked, << >>} /\ at \in 1..Len(argv) + 1
    /\ opts \in [once : BOOLEAN, ascii : BOOLEAN, color : BOOLEAN,
                 interval : Int \cup {NaN}, sort_key : 0..3, filter : Seq(Nat)]
    /\ Len(opts.filter) < FILTER_CAP
    /\ pc \in {"options", "options read", "detached", "child", "init", "primed",
               "live", "over"}
    /\ in_term \in BOOLEAN /\ returning \in BOOLEAN
    /\ launches \in Nat /\ status \in {-1, 0, 1, 2}

(* What a command line means, said of all its words at once.  A word is a  *)
(* value when an odd number of options that want one stand right before it.*)
Valued(line, j) ==
    LET wanting == {k \in 1..j : \A m \in k..j - 1 : line[m].is \in TwoWords}
    IN  Cardinality(wanting) % 2 = 0

Wanted(line) == {j \in 1..Len(line) : ~Valued(line, j)}

Stops(line) == {j \in Wanted(line) :
    \/ line[j].is \in {"help", "unknown"}
    \/ line[j].is \in TwoWords /\ j = Len(line)}

Accepted(line) == Stops(line) = {}

FirstStop(line) == CHOOSE j \in Stops(line) : \A k \in Stops(line) : j <= k

Says(line, is) == \E j \in Wanted(line) : line[j].is = is

(* The last of the values these words of the line give an option, and what *)
(* holds without one.                                                      *)
LastGiven(line, given, option, field, default) ==
    LET j == CHOOSE k \in given : \A m \in given : m <= k
    IN  IF given = {} THEN default
        ELSE IF line[j].is = option THEN line[j + 1].whole[field]
        ELSE line[j].part[field]

Given(line, option, attached, field, default) ==
    LastGiven(line, {j \in Wanted(line) : line[j].is \in {option, attached}},
              option, field, default)

(* The options the program runs with are those of its command line: the    *)
(* last value counts, a value may look like an option, the interval keeps  *)
(* to the 0.2 to 60 seconds the usage text names unless it is no number    *)
(* at all, and a line it cannot read ends it with status 2 (taskman.c,     *)
(* 326-357).                                                               *)
OptionsAsGiven ==
    LET ms   == Given(argv, "interval", "interval=", "ms", 1000)
        text == Given(argv, "filter", "filter=", "text", << >>)
    IN  /\ pc \notin {"options", "over"} =>
             /\ Accepted(argv)
             /\ opts.once = Says(argv, "once") /\ opts.ascii = Says(argv, "ascii")
             /\ opts.color = ~(Says(argv, "no-color") \/ no_color)
             /\ opts.interval \in LeastInterval..GreatestInterval \/ ms = NaN
             /\ ms \in LeastInterval..GreatestInterval => opts.interval = ms
             /\ opts.sort_key = parse_sort(Given(argv, "sort", "sort=", "name", "cpu"))
             /\ Len(opts.filter) < FILTER_CAP
             /\ \A k \in 1..Len(text) : k < FILTER_CAP => opts.filter[k] = text[k]
        /\ pc = "over" =>
             (status = 2) = (~Accepted(asked) /\ asked[FirstStop(asked)].is # "help")

(* However the terminal turns out, at most one is opened for one start:    *)
(* a child that is still detached does not launch again (the comment on    *)
(* linux_spawn_in_terminal: "stops a fork bomb").                          *)
LaunchOnce == launches <= 1 /\ (launches = 1 => in_term)

(* What --once was asked for is printed where it was asked: no terminal is *)
(* opened for it, and the live loop is never entered.                      *)
OncePrints == Accepted(asked) /\ Says(asked, "once") => launches = 0 /\ pc # "live"

(* Every start comes to a loop or to an end, the program in a terminal it  *)
(* opened included, and the process the desktop waits for has returned: no *)
(* command line and no terminal keeps the two starting for ever.           *)
Settles == <>(pc \in {"live", "over"} /\ ~returning)
=============================================================================
