------------------------------ MODULE Session ------------------------------
(***************************************************************************)
(* The program from its command line to its keys: Startup decides whether  *)
(* there is a live loop, with which timeout and on which standard input;   *)
(* KeyInput is what the loop then hears.  Between two calls of             *)
(* term_poll_key the loop samples and paints (its "work").                 *)
(***************************************************************************)
EXTENDS KeyInput

CONSTANTS Hosts, Argvs, FILTER_CAP, NaN

VARIABLES asked, argv, in_term, no_color, tty, stage, at, opts, launches,
          returning, status

S == INSTANCE Startup WITH pc <- stage

ASSUME SessionAssumption ==
    /\ Hosts \subseteq {"Linux", "macOS", "Windows"}
    /\ Argvs \subseteq Seq(S!Words)
    /\ FILTER_CAP \in Nat \ {0}
    /\ NaN \notin Int

start == <<asked, argv, in_term, no_color, tty, stage, at, opts, launches,
           returning, status>>

heard == <<open, link, typist, typed, sent, queue, pc, read, last, reported>>

allvars == <<vars, start>>

(* NO_COLOR has no part in what is heard, and is left unset. *)
Init ==
    /\ S!Init /\ ~no_color
    /\ Begin
    /\ timeout = "finite" /\ keyboard = TRUE

(* The loop polls with the interval and reads standard input as it is:     *)
(* only standard output is asked whether it is a terminal.                 *)
Starting ==
    /\ S!Next
    /\ IF stage = "primed" /\ stage' = "live"
       THEN timeout' \in S!Timeouts(opts.interval) /\ keyboard' = tty.stdin
       ELSE UNCHANGED <<timeout, keyboard>>
    /\ UNCHANGED heard

During(A) == stage = "live" /\ A /\ UNCHANGED start

Next ==
    \/ Starting
    \/ During(Keyboard)
    \/ During(Deliver)
    \/ During(Program)

Spec ==
    /\ Init /\ [][Next]_allvars
    /\ WF_allvars(Starting)
    /\ WF_allvars(During(Deliver)) /\ WF_allvars(During(Program))

-----------------------------------------------------------------------------
(* Properties, next to those of KeyInput. *)

(* With an interval that is a number, and the keyboard on standard input,  *)
(* a call that brings no key has taken its time: the timeout is the loop's *)
(* only clock, and whatever the options said it never runs without one     *)
(* (taskman.c, 492-497).                                                   *)
Paced == keyboard /\ opts.interval # NaN /\ last.read = << >> => last.waited

(* From the command line to the keys: whatever was typed at a live program *)
(* is read in the end, in every terminal it was started in or opened for   *)
(* itself.  Only a Windows build that was given an interval that is no     *)
(* number never looks (term_poll_key, 183-188 and 206-214).                *)
KeysRead ==
    (stage = "live" /\ queue # << >> /\ (opts.interval # NaN \/ ~Windows))
        ~> (queue = << >>)

(* With every interval the options can leave, a NaN excepted, each call of *)
(* term_poll_key comes to its end, so the table is sampled and painted     *)
(* again whether or not anybody types.                                     *)
Refreshes == []<>(stage = "live" /\ opts.interval # NaN => pc = "work")
=============================================================================
