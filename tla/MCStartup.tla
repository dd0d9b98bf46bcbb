----------------------------- MODULE MCStartup -----------------------------
(* Small instances of Startup for TLC. *)
EXTENDS Startup, SequencesExt

Says0(ms, name, text) == [ms |-> ms, name |-> name, text |-> text]
Junk == Says0(0, "other", <<45>>)              \* an option read as a value

(* A word that is an option, and one that is only good as a value. *)
Option(is)            == [is |-> is, whole |-> Junk, part |-> Junk]
Assigned(is, value)   == [is |-> is, whole |-> Junk, part |-> value]
Plainly(value)        == [is |-> "unknown", whole |-> value, part |-> Junk]

Five   == Says0(5000, "5", <<53>>)
Tiny   == Says0(-1000, "-1", <<45, 49>>)       \* the value of -n -1
Huge   == Says0(61000, "61", <<54, 49>>)
NotANumber == Says0(NaN, "nan", <<110, 97, 110>>)
Memory == Says0(0, "mem", <<109, 101, 109>>)

(* -1 is --once as an option, and less than any interval as a value. *)
MCWords == {
    [is |-> "once", whole |-> Tiny, part |-> Junk],
    Option("ascii"), Option("no-color"), Option("help"),
    Option("interval"), Option("sort"), Option("filter"),
    Assigned("interval=", Huge), Assigned("sort=", Memory),
    Plainly(Five), Plainly(NotANumber), Plainly(Memory)}

MCArgvs == BoundedSeq(MCWords, 3)
=============================================================================
