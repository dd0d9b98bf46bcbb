----------------------------- MODULE Collector ------------------------------
(***************************************************************************)
(* The three host collectors (collect_linux.c, collect_darwin.c and        *)
(* collect_win.c): how two reads of counters that only the kernel advances *)
(* become percentages, whose counters are subtracted from whose, and what  *)
(* the snapshot says when reads fail or the table is full.                 *)
(*                                                                         *)
(* The host advances its counters in Tick: one tick of the clock adds one  *)
(* to the total of the single processor, and either to its idle time or to *)
(* the CPU time of one process.  collect_snapshot reads them in one step,  *)
(* with every combination of reads that fail: the reads of one process are *)
(* independent of the reads of another, and the code keeps no state between*)
(* them but the rows already stored.                                       *)
(*                                                                         *)
(* Percentages are whole numbers, rounded down.                            *)
(***************************************************************************)
EXTENDS Integers, FiniteSets

CONSTANTS
    Procs,           \* records with pid and start_time; a pid that is used
                     \* again has another start_time
    Hosts,           \* the hosts to consider
    SNAP_MAX_PROCS,  \* rows a snapshot can hold
    ListFails,       \* whether the enumeration of processes may fail
    MaxClock,        \* bound on the clock
    UINT64_SPAN      \* the number of values of a counter's type

ASSUME CollectorAssumption ==
    /\ Procs \subseteq [pid : Nat, start_time : Nat \ {0}]
    /\ IsFiniteSet(Procs)
    /\ \A p, q \in Procs : p.pid = q.pid /\ p.start_time = q.start_time => p = q
    /\ Hosts \subseteq {"Linux", "macOS", "Windows"}
    /\ SNAP_MAX_PROCS \in Nat \ {0}
    /\ ListFails \in BOOLEAN
    /\ MaxClock \in Nat \ {0} /\ UINT64_SPAN \in Nat /\ UINT64_SPAN > 100 * MaxClock

NotYet == -1     \* cpu_pct and cpu_total before there is a rate

VARIABLES
    host,                           \* the compile-time host
    clock, stat, status, used,      \* the host: time, processor counters,
                                    \* life and CPU time of each process
    g_cpu_all, g_prev, g_primed, g_last_t,  \* the statics of the collector
    snap,                           \* the last TaskSnapshot
    seen,                           \* history: each process's counter as
                                    \* its last row had it, NotYet when that
                                    \* row was filled without reading it
    slipped                         \* history: idle went back since stat
                                    \* was last read

vars == <<host, clock, stat, status, used, g_cpu_all, g_prev, g_primed,
          g_last_t, snap, seen, slipped>>

machine == <<host, clock, stat, status, used>>
statics == <<g_cpu_all, g_prev, g_primed, g_last_t>>

Running == {p \in Procs : status[p] = "running"}

-----------------------------------------------------------------------------
Init ==
    /\ host \in Hosts
    /\ clock = 1
    /\ stat = [idle |-> 1, total |-> 1]
    /\ status \in [Procs -> {"unborn", "running"}]
    /\ \A p, q \in Running : p.pid = q.pid => p = q
    /\ used = [p \in Procs |-> 0]
    /\ g_cpu_all = [idle |-> 0, total |-> 0]       \* collect_init
    /\ g_prev = {}
    /\ g_primed = FALSE
    /\ g_last_t = 0
    /\ snap = [cpu_total |-> NotYet, rows |-> {}, process_count |-> 0,
               truncated |-> FALSE, sample_dt |-> 0, primed |-> FALSE]
    /\ seen = [p \in Procs |-> NotYet]
    /\ slipped = FALSE

(* One tick of the host, spent in process p or idle. *)
Run(p) ==
    /\ clock < MaxClock
    /\ p \in Running
    /\ clock' = clock + 1
    /\ stat' = [stat EXCEPT !.total = @ + 1]
    /\ used' = [used EXCEPT ![p] = @ + 1]
    /\ UNCHANGED <<host, status, statics, snap, seen, slipped>>

Idle ==
    /\ clock < MaxClock
    /\ clock' = clock + 1
    /\ stat' = [idle |-> stat.idle + 1, total |-> stat.total + 1]
    /\ UNCHANGED <<host, status, used, statics, snap, seen, slipped>>

(* The iowait column of /proc/stat may lose what it counted before while   *)
(* the other columns go on.                                                *)
IdleSlips ==
    /\ clock < MaxClock /\ host = "Linux" /\ stat.idle > 0
    /\ clock' = clock + 1
    /\ stat' = [idle |-> stat.idle - 1, total |-> stat.total + 1]
    /\ slipped' = TRUE
    /\ UNCHANGED <<host, status, used, statics, snap, seen>>

Spawn(p) ==
    /\ status[p] = "unborn"
    /\ \A q \in Running : q.pid # p.pid
    /\ status' = [status EXCEPT ![p] = "running"]
    /\ UNCHANGED <<host, clock, stat, used, statics, snap, seen, slipped>>

Exit(p) ==
    /\ status[p] = "running"
    /\ status' = [status EXCEPT ![p] = "gone"]
    /\ UNCHANGED <<host, clock, stat, used, statics, snap, seen, slipped>>

-----------------------------------------------------------------------------
(* The headline bar. *)

util_clamp_pct(v) == IF v < 0 THEN 0 ELSE IF v > 100 THEN 100 ELSE v

(* uint64_t subtraction. *)
Minus(a, b) == (a - b) % UINT64_SPAN

Capped(d, limit) == IF d > limit THEN limit ELSE d

(* Mutant: the idle time since boot is set against the ticks since the     *)
(* last read.                                                              *)
IdleSinceBoot(d_total) == Capped(stat.idle, d_total)

(* Idle ticks since the last read.  Linux and Windows bound the difference *)
(* by the total, Windows also sees an idle counter that went back.         *)
IdleLinux(d_total) == Capped(Minus(stat.idle, g_cpu_all.idle), d_total)

IdleDarwin(d_total) == Minus(stat.idle, g_cpu_all.idle)

IdleWindows(d_total) ==
    IF stat.idle >= g_cpu_all.idle
    THEN Capped(stat.idle - g_cpu_all.idle, d_total) ELSE 0

(* cpu_total of a sample that could read the counters. *)
fill_cpu ==
    LET d_total == stat.total - g_cpu_all.total
        d_idle  == CASE host = "Linux" -> IdleLinux(d_total)
                     [] host = "macOS" -> IdleDarwin(d_total)
                     [] OTHER          -> IdleWindows(d_total)
    IN  IF g_primed /\ d_total > 0
        THEN util_clamp_pct((100 * Minus(d_total, d_idle)) \div d_total)
        ELSE NotYet

-----------------------------------------------------------------------------
(* The rows. *)

(* How the reads of one listed process can end.  Linux: the process may be *)
(* gone before its stat is read.  macOS: no task info is granted, to a live *)
(* process or to a zombie.  Windows: the process may not be opened, or     *)
(* does not tell its times.                                                *)
Endings == CASE host = "Linux" -> {"read", "vanished"}
             [] host = "macOS" -> {"read", "no task info", "zombie"}
             [] OTHER          -> {"read", "no times", "not opened"}

(* What the reads of p left in the row and in the table for the next tick. *)
ReadLinux(p, end) ==
    [start_time |-> p.start_time, cpu |-> used[p], readable |-> TRUE]

ReadDarwin(p, end) ==
    [start_time |-> p.start_time, cpu |-> IF end = "read" THEN used[p] ELSE 0,
     readable |-> end # "zombie"]

ReadWindows(p, end) ==
    [start_time |-> IF end = "read" THEN p.start_time ELSE 0,
     cpu |-> IF end = "read" THEN used[p] ELSE 0,
     readable |-> end # "not opened"]

Read(p, end) == CASE host = "Linux" -> ReadLinux(p, end)
                  [] host = "macOS" -> ReadDarwin(p, end)
                  [] OTHER          -> ReadWindows(p, end)

(* Mutant: the previous tick is keyed by the pid alone. *)
lookup_pid_only(pid, start) == {e \in g_prev : e.pid = pid}

(* The entry of the previous tick, if there is one. *)
lookup_prev(pid, start) == {e \in g_prev : e.pid = pid /\ e.start_time = start}

cpu_pct(pid, read, dt) ==
    LET found == {e \in lookup_prev(pid, read.start_time) : read.cpu >= e.cpu}
    IN  IF g_primed /\ found # {} /\ dt > 0 /\ (host = "Windows" => read.readable)
        THEN (100 * (read.cpu - (CHOOSE e \in found : TRUE).cpu)) \div dt
        ELSE IF g_primed THEN 0 ELSE NotYet

Row(p, end, dt) ==
    LET read == Read(p, end)
    IN  [proc |-> p, cpu_pct |-> cpu_pct(p.pid, read, dt), readable |-> read.readable]

Entry(p, end) ==
    [pid |-> p.pid, start_time |-> Read(p, end).start_time, cpu |-> Read(p, end).cpu]

(* Linux looks at a listed process before it counts it against the table,  *)
(* the other hosts store whatever the list names.                          *)
Candidates(end) == {p \in Running : end[p] # "vanished"}

(* Mutant: the flag is raised when the table is full, not when a row had   *)
(* to be left out.                                                         *)
TruncatedAtCap(end) == Cardinality(Candidates(end)) >= SNAP_MAX_PROCS

Truncated(end) == Cardinality(Candidates(end)) > SNAP_MAX_PROCS

(* Mutant: the size of procs[] is forgotten. *)
StoredAll(end) == {Candidates(end)}

(* The choices of rows that fit. *)
Stored(end) ==
    {S \in SUBSET Candidates(end) :
        IF Truncated(end) THEN Cardinality(S) = SNAP_MAX_PROCS
                          ELSE S = Candidates(end)}

-----------------------------------------------------------------------------
Dt == IF g_last_t > 0 THEN clock - g_last_t ELSE 0

(* Mutant: every sample counts as primed. *)
AlwaysPrimed == TRUE

Primed == g_primed

(* What every sample leaves behind, however its reads ended. *)
Finish(cpu_total, rows, count, truncated) ==
    /\ snap' = [cpu_total |-> cpu_total, rows |-> rows, process_count |-> count,
                truncated |-> truncated, sample_dt |-> Dt, primed |-> Primed]
    /\ g_primed' = TRUE
    /\ g_last_t' = clock
    /\ UNCHANGED machine

(* The processor counters can be read or not. *)
StatRead(cpu_total) ==
    \/ /\ cpu_total = fill_cpu
       /\ g_cpu_all' = stat
       /\ slipped' = FALSE
    \/ /\ cpu_total = NotYet
       /\ UNCHANGED <<g_cpu_all, slipped>>

CpuTotals == {fill_cpu, NotYet}

(* collect_snapshot when the enumeration fails: the table stays empty and  *)
(* the counters of the previous tick stay as they are.                     *)
CollectNothing ==
    /\ ListFails
    /\ \E cpu_total \in CpuTotals :
           /\ StatRead(cpu_total)
           /\ Finish(cpu_total, {}, 0, FALSE)
    /\ UNCHANGED <<g_prev, seen>>

Collect ==
    \E cpu_total \in CpuTotals, end \in [Running -> Endings] :
    \E S \in Stored(end) :
        /\ StatRead(cpu_total)
        /\ Finish(cpu_total, {Row(p, end[p], Dt) : p \in S},
                  Cardinality(Running), Truncated(end))
        /\ g_prev' = {Entry(p, end[p]) : p \in S}
        /\ seen' = [p \in Procs |->
                      IF p \notin S THEN seen[p]
                      ELSE IF end[p] = "read" THEN used[p] ELSE NotYet]

collect_snapshot == Collect \/ CollectNothing

Next ==
    \/ \E p \in Procs : Run(p) \/ Spawn(p) \/ Exit(p)
    \/ Idle
    \/ IdleSlips
    \/ collect_snapshot

Spec == Init /\ [][Next]_vars

-----------------------------------------------------------------------------
(* Properties. *)

Percentages == {NotYet} \cup Nat

(* Every variable has its type, and neither the rows of a snapshot nor the *)
(* table of the previous tick outgrows its array (fill_procs).             *)
TypeOK ==
    /\ host \in Hosts
    /\ clock \in 1..MaxClock
    /\ stat \in [idle : Nat, total : Nat]
    /\ status \in [Procs -> {"unborn", "running", "gone"}]
    /\ used \in [Procs -> Nat]
    /\ g_cpu_all \in [idle : Nat, total : Nat]
    /\ g_prev \subseteq [pid : Nat, start_time : Nat, cpu : Nat]
    /\ Cardinality(g_prev) <= SNAP_MAX_PROCS
    /\ g_primed \in BOOLEAN
    /\ g_last_t \in 0..MaxClock
    /\ snap.cpu_total \in Percentages
    /\ \A row \in snap.rows : row.proc \in Procs /\ row.cpu_pct \in Percentages
    /\ Cardinality(snap.rows) <= SNAP_MAX_PROCS
    /\ snap.process_count \in Nat /\ snap.truncated \in BOOLEAN
    /\ snap.sample_dt \in Nat /\ snap.primed \in BOOLEAN
    /\ seen \in [Procs -> Percentages]
    /\ slipped \in BOOLEAN

(* A row has no rate exactly in the snapshots that are not primed, and     *)
(* such a snapshot has no headline either, whichever reads failed before   *)
(* (g_primed in fill_cpu, fill_procs and collect_snapshot).                *)
PrimedMeansRates ==
    /\ \A row \in snap.rows : (row.cpu_pct = NotYet) = ~snap.primed
    /\ ~snap.primed => snap.cpu_total = NotYet

(* The table is flagged truncated only when it is full and more processes  *)
(* were reported; on macOS and Windows an unflagged table has them all     *)
(* (fill_procs).                                                           *)
TruncatedHonest ==
    IF snap.truncated
    THEN Cardinality(snap.rows) = SNAP_MAX_PROCS /\ snap.process_count > SNAP_MAX_PROCS
    ELSE host # "Linux" => snap.process_count = Cardinality(snap.rows)

(* A rate is what the process itself has used since its own last row, over *)
(* the sample's dt: never a part of what an earlier process with its pid   *)
(* used, whatever lists and reads failed in between.  Left out are rows of *)
(* macOS whose last row was filled without reading the process.            *)
OwnRates ==
    [][\A row \in snap'.rows :
          snap' # snap /\ row.cpu_pct > 0 =>
             \/ host = "macOS" /\ seen[row.proc] = NotYet
             \/ /\ seen[row.proc] # NotYet
                /\ row.cpu_pct = (100 * (used[row.proc] - seen[row.proc]))
                                    \div snap'.sample_dt]_vars

(* The headline stays within 0..100 even when the host's idle counter goes *)
(* back, and is the busy share of the ticks since the counters were last   *)
(* read when it does not (fill_cpu).                                       *)
HeadlineSound ==
    [][snap' # snap /\ snap'.cpu_total # NotYet =>
          LET busy  == (stat.total - stat.idle) - (g_cpu_all.total - g_cpu_all.idle)
              ticks == stat.total - g_cpu_all.total
          IN  /\ snap'.cpu_total \in 0..100
              /\ ~slipped => snap'.cpu_total = (100 * busy) \div ticks]_vars

-----------------------------------------------------------------------------
(* What the documentation says and the program does not do. *)

(* snapshot.h:25: "100% = one busy core".  The host of this module has one *)
(* processor, so no process can have used more than that.                  *)
NoImpossibleRate == \A row \in snap.rows : row.cpu_pct <= 100
=============================================================================
