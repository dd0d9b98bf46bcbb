-------------------------- MODULE CollectorProofs ---------------------------
(***************************************************************************)
(* What the snapshots of Collector hold, for any set of processes, any     *)
(* size of the table and any bound on the clock: the arrays are not        *)
(* outgrown, a rate belongs to the process it is shown for, and the        *)
(* headline is the busy share of the ticks since the last read.            *)
(***************************************************************************)
EXTENDS Collector, FiniteSetTheorems, TLAPS

(***************************************************************************)
(* Arithmetic of the percentages.                                          *)
(***************************************************************************)

(* A quotient of naturals is a natural. *)
LEMMA DivIsNat ==
    ASSUME NEW a \in Nat, NEW b \in Nat \ {0} PROVE a \div b \in Nat
OBVIOUS

(* Nothing divided by anything is nothing. *)
LEMMA DivOfNone ==
    ASSUME NEW b \in Nat \ {0} PROVE (100 * 0) \div b = 0
OBVIOUS

(* A part as a percentage of its whole needs no clamp. *)
LEMMA DivIsShare ==
    ASSUME NEW a \in Nat, NEW b \in Nat \ {0}, a <= b
    PROVE  (100 * a) \div b \in 0..100
<1> DEFINE q == (100 * a) \div b
<1>1. q \in Nat
  BY DivIsNat
<1>2. q * b <= 100 * a
  OBVIOUS
<1>3. 100 * a <= 100 * b
  OBVIOUS
<1>4. q <= 100
  <2> SUFFICES ASSUME q >= 101 PROVE FALSE
    BY <1>1
  <2>1. 101 * b <= q * b
    BY <1>1
  <2> QED
    BY <2>1, <1>2, <1>3
<1> QED
  BY <1>1, <1>4

(* An image is no larger than what it is the image of. *)
LEMMA ImageFits ==
    ASSUME NEW S, IsFiniteSet(S), NEW f, f = [x \in S |-> f[x]]
    PROVE  LET T == {f[x] : x \in S}
           IN  IsFiniteSet(T) /\ Cardinality(T) \in Nat /\ Cardinality(T) <= Cardinality(S)
<1> DEFINE T == {f[x] : x \in S}
<1>1. f \in Surjection(S, T)
  BY DEF Surjection
<1>2. IsFiniteSet(T) /\ Cardinality(T) <= Cardinality(S)
  BY <1>1, FS_Surjection
<1>3. Cardinality(T) \in Nat
  BY <1>2, FS_CardinalityType
<1> QED
  BY <1>2, <1>3

(* So is an image that keeps its elements apart. *)
LEMMA ImageCounts ==
    ASSUME NEW S, IsFiniteSet(S), NEW f, f = [x \in S |-> f[x]],
           \A x, y \in S : f[x] = f[y] => x = y
    PROVE  Cardinality({f[x] : x \in S}) = Cardinality(S)
<1> DEFINE T == {f[x] : x \in S}
<1>1. f \in Surjection(S, T)
  BY DEF Surjection
<1>2. f \in Injection(S, T)
  BY DEF Injection, IsInjective
<1>3. f \in Bijection(S, T)
  BY <1>1, <1>2 DEF Bijection
<1>4. ExistsBijection(S, T)
  BY <1>3 DEF ExistsBijection
<1> QED
  BY <1>4, FS_Bijection

(***************************************************************************)
(* The type invariant.                                                     *)
(***************************************************************************)

(* The time of the last sample is never ahead of the clock. *)
CInv == TypeOK /\ g_last_t <= clock

Ends == [Running -> Endings]

(* The processes of a host can be counted, and so can those that get a row *)
(* (fill_procs).                                                           *)
LEMMA StoredFits ==
    ASSUME CInv, NEW end \in Ends, NEW S \in Stored(end)
    PROVE  /\ S \subseteq Candidates(end) /\ S \subseteq Procs
           /\ IsFiniteSet(S) /\ Cardinality(S) \in Nat
           /\ Cardinality(S) <= SNAP_MAX_PROCS
           /\ Truncated(end) => Cardinality(S) = SNAP_MAX_PROCS
           /\ ~Truncated(end) => S = Candidates(end)
           /\ Cardinality(Running) \in Nat
           /\ Cardinality(Candidates(end)) <= Cardinality(Running)
           /\ Cardinality(Candidates(end)) \in Nat
<1> USE CollectorAssumption
<1>1. Running \subseteq Procs /\ Candidates(end) \subseteq Running
  BY DEF Running, Candidates
<1>2. IsFiniteSet(Running) /\ Cardinality(Running) \in Nat
  BY <1>1, FS_Subset, FS_CardinalityType
<1>3. /\ IsFiniteSet(Candidates(end)) /\ Cardinality(Candidates(end)) \in Nat
      /\ Cardinality(Candidates(end)) <= Cardinality(Running)
  BY <1>1, <1>2, FS_Subset, FS_CardinalityType
<1>4. S \subseteq Candidates(end)
  BY DEF Stored
<1>5. IsFiniteSet(S) /\ Cardinality(S) \in Nat
  BY <1>3, <1>4, FS_Subset, FS_CardinalityType
<1>6. /\ Truncated(end) => Cardinality(S) = SNAP_MAX_PROCS
      /\ ~Truncated(end) => S = Candidates(end)
  BY DEF Stored
<1>7. Cardinality(S) <= SNAP_MAX_PROCS
  BY <1>3, <1>6 DEF Truncated
<1> QED
  BY <1>1, <1>2, <1>3, <1>4, <1>5, <1>6, <1>7

(* What the reads of a process leave in its row and its entry. *)
LEMMA ReadTypes ==
    ASSUME CInv, NEW p \in Procs, NEW e
    PROVE  Read(p, e) \in [start_time : Nat, cpu : Nat, readable : BOOLEAN]
<1>1. p.start_time \in Nat /\ used[p] \in Nat
  BY CollectorAssumption DEF CInv, TypeOK
<1>2. ReadLinux(p, e) \in [start_time : Nat, cpu : Nat, readable : BOOLEAN]
  BY <1>1 DEF ReadLinux
<1>3. ReadDarwin(p, e) \in [start_time : Nat, cpu : Nat, readable : BOOLEAN]
  BY <1>1 DEF ReadDarwin
<1>4. ReadWindows(p, e) \in [start_time : Nat, cpu : Nat, readable : BOOLEAN]
  BY <1>1 DEF ReadWindows
<1> QED
  BY <1>2, <1>3, <1>4 DEF Read

LEMMA DtIsNat == CInv => Dt \in Nat
BY CollectorAssumption DEF CInv, TypeOK, Dt

(* The entry that is found is one of the previous tick. *)
LEMMA FoundEntry ==
    ASSUME CInv, NEW p \in Procs, NEW read,
           {e \in lookup_prev(p.pid, read.start_time) : read.cpu >= e.cpu} # {}
    PROVE  LET e == CHOOSE e \in {f \in lookup_prev(p.pid, read.start_time) :
                                     read.cpu >= f.cpu} : TRUE
           IN  /\ e \in g_prev /\ e.pid = p.pid /\ e.start_time = read.start_time
               /\ e.cpu \in Nat /\ e.cpu <= read.cpu
BY DEF CInv, TypeOK, lookup_prev

(* A primed sample gives every row a rate, no other sample does (fill_procs). *)
LEMMA RateType ==
    ASSUME CInv, NEW p \in Procs, NEW dt \in Nat,
           NEW read \in [start_time : Nat, cpu : Nat, readable : BOOLEAN]
    PROVE  cpu_pct(p.pid, read, dt) \in IF g_primed THEN Nat ELSE {NotYet}
<1> DEFINE found == {f \in lookup_prev(p.pid, read.start_time) : read.cpu >= f.cpu}
           e     == CHOOSE f \in found : TRUE
<1>1. CASE found # {} /\ dt > 0
  <2>1. e.cpu \in Nat /\ e.cpu <= read.cpu
    BY <1>1, FoundEntry
  <2>2. 100 * (read.cpu - e.cpu) \in Nat
    BY <2>1
  <2>3. (100 * (read.cpu - e.cpu)) \div dt \in Nat
    BY <1>1, <2>2, DivIsNat
  <2> QED
    BY <1>1, <2>3 DEF cpu_pct
<1>2. CASE ~(found # {} /\ dt > 0)
  BY <1>2 DEF cpu_pct
<1> QED
  BY <1>1, <1>2

(* The headline is a percentage of a whole number. *)
LEMMA HeadlineType == CInv => fill_cpu \in Percentages
<1> SUFFICES ASSUME CInv PROVE fill_cpu \in Percentages
  OBVIOUS
<1> DEFINE d_total == stat.total - g_cpu_all.total
           d_idle  == CASE host = "Linux" -> IdleLinux(d_total)
                        [] host = "macOS" -> IdleDarwin(d_total)
                        [] OTHER          -> IdleWindows(d_total)
           share   == (100 * Minus(d_total, d_idle)) \div d_total
<1>1. d_total > 0 => util_clamp_pct(share) \in Nat
  <2>1. d_total \in Int
    BY DEF CInv, TypeOK
  <2>2. \A a, b \in Int : Minus(a, b) \in Nat
    BY CollectorAssumption DEF Minus
  <2>3. d_idle \in Int
    <3>1. stat.idle \in Nat /\ g_cpu_all.idle \in Nat
      BY DEF CInv, TypeOK
    <3>2. Minus(stat.idle, g_cpu_all.idle) \in Nat
      <4>1. stat.idle \in Int /\ g_cpu_all.idle \in Int
        BY <3>1
      <4> QED
        BY <2>2, <4>1, Zenon
    <3> HIDE DEF d_total
    <3>4. IdleLinux(d_total) \in Int /\ IdleDarwin(d_total) \in Int
      BY <2>1, <3>2 DEF IdleLinux, IdleDarwin, Capped
    <3>3. IdleWindows(d_total) \in Int
      BY <2>1, <3>1 DEF IdleWindows, Capped
    <3> QED
      BY <3>3, <3>4
  <2>4. Minus(d_total, d_idle) \in Nat
    BY <2>1, <2>2, <2>3
  <2>5. d_total > 0 => share \in Nat
    BY <2>1, <2>4, DivIsNat
  <2> HIDE DEF share, d_total
  <2> QED
    BY <2>5 DEF util_clamp_pct
<1>2. g_primed \in BOOLEAN
  BY DEF CInv, TypeOK
<1>3. fill_cpu = IF g_primed /\ d_total > 0 THEN util_clamp_pct(share) ELSE NotYet
  BY DEF fill_cpu
<1> HIDE DEF share, d_total
<1> QED
  BY <1>1, <1>2, <1>3 DEF Percentages

LEMMA CInvInit == Init => CInv
<1> SUFFICES ASSUME Init PROVE CInv
  OBVIOUS
<1> USE DEF Init
<1>1. Cardinality(g_prev) <= SNAP_MAX_PROCS /\ Cardinality(snap.rows) <= SNAP_MAX_PROCS
  BY FS_EmptySet, CollectorAssumption
<1>2. clock \in 1..MaxClock /\ g_last_t \in 0..MaxClock /\ g_last_t <= clock
  BY CollectorAssumption
<1>3. /\ stat \in [idle : Nat, total : Nat] /\ g_cpu_all \in [idle : Nat, total : Nat]
      /\ used \in [Procs -> Nat] /\ seen \in [Procs -> Percentages]
      /\ status \in [Procs -> {"unborn", "running", "gone"}]
  BY DEF Percentages
<1>4. /\ snap.cpu_total \in Percentages /\ snap.rows = {} /\ snap.process_count \in Nat
      /\ snap.truncated \in BOOLEAN /\ snap.sample_dt \in Nat /\ snap.primed \in BOOLEAN
  BY DEF Percentages
<1> QED
  BY <1>1, <1>2, <1>3, <1>4 DEF CInv, TypeOK

(* What collect_snapshot puts in the snapshot and in the statics, whichever *)
(* reads failed.                                                           *)
LEMMA StatReadTypes ==
    ASSUME CInv, NEW cpu_total \in CpuTotals, StatRead(cpu_total)
    PROVE  /\ cpu_total \in Percentages
           /\ g_cpu_all' \in [idle : Nat, total : Nat] /\ slipped' \in BOOLEAN
<1>1. cpu_total \in Percentages
  BY HeadlineType DEF CpuTotals, Percentages
<1> QED
  BY <1>1 DEF StatRead, CInv, TypeOK

(* The sample that stores the rows of S, for given ends of the reads. *)
Sample(cpu_total, end, S) ==
    /\ StatRead(cpu_total)
    /\ Finish(cpu_total, {Row(p, end[p], Dt) : p \in S},
              Cardinality(Running), Truncated(end))
    /\ g_prev' = {Entry(p, end[p]) : p \in S}
    /\ seen' = [p \in Procs |->
                  IF p \notin S THEN seen[p]
                  ELSE IF end[p] = "read" THEN used[p] ELSE NotYet]

LEMMA CollectIsSample ==
    Collect => \E cpu_total \in CpuTotals, end \in Ends :
                   \E S \in Stored(end) : Sample(cpu_total, end, S)
BY DEF Collect, Sample, Ends

LEMMA CInvSample ==
    ASSUME CInv, NEW cpu_total \in CpuTotals, NEW end \in Ends,
           NEW S \in Stored(end), Sample(cpu_total, end, S)
    PROVE  CInv'
<1>1. /\ StatRead(cpu_total)
      /\ Finish(cpu_total, {Row(p, end[p], Dt) : p \in S},
                Cardinality(Running), Truncated(end))
      /\ g_prev' = {Entry(p, end[p]) : p \in S}
      /\ seen' = [p \in Procs |->
                    IF p \notin S THEN seen[p]
                    ELSE IF end[p] = "read" THEN used[p] ELSE NotYet]
  BY DEF Sample
<1>2. /\ S \subseteq Procs /\ IsFiniteSet(S) /\ Cardinality(S) \in Nat
      /\ Cardinality(S) <= SNAP_MAX_PROCS /\ Cardinality(Running) \in Nat
  BY StoredFits
<1>3. /\ cpu_total \in Percentages
      /\ g_cpu_all' \in [idle : Nat, total : Nat] /\ slipped' \in BOOLEAN
  BY <1>1, StatReadTypes
<1>4. Dt \in Nat
  BY DtIsNat
<1>5. /\ g_prev' \subseteq [pid : Nat, start_time : Nat, cpu : Nat]
      /\ Cardinality(g_prev') <= SNAP_MAX_PROCS
  <2>1. \A p \in S : Entry(p, end[p]) \in [pid : Nat, start_time : Nat, cpu : Nat]
    BY <1>2, ReadTypes, CollectorAssumption DEF Entry
  <2> DEFINE f == [p \in S |-> Entry(p, end[p])]
  <2>2. g_prev' = {f[p] : p \in S}
    BY <1>1
  <2>3. f = [p \in S |-> f[p]]
    OBVIOUS
  <2> HIDE DEF f
  <2>4. Cardinality(g_prev') \in Nat /\ Cardinality(g_prev') <= Cardinality(S)
    BY <1>2, <2>2, <2>3, ImageFits
  <2> QED
    BY <1>1, <1>2, <2>1, <2>4, CollectorAssumption
<1>6. /\ \A row \in snap'.rows : row.proc \in Procs /\ row.cpu_pct \in Percentages
      /\ Cardinality(snap'.rows) <= SNAP_MAX_PROCS
  <2>1. \A p \in S : Row(p, end[p], Dt).proc = p /\ Row(p, end[p], Dt).cpu_pct \in Percentages
    BY <1>2, <1>4, ReadTypes, RateType DEF Row, Percentages
  <2> DEFINE f == [p \in S |-> Row(p, end[p], Dt)]
  <2>2. snap'.rows = {f[p] : p \in S}
    BY <1>1 DEF Finish
  <2>3. f = [p \in S |-> f[p]]
    OBVIOUS
  <2>4. \A p \in S : f[p].proc = p /\ f[p].cpu_pct \in Percentages
    BY <2>1
  <2> HIDE DEF f
  <2>5. Cardinality(snap'.rows) \in Nat /\ Cardinality(snap'.rows) <= Cardinality(S)
    BY <1>2, <2>2, <2>3, ImageFits
  <2> QED
    BY <1>2, <2>2, <2>4, <2>5, CollectorAssumption
<1>7. seen' \in [Procs -> Percentages]
  BY <1>1 DEF CInv, TypeOK, Percentages
<1>8. /\ snap'.cpu_total \in Percentages /\ snap'.process_count \in Nat
      /\ snap'.truncated \in BOOLEAN /\ snap'.sample_dt \in Nat /\ snap'.primed \in BOOLEAN
  BY <1>1, <1>2, <1>3, <1>4 DEF Finish, Primed, Truncated, CInv, TypeOK
<1>9. /\ g_primed' \in BOOLEAN /\ g_last_t' \in 0..MaxClock /\ g_last_t' <= clock'
      /\ UNCHANGED machine
  BY <1>1 DEF Finish, CInv, TypeOK, machine
<1> QED
  BY <1>3, <1>5, <1>6, <1>7, <1>8, <1>9 DEF CInv, TypeOK, machine

LEMMA CInvCollectNothing ==
    ASSUME CInv, CollectNothing PROVE CInv'
<1>1. PICK cpu_total \in CpuTotals :
        StatRead(cpu_total) /\ Finish(cpu_total, {}, 0, FALSE)
  BY DEF CollectNothing
<1>2. /\ cpu_total \in Percentages
      /\ g_cpu_all' \in [idle : Nat, total : Nat] /\ slipped' \in BOOLEAN
  BY <1>1, StatReadTypes
<1>3. Cardinality(snap'.rows) <= SNAP_MAX_PROCS /\ snap'.rows = {}
  BY <1>1, FS_EmptySet, CollectorAssumption DEF Finish
<1>4. /\ snap'.cpu_total \in Percentages /\ snap'.process_count \in Nat
      /\ snap'.truncated \in BOOLEAN /\ snap'.sample_dt \in Nat /\ snap'.primed \in BOOLEAN
  BY <1>1, <1>2, DtIsNat DEF Finish, Primed, CInv, TypeOK
<1>5. /\ g_primed' \in BOOLEAN /\ g_last_t' \in 0..MaxClock /\ g_last_t' <= clock'
      /\ UNCHANGED machine
  BY <1>1 DEF Finish, CInv, TypeOK, machine
<1>6. UNCHANGED <<g_prev, seen>>
  BY DEF CollectNothing
<1> QED
  BY <1>2, <1>3, <1>4, <1>5, <1>6 DEF CInv, TypeOK, machine

LEMMA CInvNext == CInv /\ [Next]_vars => CInv'
<1> SUFFICES ASSUME CInv, [Next]_vars PROVE CInv'
  OBVIOUS
<1> USE DEF CInv, TypeOK, statics
<1>1. ASSUME NEW p \in Procs, Run(p) PROVE CInv'
  BY <1>1, CollectorAssumption DEF Run
<1>2. ASSUME NEW p \in Procs, Spawn(p) PROVE CInv'
  BY <1>2 DEF Spawn
<1>3. ASSUME NEW p \in Procs, Exit(p) PROVE CInv'
  BY <1>3 DEF Exit
<1>4. CASE Idle
  BY <1>4, CollectorAssumption DEF Idle
<1>5. CASE IdleSlips
  BY <1>5, CollectorAssumption DEF IdleSlips
<1>6. CASE Collect
  BY <1>6, CollectIsSample, CInvSample
<1>7. CASE CollectNothing
  BY <1>7, CInvCollectNothing
<1>8. CASE UNCHANGED vars
  BY <1>8 DEF vars
<1> QED
  BY <1>1, <1>2, <1>3, <1>4, <1>5, <1>6, <1>7, <1>8 DEF Next, collect_snapshot

(* Every variable of the collector keeps its type, and neither the rows    *)
(* nor the table of the previous tick outgrows its array (fill_procs).     *)
THEOREM CollectorTypes == Spec => []TypeOK
<1>1. CInv => TypeOK
  BY DEF CInv
<1> QED
  BY <1>1, CInvInit, CInvNext, PTL DEF Spec

(***************************************************************************)
(* What a snapshot says of itself.                                         *)
(***************************************************************************)

RInv == CInv /\ PrimedMeansRates

LEMMA RInvSample ==
    ASSUME RInv, NEW cpu_total \in CpuTotals, NEW end \in Ends,
           NEW S \in Stored(end), Sample(cpu_total, end, S)
    PROVE  PrimedMeansRates'
<1>1. Finish(cpu_total, {Row(p, end[p], Dt) : p \in S},
             Cardinality(Running), Truncated(end))
  BY DEF Sample
<1>2. S \subseteq Procs /\ Dt \in Nat /\ g_primed \in BOOLEAN
  BY StoredFits, DtIsNat DEF RInv, CInv, TypeOK
<1>3. \A p \in S : Row(p, end[p], Dt).cpu_pct \in IF g_primed THEN Nat ELSE {NotYet}
  BY <1>2, ReadTypes, RateType DEF RInv, Row
<1>4. \A row \in snap'.rows : (row.cpu_pct = NotYet) <=> ~snap'.primed
  BY <1>1, <1>2, <1>3 DEF Finish, Primed, NotYet
<1>5. ~snap'.primed => snap'.cpu_total = NotYet
  BY <1>1, <1>2 DEF Finish, Primed, CpuTotals, fill_cpu
<1> QED
  BY <1>2, <1>4, <1>5, <1>1 DEF PrimedMeansRates, Finish, Primed

LEMMA RInvCollectNothing ==
    ASSUME RInv, CollectNothing PROVE PrimedMeansRates'
<1>1. PICK cpu_total \in CpuTotals : Finish(cpu_total, {}, 0, FALSE)
  BY DEF CollectNothing
<1>2. g_primed \in BOOLEAN
  BY DEF RInv, CInv, TypeOK
<1> QED
  BY <1>1, <1>2 DEF PrimedMeansRates, Finish, Primed, CpuTotals, fill_cpu

(* The snapshot changes in the steps of collect_snapshot only, and the host *)
(* never does.                                                             *)
LEMMA OnlySamples ==
    ASSUME [Next]_vars
    PROVE  /\ UNCHANGED host
           /\ \/ UNCHANGED snap
              \/ CollectNothing
              \/ \E cpu_total \in CpuTotals, end \in Ends :
                     \E S \in Stored(end) : Sample(cpu_total, end, S)
<1>1. ASSUME NEW p \in Procs, Run(p) \/ Spawn(p) \/ Exit(p) PROVE UNCHANGED <<host, snap>>
  BY <1>1 DEF Run, Spawn, Exit
<1>2. CASE Idle \/ IdleSlips
  BY <1>2 DEF Idle, IdleSlips
<1>3. CASE Collect
  BY <1>3, CollectIsSample DEF Sample, Finish, machine
<1>4. CASE CollectNothing
  BY <1>4 DEF CollectNothing, Finish, machine
<1>5. CASE UNCHANGED vars
  BY <1>5 DEF vars
<1> QED
  BY <1>1, <1>2, <1>3, <1>4, <1>5 DEF Next, collect_snapshot

(* Rows have rates exactly in the primed snapshots, whichever reads failed *)
(* before, and a headline is only in those (g_primed).                     *)
THEOREM RatesWhenPrimed == Spec => []PrimedMeansRates
<1>1. Init => RInv
  BY CInvInit DEF Init, RInv, PrimedMeansRates
<1>2. RInv /\ [Next]_vars => RInv'
  <2> SUFFICES ASSUME RInv, [Next]_vars PROVE PrimedMeansRates'
    BY CInvNext DEF RInv
  <2>1. CASE UNCHANGED snap
    BY <2>1 DEF RInv, PrimedMeansRates
  <2> QED
    BY <2>1, OnlySamples, RInvSample, RInvCollectNothing
<1>3. RInv => PrimedMeansRates
  BY DEF RInv
<1> QED
  BY <1>1, <1>2, <1>3, PTL DEF Spec

LEMMA HonestSample ==
    ASSUME CInv, NEW cpu_total \in CpuTotals, NEW end \in Ends,
           NEW S \in Stored(end), Sample(cpu_total, end, S)
    PROVE  TruncatedHonest'
<1>1. /\ snap'.rows = {Row(p, end[p], Dt) : p \in S}
      /\ snap'.process_count = Cardinality(Running)
      /\ snap'.truncated = Truncated(end) /\ UNCHANGED host
  BY DEF Sample, Finish, machine
<1>2. Cardinality(snap'.rows) = Cardinality(S)
  <2> DEFINE f == [p \in S |-> Row(p, end[p], Dt)]
  <2>1. snap'.rows = {f[p] : p \in S}
    BY <1>1
  <2>2. f = [p \in S |-> f[p]]
    OBVIOUS
  <2>3. \A p, q \in S : f[p] = f[q] => p = q
    BY DEF Row
  <2>4. IsFiniteSet(S)
    BY StoredFits
  <2> HIDE DEF f
  <2> QED
    BY <2>1, <2>2, <2>3, <2>4, ImageCounts
<1>3. CASE Truncated(end)
  <2>1. Cardinality(S) = SNAP_MAX_PROCS /\ Cardinality(Running) > SNAP_MAX_PROCS
    BY <1>3, StoredFits, CollectorAssumption DEF Truncated
  <2> QED
    BY <1>1, <1>2, <1>3, <2>1 DEF TruncatedHonest
<1>4. CASE ~Truncated(end)
  <2>1. ASSUME host # "Linux" PROVE S = Running
    <3>1. \A p \in Running : end[p] # "vanished"
      BY <2>1 DEF Ends, Endings
    <3> QED
      BY <1>4, <3>1, StoredFits DEF Candidates
  <2> QED
    BY <1>1, <1>2, <1>4, <2>1 DEF TruncatedHonest
<1> QED
  BY <1>3, <1>4

(* A flagged table is full and more processes were reported; an unflagged  *)
(* one of macOS and Windows has them all (fill_procs).                     *)
THEOREM FlagIsHonest == Spec => []TruncatedHonest
<1>1. Init => TruncatedHonest
  BY FS_EmptySet DEF Init, TruncatedHonest
<1>2. CInv /\ TruncatedHonest /\ [Next]_vars => TruncatedHonest'
  <2> SUFFICES ASSUME CInv, TruncatedHonest, [Next]_vars PROVE TruncatedHonest'
    OBVIOUS
  <2>1. CASE UNCHANGED snap
    BY <2>1, OnlySamples DEF TruncatedHonest
  <2>2. CASE CollectNothing
    BY <2>2, FS_EmptySet DEF CollectNothing, Finish, TruncatedHonest
  <2> QED
    BY <2>1, <2>2, OnlySamples, HonestSample
<1> QED
  BY <1>1, <1>2, CInvInit, CInvNext, PTL DEF Spec

(***************************************************************************)
(* Whose counters a rate is made of.                                       *)
(***************************************************************************)

(* An entry that a start time identifies is the last row of the process    *)
(* that started then.  The start time 0 of the Windows rows that were not  *)
(* read identifies no process; a row of macOS that was not read counts 0.  *)
OwnedBy(e, p) ==
    /\ e.pid = p.pid /\ e.start_time = p.start_time
    /\ \/ seen[p] # NotYet /\ e.cpu = seen[p]
       \/ host = "macOS" /\ seen[p] = NotYet /\ e.cpu = 0

EntriesOwned ==
    \A e \in g_prev : e.start_time # 0 => \E p \in Procs : OwnedBy(e, p)

LEMMA OwnedSample ==
    ASSUME CInv, NEW cpu_total \in CpuTotals, NEW end \in Ends,
           NEW S \in Stored(end), Sample(cpu_total, end, S)
    PROVE  EntriesOwned'
<1>1. /\ g_prev' = {Entry(p, end[p]) : p \in S}
      /\ seen' = [p \in Procs |->
                    IF p \notin S THEN seen[p]
                    ELSE IF end[p] = "read" THEN used[p] ELSE NotYet]
      /\ UNCHANGED host
  BY DEF Sample, Finish, machine
<1>2. S \subseteq Procs /\ S \subseteq Candidates(end)
  BY StoredFits
<1> SUFFICES ASSUME NEW e \in g_prev', e.start_time # 0
             PROVE  \E p \in Procs :
                        /\ e.pid = p.pid /\ e.start_time = p.start_time
                        /\ \/ seen'[p] # NotYet /\ e.cpu = seen'[p]
                           \/ host = "macOS" /\ seen'[p] = NotYet /\ e.cpu = 0
  BY <1>1 DEF EntriesOwned, OwnedBy
<1>3. PICK p \in S : e = Entry(p, end[p])
  BY <1>1
<1>4. p \in Procs /\ p \in Running /\ end[p] \in Endings /\ end[p] # "vanished"
  BY <1>2 DEF Candidates, Ends
<1>5. used[p] \in Nat /\ host \in {"Linux", "macOS", "Windows"}
  BY <1>4, CollectorAssumption DEF CInv, TypeOK
<1>6. seen'[p] = IF end[p] = "read" THEN used[p] ELSE NotYet
  BY <1>1, <1>4
<1>7. e.pid = p.pid /\ e.start_time = Read(p, end[p]).start_time /\ e.cpu = Read(p, end[p]).cpu
  BY <1>3 DEF Entry
<1>8. /\ e.start_time = p.start_time
      /\ \/ seen'[p] # NotYet /\ e.cpu = seen'[p]
         \/ host = "macOS" /\ seen'[p] = NotYet /\ e.cpu = 0
  <2>1. CASE host = "Linux"
    <3>1. end[p] = "read"
      BY <2>1, <1>4 DEF Endings
    <3> QED
      BY <2>1, <3>1, <1>5, <1>6, <1>7 DEF Read, ReadLinux, NotYet
  <2>2. CASE host = "macOS"
    <3>1. Read(p, end[p]) = ReadDarwin(p, end[p])
      BY <2>2 DEF Read
    <3>2. CASE end[p] = "read"
      BY <3>1, <3>2, <1>5, <1>6, <1>7 DEF ReadDarwin, NotYet
    <3>3. CASE end[p] # "read"
      BY <2>2, <3>1, <3>3, <1>6, <1>7 DEF ReadDarwin
    <3> QED
      BY <3>2, <3>3
  <2>3. CASE host = "Windows"
    <3>1. Read(p, end[p]) = ReadWindows(p, end[p])
      BY <2>3 DEF Read
    <3>2. CASE end[p] = "read"
      BY <3>1, <3>2, <1>5, <1>6, <1>7 DEF ReadWindows, NotYet
    <3>3. CASE end[p] # "read"
      <4>1. ReadWindows(p, end[p]).start_time = 0
        BY <3>3 DEF ReadWindows
      <4> QED
        BY <3>1, <4>1, <1>7
    <3> QED
      BY <3>2, <3>3
  <2> QED
    BY <1>5, <2>1, <2>2, <2>3
<1> QED
  BY <1>4, <1>7, <1>8

OInv == CInv /\ EntriesOwned

LEMMA OInvInit == Init => OInv
BY CInvInit DEF Init, OInv, EntriesOwned

LEMMA OInvNext == OInv /\ [Next]_vars => OInv'
<1> SUFFICES ASSUME OInv, [Next]_vars PROVE EntriesOwned'
  BY CInvNext DEF OInv
<1> USE DEF OInv, EntriesOwned, OwnedBy
<1>1. ASSUME NEW p \in Procs, Run(p) \/ Spawn(p) \/ Exit(p) PROVE EntriesOwned'
  BY <1>1 DEF Run, Spawn, Exit, statics
<1>2. CASE Idle \/ IdleSlips
  BY <1>2 DEF Idle, IdleSlips, statics
<1>3. CASE Collect
  BY <1>3, CollectIsSample, OwnedSample
<1>4. CASE CollectNothing
  BY <1>4 DEF CollectNothing, Finish, machine
<1>5. CASE UNCHANGED vars
  BY <1>5 DEF vars
<1> QED
  BY <1>1, <1>2, <1>3, <1>4, <1>5 DEF Next, collect_snapshot
(* The rate of a process that was read is over what it used since its last *)
(* row, that of one that was not is 0.                                     *)
LEMMA OwnRate ==
    ASSUME OInv, NEW p \in Procs, NEW end, NEW dt \in Nat,
           cpu_pct(p.pid, Read(p, end), dt) > 0
    PROVE  \/ host = "macOS" /\ seen[p] = NotYet
           \/ /\ seen[p] # NotYet
              /\ cpu_pct(p.pid, Read(p, end), dt) = (100 * (used[p] - seen[p])) \div dt
<1> DEFINE read  == Read(p, end)
           found == {f \in lookup_prev(p.pid, read.start_time) : read.cpu >= f.cpu}
           e     == CHOOSE f \in found : TRUE
<1>1. g_primed /\ found # {} /\ dt > 0 /\ cpu_pct(p.pid, read, dt) = (100 * (read.cpu - e.cpu)) \div dt
  BY DEF cpu_pct, NotYet
<1>2. /\ e \in g_prev /\ e.pid = p.pid /\ e.start_time = read.start_time
      /\ e.cpu \in Nat /\ e.cpu <= read.cpu
  BY <1>1, FoundEntry DEF OInv
<1> HIDE DEF e, found, read
<1>3. read.cpu # 0
  <2>1. read.cpu = 0 => e.cpu = 0
    BY <1>2
  <2>2. (100 * 0) \div dt = 0
    BY <1>1, DivOfNone
  <2>3. read.cpu = 0 => (100 * (read.cpu - e.cpu)) \div dt = 0
    BY <2>1, <2>2
  <2> QED
    BY <1>1, <2>3 DEF read
<1>4. read.start_time = p.start_time /\ read.cpu = used[p]
  BY <1>3 DEF read, Read, ReadLinux, ReadDarwin, ReadWindows
<1>5. PICK q \in Procs : OwnedBy(e, q)
  BY <1>2, <1>4, CollectorAssumption DEF OInv, EntriesOwned
<1>6. q = p
  BY <1>2, <1>4, <1>5, CollectorAssumption DEF OwnedBy
<1> QED
  BY <1>1, <1>4, <1>5, <1>6 DEF OwnedBy, read

(* A rate is what the process itself used since its own last row, over the *)
(* sample's dt, never a part of what an earlier process with its pid used  *)
(* (lookup_prev and fill_procs).                                           *)
THEOREM RatesAreOwn == Spec => OwnRates
<1> DEFINE Own(row) ==
             \/ host = "macOS" /\ seen[row.proc] = NotYet
             \/ /\ seen[row.proc] # NotYet
                /\ row.cpu_pct = (100 * (used[row.proc] - seen[row.proc]))
                                    \div snap'.sample_dt
           OwnStep == \A row \in snap'.rows : snap' # snap /\ row.cpu_pct > 0 => Own(row)
<1>1. OInv /\ [Next]_vars => [OwnStep]_vars
  <2> SUFFICES ASSUME OInv, [Next]_vars, NEW row \in snap'.rows, snap' # snap,
                      row.cpu_pct > 0
               PROVE  Own(row)
    OBVIOUS
  <2>1. CASE CollectNothing
    BY <2>1 DEF CollectNothing, Finish
  <2>2. ASSUME NEW cpu_total \in CpuTotals, NEW end \in Ends, NEW S \in Stored(end),
               Sample(cpu_total, end, S)
        PROVE  Own(row)
    <3>1. /\ snap'.rows = {Row(p, end[p], Dt) : p \in S} /\ snap'.sample_dt = Dt
      BY <2>2 DEF Sample, Finish
    <3>2. PICK p \in S : row = Row(p, end[p], Dt)
      BY <3>1
    <3>3. p \in Procs /\ Dt \in Nat
      BY StoredFits, DtIsNat DEF OInv
    <3>4. row.proc = p /\ row.cpu_pct = cpu_pct(p.pid, Read(p, end[p]), Dt)
      BY <3>2 DEF Row
    <3>5. \/ host = "macOS" /\ seen[p] = NotYet
          \/ /\ seen[p] # NotYet
             /\ row.cpu_pct = (100 * (used[p] - seen[p])) \div Dt
      BY <3>3, <3>4, OwnRate
    <3> QED
      BY <3>1, <3>4, <3>5
  <2> QED
    BY <2>1, <2>2, OnlySamples
<1> QED
  BY <1>1, OInvInit, OInvNext, PTL DEF Spec, OwnRates

(***************************************************************************)
(* The headline.                                                           *)
(***************************************************************************)

(* The counters of the processor and those of the last read: one tick of   *)
(* the clock is one tick of the processor, and while idle did not go back  *)
(* it has not grown by more than the total has.                            *)
Ticks ==
    /\ stat.idle <= stat.total /\ stat.total = clock
    /\ g_cpu_all.idle <= g_cpu_all.total /\ g_cpu_all.total <= stat.total
    /\ ~slipped => /\ g_cpu_all.idle <= stat.idle
                   /\ stat.idle - g_cpu_all.idle <= stat.total - g_cpu_all.total

TInv == CInv /\ Ticks

LEMMA TInvInit == Init => TInv
BY CInvInit DEF Init, TInv, Ticks

LEMMA TInvNext == TInv /\ [Next]_vars => TInv'
<1> SUFFICES ASSUME TInv, [Next]_vars PROVE Ticks'
  BY CInvNext DEF TInv
<1>0. /\ stat \in [idle : Nat, total : Nat] /\ g_cpu_all \in [idle : Nat, total : Nat]
      /\ clock \in Nat /\ slipped \in BOOLEAN /\ Ticks
  BY DEF TInv, CInv, TypeOK
<1>1. ASSUME NEW p \in Procs, Run(p) PROVE Ticks'
  BY <1>0, <1>1 DEF Run, Ticks, statics
<1>2. ASSUME NEW p \in Procs, Spawn(p) \/ Exit(p) PROVE Ticks'
  BY <1>0, <1>2 DEF Spawn, Exit, Ticks, statics
<1>3. CASE Idle
  BY <1>0, <1>3 DEF Idle, Ticks, statics
<1>4. CASE IdleSlips
  BY <1>0, <1>4 DEF IdleSlips, Ticks, statics
<1>5. ASSUME NEW cpu_total, StatRead(cpu_total), UNCHANGED machine PROVE Ticks'
  BY <1>0, <1>5 DEF StatRead, machine, Ticks
<1>6. CASE collect_snapshot
  BY <1>5, <1>6, CollectIsSample DEF collect_snapshot, CollectNothing, Sample, Finish
<1>7. CASE UNCHANGED vars
  BY <1>0, <1>7 DEF vars, Ticks
<1> QED
  BY <1>1, <1>2, <1>3, <1>4, <1>6, <1>7 DEF Next

(* Subtraction of counters that did not go back does not wrap.             *)
LEMMA MinusIsExact ==
    ASSUME NEW a \in Nat, NEW b \in Nat, b <= a, a <= MaxClock
    PROVE  Minus(a, b) = a - b
<1>1. a - b \in Nat /\ a - b < UINT64_SPAN /\ UINT64_SPAN \in Nat
  BY CollectorAssumption
<1>2. \A n, m \in Nat : n < m => n % m = n
  OBVIOUS
<1> QED
  BY <1>1, <1>2 DEF Minus

(* What is subtracted on each host is the idle ticks since the last read.  *)
LEMMA IdleIsExact ==
    ASSUME TInv, ~slipped
    PROVE  LET d_total == stat.total - g_cpu_all.total
               d_idle  == stat.idle - g_cpu_all.idle
           IN  /\ d_idle \in Nat /\ d_total \in Nat /\ d_idle <= d_total
               /\ d_total <= MaxClock
               /\ IdleLinux(d_total) = d_idle
               /\ IdleDarwin(d_total) = d_idle
               /\ IdleWindows(d_total) = d_idle
<1> DEFINE d_total == stat.total - g_cpu_all.total
           d_idle  == stat.idle - g_cpu_all.idle
<1>1. /\ stat.idle \in Nat /\ stat.total \in Nat /\ g_cpu_all.idle \in Nat
      /\ g_cpu_all.total \in Nat /\ clock <= MaxClock /\ MaxClock \in Nat /\ Ticks
  BY CollectorAssumption DEF TInv, CInv, TypeOK
<1>2. /\ d_idle \in Nat /\ d_total \in Nat /\ d_idle <= d_total /\ d_total <= MaxClock
      /\ stat.idle <= MaxClock /\ g_cpu_all.idle <= stat.idle
  BY <1>1 DEF Ticks
<1>3. Minus(stat.idle, g_cpu_all.idle) = d_idle
  BY <1>1, <1>2, MinusIsExact
<1> HIDE DEF d_total
<1>4. IdleLinux(d_total) = d_idle /\ IdleDarwin(d_total) = d_idle
  BY <1>2, <1>3 DEF IdleLinux, IdleDarwin, Capped
<1>5. IdleWindows(d_total) = d_idle
  BY <1>1, <1>2 DEF IdleWindows, Capped
<1> QED
  BY <1>2, <1>4, <1>5 DEF d_total

(* The headline is the busy share of the ticks since the last read.        *)
LEMMA HeadlineIsShare ==
    ASSUME TInv, fill_cpu # NotYet
    PROVE  LET busy  == (stat.total - stat.idle) - (g_cpu_all.total - g_cpu_all.idle)
               ticks == stat.total - g_cpu_all.total
           IN  /\ fill_cpu \in 0..100
               /\ ~slipped => fill_cpu = (100 * busy) \div ticks
<1> DEFINE busy    == (stat.total - stat.idle) - (g_cpu_all.total - g_cpu_all.idle)
           d_total == stat.total - g_cpu_all.total
           d_idle  == CASE host = "Linux" -> IdleLinux(d_total)
                        [] host = "macOS" -> IdleDarwin(d_total)
                        [] OTHER          -> IdleWindows(d_total)
           share   == (100 * Minus(d_total, d_idle)) \div d_total
<1>1. g_primed /\ d_total > 0 /\ fill_cpu = util_clamp_pct(share)
  BY DEF fill_cpu
<1>2. /\ stat.idle \in Nat /\ stat.total \in Nat /\ g_cpu_all.idle \in Nat
      /\ g_cpu_all.total \in Nat
  BY DEF TInv, CInv, TypeOK
<1>3. fill_cpu \in 0..100
  <2>1. fill_cpu \in Int
    BY HeadlineType DEF TInv, Percentages, NotYet
  <2> HIDE DEF share, d_total
  <2>2. fill_cpu = IF share < 0 THEN 0 ELSE IF share > 100 THEN 100 ELSE share
    BY <1>1 DEF util_clamp_pct
  <2> QED
    BY <2>1, <2>2
<1>4. ASSUME ~slipped PROVE fill_cpu = (100 * busy) \div d_total
  <2>1. /\ d_total \in Nat /\ d_total <= MaxClock /\ d_idle \in Nat /\ d_idle <= d_total
        /\ d_idle = stat.idle - g_cpu_all.idle
    BY <1>4, IdleIsExact
  <2>2. Minus(d_total, d_idle) = busy
    <3>1. Minus(d_total, d_idle) = d_total - d_idle
      BY <2>1, MinusIsExact
    <3> QED
      BY <1>2, <2>1, <3>1
  <2>3. busy \in Nat /\ busy <= d_total
    BY <1>2, <2>1
  <2>4. (100 * busy) \div d_total \in 0..100
    BY <1>1, <2>1, <2>3, DivIsShare
  <2> HIDE DEF busy, d_total, d_idle
  <2>5. \A n \in 0..100 : util_clamp_pct(n) = n
    BY DEF util_clamp_pct
  <2> QED
    BY <1>1, <2>2, <2>4, <2>5
<1> QED
  BY <1>3, <1>4

(* The headline stays within 0..100 whatever the idle counter does, and is *)
(* the busy share of the ticks since the counters were last read when that *)
(* counter did not go back (fill_cpu).                                     *)
THEOREM HeadlineIsSound == Spec => HeadlineSound
<1> DEFINE busy  == (stat.total - stat.idle) - (g_cpu_all.total - g_cpu_all.idle)
           ticks == stat.total - g_cpu_all.total
           Sound == snap' # snap /\ snap'.cpu_total # NotYet =>
                      /\ snap'.cpu_total \in 0..100
                      /\ ~slipped => snap'.cpu_total = (100 * busy) \div ticks
<1>1. TInv /\ [Next]_vars => [Sound]_vars
  <2> SUFFICES ASSUME TInv, [Next]_vars, snap' # snap, snap'.cpu_total # NotYet
               PROVE  /\ snap'.cpu_total \in 0..100
                      /\ ~slipped => snap'.cpu_total = (100 * busy) \div ticks
    OBVIOUS
  <2>1. PICK cpu_total \in CpuTotals : snap'.cpu_total = cpu_total
    <3>1. CASE CollectNothing
      BY <3>1 DEF CollectNothing, Finish
    <3>2. ASSUME NEW cpu_total \in CpuTotals, NEW end \in Ends, NEW S \in Stored(end),
                 Sample(cpu_total, end, S)
          PROVE  snap'.cpu_total = cpu_total
      BY <3>2 DEF Sample, Finish
    <3> QED
      BY <3>1, <3>2, OnlySamples
  <2>2. snap'.cpu_total = fill_cpu /\ fill_cpu # NotYet
    BY <2>1 DEF CpuTotals
  <2> HIDE DEF busy, ticks
  <2>3. /\ fill_cpu \in 0..100
        /\ ~slipped => fill_cpu = (100 * busy) \div ticks
    BY <2>2, HeadlineIsShare DEF busy, ticks
  <2> QED
    BY <2>2, <2>3
<1>2. [][Sound]_vars => HeadlineSound
  BY DEF HeadlineSound
<1> QED
  BY <1>1, <1>2, TInvInit, TInvNext, PTL DEF Spec
=============================================================================
