--------------------------- MODULE ProcViewProofs ---------------------------
(***************************************************************************)
(* Theorems about the helpers of ProcView, for every table and filter.     *)
(*                                                                         *)
(* The first part shows that cmp_procs is a strict total order on rows of  *)
(* distinct pids, whatever column and direction the user chose.  A table   *)
(* sorted by it is therefore determined by the set of its rows, and every  *)
(* index of the list is the place of exactly one row: that is what lets    *)
(* ProcView keep a set and an order in place of procs[] and qsort.         *)
(***************************************************************************)
EXTENDS ProcView, TLAPS, FiniteSetTheorems, WellFoundedInduction

-----------------------------------------------------------------------------
(* Text. *)

(* A set of numbers that has a member has a least one. *)
LEMMA SmallestIs ==
    ASSUME NEW S \in SUBSET Nat, S # {}
    PROVE  Smallest(S) \in S /\ \A y \in S : Smallest(S) <= y
<1> DEFINE upto == {0 .. x : x \in S}
<1>1. upto \subseteq FiniteSubsetsOf(Nat) /\ upto # {}
  <2>1. \A x \in S : 0 .. x \subseteq Nat /\ IsFiniteSet(0 .. x)
    BY FS_Interval
  <2> QED
    BY <2>1 DEF FiniteSubsetsOf
<1>2. PICK X \in upto : \A Y \in upto : <<Y, X>> \notin StrictSubsetOrdering(Nat)
  BY <1>1, WFMin, FS_StrictSubsetOrderingWellFounded
<1>3. PICK x \in S : X = 0 .. x
  OBVIOUS
<1>4. ASSUME NEW y \in S, y < x PROVE FALSE
  <2>1. x \in X /\ x \notin 0 .. y
    BY <1>3, <1>4
  <2>2. 0 .. y \subseteq X /\ 0 .. y \subseteq Nat /\ X \subseteq Nat
    BY <1>3, <1>4
  <2>3. <<0 .. y, X>> \in StrictSubsetOrdering(Nat)
    BY <2>1, <2>2 DEF StrictSubsetOrdering
  <2> QED
    BY <1>2, <2>3
<1>5. \A y \in S : x <= y
  BY <1>4
<1> QED
  BY <1>5 DEF Smallest

(* A text with its terminator repeated for ever, folded. *)
Pad(s, i) == IF i \in 1..Len(s) THEN Lower(s[i]) ELSE 0

Positive == Nat \ {0}

LEMMA LowerPositive ==
    ASSUME NEW c \in Positive PROVE Lower(c) \in Positive
BY DEF Lower, Positive

LEMMA PadType ==
    ASSUME NEW s \in Text, NEW i \in Positive
    PROVE  Pad(s, i) \in Nat /\ (Pad(s, i) = 0 <=> i > Len(s))
<1>1. Len(s) \in Nat
  BY DEF Text
<1>2. i \in 1..Len(s) => Lower(s[i]) \in Positive
  BY LowerPositive DEF Text, Positive
<1> QED
  BY <1>1, <1>2 DEF Pad, Positive

(* What name_cmp says of two names with this difference in their texts. *)
FirstDifference(a, b, i) ==
    /\ \A j \in Positive : j < i => Pad(a, j) = Pad(b, j)
    /\ Pad(a, i) # Pad(b, i)

(* name_cmp finds the first difference of the padded names, although it    *)
(* folds the characters it meets and not those it stops at.                *)
LEMMA NameFirstDifference ==
    ASSUME NEW a \in Text, NEW b \in Text
    PROVE  /\ name_cmp(a, b) \in Int
           /\ \/ name_cmp(a, b) = 0 /\ \A i \in Positive : Pad(a, i) = Pad(b, i)
              \/ \E i \in Positive :
                    /\ FirstDifference(a, b, i)
                    /\ name_cmp(a, b) # 0
                    /\ name_cmp(a, b) < 0 <=> Pad(a, i) < Pad(b, i)
<1> DEFINE short   == IF Len(a) < Len(b) THEN Len(a) ELSE Len(b)
           common  == 1 .. short
           differ  == {i \in common : Lower(a[i]) # Lower(b[i])}
           next(s) == IF Len(s) > Cardinality(common)
                      THEN s[Cardinality(common) + 1] ELSE 0
<1>1. /\ Len(a) \in Nat /\ Len(b) \in Nat /\ short \in Nat
      /\ short <= Len(a) /\ short <= Len(b) /\ (short = Len(a) \/ short = Len(b))
  BY DEF Text
<1>2. Cardinality(common) = short
  <2> HIDE DEF short
  <2> QED
    BY <1>1, FS_Interval
<1>3. \A i \in common : /\ i \in Positive
                        /\ Pad(a, i) = Lower(a[i]) /\ Pad(b, i) = Lower(b[i])
  BY <1>1 DEF Pad, Positive
<1>4. \A i \in Positive : Pad(a, i) \in Nat /\ Pad(b, i) \in Nat
  BY PadType
<1>5. CASE differ # {}
  <2> DEFINE i == Smallest(differ)
  <2>1. differ \subseteq Nat
    BY <1>1
  <2>2. i \in differ /\ \A y \in differ : i <= y
    BY <1>5, <2>1, SmallestIs
  <2>3. name_cmp(a, b) = Lower(a[i]) - Lower(b[i])
    BY <1>5 DEF name_cmp
  <2> HIDE DEF i
  <2>4. i \in common /\ i \in Positive
    BY <2>2, <1>3
  <2>5. name_cmp(a, b) = Pad(a, i) - Pad(b, i) /\ Pad(a, i) # Pad(b, i)
    BY <2>2, <2>3, <2>4, <1>3
  <2>6. ASSUME NEW j \in Positive, j < i PROVE Pad(a, j) = Pad(b, j)
    <3>1. j \in common
      BY <2>4, <2>6, <1>1 DEF Positive
    <3>2. j \notin differ
      BY <2>2, <2>4, <2>6 DEF Positive
    <3> QED
      BY <3>1, <3>2, <1>3
  <2>7. FirstDifference(a, b, i)
    BY <2>5, <2>6 DEF FirstDifference
  <2>8. Pad(a, i) \in Nat /\ Pad(b, i) \in Nat
    BY <1>4, <2>4
  <2> QED
    BY <2>4, <2>5, <2>7, <2>8
<1>6. CASE differ = {}
  <2> DEFINE i == short + 1
  <2>1. name_cmp(a, b) = next(a) - next(b)
    BY <1>6 DEF name_cmp
  <2>2. i \in Positive
    BY <1>1 DEF Positive
  <2>3. \A j \in Positive : j < i => Pad(a, j) = Pad(b, j)
    <3> SUFFICES ASSUME NEW j \in Positive, j < i PROVE Pad(a, j) = Pad(b, j)
      OBVIOUS
    <3>1. j \in common
      BY <1>1 DEF Positive
    <3> QED
      BY <3>1, <1>3, <1>6
  <2>4. ASSUME NEW s \in {a, b}
        PROVE  /\ next(s) \in Nat /\ (next(s) = 0 <=> Pad(s, i) = 0)
               /\ Pad(s, i) \in Nat
    <3>1. s \in Text /\ Len(s) \in Nat /\ Len(s) >= short
      BY <1>1
    <3>2. CASE Len(s) > short
      <4>1. next(s) = s[i]
        BY <1>2, <3>2
      <4>2. i \in 1..Len(s)
        BY <1>1, <3>1, <3>2
      <4>3. s[i] \in Positive
        BY <3>1, <4>2 DEF Text, Positive
      <4> QED
        BY <4>1, <4>2, <4>3, <3>1, <2>2, PadType, <1>1 DEF Positive
    <3>3. CASE ~(Len(s) > short)
      <4>1. next(s) = 0
        BY <1>2, <3>3
      <4>2. i > Len(s)
        BY <1>1, <3>1, <3>3
      <4> QED
        BY <4>1, <4>2, <3>1, <2>2, PadType
    <3> QED
      BY <3>2, <3>3
  <2>5. next(a) = 0 \/ next(b) = 0
    BY <1>1, <1>2
  <2>6. /\ next(a) \in Nat /\ next(b) \in Nat
        /\ Pad(a, i) \in Nat /\ Pad(b, i) \in Nat
        /\ next(a) = 0 <=> Pad(a, i) = 0
        /\ next(b) = 0 <=> Pad(b, i) = 0
    BY <2>4
  <2> HIDE DEF i, next
  <2>7. CASE Pad(a, i) = Pad(b, i)
    <3>1. name_cmp(a, b) = 0 /\ Pad(a, i) = 0
      BY <2>1, <2>5, <2>6, <2>7
    <3>2. i > Len(a) /\ i > Len(b)
      BY <2>2, <2>7, <3>1, PadType
    <3>3. \A j \in Positive : Pad(a, j) = Pad(b, j)
      <4> SUFFICES ASSUME NEW j \in Positive PROVE Pad(a, j) = Pad(b, j)
        OBVIOUS
      <4>1. CASE j < i
        BY <4>1, <2>3
      <4>2. CASE ~(j < i)
        <5>1. j > Len(a) /\ j > Len(b)
          BY <1>1, <2>2, <3>2, <4>2 DEF Positive
        <5> QED
          BY <5>1, PadType
      <4> QED
        BY <4>1, <4>2
    <3> QED
      BY <3>1, <3>3
  <2>8. CASE Pad(a, i) # Pad(b, i)
    <3>1. FirstDifference(a, b, i)
      BY <2>3, <2>8 DEF FirstDifference
    <3>2. /\ name_cmp(a, b) \in Int /\ name_cmp(a, b) # 0
          /\ name_cmp(a, b) < 0 <=> Pad(a, i) < Pad(b, i)
      BY <2>1, <2>5, <2>6, <2>8
    <3> QED
      BY <2>2, <3>1, <3>2
  <2> QED
    BY <2>7, <2>8
<1> QED
  BY <1>5, <1>6

-----------------------------------------------------------------------------
(* The comparisons. *)

(* Comparing x with y, y with x, y with z and x with z gave these numbers, *)
(* and they are those of one weak order.                                   *)
Agreeing(xy, yx, yz, xz) ==
    /\ {xy, yx, yz, xz} \subseteq Int
    /\ xy < 0 <=> yx > 0
    /\ xy = 0 <=> yx = 0
    /\ xy <= 0 /\ yz <= 0 => xz <= 0 /\ (xz = 0 <=> xy = 0 /\ yz = 0)

(* Names. *)
LEMMA NamesAgree ==
    ASSUME NEW x \in Text, NEW y \in Text, NEW z \in Text
    PROVE  Agreeing(name_cmp(x, y), name_cmp(y, x), name_cmp(y, z), name_cmp(x, z))
<1> DEFINE Differs(a, b, c) ==
               \/ c = 0 /\ \A i \in Positive : Pad(a, i) = Pad(b, i)
               \/ \E i \in Positive : /\ FirstDifference(a, b, i) /\ c # 0
                                      /\ c < 0 <=> Pad(a, i) < Pad(b, i)
<1>1. {name_cmp(x, y), name_cmp(y, x), name_cmp(y, z), name_cmp(x, z)} \subseteq Int
  BY NameFirstDifference
<1>2. /\ Differs(x, y, name_cmp(x, y)) /\ Differs(y, x, name_cmp(y, x))
      /\ Differs(y, z, name_cmp(y, z)) /\ Differs(x, z, name_cmp(x, z))
  BY NameFirstDifference
<1>3. \A i \in Positive : Pad(x, i) \in Nat /\ Pad(y, i) \in Nat /\ Pad(z, i) \in Nat
  BY PadType
<1>4. \A xy, yx, yz, xz \in Int :
          /\ Differs(x, y, xy) /\ Differs(y, x, yx)
          /\ Differs(y, z, yz) /\ Differs(x, z, xz)
          => Agreeing(xy, yx, yz, xz)
  <2> SUFFICES ASSUME NEW xy \in Int, NEW yx \in Int, NEW yz \in Int, NEW xz \in Int,
                      Differs(x, y, xy), Differs(y, x, yx),
                      Differs(y, z, yz), Differs(x, z, xz)
               PROVE  Agreeing(xy, yx, yz, xz)
    OBVIOUS
  <2>1. (xy < 0 <=> yx > 0) /\ (xy = 0 <=> yx = 0)
    BY <1>3 DEF FirstDifference, Positive
  <2>2. xy <= 0 /\ yz <= 0 => xz <= 0 /\ (xz = 0 <=> xy = 0 /\ yz = 0)
    BY <1>3 DEF FirstDifference, Positive
  <2> QED
    BY <2>1, <2>2 DEF Agreeing
<1> HIDE DEF Differs
<1> QED
  BY <1>1, <1>2, <1>4

(* Numbers: CPU rates, sizes and pids. *)
LEMMA NumbersAgree ==
    ASSUME NEW x \in Int, NEW y \in Int, NEW z \in Int
    PROVE  Agreeing(Compare(x, y), Compare(y, x), Compare(y, z), Compare(x, z))
BY DEF Agreeing, Compare

(* The column the user chose, and what decides between equals. *)
LEMMA ColumnsAgree ==
    ASSUME NEW a \in Row, NEW b \in Row, NEW c \in Row, NEW key \in SortKeys
    PROVE  /\ Agreeing(KeyCompare(a, b, key), KeyCompare(b, a, key),
                       KeyCompare(b, c, key), KeyCompare(a, c, key))
           /\ Agreeing(TieBreak(a, b), TieBreak(b, a), TieBreak(b, c), TieBreak(a, c))
           /\ TieBreak(a, b) = 0 <=> /\ a.proc.rss_bytes = b.proc.rss_bytes
                                     /\ a.proc.pid = b.proc.pid
<1>1. /\ a.proc \in ProcSample /\ b.proc \in ProcSample /\ c.proc \in ProcSample
      /\ a.cpu_pct \in Int /\ b.cpu_pct \in Int /\ c.cpu_pct \in Int
  BY DEF Row
<1>2. /\ a.proc.name \in Text /\ b.proc.name \in Text /\ c.proc.name \in Text
      /\ a.proc.pid \in Int /\ b.proc.pid \in Int /\ c.proc.pid \in Int
      /\ a.proc.rss_bytes \in Int /\ b.proc.rss_bytes \in Int /\ c.proc.rss_bytes \in Int
  BY <1>1 DEF ProcSample
<1>3. Agreeing(KeyCompare(a, b, key), KeyCompare(b, a, key),
               KeyCompare(b, c, key), KeyCompare(a, c, key))
  <2> USE DEF SORT_MEM, SORT_PID, SORT_NAME, SORT_CPU
  <2>1. CASE key = SORT_MEM
    <3>1. \A x, y \in {a, b, c} :
              KeyCompare(x, y, key) = Compare(x.proc.rss_bytes, y.proc.rss_bytes)
      BY <2>1 DEF KeyCompare
    <3> QED
      BY <3>1, <1>2, NumbersAgree
  <2>2. CASE key = SORT_PID
    <3>1. \A x, y \in {a, b, c} :
              KeyCompare(x, y, key) = Compare(x.proc.pid, y.proc.pid)
      BY <2>2 DEF KeyCompare
    <3> QED
      BY <3>1, <1>2, NumbersAgree
  <2>3. CASE key = SORT_NAME
    <3>1. \A x, y \in {a, b, c} :
              KeyCompare(x, y, key) = name_cmp(x.proc.name, y.proc.name)
      BY <2>3 DEF KeyCompare
    <3> QED
      BY <3>1, <1>2, NamesAgree
  <2>4. CASE key = SORT_CPU
    <3>1. \A x, y \in {a, b, c} :
              KeyCompare(x, y, key) = Compare(x.cpu_pct, y.cpu_pct)
      BY <2>4 DEF KeyCompare
    <3> QED
      BY <3>1, <1>1, NumbersAgree
  <2> QED
    BY <2>1, <2>2, <2>3, <2>4 DEF SortKeys
<1>4. Agreeing(TieBreak(a, b), TieBreak(b, a), TieBreak(b, c), TieBreak(a, c))
  BY <1>2 DEF Agreeing, TieBreak, Compare
<1>5. TieBreak(a, b) = 0 <=> a.proc.rss_bytes = b.proc.rss_bytes /\ a.proc.pid = b.proc.pid
  BY <1>2 DEF TieBreak, Compare
<1> QED
  BY <1>3, <1>4, <1>5

-----------------------------------------------------------------------------
(* The order of the rows. *)

(* Both together, before CPU and memory and r turn them round. *)
Ranking(a, b, key) ==
    IF KeyCompare(a, b, key) # 0 THEN KeyCompare(a, b, key) ELSE TieBreak(a, b)

Flipped(o) == (o.key \in {SORT_CPU, SORT_MEM}) # o.rev

LEMMA BeforeIs ==
    ASSUME NEW a \in Row, NEW b \in Row, NEW o \in Orders
    PROVE  /\ Before(a, b, o) <=> IF Flipped(o) THEN Ranking(b, a, o.key) < 0
                                                ELSE Ranking(a, b, o.key) < 0
           /\ o.key \in SortKeys
<1>1. o.key \in SortKeys
  BY DEF Orders
<1>2. /\ Ranking(a, b, o.key) \in Int /\ Ranking(b, a, o.key) \in Int
      /\ Ranking(a, b, o.key) > 0 <=> Ranking(b, a, o.key) < 0
  BY <1>1, ColumnsAgree DEF Ranking, Agreeing
<1>3. cmp_procs(a, b, o) = IF Flipped(o) THEN -Ranking(a, b, o.key)
                                         ELSE Ranking(a, b, o.key)
  BY DEF cmp_procs, Flipped, Ranking
<1>4. \A n \in Int : -n < 0 <=> n > 0
  OBVIOUS
<1> QED
  BY <1>1, <1>2, <1>3, <1>4 DEF Before

LEMMA RankingIsOrder ==
    ASSUME NEW a \in Row, NEW b \in Row, NEW c \in Row, NEW key \in SortKeys
    PROVE  /\ ~(Ranking(a, a, key) < 0)
           /\ Ranking(a, b, key) < 0 /\ Ranking(b, c, key) < 0 => Ranking(a, c, key) < 0
           /\ a.proc.pid # b.proc.pid => Ranking(a, b, key) < 0 \/ Ranking(b, a, key) < 0
<1>1. /\ Agreeing(KeyCompare(a, b, key), KeyCompare(b, a, key),
                  KeyCompare(b, c, key), KeyCompare(a, c, key))
      /\ Agreeing(KeyCompare(a, a, key), KeyCompare(a, a, key),
                  KeyCompare(a, a, key), KeyCompare(a, a, key))
      /\ Agreeing(TieBreak(a, b), TieBreak(b, a), TieBreak(b, c), TieBreak(a, c))
      /\ Agreeing(TieBreak(a, a), TieBreak(a, a), TieBreak(a, a), TieBreak(a, a))
      /\ TieBreak(a, b) = 0 => a.proc.pid = b.proc.pid
  BY ColumnsAgree
<1> QED
  BY <1>1 DEF Ranking, Agreeing

(* Whatever column is chosen and whether r turned it round or not, no row  *)
(* stands before itself, the order is transitive, and of two rows with     *)
(* distinct pids one stands before the other: qsort is given an order that *)
(* leaves it no choice (cmp_procs of taskman.c, with both its reversals).  *)
THEOREM OrderIsTotal ==
    ASSUME NEW a \in Row, NEW b \in Row, NEW c \in Row, NEW o \in Orders
    PROVE  /\ ~Before(a, a, o)
           /\ Before(a, b, o) /\ Before(b, c, o) => Before(a, c, o)
           /\ a.proc.pid # b.proc.pid => Before(a, b, o) \/ Before(b, a, o)
<1>1. o.key \in SortKeys
  BY DEF Orders
<1>2. CASE Flipped(o)
  BY <1>1, <1>2, BeforeIs, RankingIsOrder
<1>3. CASE ~Flipped(o)
  BY <1>1, <1>3, BeforeIs, RankingIsOrder
<1> QED
  BY <1>2, <1>3

-----------------------------------------------------------------------------
(* The list and the places in it. *)

(* A filtered list of a finite table has a length. *)
LEMMA ViewFinite ==
    ASSUME NEW ps, IsFiniteSet(ps), NEW f
    PROVE  /\ IsFiniteSet(View(ps, f))
           /\ render_filtered_count(ps, f) \in Nat
           /\ View(ps, f) # {} => render_filtered_count(ps, f) > 0
<1>1. View(ps, f) \subseteq ps
  BY DEF View
<1>2. IsFiniteSet(View(ps, f))
  BY <1>1, FS_Subset
<1>3. Cardinality(View(ps, f)) \in Nat
  BY <1>2, FS_CardinalityType
<1>4. Cardinality(View(ps, f)) = 0 <=> View(ps, f) = {}
  BY <1>2, FS_EmptySet
<1> QED
  BY <1>2, <1>3, <1>4 DEF render_filtered_count

(* A row has a place in the list. *)
LEMMA IndexNat ==
    ASSUME NEW ps, IsFiniteSet(ps), NEW f, NEW o, NEW row
    PROVE  IndexOf(row, View(ps, f), o) \in Nat
<1> DEFINE earlier == {other \in View(ps, f) : Before(other, row, o)}
<1>1. IsFiniteSet(earlier)
  BY ViewFinite, FS_Subset, earlier \subseteq View(ps, f)
<1>2. Cardinality(earlier) \in Nat
  BY <1>1, FS_CardinalityType
<1> QED
  BY <1>2 DEF IndexOf

(* pid_at answers with a pid of the list or with none. *)
LEMMA PidAtInView ==
    ASSUME NEW ps, NEW o, NEW f, NEW i
    PROVE  pid_at(ps, o, f, i) \in ViewPids(ps, f) \cup {NoPid}
<1> DEFINE here == {row \in View(ps, f) : IndexOf(row, View(ps, f), o) = i}
<1>1. CASE here = {}
  BY <1>1 DEF pid_at
<1>2. CASE here # {}
  <2>1. (CHOOSE row \in here : TRUE) \in View(ps, f)
    BY <1>2
  <2>2. pid_at(ps, o, f, i) = (CHOOSE row \in here : TRUE).proc.pid
    BY <1>2 DEF pid_at
  <2> QED
    BY <2>1, <2>2 DEF ViewPids
<1> QED
  BY <1>1, <1>2

(* A pid is found at a place of the list, or reported missing. *)
LEMMA PosFound ==
    ASSUME NEW ps, IsFiniteSet(ps), NEW o, NEW f, NEW pid
    PROVE  IF pid \in ViewPids(ps, f)
           THEN render_filtered_pos(ps, o, f, pid) \in Nat
           ELSE render_filtered_pos(ps, o, f, pid) = -1
<1> DEFINE here == {row \in View(ps, f) : row.proc.pid = pid}
<1>1. (here = {}) <=> (pid \notin ViewPids(ps, f))
  BY DEF ViewPids
<1>2. IndexOf(CHOOSE row \in here : TRUE, View(ps, f), o) \in Nat
  BY IndexNat
<1>3. render_filtered_pos(ps, o, f, pid) =
        IF here = {} THEN -1 ELSE IndexOf(CHOOSE row \in here : TRUE, View(ps, f), o)
  BY DEF render_filtered_pos
<1> QED
  BY <1>1, <1>2, <1>3

(* clamp_view leaves the selection where it is when its pid is listed, and *)
(* otherwise on a listed row or on none; the scroll offset is an index.    *)
LEMMA ClampViewResult ==
    ASSUME NEW ps, IsFiniteSet(ps), NEW o, NEW f, NEW sel, NEW scr \in Nat, NEW h \in Nat
    PROVE  LET view == clamp_view(ps, o, f, sel, scr, h)
           IN  /\ view.selected_pid \in ViewPids(ps, f) \cup {NoPid}
               /\ sel \in ViewPids(ps, f) => view.selected_pid = sel
               /\ view.scroll \in Nat
<1> DEFINE n    == render_filtered_count(ps, f)
           pos  == render_filtered_pos(ps, o, f, sel)
           from == IF pos < 0 THEN 0 ELSE pos
           page == render_page_rows(h)
<1>1. n \in Nat /\ (View(ps, f) # {} => n > 0)
  BY ViewFinite
<1>2. IF sel \in ViewPids(ps, f) THEN pos \in Nat ELSE pos = -1
  BY PosFound
<1>3. from \in Nat
  BY <1>2
<1>4. page \in Nat
  BY DEF render_page_rows, util_clamp_int
<1>5. CASE n <= 0
  <2>1. clamp_view(ps, o, f, sel, scr, h) = [selected_pid |-> NoPid, scroll |-> 0]
    BY <1>5 DEF clamp_view
  <2>2. View(ps, f) = {}
    BY <1>1, <1>5
  <2>3. sel \notin ViewPids(ps, f)
    BY <2>2 DEF ViewPids
  <2> QED
    BY <2>1, <2>3
<1>6. CASE ~(n <= 0)
  <2> HIDE DEF n, pos, from, page
  <2>1. clamp_view(ps, o, f, sel, scr, h) =
          [selected_pid |-> Reselect(ps, o, f, sel, pos),
           scroll |-> ClampScroll(scr, from, page, n)]
    BY <1>6 DEF clamp_view, n, pos, from, page
  <2>2. Reselect(ps, o, f, sel, pos) \in ViewPids(ps, f) \cup {NoPid}
    BY <1>2, PidAtInView DEF Reselect
  <2>3. sel \in ViewPids(ps, f) => Reselect(ps, o, f, sel, pos) = sel
    BY <1>2 DEF Reselect
  <2>4. ClampScroll(scr, from, page, n) \in Nat
    BY <1>1, <1>3, <1>4, <1>6 DEF ClampScroll, util_clamp_int
  <2> QED
    BY <2>1, <2>2, <2>3, <2>4
<1> QED
  BY <1>1, <1>5, <1>6

(* The rows that stand before a listed row. *)
Earlier(row, view, o) == {other \in view : Before(other, row, o)}

(* The place of a listed row is one of the list's places. *)
LEMMA IndexBelow ==
    ASSUME NEW ps, IsFiniteSet(ps), ps \subseteq Row, NEW f, NEW o \in Orders,
           NEW row \in View(ps, f)
    PROVE  IndexOf(row, View(ps, f), o) < render_filtered_count(ps, f)
<1> DEFINE view    == View(ps, f)
           earlier == Earlier(row, view, o)
<1>1. IsFiniteSet(view) /\ earlier \subseteq view
  BY ViewFinite DEF Earlier
<1>2. row \notin earlier
  BY OrderIsTotal DEF View, Earlier
<1>3. earlier # view
  BY <1>2
<1> HIDE DEF earlier, view
<1>4. Cardinality(earlier) < Cardinality(view)
  <2>1. IsFiniteSet(earlier) /\ Cardinality(earlier) <= Cardinality(view)
    BY <1>1, FS_Subset
  <2>2. Cardinality(earlier) = Cardinality(view) => earlier = view
    BY <1>1, FS_Subset
  <2>3. Cardinality(earlier) \in Nat /\ Cardinality(view) \in Nat
    BY <1>1, <2>1, FS_CardinalityType
  <2> QED
    BY <1>3, <2>1, <2>2, <2>3
<1> QED
  BY <1>4 DEF IndexOf, render_filtered_count, earlier, view, Earlier

(* A row before another has the smaller place. *)
LEMMA IndexFollowsOrder ==
    ASSUME NEW ps, IsFiniteSet(ps), ps \subseteq Row, NEW f, NEW o \in Orders,
           NEW a \in View(ps, f), NEW b \in View(ps, f), Before(a, b, o)
    PROVE  IndexOf(a, View(ps, f), o) < IndexOf(b, View(ps, f), o)
<1> DEFINE view == View(ps, f)
           ea   == Earlier(a, view, o)
           eb   == Earlier(b, view, o)
<1>1. view \subseteq Row /\ IsFiniteSet(view)
  BY ViewFinite DEF View
<1>2. ea \subseteq eb
  BY <1>1, OrderIsTotal DEF Earlier
<1>3. a \in eb /\ a \notin ea
  BY <1>1, OrderIsTotal DEF Earlier
<1>4. IsFiniteSet(eb) /\ IsFiniteSet(ea)
  BY <1>1, FS_Subset, ea \subseteq view, eb \subseteq view DEF Earlier
<1>5. Cardinality(ea) = IndexOf(a, view, o) /\ Cardinality(eb) = IndexOf(b, view, o)
  BY DEF IndexOf, Earlier
<1> HIDE DEF ea, eb, view
<1>6. /\ Cardinality(ea) \in Nat /\ Cardinality(eb) \in Nat
      /\ Cardinality(ea) <= Cardinality(eb) /\ Cardinality(ea) # Cardinality(eb)
  BY <1>2, <1>3, <1>4, FS_Subset, FS_CardinalityType
<1>7. Cardinality(ea) < Cardinality(eb)
  BY <1>6
<1> QED
  BY <1>5, <1>7 DEF view

(* Where no two rows have one pid, every index of the filtered list is the *)
(* place of exactly one row (render_filtered_pos and pid_at, which walk    *)
(* the sorted array).                                                      *)
THEOREM EveryPlaceTaken ==
    ASSUME NEW ps, IsFiniteSet(ps), ps \subseteq Row,
           \A a, b \in ps : a.proc.pid = b.proc.pid => a = b,
           NEW f, NEW o \in Orders, NEW i \in 0 .. render_filtered_count(ps, f) - 1
    PROVE  \E row \in View(ps, f) :
               /\ IndexOf(row, View(ps, f), o) = i
               /\ \A other \in View(ps, f) :
                      IndexOf(other, View(ps, f), o) = i => other = row
<1> DEFINE view   == View(ps, f)
           n      == render_filtered_count(ps, f)
           places == 0 .. n - 1
           place  == [row \in view |-> IndexOf(row, view, o)]
<1>1. IsFiniteSet(view) /\ n \in Nat /\ view \subseteq ps
  BY ViewFinite DEF View
<1>2. \A row \in view : IndexOf(row, view, o) \in places
  <2> SUFFICES ASSUME NEW row \in view PROVE IndexOf(row, view, o) \in places
    OBVIOUS
  <2>1. IndexOf(row, view, o) < n /\ IndexOf(row, view, o) \in Nat
    BY IndexBelow, IndexNat
  <2> HIDE DEF view, n
  <2> QED
    BY <1>1, <2>1
<1>3. ASSUME NEW a \in view, NEW b \in view, IndexOf(a, view, o) = IndexOf(b, view, o)
      PROVE  a = b
  <2> SUFFICES ASSUME a # b PROVE FALSE
    OBVIOUS
  <2>1. a.proc.pid # b.proc.pid
    BY <1>1
  <2>2. Before(a, b, o) \/ Before(b, a, o)
    BY <1>1, <2>1, OrderIsTotal
  <2>3. \/ IndexOf(a, view, o) < IndexOf(b, view, o)
        \/ IndexOf(b, view, o) < IndexOf(a, view, o)
    BY <2>2, IndexFollowsOrder
  <2>4. IndexOf(a, view, o) \in Nat /\ IndexOf(b, view, o) \in Nat
    BY IndexNat
  <2> QED
    BY <1>3, <2>3, <2>4
<1>4. IsFiniteSet(places) /\ Cardinality(places) = Cardinality(view)
  <2>1. n = Cardinality(view)
    BY DEF render_filtered_count
  <2> HIDE DEF n, view
  <2>2. IsFiniteSet(places) /\ Cardinality(places) = IF 0 > n - 1 THEN 0 ELSE (n - 1) - 0 + 1
    BY <1>1, FS_Interval
  <2> QED
    BY <1>1, <2>1, <2>2
<1>5. place \in Injection(view, places)
  BY <1>2, <1>3 DEF Injection, IsInjective
<1>6. place \in Surjection(view, places)
  BY <1>4, <1>5, FS_Injection
<1>7. PICK row \in view : place[row] = i
  BY <1>6 DEF Surjection
<1> QED
  BY <1>3, <1>7

(* So pid_at finds a listed pid at every index of the list. *)
LEMMA PidAtListed ==
    ASSUME NEW ps, IsFiniteSet(ps), ps \subseteq Row,
           \A a, b \in ps : a.proc.pid = b.proc.pid => a = b,
           NEW f, NEW o \in Orders, NEW i \in 0 .. render_filtered_count(ps, f) - 1
    PROVE  pid_at(ps, o, f, i) \in ViewPids(ps, f)
<1> DEFINE here == {row \in View(ps, f) : IndexOf(row, View(ps, f), o) = i}
<1>1. here # {}
  BY EveryPlaceTaken
<1>2. pid_at(ps, o, f, i) = (CHOOSE row \in here : TRUE).proc.pid
  BY <1>1 DEF pid_at
<1> QED
  BY <1>1, <1>2 DEF ViewPids

(* The scroll offset shows the row it is computed for. *)
LEMMA ClampScrollShows ==
    ASSUME NEW scr \in Nat, NEW pos \in Nat, NEW page \in Nat \ {0},
           NEW n \in Nat, pos < n
    PROVE  LET s == ClampScroll(scr, pos, page, n)
           IN  s \in Nat /\ pos \in s .. s + page - 1
BY DEF ClampScroll, util_clamp_int
=============================================================================
