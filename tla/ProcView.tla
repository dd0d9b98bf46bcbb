------------------------------ MODULE ProcView ------------------------------
(***************************************************************************)
(* The process table as the dashboard sees it: which rows a filter keeps,  *)
(* in which order cmp_procs puts them, at which position a pid is found,   *)
(* and where the selection and the scroll offset may stand.  These are the *)
(* pure helpers of taskman.c, render.c and util.c; TaskLoop builds the     *)
(* live loop from them.                                                    *)
(*                                                                         *)
(* A row is [proc |-> p, cpu_pct |-> c].  The record p holds the fields of *)
(* ProcSample that identify and describe a process; cpu_pct is what one    *)
(* sample said of it.  Text is a sequence of character codes, without the  *)
(* 0 that ends it.                                                         *)
(*                                                                         *)
(* The array procs[] of the program is modelled as a set of rows together  *)
(* with the order it was last sorted by.  cmp_procs is a strict total      *)
(* order on rows of distinct pids, so these two determine the array: a row *)
(* stands at the index that equals the number of rows before it.           *)
(***************************************************************************)
EXTENDS Integers, Sequences, FiniteSets

SORT_CPU  == 0
SORT_MEM  == 1
SORT_PID  == 2
SORT_NAME == 3

SortKeys == {SORT_CPU, SORT_MEM, SORT_PID, SORT_NAME}

(* What g_sort_key and g_sort_rev say between them. *)
Orders == [key : SortKeys, rev : BOOLEAN]

Text == Seq(Nat \ {0})

ProcSample == [pid : Nat, start_time : Nat, name : Text, command : Text,
               user : Text, rss_bytes : Nat]

Row == [proc : ProcSample, cpu_pct : Int]

(* selected_pid when no row is selected, and "not found" of the searches. *)
NoPid == -1

-----------------------------------------------------------------------------
(* Text. *)

(* tolower() of the C locale, which the program never leaves. *)
Lower(c) == IF c \in 65..90 THEN c + 32 ELSE c

Smallest(S) == CHOOSE x \in S : \A y \in S : x <= y

(* Comparing needle with hay from its i-th character on meets no mismatch  *)
(* before one of the two ends.                                             *)
Agrees(hay, needle, i) ==
    \A j \in 1..Len(needle) :
        i + j - 1 <= Len(hay) => Lower(hay[i + j - 1]) = Lower(needle[j])

(* The scan stops at the first start that agrees: it reports a match when  *)
(* the whole needle fitted, and no match at all when hay ended first.      *)
util_str_has_icase(hay, needle) ==
    \/ needle = << >>
    \/ LET starts == {i \in 1..Len(hay) : Agrees(hay, needle, i)}
       IN  /\ starts # {}
           /\ Smallest(starts) + Len(needle) - 1 <= Len(hay)

(* The two strings are compared folded as long as both last; after that    *)
(* the raw next characters (0 at the end of a string) are subtracted.      *)
name_cmp(a, b) ==
    LET common  == 1 .. (IF Len(a) < Len(b) THEN Len(a) ELSE Len(b))
        differ  == {i \in common : Lower(a[i]) # Lower(b[i])}
        next(s) == IF Len(s) > Cardinality(common)
                   THEN s[Cardinality(common) + 1] ELSE 0
    IN  IF differ # {}
        THEN Lower(a[Smallest(differ)]) - Lower(b[Smallest(differ)])
        ELSE next(a) - next(b)

-----------------------------------------------------------------------------
(* The order of the rows. *)

Compare(x, y) == IF x < y THEN -1 ELSE IF x > y THEN 1 ELSE 0

(* The column the user chose. *)
KeyCompare(a, b, key) ==
    CASE key = SORT_MEM  -> Compare(a.proc.rss_bytes, b.proc.rss_bytes)
      [] key = SORT_PID  -> Compare(a.proc.pid, b.proc.pid)
      [] key = SORT_NAME -> name_cmp(a.proc.name, b.proc.name)
      [] OTHER           -> Compare(a.cpu_pct, b.cpu_pct)

TieBreak(a, b) ==
    IF a.proc.rss_bytes # b.proc.rss_bytes
    THEN Compare(a.proc.rss_bytes, b.proc.rss_bytes)
    ELSE Compare(a.proc.pid, b.proc.pid)

(* CPU and memory list the largest first, r turns any order round. *)
cmp_procs(a, b, order) ==
    LET c       == IF KeyCompare(a, b, order.key) # 0
                   THEN KeyCompare(a, b, order.key)
                   ELSE TieBreak(a, b)
        flipped == (order.key \in {SORT_CPU, SORT_MEM}) # order.rev
    IN  IF flipped THEN -c ELSE c

Before(a, b, order) == cmp_procs(a, b, order) < 0

-----------------------------------------------------------------------------
(* The filtered list. *)

render_proc_matches(row, filter) ==
    \/ filter = << >>
    \/ util_str_has_icase(row.proc.name, filter)
    \/ util_str_has_icase(row.proc.command, filter)
    \/ util_str_has_icase(row.proc.user, filter)

View(procs, filter) == {row \in procs : render_proc_matches(row, filter)}

ViewPids(procs, filter) == {row.proc.pid : row \in View(procs, filter)}

render_filtered_count(procs, filter) == Cardinality(View(procs, filter))

(* The index of a row in a filtered list. *)
IndexOf(row, view, order) == Cardinality({other \in view : Before(other, row, order)})

render_filtered_pos(procs, order, filter, pid) ==
    LET view == View(procs, filter)
        here == {row \in view : row.proc.pid = pid}
    IN  IF here = {} THEN -1
        ELSE IndexOf(CHOOSE row \in here : TRUE, view, order)

pid_at(procs, order, filter, index) ==
    LET view == View(procs, filter)
        here == {row \in view : IndexOf(row, view, order) = index}
    IN  IF here = {} THEN NoPid ELSE (CHOOSE row \in here : TRUE).proc.pid

-----------------------------------------------------------------------------
(* The window on the list. *)

util_clamp_int(v, lo, hi) == IF v < lo THEN lo ELSE IF v > hi THEN hi ELSE v

render_page_rows(rows) == util_clamp_int(rows - 10, 1, 80)

(* Mutant: the window moves one row too late when the selection leaves it  *)
(* at the bottom.                                                          *)
ClampScrollLate(scroll, pos, page, n) ==
    LET up   == IF pos < scroll THEN pos ELSE scroll
        down == IF pos > up + page THEN pos - page + 1 ELSE up
    IN  util_clamp_int(down, 0, n - 1)

(* The scroll offset clamp_view leaves when the selected row is at pos of a *)
(* non-empty list of n rows: the window is moved no further than it takes  *)
(* to show the selection.                                                  *)
ClampScroll(scroll, pos, page, n) ==
    LET up   == IF pos < scroll THEN pos ELSE scroll
        down == IF pos >= up + page THEN pos - page + 1 ELSE up
    IN  util_clamp_int(down, 0, n - 1)

(* Mutant: every pass starts from the first row again. *)
ReselectFirst(procs, order, filter, selected, pos) == pid_at(procs, order, filter, 0)

(* The selection stays with its pid, and falls back to the first row.      *)
Reselect(procs, order, filter, selected, pos) ==
    IF pos < 0 THEN pid_at(procs, order, filter, 0) ELSE selected

(* Selection and scroll offset after clamp_view. *)
clamp_view(procs, order, filter, selected, scroll, rows) ==
    LET n   == render_filtered_count(procs, filter)
        pos == render_filtered_pos(procs, order, filter, selected)
    IN  IF n <= 0
        THEN [selected_pid |-> NoPid, scroll |-> 0]
        ELSE [selected_pid |-> Reselect(procs, order, filter, selected, pos),
              scroll |-> ClampScroll(scroll, IF pos < 0 THEN 0 ELSE pos,
                                     render_page_rows(rows), n)]

(* The pid selected after moving by delta rows. *)
move_sel(procs, order, filter, selected, delta) ==
    LET n    == render_filtered_count(procs, filter)
        pos  == render_filtered_pos(procs, order, filter, selected)
        from == IF pos < 0 THEN 0 ELSE pos
    IN  IF n <= 0
        THEN selected
        ELSE pid_at(procs, order, filter, util_clamp_int(from + delta, 0, n - 1))

(* The rows paint() puts on the glass: the page of the filtered list that  *)
(* starts at the scroll offset.                                            *)
Painted(procs, order, filter, scroll, rows) ==
    LET view == View(procs, filter)
        page == scroll .. scroll + render_page_rows(rows) - 1
    IN  {row \in view : IndexOf(row, view, order) \in page}
=============================================================================
