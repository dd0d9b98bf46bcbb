---------------------------- MODULE GlassProofs -----------------------------
(***************************************************************************)
(* Theorems about what the dashboard shows while it waits for a key, for   *)
(* every set of processes, every keyboard and every window, and the proof  *)
(* that TaskLoop implements ConfirmedKill.                                 *)
(*                                                                         *)
(* The argument rests on one fact about the view: the row clamp_view       *)
(* selects is among the rows paint() puts on the page, so the highlighted  *)
(* row of the glass is the selected one whenever the program waits.        *)
(***************************************************************************)
EXTENDS TaskLoopProofs

-----------------------------------------------------------------------------
(* The selected row is on the page. *)

(* Whatever clamp_view selects, paint() finds it on the page. *)
LEMMA SelectedPainted ==
    ASSUME NEW ps, IsFiniteSet(ps), ps \subseteq [proc : Procs, cpu_pct : CpuPcts],
           NEW f, NEW o \in Orders, NEW sel, NEW scr \in Nat, NEW h \in Nat
    PROVE  LET view == clamp_view(ps, o, f, sel, scr, h)
           IN  \/ view.selected_pid = NoPid
               \/ \E row \in Painted(ps, o, f, view.scroll, h) :
                      row.proc.pid = view.selected_pid
<1> DEFINE n      == render_filtered_count(ps, f)
           pos    == render_filtered_pos(ps, o, f, sel)
           page   == render_page_rows(h)
           result == clamp_view(ps, o, f, sel, scr, h)
<1>1. n \in Nat
  BY ViewFinite
<1>2. page \in Nat \ {0}
  BY DEF render_page_rows, util_clamp_int
<1>3. CASE n <= 0
  BY <1>3 DEF clamp_view
<1>4. ASSUME n > 0, NEW row \in View(ps, f), NEW at \in Nat,
             at = IndexOf(row, View(ps, f), o),
             at = (IF pos < 0 THEN 0 ELSE pos),
             row.proc.pid = Reselect(ps, o, f, sel, pos)
      PROVE  \E r \in Painted(ps, o, f, result.scroll, h) : r.proc.pid = result.selected_pid
  <2>1. at < n
    BY <1>4, IndexBelow, TypedRows
  <2>2. result = [selected_pid |-> Reselect(ps, o, f, sel, pos),
                  scroll |-> ClampScroll(scr, at, page, n)]
    BY <1>1, <1>4 DEF clamp_view
  <2> HIDE DEF n, pos, page, result
  <2>3. at \in result.scroll .. result.scroll + page - 1
    BY <1>1, <1>2, <1>4, <2>1, <2>2, ClampScrollShows
  <2>4. row \in Painted(ps, o, f, result.scroll, h)
    BY <1>4, <2>3 DEF Painted, page
  <2> QED
    BY <1>4, <2>2, <2>4
<1>5. CASE n > 0 /\ sel \in ViewPids(ps, f)
  <2> DEFINE here == {row \in View(ps, f) : row.proc.pid = sel}
             r    == CHOOSE row \in here : TRUE
  <2>1. here # {}
    BY <1>5 DEF ViewPids
  <2>2. r \in here
    BY <2>1
  <2>3. pos = IndexOf(r, View(ps, f), o)
    BY <2>1 DEF render_filtered_pos
  <2>4. pos \in Nat
    BY <2>3, IndexNat
  <2>5. Reselect(ps, o, f, sel, pos) = sel
    BY <2>4 DEF Reselect
  <2>6. r \in View(ps, f) /\ r.proc.pid = Reselect(ps, o, f, sel, pos)
    BY <2>2, <2>5
  <2>7. pos = (IF pos < 0 THEN 0 ELSE pos)
    BY <2>4
  <2>8. \E row \in Painted(ps, o, f, result.scroll, h) :
            row.proc.pid = result.selected_pid
    <3> HIDE DEF r, pos, n, result
    <3> QED
      BY <1>4, <1>5, <2>3, <2>4, <2>6, <2>7
  <2> QED
    BY <2>8
<1>6. CASE n > 0 /\ sel \notin ViewPids(ps, f)
  <2> DEFINE first == {row \in View(ps, f) : IndexOf(row, View(ps, f), o) = 0}
             r     == CHOOSE row \in first : TRUE
  <2>1. pos = -1
    BY <1>6, PosFound
  <2>2. Reselect(ps, o, f, sel, pos) = pid_at(ps, o, f, 0)
    BY <2>1 DEF Reselect
  <2>3. result.selected_pid = pid_at(ps, o, f, 0)
    BY <1>1, <1>6, <2>2 DEF clamp_view
  <2>4. CASE first = {}
    BY <2>3, <2>4 DEF pid_at
  <2>5. CASE first # {}
    <3>1. r \in first
      BY <2>5
    <3>2. pid_at(ps, o, f, 0) = r.proc.pid
      BY <2>5 DEF pid_at
    <3>3. r \in View(ps, f) /\ 0 = IndexOf(r, View(ps, f), o)
      BY <3>1
    <3>4. r.proc.pid = Reselect(ps, o, f, sel, pos)
      BY <2>2, <3>2
    <3>5. 0 = (IF pos < 0 THEN 0 ELSE pos)
      BY <2>1
    <3>6. \E row \in Painted(ps, o, f, result.scroll, h) :
              row.proc.pid = result.selected_pid
      <4> HIDE DEF r, pos, n, result
      <4> QED
        BY <1>4, <1>6, <3>3, <3>4, <3>5
    <3> QED
      BY <3>6
  <2> QED
    BY <2>4, <2>5
<1> QED
  BY <1>1, <1>3, <1>5, <1>6

-----------------------------------------------------------------------------
(* The glass and the variables behind it. *)

(* Between two waits: the outcome of a signal waits in the banner, and     *)
(* neither a question nor a filter being typed will take its line.         *)
OutcomePending ==
    pc = "top" /\ signalled # NoSignal =>
        /\ banner = [pid |-> signalled.pid, ok |-> signalled.ok]
        /\ ~confirm_kill /\ ~filter_edit

(* Nothing is signalled before the loop. *)
SignalledInLoop == pc \in {"start", "primed"} => signalled = NoSignal

(* In the loop the table always stands in the chosen order. *)
SortedAsChosen == pc \in {"top", "poll", "key"} => sorted = g_sort

(* The highlighted row is the selected one, and an open question is shown. *)
GlassCurrent ==
    pc \in Waiting =>
        /\ glass.highlighted = selected_pid
        /\ glass.label = g_sort
        /\ confirm_kill => glass.prompt = [pid |-> selected_pid, force |-> kill_force]

GInv == SignalledInLoop /\ OutcomePending /\ SortedAsChosen /\ GlassCurrent /\ OutcomeShown

LEMMA GlassInit == Init => GInv
BY DEF Init, GInv, SignalledInLoop, OutcomePending, SortedAsChosen, GlassCurrent, OutcomeShown, Waiting

(* The keys that send no signal leave the glass alone, and a question they *)
(* leave open is the one that was open, or is new and about the selection. *)
LEMMA QuietKey ==
    ASSUME IInv,
           Nothing \/ AnswerNo \/ Quit \/ Pause \/ \E key \in Keys : KeyStep(key)
    PROVE  /\ pc = "key" /\ pc' \in {"top", "restore"}
           /\ signalled' = NoSignal /\ glass' = glass
           /\ sorted = g_sort => sorted' = g_sort'
           /\ \/ ~confirm_kill'
              \/ UNCHANGED <<confirm_kill, kill_force, selected_pid>>
              \/ ~confirm_kill /\ CanKill(selected_pid) /\ selected_pid' = selected_pid
<1>1. CASE Nothing
  BY <1>1 DEF Nothing, Handling, table, options, asking, screen
<1>2. CASE AnswerNo
  BY <1>2 DEF AnswerNo, Handling, table, screen
<1>3. CASE Quit
  BY <1>3 DEF Quit, Commanding, Handling, table, options, asking, screen
<1>4. CASE Pause
  BY <1>4 DEF Pause, Commanding, Handling, table, asking, screen
<1>5. ASSUME NEW key \in Keys, EditKey(key) PROVE ~confirm_kill'
  BY <1>5 DEF EditKey, asking
<1>6. ASSUME NEW key \in Keys, EditKey(key) \/ EditFilter(key) \/ Move(key)
      PROVE  /\ pc = "key" /\ pc' = "top" /\ signalled' = NoSignal /\ glass' = glass
             /\ UNCHANGED <<sorted, g_sort>> /\ ~confirm_kill'
  BY <1>6 DEF EditKey, EditFilter, Move, Commanding, Handling, table, asking, screen
<1>7. ASSUME NEW key \in Keys, SortBy(key) \/ Reverse(key)
      PROVE  /\ pc = "key" /\ pc' = "top" /\ signalled' = NoSignal /\ glass' = glass
             /\ sorted' = g_sort' /\ ~confirm_kill'
  BY <1>7 DEF SortBy, Reverse, Resort, Commanding, Handling, asking, screen
<1>8. ASSUME NEW key \in Keys, AskKill(key)
      PROVE  /\ pc = "key" /\ pc' = "top" /\ signalled' = NoSignal /\ glass' = glass
             /\ UNCHANGED <<sorted, g_sort>>
             /\ ~confirm_kill /\ CanKill(selected_pid) /\ selected_pid' = selected_pid
  BY <1>8 DEF AskKill, Commanding, Handling, table, screen
<1> QED
  BY <1>1, <1>2, <1>3, <1>4, <1>6, <1>7, <1>8 DEF KeyStep

(* The ways out, the end of a wait and the world leave all of it alone. *)
LEMMA QuietStep ==
    ASSUME Prime \/ Polled \/ Stopped \/ Restore \/ World \/ UNCHANGED vars
    PROVE  /\ UNCHANGED <<signalled, glass, confirm_kill, kill_force, selected_pid,
                          g_sort, sorted, banner, filter_edit>>
           /\ \/ pc' \notin {"top", "poll", "key", "start", "primed"}
              \/ pc' = pc
              \/ pc = "start" /\ pc' = "primed"
              \/ pc = "poll" /\ pc' = "key"
<1>1. CASE Prime
  BY <1>1 DEF Prime, table, options, editing, asking, screen
<1>2. CASE Stopped \/ Restore
  BY <1>2 DEF Stopped, Restore, table, options, editing, asking, screen
<1>7. CASE Polled
  BY <1>7 DEF Polled, table, options, editing, asking, screen
<1>3. ASSUME NEW p \in Procs, Spawn(p) \/ Exit(p)
      PROVE  UNCHANGED <<pc, table, options, screen, signalled>>
  BY <1>3 DEF Spawn, Exit
<1>4. CASE \E p \in Procs : Spawn(p) \/ Exit(p)
  BY <1>3, <1>4 DEF table, options, editing, asking, screen
<1>5. CASE on_stop \/ SecondInterrupt \/ Hangup
  BY <1>5 DEF on_stop, SecondInterrupt, Hangup, table, options, editing, asking, screen
<1>6. CASE UNCHANGED vars
  BY <1>6 DEF vars, editing, asking
<1> QED
  BY <1>1, <1>2, <1>4, <1>5, <1>6, <1>7 DEF World

(* What a pass paints. *)
LEMMA IterateShows ==
    ASSUME IInv, IInv', Iterate
    PROVE  /\ glass'.highlighted = selected_pid'
           /\ glass'.label = g_sort
           /\ glass'.prompt = IF confirm_kill
                              THEN [pid |-> selected_pid, force |-> kill_force]
                              ELSE NoPrompt
           /\ confirm_kill => selected_pid' = selected_pid
           /\ ~confirm_kill /\ ~filter_edit => glass'.banner = banner
<1> DEFINE view == clamp_view(procs', sorted', filter, selected_pid, scroll, rows')
           page == Painted(procs', sorted', filter', scroll', rows')
<1>1. /\ procs' \subseteq [proc : Procs, cpu_pct : CpuPcts] /\ IsFiniteSet(procs')
      /\ sorted' \in Orders /\ scroll \in Nat
  BY DEF IInv, TypeOK
<1>2. rows' \in Nat
  BY InputAssumption DEF Iterate
<1>3. /\ selected_pid' = view.selected_pid /\ scroll' = view.scroll
      /\ glass' = Frame(filter_edit, confirm_kill, banner)
      /\ filter' = filter /\ confirm_kill' = confirm_kill
  BY DEF Iterate, editing, asking
<1>4. selected_pid' = NoPid \/ \E row \in page : row.proc.pid = selected_pid'
  BY <1>1, <1>2, <1>3, SelectedPainted
<1>5. glass'.highlighted = selected_pid'
  <2>1. glass'.highlighted =
          IF \E row \in Painted(procs', sorted', filter, scroll', rows') :
                 row.proc.pid = selected_pid'
          THEN selected_pid' ELSE NoPid
    BY <1>3 DEF Frame
  <2> QED
    BY <1>3, <1>4, <2>1
<1>6. confirm_kill => selected_pid' = selected_pid /\ selected_pid' \in Pids
  <2> SUFFICES ASSUME confirm_kill PROVE selected_pid' = selected_pid /\ selected_pid' \in Pids
    OBVIOUS
  <2>1. procs' = procs
    BY DEF Iterate, Refreshing
  <2>2. selected_pid \in ViewPids(procs', filter)
    BY <2>1 DEF IInv, ConfirmTarget
  <2>3. selected_pid' = selected_pid
    BY <1>1, <1>2, <1>3, <2>2, ClampViewResult
  <2> QED
    BY <1>1, <2>2, <2>3, ViewPidsType
<1>7. confirm_kill => selected_pid' >= 0
  <2>1. \A pid \in Pids : pid >= 0
    BY PidsType
  <2> QED
    BY <1>6, <2>1
<1>8. /\ glass'.label = g_sort
      /\ glass'.prompt = IF confirm_kill
                         THEN [pid |-> selected_pid', force |-> kill_force]
                         ELSE NoPrompt
      /\ ~confirm_kill /\ ~filter_edit => glass'.banner = banner
  BY <1>3, <1>7 DEF Frame
<1> QED
  BY <1>5, <1>6, <1>8

LEMMA GlassNext == IInv /\ IInv' /\ GInv /\ [Next]_vars => GInv'
<1> SUFFICES ASSUME IInv, IInv', GInv, [Next]_vars PROVE GInv'
  OBVIOUS
<1> USE DEF GInv, SignalledInLoop, OutcomePending, SortedAsChosen, GlassCurrent,
           OutcomeShown, Waiting
<1>1. CASE Prime \/ Polled \/ Stopped \/ Restore \/ World \/ UNCHANGED vars
  <2>1. /\ UNCHANGED <<signalled, glass, confirm_kill, kill_force, selected_pid,
                       g_sort, sorted, banner, filter_edit>>
        /\ \/ pc' \notin {"top", "poll", "key", "start", "primed"}
           \/ pc' = pc
           \/ pc = "start" /\ pc' = "primed"
           \/ pc = "poll" /\ pc' = "key"
    BY <1>1, QuietStep
  <2> QED
    BY <2>1 DEF NoSignal
<1>2. CASE Nothing \/ AnswerNo \/ Quit \/ Pause \/ \E key \in Keys : KeyStep(key)
  BY <1>2, QuietKey DEF NoSignal
<1>3. ASSUME NEW live \in BOOLEAN, Startup(live) PROVE GInv'
  <2>1. pc = "primed" /\ pc' \in {"top", "done"}
    BY <1>3 DEF Startup
  <2>2. sorted' = g_sort' /\ signalled' = signalled
    BY <1>3 DEF Startup
  <2>3. signalled = NoSignal
    BY <2>1
  <2> QED
    BY <2>1, <2>2, <2>3 DEF NoSignal
<1>4. CASE Iterate
  <2>1. /\ pc = "top" /\ pc' = "poll"
        /\ UNCHANGED <<signalled, g_sort, confirm_kill, kill_force, filter_edit>>
        /\ sorted' = g_sort'
    BY <1>4 DEF Iterate, asking, editing
  <2> QED
    BY <1>4, <2>1, IterateShows DEF NoSignal
<1>5. ASSUME NEW permitted \in BOOLEAN, AnswerYes(permitted) PROVE GInv'
  <2>1. pc' \in {"killed", "top"} /\ confirm_kill' = FALSE
    BY <1>5 DEF AnswerYes, collect_signal
  <2>2. banner' = [pid |-> selected_pid, ok |-> signalled'.ok] /\ signalled'.pid = selected_pid
    BY <1>5 DEF AnswerYes, collect_signal, Outcome
  <2>3. ~filter_edit' /\ sorted' = g_sort'
    BY <1>5 DEF AnswerYes, Handling, IInv, ConfirmTarget, editing, table
  <2> QED
    BY <2>1, <2>2, <2>3
<1> QED
  BY <1>1, <1>2, <1>3, <1>4, <1>5 DEF Next, Program, Terminated

LEMMA GlassInv == Spec => [](IInv /\ GInv)
<1>1. Init => IInv /\ GInv
  BY InitInv, GlassInit
<1>2. (IInv /\ GInv) /\ [Next]_vars => (IInv /\ GInv)'
  BY NextInv, GlassNext
<1> QED
  BY <1>1, <1>2, PTL DEF Spec

-----------------------------------------------------------------------------
(* The selection is on the glass. *)

(* No two processes have one pid at one time, nor have two rows of a       *)
(* table: a pid is given again only when its holder is gone, and a table   *)
(* is of one moment.                                                       *)
RunningDistinct == \A p, q \in Running : p.pid = q.pid => p = q

RowsDistinct == \A a, b \in procs : a.proc.pid = b.proc.pid => a = b

(* While the program waits, the selection is listed if any row is. *)
SelectionThere ==
    pc = "poll" /\ View(procs, filter) # {} => selected_pid \in ViewPids(procs, filter)

DInv == RunningDistinct /\ RowsDistinct /\ SelectionThere

LEMMA DistinctInit == Init => DInv
BY DEF Init, DInv, RunningDistinct, RowsDistinct, SelectionThere

(* A table is of one moment. *)
LEMMA SampleDistinct ==
    ASSUME RunningDistinct, NEW sample \in Samples
    PROVE  \A a, b \in sample : a.proc.pid = b.proc.pid => a = b
<1>1. CASE sample = {}
  BY <1>1
<1>2. CASE sample # {}
  <2>1. PICK S \in SUBSET Running :
            \E cpu \in [S -> CpuPcts] :
                sample = {[proc |-> p, cpu_pct |-> cpu[p]] : p \in S}
    BY <1>2 DEF Samples
  <2>2. PICK cpu \in [S -> CpuPcts] :
            sample = {[proc |-> p, cpu_pct |-> cpu[p]] : p \in S}
    BY <2>1
  <2> QED
    BY <2>2 DEF RunningDistinct
<1> QED
  BY <1>1, <1>2

(* Fewer processes, or one more whose pid nobody has, are still distinct.  *)
LEMMA RunningStep ==
    ASSUME RunningDistinct, [Next]_vars, IInv
    PROVE  RunningDistinct'
<1>1. ASSUME Running' \subseteq Running PROVE RunningDistinct'
  BY <1>1 DEF RunningDistinct
<1>2. CASE os' = os
  BY <1>1, <1>2 DEF Running
<1>3. ASSUME NEW p \in Procs, Spawn(p) PROVE RunningDistinct'
  <2>1. Running' \subseteq Running \cup {p}
    BY <1>3 DEF Spawn, Running, IInv, TypeOK
  <2>2. \A q \in Running : q.pid # p.pid
    BY <1>3 DEF Spawn, Holders
  <2> QED
    BY <2>1, <2>2 DEF RunningDistinct
<1>4. ASSUME NEW p \in Procs, Exit(p) PROVE RunningDistinct'
  BY <1>1, <1>4 DEF Exit, Running, IInv, TypeOK
<1>5. ASSUME NEW permitted \in BOOLEAN, AnswerYes(permitted) PROVE RunningDistinct'
  <2>1. Running' \subseteq Running
    BY <1>5 DEF AnswerYes, collect_signal, Running
  <2> QED
    BY <1>1, <2>1
<1>6. ASSUME NEW key \in Keys, KeyStep(key) PROVE os' = os
  BY <1>6 DEF KeyStep, EditKey, SortBy, Reverse, Resort, EditFilter, AskKill, Move
<1>7. ASSUME Program, ~\E permitted \in BOOLEAN : AnswerYes(permitted) PROVE os' = os
  BY <1>6, <1>7 DEF Program, Prime, Polled, Startup, Iterate, Nothing, AnswerNo, Quit, Pause,
                    Stopped, Restore
<1>8. ASSUME World, ~\E p \in Procs : Spawn(p) \/ Exit(p) PROVE os' = os
  BY <1>8 DEF World, on_stop, SecondInterrupt, Hangup
<1> QED
  BY <1>2, <1>3, <1>4, <1>5, <1>7, <1>8 DEF Next, Terminated, vars

(* A pass selects a listed row when there is one. *)
LEMMA IterateSelects ==
    ASSUME IInv', RowsDistinct', Iterate, IInv, View(procs', filter') # {}
    PROVE  selected_pid' \in ViewPids(procs', filter')
<1> DEFINE n   == render_filtered_count(procs', filter)
           pos == render_filtered_pos(procs', sorted', filter, selected_pid)
           at  == clamp_view(procs', sorted', filter, selected_pid, scroll, rows')
<1>1. /\ procs' \subseteq Row /\ IsFiniteSet(procs') /\ sorted' \in Orders
      /\ filter' = filter /\ selected_pid' = at.selected_pid
  BY TypedRows DEF IInv, TypeOK, Iterate, editing
<1>2. n \in Nat /\ n > 0
  BY <1>1, ViewFinite
<1>3. 0 \in 0 .. n - 1
  <2> HIDE DEF n
  <2> QED
    BY <1>2
<1>4. at.selected_pid = Reselect(procs', sorted', filter, selected_pid, pos)
  BY <1>2 DEF clamp_view
<1>5. CASE selected_pid \in ViewPids(procs', filter)
  <2>1. pos \in Nat
    BY <1>1, <1>5, PosFound
  <2> QED
    BY <1>1, <1>4, <1>5, <2>1 DEF Reselect
<1>6. CASE selected_pid \notin ViewPids(procs', filter)
  <2>1. pos = -1
    BY <1>1, <1>6, PosFound
  <2>2. selected_pid' = pid_at(procs', sorted', filter, 0)
    BY <1>1, <1>4, <2>1 DEF Reselect
  <2>3. pid_at(procs', sorted', filter, 0) \in ViewPids(procs', filter)
    BY <1>1, <1>3, PidAtListed DEF RowsDistinct
  <2> QED
    BY <1>1, <2>2, <2>3
<1> QED
  BY <1>5, <1>6

(* No other step begins a wait, or changes anything during one. *)
LEMMA WaitBegins ==
    ASSUME [Next]_vars, ~Iterate, IInv
    PROVE  \/ pc' # "poll"
           \/ pc = "poll" /\ UNCHANGED <<procs, filter, selected_pid>>
<1>1. CASE Nothing \/ AnswerNo \/ Quit \/ Pause \/ \E key \in Keys : KeyStep(key)
  BY <1>1, QuietKey
<1>2. CASE \/ \E live \in BOOLEAN : Startup(live)
           \/ \E permitted \in BOOLEAN : AnswerYes(permitted)
  BY <1>2 DEF Startup, AnswerYes, collect_signal
<1>3. CASE Prime \/ Polled \/ Stopped \/ Restore
  BY <1>3 DEF Prime, Polled, Stopped, Restore
<1>4. CASE World \/ UNCHANGED vars
  <2>1. UNCHANGED <<procs, filter, selected_pid>>
    BY <1>4 DEF World, Spawn, Exit, on_stop, SecondInterrupt, Hangup, table, options,
                editing, vars
  <2>2. pc' # "poll" \/ pc' = pc
    BY <1>4, QuietStep
  <2> QED
    BY <2>1, <2>2
<1> QED
  BY <1>1, <1>2, <1>3, <1>4 DEF Next, Program, Terminated

LEMMA DistinctNext == IInv /\ IInv' /\ DInv /\ [Next]_vars => DInv'
<1> SUFFICES ASSUME IInv, IInv', DInv, [Next]_vars PROVE DInv'
  OBVIOUS
<1>1. RunningDistinct'
  BY RunningStep DEF DInv
<1>2. procs' \in Samples \/ procs' = procs
  <2>1. CASE Iterate \/ \E live \in BOOLEAN : Startup(live)
    BY <2>1 DEF Iterate, Startup
  <2>2. CASE \/ Prime \/ Polled \/ Stopped \/ Restore \/ World \/ UNCHANGED vars
             \/ Nothing \/ AnswerNo \/ Quit \/ Pause
             \/ \E permitted \in BOOLEAN : AnswerYes(permitted)
    BY <2>2 DEF Prime, Polled, Stopped, Restore, World, Spawn, Exit, on_stop, SecondInterrupt,
                Hangup, Nothing, AnswerNo, Quit, Pause, AnswerYes, table, vars
  <2>3. CASE \E key \in Keys : KeyStep(key)
    BY <2>3 DEF KeyStep, EditKey, SortBy, Reverse, Resort, EditFilter, AskKill, Move,
                table
  <2> QED
    BY <2>1, <2>2, <2>3 DEF Next, Program, Terminated
<1>3. RowsDistinct'
  BY <1>2, SampleDistinct DEF DInv, RowsDistinct
<1>4. SelectionThere'
  <2>1. CASE Iterate
    BY <1>3, <2>1, IterateSelects DEF SelectionThere
  <2>2. CASE ~Iterate
    BY <2>2, WaitBegins DEF DInv, SelectionThere
  <2> QED
    BY <2>1, <2>2
<1> QED
  BY <1>1, <1>3, <1>4 DEF DInv

LEMMA DistinctInv == Spec => [](IInv /\ GInv /\ DInv)
<1>1. IInv /\ IInv' /\ DInv /\ [Next]_vars => DInv'
  BY DistinctNext
<1> QED
  BY <1>1, DistinctInit, GlassInv, PTL DEF Spec

-----------------------------------------------------------------------------
(* The theorems. *)

(* Whenever the program waits for a key, the selected row is listed, on    *)
(* the page and highlighted, and there is none only when no row matches    *)
(* (clamp_view and paint).                                                 *)
THEOREM SelectionIsVisible == Spec => []SelectedVisible
<1>1. IInv /\ GInv /\ DInv => SelectedVisible
  <2>1. View(procs, filter) = {} => ViewPids(procs, filter) = {}
    BY DEF ViewPids
  <2> QED
    BY <2>1 DEF IInv, GInv, DInv, GlassCurrent, SelectionListed, SelectionThere,
                SelectedVisible, Waiting
<1> QED
  BY <1>1, DistinctInv, PTL

(* The footer names the order the rows stand in (the sort keys, also while *)
(* paused).                                                                *)
THEOREM LabelMatches == Spec => []LabelMatchesOrder
<1>1. GInv => LabelMatchesOrder
  BY DEF GInv, GlassCurrent, SortedAsChosen, LabelMatchesOrder, Waiting
<1> QED
  BY <1>1, GlassInv, PTL

(* The frame after a signal tells its outcome (the y branch of the loop    *)
(* and the reset of the banner).                                           *)
THEOREM OutcomeIsShown == Spec => []OutcomeShown
<1>1. GInv => OutcomeShown
  BY DEF GInv
<1> QED
  BY <1>1, GlassInv, PTL

(* A pass moves the selection only when its pid has left the filtered      *)
(* table (clamp_view).                                                     *)
THEOREM SelectionIsSticky == Spec => SelectionSticky
<1> DEFINE Sticky == pc = "top" /\ pc' = "poll" =>
                         \/ selected_pid' = selected_pid
                         \/ selected_pid \notin ViewPids(procs', filter)
<1>1. IInv /\ IInv' /\ [Next]_vars => Sticky
  <2> SUFFICES ASSUME IInv, IInv', [Next]_vars, pc = "top", pc' = "poll",
                      selected_pid \in ViewPids(procs', filter)
               PROVE  selected_pid' = selected_pid
    OBVIOUS
  <2>1. Iterate
    <3>1. ~(Prime \/ Polled \/ Stopped \/ Restore \/ World \/ UNCHANGED vars)
      BY QuietStep
    <3>2. ~(Nothing \/ AnswerNo \/ Quit \/ Pause \/ \E key \in Keys : KeyStep(key))
      BY QuietKey
    <3>3. ~\E live \in BOOLEAN : Startup(live)
      BY DEF Startup
    <3>4. ~\E permitted \in BOOLEAN : AnswerYes(permitted)
      BY DEF AnswerYes, Handling
    <3> QED
      BY <3>1, <3>2, <3>3, <3>4 DEF Next, Program, Terminated
  <2>2. /\ IsFiniteSet(procs') /\ scroll \in Nat
    BY DEF IInv, TypeOK
  <2>3. rows' \in Nat
    BY <2>1, InputAssumption DEF Iterate
  <2>4. selected_pid' =
          clamp_view(procs', sorted', filter, selected_pid, scroll, rows').selected_pid
    BY <2>1 DEF Iterate
  <2> QED
    BY <2>2, <2>3, <2>4, ClampViewResult
<1>2. IInv /\ IInv' /\ [Next]_vars => [Sticky]_vars
  BY <1>1
<1> QED
  BY <1>2, SpecInv, PTL DEF Spec, SelectionSticky

-----------------------------------------------------------------------------
(* TaskLoop implements ConfirmedKill.  Start-up paints at most once, a     *)
(* pass of the loop is Paint, a k or K that is taken up is Ask, y is Yes,  *)
(* every other key is Other, and what the world does is no step of         *)
(* ConfirmedKill at all.                                                   *)

(* The question as ConfirmedKill sees it. *)
Question == IF confirm_kill THEN [pid |-> selected_pid, force |-> kill_force]
                            ELSE NoPrompt

Sent == [pid |-> signalled.pid, force |-> signalled.force]

LEMMA PromptsAreOne == Promise!NoPrompt = NoPrompt /\ Promise!Nobody = NoPid
BY DEF Promise!NoPrompt, Promise!Nobody, NoPrompt, NoPid

LEMMA InitRefines == Init => Promise!AInit
BY DEF Init, Promise!AInit, Promise!NoPrompt, Promise!Nobody, NoPrompt, NoPid,
       NoSignal, BlankGlass

(* An open question has a pid, so it is none of the absent ones. *)
LEMMA QuestionIsOne ==
    ASSUME IInv, confirm_kill
    PROVE  Question # NoPrompt /\ Question \in Promise!Prompts
<1>1. ViewPids(procs, filter) \subseteq Pids
  BY ViewPidsType DEF IInv, TypeOK
<1>2. selected_pid \in Pids /\ selected_pid # NoPid
  BY <1>1, PidsType DEF IInv, ConfirmTarget
<1>3. kill_force \in BOOLEAN
  BY DEF IInv, TypeOK
<1> QED
  BY <1>2, <1>3 DEF Question, NoPrompt, Promise!Prompts

(* A step of the program, or of the world, is a step of the promise. *)
LEMMA NextRefines ==
    IInv /\ IInv' /\ GInv /\ [Next]_vars => [Promise!ANext]_(Promise!avars)
<1> SUFFICES ASSUME IInv, IInv', GInv, [Next]_vars
             PROVE  Promise!ANext \/ UNCHANGED Promise!avars
  OBVIOUS
<1>1. CASE Prime \/ Polled \/ Stopped \/ Restore \/ World \/ UNCHANGED vars
  <2>1. UNCHANGED <<signalled, glass, confirm_kill, kill_force, selected_pid>>
    BY <1>1, QuietStep
  <2> QED
    BY <2>1 DEF Promise!avars
<1>2. CASE Nothing \/ AnswerNo \/ Quit \/ Pause \/ \E key \in Keys : KeyStep(key)
  <2>1. /\ pc = "key" /\ signalled' = NoSignal /\ glass' = glass
        /\ \/ ~confirm_kill'
           \/ UNCHANGED <<confirm_kill, kill_force, selected_pid>>
           \/ ~confirm_kill /\ CanKill(selected_pid) /\ selected_pid' = selected_pid
    BY <1>2, QuietKey
  <2>2. Sent' = Promise!NoPrompt
    BY <2>1, PromptsAreOne DEF Sent, NoSignal, NoPrompt
  <2>3. CASE ~confirm_kill' \/ UNCHANGED <<confirm_kill, kill_force, selected_pid>>
    <3>1. Question' \in {Question, Promise!NoPrompt}
      BY <2>3, PromptsAreOne DEF Question
    <3>2. Promise!Other
      BY <2>1, <2>2, <3>1 DEF Promise!Other, Question, Sent
    <3> QED
      BY <3>2 DEF Promise!ANext
  <2>4. CASE confirm_kill' /\ ~confirm_kill /\ CanKill(selected_pid)
               /\ selected_pid' = selected_pid
    <3>1. Question = Promise!NoPrompt
      BY <2>4, PromptsAreOne DEF Question
    <3>2. glass.highlighted = selected_pid
      BY <2>1 DEF GInv, GlassCurrent, Waiting
    <3>3. selected_pid # Promise!Nobody
      BY <2>4, PromptsAreOne DEF CanKill, NoPid
    <3>4. Question' \in Promise!Prompts
      <4>1. selected_pid' \in ViewPids(procs', filter') /\ kill_force' \in BOOLEAN
        BY <2>4 DEF IInv, ConfirmTarget, TypeOK
      <4>2. ViewPids(procs', filter') \subseteq Pids
        BY ViewPidsType DEF IInv, TypeOK
      <4> QED
        BY <2>4, <4>1, <4>2 DEF Question, Promise!Prompts
    <3>5. Question'.pid = glass.highlighted
      BY <2>4, <3>2 DEF Question
    <3>6. Promise!Ask
      BY <2>1, <2>2, <3>1, <3>2, <3>3, <3>4, <3>5 DEF Promise!Ask, Question, Sent
    <3> QED
      BY <3>6 DEF Promise!ANext
  <2> QED
    BY <2>1, <2>3, <2>4
<1>3. ASSUME NEW live \in BOOLEAN, Startup(live)
      PROVE  Promise!ANext \/ UNCHANGED Promise!avars
  <2>1. ~confirm_kill /\ confirm_kill' = confirm_kill /\ signalled' = signalled
    BY <1>3 DEF IInv, AskedInLoop, Startup
  <2>2. CASE live
    BY <1>3, <2>1, <2>2 DEF Startup, Promise!avars
  <2>3. CASE ~live
    <3>1. glass' = Frame(FALSE, FALSE, NoBanner)
      BY <1>3, <2>3 DEF Startup
    <3>2. glass'.prompt = NoPrompt /\ glass'.highlighted \in {selected_pid', NoPid}
      BY <3>1 DEF Frame
    <3>3. selected_pid' \in Pids \cup {NoPid}
      BY DEF IInv, TypeOK
    <3>4. Promise!Paint
      BY <2>1, <3>2, <3>3, PromptsAreOne DEF Promise!Paint
    <3> QED
      BY <3>4 DEF Promise!ANext
  <2> QED
    BY <2>2, <2>3
<1>4. CASE Iterate
  <2>1. UNCHANGED <<signalled, confirm_kill, kill_force>>
    BY <1>4 DEF Iterate, asking
  <2>2. /\ glass'.highlighted = selected_pid'
        /\ glass'.prompt = Question
        /\ confirm_kill => selected_pid' = selected_pid
    BY <1>4, IterateShows DEF Question
  <2>3. selected_pid' \in Pids \cup {NoPid}
    BY DEF IInv, TypeOK
  <2>4. Promise!Paint
    BY <2>1, <2>2, <2>3, PromptsAreOne DEF Promise!Paint, Question
  <2> QED
    BY <2>4 DEF Promise!ANext
<1>5. ASSUME NEW permitted \in BOOLEAN, AnswerYes(permitted) PROVE Promise!Yes
  <2>1. pc = "key" /\ confirm_kill
    BY <1>5 DEF AnswerYes, Handling
  <2>2. ~confirm_kill' /\ glass' = glass
    BY <1>5 DEF AnswerYes, screen
  <2>3. signalled'.pid = selected_pid /\ signalled'.force = kill_force
    BY <1>5 DEF AnswerYes, collect_signal
  <2>4. glass.prompt = Question
    BY <2>1 DEF GInv, GlassCurrent, Question, Waiting
  <2>5. Question # NoPrompt
    BY <2>1, QuestionIsOne
  <2>6. Question = [pid |-> selected_pid, force |-> kill_force] /\ Question' = NoPrompt
    BY <2>1, <2>2 DEF Question
  <2>7. Sent' = Question
    BY <2>3, <2>6 DEF Sent
  <2> QED
    BY <2>2, <2>4, <2>5, <2>6, <2>7, PromptsAreOne DEF Promise!Yes, Question, Sent
<1> QED
  BY <1>1, <1>2, <1>3, <1>4, <1>5 DEF Next, Program, Terminated, Promise!ANext

(* The dashboard keeps the promise of the kill keys: a signal is only ever *)
(* the answer to a question on the glass, about the row that was           *)
(* highlighted when it was asked.                                          *)
THEOREM ImplementsConfirmedKill == Spec => KillsAsPromised
<1>1. Init => Promise!AInit
  BY InitRefines
<1>2. (IInv /\ GInv) /\ (IInv /\ GInv)' /\ [Next]_vars => [Promise!ANext]_(Promise!avars)
  BY NextRefines
<1> QED
  BY <1>1, <1>2, GlassInv, PTL DEF Spec, KillsAsPromised, Promise!ASpec
=============================================================================
