--------------------------- MODULE TaskLoopProofs ---------------------------
(***************************************************************************)
(* Theorems about TaskLoop for every set of processes, every keyboard,     *)
(* every window height and every host.                                     *)
(*                                                                         *)
(* The first part says what the view helpers of ProcView return.  The      *)
(* second shows that IInv is inductive: it adds to the properties what they*)
(* rest on, that the selection is a row of the filtered table whenever the *)
(* program waits for a key, and that a question is open only in the loop.  *)
(***************************************************************************)
EXTENDS TaskLoop, ProcViewProofs

-----------------------------------------------------------------------------
(* The view helpers. *)

(* A typed table is a table of rows. *)
LEMMA TypedRows == [proc : Procs, cpu_pct : CpuPcts] \subseteq Row
BY ProcsAssumption, InputAssumption DEF Row

(* What the rows of a typed table can be called. *)
LEMMA ViewPidsType ==
    ASSUME NEW ps, ps \subseteq [proc : Procs, cpu_pct : CpuPcts], NEW f
    PROVE  ViewPids(ps, f) \subseteq Pids
BY DEF ViewPids, View, Pids

(* A pid is a number, and NoPid is none. *)
LEMMA PidsType == Pids \subseteq Nat /\ NoPid \notin Pids
<1>1. Pids \subseteq Nat
  BY ProcsAssumption DEF Pids, ProcSample
<1> QED
  BY <1>1 DEF NoPid

(* A sample is a finite table of running processes. *)
LEMMA SamplesType ==
    ASSUME NEW sample \in Samples
    PROVE  /\ sample \subseteq [proc : Procs, cpu_pct : CpuPcts]
           /\ IsFiniteSet(sample)
<1>1. CASE sample = {}
  BY <1>1, FS_EmptySet
<1>2. CASE sample # {}
  <2>0. PICK S \in SUBSET Running :
            \E cpu \in [S -> CpuPcts] :
                sample = {[proc |-> p, cpu_pct |-> cpu[p]] : p \in S}
    BY <1>2 DEF Samples
  <2>1. PICK cpu \in [S -> CpuPcts] :
            sample = {[proc |-> p, cpu_pct |-> cpu[p]] : p \in S}
    BY <2>0
  <2>2. S \subseteq Procs
    BY DEF Running
  <2>3. sample \subseteq [proc : Procs, cpu_pct : CpuPcts]
    BY <2>1, <2>2
  <2>4. IsFiniteSet(S)
    BY <2>2, ProcsAssumption, FS_Subset
  <2> DEFINE row == [p \in S |-> [proc |-> p, cpu_pct |-> cpu[p]]]
  <2>5. row \in Surjection(S, sample)
    BY <2>1 DEF Surjection
  <2>6. IsFiniteSet(sample)
    BY <2>4, <2>5, FS_Surjection
  <2> QED
    BY <2>3, <2>6
<1> QED
  BY <1>1, <1>2

-----------------------------------------------------------------------------
(* The inductive invariant. *)

(* From the poll to the key that ends it. *)
Waiting == {"poll", "key"}

(* While the program waits for a key the selection is listed, or none. *)
SelectionListed ==
    pc \in Waiting => selected_pid \in ViewPids(procs, filter) \cup {NoPid}

(* Nothing is asked before the loop. *)
AskedInLoop == pc \in {"start", "primed"} => ~confirm_kill

IInv ==
    /\ TypeOK
    /\ IsFiniteSet(procs)
    /\ SelectionListed
    /\ AskedInLoop
    /\ ConfirmTarget

(* It holds when the program starts. *)
LEMMA InitInv == Init => IInv
<1> SUFFICES ASSUME Init PROVE IInv
  OBVIOUS
<1>1. TypeOK
  <2>1. /\ filter \in Seq(Nat) /\ Len(filter) < FILTER_CAP
        /\ sorted \in Orders /\ g_sort \in Orders
    BY InputAssumption DEF Init, Orders, SortKeys, SORT_CPU
  <2>2. os \in [Procs -> {"unborn", "running", "gone"}]
    BY DEF Init
  <2>3. glass \in [highlighted : Pids \cup {NoPid},
                  prompt : [pid : Pids \cup {NoPid}, force : BOOLEAN],
                  banner : [pid : Pids \cup {NoPid}, ok : BOOLEAN],
                  label : Orders]
    BY DEF Init, BlankGlass, NoPrompt, NoBanner, Orders, SortKeys, SORT_CPU
  <2>4. signalled \in [pid : Pids \cup {NoPid}, force : BOOLEAN,
                      ok : BOOLEAN, hit : SUBSET Procs]
    BY DEF Init, NoSignal
  <2>5. banner \in [pid : Pids \cup {NoPid}, ok : BOOLEAN]
    BY DEF Init, NoBanner
  <2> QED
    BY <2>1, <2>2, <2>3, <2>4, <2>5 DEF Init, TypeOK
<1>2. IsFiniteSet(procs)
  BY FS_EmptySet DEF Init
<1> QED
  BY <1>1, <1>2 DEF IInv, Init, SelectionListed, Waiting, AskedInLoop, ConfirmTarget

(* What a frame shows is of the glass's type. *)
LEMMA FrameType ==
    ASSUME g_sort \in Orders, kill_force \in BOOLEAN,
           selected_pid' \in Pids \cup {NoPid},
           NEW edit \in BOOLEAN, NEW ask \in BOOLEAN,
           NEW text \in [pid : Pids \cup {NoPid}, ok : BOOLEAN]
    PROVE  Frame(edit, ask, text) \in
             [highlighted : Pids \cup {NoPid},
              prompt : [pid : Pids \cup {NoPid}, force : BOOLEAN],
              banner : [pid : Pids \cup {NoPid}, ok : BOOLEAN],
              label : Orders]
<1>1. /\ NoPrompt \in [pid : Pids \cup {NoPid}, force : BOOLEAN]
      /\ NoBanner \in [pid : Pids \cup {NoPid}, ok : BOOLEAN]
  BY DEF NoPrompt, NoBanner
<1> QED
  BY <1>1 DEF Frame

(* The first selection. *)
LEMMA StartupInv == IInv /\ host' = host /\ (\E live \in BOOLEAN : Startup(live)) => IInv'
<1> SUFFICES ASSUME IInv, host' = host, NEW live \in BOOLEAN, Startup(live) PROVE IInv'
  OBVIOUS
<1> DEFINE view == clamp_view(procs', g_sort, filter, NoPid, 0, rows')
<1>1. procs' \subseteq [proc : Procs, cpu_pct : CpuPcts] /\ IsFiniteSet(procs')
  BY SamplesType DEF Startup
<1>2. rows' \in Heights /\ rows' \in Nat
  BY InputAssumption DEF Startup
<1>3. view.selected_pid \in ViewPids(procs', filter) \cup {NoPid} /\ view.scroll \in Nat
  BY <1>1, <1>2, ClampViewResult
<1>4. ViewPids(procs', filter) \subseteq Pids
  BY <1>1, ViewPidsType
<1>5. selected_pid' \in Pids \cup {NoPid} /\ scroll' \in Nat
  BY <1>3, <1>4 DEF Startup
<1>6. TypeOK'
  <2>1. NoBanner \in [pid : Pids \cup {NoPid}, ok : BOOLEAN]
    BY DEF NoBanner
  <2>2. glass' \in [highlighted : Pids \cup {NoPid},
                   prompt : [pid : Pids \cup {NoPid}, force : BOOLEAN],
                   banner : [pid : Pids \cup {NoPid}, ok : BOOLEAN],
                   label : Orders]
    BY <1>5, <2>1, FrameType DEF IInv, TypeOK, Startup
  <2>3. pc' \in {"top", "done"} /\ tty' \in {"cooked", "raw"}
    BY DEF IInv, TypeOK, Startup
  <2>4. sorted' \in Orders /\ g_sort' \in Orders /\ host' \in Hosts
    BY DEF IInv, TypeOK, Startup
  <2>5. /\ os' \in [Procs -> {"unborn", "running", "gone"}]
        /\ filter' \in Seq(Nat) /\ Len(filter') < FILTER_CAP
        /\ filter_edit' \in BOOLEAN
        /\ confirm_kill' \in BOOLEAN /\ kill_force' \in BOOLEAN
        /\ paused' \in BOOLEAN /\ g_stop' \in BOOLEAN
    BY DEF IInv, TypeOK, Startup
  <2>6. /\ banner' \in [pid : Pids \cup {NoPid}, ok : BOOLEAN]
        /\ signalled' \in [pid : Pids \cup {NoPid}, force : BOOLEAN,
                           ok : BOOLEAN, hit : SUBSET Procs]
    BY DEF IInv, TypeOK, Startup
  <2> QED
    BY <1>1, <1>2, <1>5, <2>2, <2>3, <2>4, <2>5, <2>6 DEF TypeOK
<1>7. pc' \notin {"poll", "key", "start", "primed"} /\ ~confirm_kill'
  BY DEF IInv, AskedInLoop, Startup
<1> QED
  BY <1>1, <1>6, <1>7 DEF IInv, SelectionListed, Waiting, AskedInLoop, ConfirmTarget

(* A pass.  While a question is open the table stands still, so the clamp  *)
(* leaves the selection on the row that was asked about.                   *)
LEMMA IterateInv == IInv /\ host' = host /\ Iterate => IInv'
<1> SUFFICES ASSUME IInv, host' = host, Iterate PROVE IInv'
  OBVIOUS
<1> DEFINE view == clamp_view(procs', sorted', filter, selected_pid, scroll, rows')
<1>1. procs' \subseteq [proc : Procs, cpu_pct : CpuPcts] /\ IsFiniteSet(procs')
  BY SamplesType DEF Iterate, IInv, TypeOK
<1>2. rows' \in Heights /\ rows' \in Nat
  BY InputAssumption DEF Iterate
<1>3. scroll \in Nat
  BY DEF IInv, TypeOK
<1>4. /\ view.selected_pid \in ViewPids(procs', filter) \cup {NoPid}
      /\ selected_pid \in ViewPids(procs', filter) => view.selected_pid = selected_pid
      /\ view.scroll \in Nat
  BY <1>1, <1>2, <1>3, ClampViewResult
<1>5. ViewPids(procs', filter) \subseteq Pids
  BY <1>1, ViewPidsType
<1>6. /\ selected_pid' \in ViewPids(procs', filter) \cup {NoPid}
      /\ selected_pid \in ViewPids(procs', filter) => selected_pid' = selected_pid
      /\ selected_pid' \in Pids \cup {NoPid} /\ scroll' \in Nat
  BY <1>4, <1>5 DEF Iterate
<1>7. TypeOK'
  <2>1. glass' \in [highlighted : Pids \cup {NoPid},
                   prompt : [pid : Pids \cup {NoPid}, force : BOOLEAN],
                   banner : [pid : Pids \cup {NoPid}, ok : BOOLEAN],
                   label : Orders]
    BY <1>6, FrameType DEF IInv, TypeOK, Iterate
  <2>2. banner' \in [pid : Pids \cup {NoPid}, ok : BOOLEAN]
    BY DEF IInv, TypeOK, Iterate, NoBanner
  <2>3. sorted' \in Orders
    BY DEF IInv, TypeOK, Iterate
  <2> QED
    BY <1>1, <1>2, <1>6, <2>1, <2>2, <2>3 DEF IInv, TypeOK, Iterate, editing, asking
<1>8. SelectionListed'
  BY <1>6 DEF SelectionListed, Waiting, Iterate, editing
<1>9. AskedInLoop'
  BY DEF AskedInLoop, Iterate
<1>10. ConfirmTarget'
  <2> SUFFICES ASSUME confirm_kill'
               PROVE  /\ selected_pid' \in ViewPids(procs', filter')
                      /\ CanKill(selected_pid') /\ ~filter_edit'
    BY DEF ConfirmTarget, CanKill
  <2>1. confirm_kill /\ filter' = filter /\ filter_edit' = filter_edit
    BY DEF Iterate, asking, editing
  <2>2. procs' = procs
    BY <2>1 DEF Iterate, Refreshing
  <2>3. selected_pid \in ViewPids(procs, filter) /\ CanKill(selected_pid) /\ ~filter_edit
    BY <2>1 DEF IInv, ConfirmTarget
  <2> QED
    BY <1>6, <2>1, <2>2, <2>3
<1> QED
  BY <1>1, <1>7, <1>8, <1>9, <1>10 DEF IInv

(* A step that keeps the table, the filter, the selection and the question *)
(* and does not start a wait keeps what is said about them.                *)
LEMMA StandStillInv ==
    ASSUME IInv, TypeOK', host' = host, pc' \notin {"start", "primed"} \/ ~confirm_kill',
           pc' \notin {"poll", "key"} \/ (pc = "poll" /\ pc' = "key"),
           procs' = procs, filter' = filter, filter_edit' = filter_edit,
           selected_pid' = selected_pid, confirm_kill' \in {confirm_kill, FALSE}
    PROVE  IInv'
<1>1. SelectionListed'
  BY DEF IInv, SelectionListed, Waiting
<1>2. AskedInLoop'
  BY DEF AskedInLoop
<1>3. ConfirmTarget'
  BY DEF IInv, ConfirmTarget, CanKill
<1> QED
  BY <1>1, <1>2, <1>3 DEF IInv

(* A signal is recorded with the row's pid, and only processes receive it. *)
LEMMA SignalType ==
    ASSUME TypeOK, NEW permitted \in BOOLEAN,
           collect_signal(selected_pid, kill_force, permitted)
    PROVE  /\ signalled' \in [pid : Pids \cup {NoPid}, force : BOOLEAN,
                             ok : BOOLEAN, hit : SUBSET Procs]
           /\ os' \in [Procs -> {"unborn", "running", "gone"}]
           /\ g_stop' \in BOOLEAN
           /\ pc' \in {"killed", "top"}
<1> DEFINE hit == IF Refused(selected_pid) \/ ~permitted THEN {} ELSE Holders(selected_pid)
           dies == kill_force \/ host = "Windows"
<1>1. hit \subseteq Procs
  BY DEF Holders, Running
<1>2. signalled' = [pid |-> selected_pid, force |-> kill_force, ok |-> hit # {}, hit |-> hit]
  BY DEF collect_signal
<1>3. os' = [p \in Procs |-> IF p \in hit /\ dies THEN "gone" ELSE os[p]]
  BY DEF collect_signal
<1>4. g_stop' = (g_stop \/ (Self \in hit /\ ~dies))
  BY DEF collect_signal
<1>5. pc' = IF Self \in hit /\ dies THEN "killed" ELSE "top"
  BY DEF collect_signal
<1> HIDE DEF hit, dies
<1>6. signalled' \in [pid : Pids \cup {NoPid}, force : BOOLEAN,
                     ok : BOOLEAN, hit : SUBSET Procs]
  BY <1>1, <1>2 DEF TypeOK
<1>7. os' \in [Procs -> {"unborn", "running", "gone"}]
  BY <1>3 DEF TypeOK
<1>8. g_stop' \in BOOLEAN
  <2>1. CASE g_stop' = TRUE
    BY <2>1
  <2> QED
    BY <1>4, <2>1 DEF TypeOK
<1> QED
  BY <1>5, <1>6, <1>7, <1>8

(* The answers to the question.  *)
LEMMA AnswerInv ==
    IInv /\ host' = host /\ ((\E permitted \in BOOLEAN : AnswerYes(permitted)) \/ AnswerNo) => IInv'
<1>1. ASSUME IInv, host' = host, NEW permitted \in BOOLEAN, AnswerYes(permitted) PROVE IInv'
  <2>1. TypeOK'
    <3>1. /\ signalled' \in [pid : Pids \cup {NoPid}, force : BOOLEAN,
                             ok : BOOLEAN, hit : SUBSET Procs]
          /\ os' \in [Procs -> {"unborn", "running", "gone"}]
          /\ g_stop' \in BOOLEAN
          /\ pc' \in {"killed", "top"}
      BY <1>1, SignalType DEF IInv, AnswerYes
    <3>2. banner' \in [pid : Pids \cup {NoPid}, ok : BOOLEAN]
      BY <1>1, <3>1 DEF IInv, TypeOK, AnswerYes, Outcome
    <3>3. confirm_kill' = FALSE /\ kill_force' = FALSE
      BY <1>1 DEF AnswerYes
    <3>4. UNCHANGED <<procs, sorted, g_sort, filter, filter_edit, selected_pid,
                      scroll, paused, rows, tty, glass>>
      BY <1>1 DEF AnswerYes, table, editing, screen
    <3>5. host' \in Hosts /\ procs' \subseteq [proc : Procs, cpu_pct : CpuPcts]
      BY <1>1, <3>4 DEF IInv, TypeOK
    <3>6. /\ sorted' \in Orders /\ g_sort' \in Orders
          /\ filter' \in Seq(Nat) /\ Len(filter') < FILTER_CAP
          /\ filter_edit' \in BOOLEAN /\ paused' \in BOOLEAN
          /\ selected_pid' \in Pids \cup {NoPid}
          /\ scroll' \in Nat /\ rows' \in Heights \cup {24}
          /\ tty' \in {"cooked", "raw"}
      BY <1>1, <3>4 DEF IInv, TypeOK
    <3>7. glass' \in [highlighted : Pids \cup {NoPid},
                     prompt : [pid : Pids \cup {NoPid}, force : BOOLEAN],
                     banner : [pid : Pids \cup {NoPid}, ok : BOOLEAN],
                     label : Orders]
      BY <1>1, <3>4 DEF IInv, TypeOK
    <3> QED
      BY <3>1, <3>2, <3>3, <3>5, <3>6, <3>7 DEF TypeOK
  <2>2. pc' \in {"killed", "top"}
    BY <1>1, SignalType DEF IInv, AnswerYes
  <2> QED
    BY <1>1, <2>1, <2>2, StandStillInv DEF AnswerYes, table, editing
<1>2. ASSUME IInv, host' = host, AnswerNo PROVE IInv'
  <2>1. TypeOK'
    <3>1. pc' = "top" /\ confirm_kill' = FALSE /\ kill_force' = FALSE
      BY <1>2 DEF AnswerNo
    <3>2. signalled' \in [pid : Pids \cup {NoPid}, force : BOOLEAN,
                         ok : BOOLEAN, hit : SUBSET Procs]
      BY <1>2 DEF AnswerNo, NoSignal
    <3>3. UNCHANGED <<os, procs, sorted, g_sort, filter, filter_edit, selected_pid,
                      scroll, banner, paused, rows, g_stop, tty, glass>>
      BY <1>2 DEF AnswerNo, table, editing, screen
    <3>4. /\ os' \in [Procs -> {"unborn", "running", "gone"}]
          /\ banner' \in [pid : Pids \cup {NoPid}, ok : BOOLEAN]
          /\ g_stop' \in BOOLEAN
      BY <1>2, <3>3 DEF IInv, TypeOK
    <3> QED
      BY <1>2, <3>1, <3>2, <3>3, <3>4 DEF IInv, TypeOK
  <2> QED
    BY <1>2, <2>1, StandStillInv DEF AnswerNo, table, editing
<1> QED
  BY <1>1, <1>2

(* A filter stays in its buffer. *)
LEMMA FilterType ==
    ASSUME TypeOK, NEW key \in 1..255, EditKey(key)
    PROVE  filter' \in Seq(Nat) /\ Len(filter') < FILTER_CAP
<1>1. filter \in Seq(Nat) /\ Len(filter) < FILTER_CAP /\ FILTER_CAP \in Nat
  BY InputAssumption DEF TypeOK
<1>2. << >> \in Seq(Nat) /\ Len(<< >>) < FILTER_CAP
  BY InputAssumption
<1>3. filter_backspace(filter) \in Seq(Nat) /\ Len(filter_backspace(filter)) < FILTER_CAP
  BY <1>1, <1>2 DEF filter_backspace
<1>4. filter_add(filter, key) \in Seq(Nat) /\ Len(filter_add(filter, key)) < FILTER_CAP
  BY <1>1 DEF filter_add
<1> QED
  BY <1>1, <1>2, <1>3, <1>4 DEF EditKey

(* Typing a filter happens with no question open. *)
LEMMA EditKeyInv == IInv /\ host' = host /\ (\E key \in Keys : EditKey(key)) => IInv'
<1> SUFFICES ASSUME IInv, host' = host, NEW key \in Keys, EditKey(key) PROVE IInv'
  OBVIOUS
<1>1. filter' \in Seq(Nat) /\ Len(filter') < FILTER_CAP
  BY FilterType DEF IInv, EditKey
<1>2. TypeOK'
  BY <1>1 DEF IInv, TypeOK, EditKey, NoSignal, table, asking, screen
<1>3. pc' = "top" /\ ~confirm_kill' /\ procs' = procs
  BY DEF EditKey, asking, table
<1> QED
  BY <1>2, <1>3 DEF IInv, SelectionListed, Waiting, AskedInLoop, ConfirmTarget

(* A new order, and the keys that touch neither table nor selection. *)
LEMMA CommandInv ==
    IInv /\ host' = host /\ (\/ Quit \/ Pause
                            \/ \E key \in Keys : SortBy(key) \/ Reverse(key) \/ EditFilter(key)) => IInv'
<1>1. ASSUME IInv, host' = host, Quit PROVE IInv'
  <2>1. TypeOK'
    BY <1>1 DEF IInv, TypeOK, Quit, NoSignal, table, options, editing, asking, screen
  <2> QED
    BY <1>1, <2>1, StandStillInv DEF Quit, table, options, editing, asking
<1>2. ASSUME IInv, host' = host, Pause PROVE IInv'
  <2>1. TypeOK'
    BY <1>2 DEF IInv, TypeOK, Pause, NoSignal, table, editing, asking, screen
  <2> QED
    BY <1>2, <2>1, StandStillInv DEF Pause, table, editing, asking
<1>3. ASSUME IInv, host' = host, NEW order \in Orders, Resort(order) PROVE IInv'
  <2>1. TypeOK'
    BY <1>3 DEF IInv, TypeOK, Resort, NoSignal, editing, asking, screen
  <2> QED
    BY <1>3, <2>1, StandStillInv DEF Resort, editing, asking
<1>4. ASSUME IInv, host' = host, NEW key \in Keys, SortBy(key) PROVE IInv'
  <2>1. SortOfKey[key] \in SortKeys
    BY <1>4 DEF SortBy, SortOfKey, SortKeys
  <2>2. [g_sort EXCEPT !.key = SortOfKey[key]] \in Orders
    BY <1>4, <2>1 DEF IInv, TypeOK, Orders
  <2> QED
    BY <1>3, <1>4, <2>2 DEF SortBy
<1>5. ASSUME IInv, host' = host, NEW key \in Keys, Reverse(key) PROVE IInv'
  <2>1. [g_sort EXCEPT !.rev = ~@] \in Orders
    BY <1>5 DEF IInv, TypeOK, Orders
  <2> QED
    BY <1>3, <1>5, <2>1 DEF Reverse
<1>6. ASSUME IInv, host' = host, NEW key \in Keys, EditFilter(key) PROVE IInv'
  <2>1. filter' \in Seq(Nat) /\ Len(filter') < FILTER_CAP
    BY <1>6, InputAssumption DEF IInv, TypeOK, EditFilter
  <2>2. TypeOK'
    BY <1>6, <2>1 DEF IInv, TypeOK, EditFilter, NoSignal, table, asking, screen
  <2>3. pc' = "top" /\ ~confirm_kill' /\ procs' = procs
    BY <1>6 DEF EditFilter, Commanding, asking, table
  <2> QED
    BY <1>6, <2>2, <2>3 DEF IInv, SelectionListed, Waiting, AskedInLoop, ConfirmTarget
<1> QED
  BY <1>1, <1>2, <1>4, <1>5, <1>6

(* The question is about a listed row: while the program waits, the        *)
(* selection is one, or there is none and then k means nothing.            *)
LEMMA AskKillInv == IInv /\ host' = host /\ (\E key \in Keys : AskKill(key)) => IInv'
<1> SUFFICES ASSUME IInv, host' = host, NEW key \in Keys, AskKill(key) PROVE IInv'
  OBVIOUS
<1>1. TypeOK'
  BY DEF IInv, TypeOK, AskKill, NoSignal, table, editing, screen
<1>2. selected_pid \in ViewPids(procs, filter) \cup {NoPid}
  BY DEF IInv, SelectionListed, AskKill, Commanding, Handling, Waiting
<1>3. CanKill(selected_pid) /\ ~filter_edit
  BY DEF AskKill, Commanding
<1>4. ~CanKill(NoPid)
  BY DEF CanKill, NoPid
<1>5. selected_pid \in ViewPids(procs, filter)
  BY <1>2, <1>3, <1>4
<1>6. /\ selected_pid' = selected_pid /\ procs' = procs
      /\ filter' = filter /\ filter_edit' = filter_edit /\ pc' = "top"
  BY DEF AskKill, table, editing
<1> QED
  BY <1>1, <1>3, <1>5, <1>6
  DEF IInv, SelectionListed, Waiting, AskedInLoop, ConfirmTarget, CanKill

(* A movement key takes the selection to a row of the table. *)
LEMMA MoveInv == IInv /\ host' = host /\ (\E key \in Keys : Move(key)) => IInv'
<1> SUFFICES ASSUME IInv, host' = host, NEW key \in Keys, Move(key) PROVE IInv'
  OBVIOUS
<1> DEFINE at(i) == pid_at(procs, sorted, filter, i)
           by(delta) == move_sel(procs, sorted, filter, selected_pid, delta)
<1>1. ViewPids(procs, filter) \cup {NoPid} \subseteq Pids \cup {NoPid}
  BY ViewPidsType DEF IInv, TypeOK
<1>2. selected_pid \in Pids \cup {NoPid}
  BY DEF IInv, TypeOK
<1>3. ASSUME NEW i PROVE at(i) \in Pids \cup {NoPid}
  BY <1>1, PidAtInView
<1>4. ASSUME NEW delta PROVE by(delta) \in Pids \cup {NoPid}
  BY <1>2, <1>3 DEF move_sel
<1> HIDE DEF at, by
<1>5. selected_pid' \in Pids \cup {NoPid}
  BY <1>2, <1>3, <1>4 DEF Move, Moved, at, by
<1>6. TypeOK'
  BY <1>5 DEF IInv, TypeOK, Move, NoSignal, table, editing, asking, screen
<1>7. pc' = "top" /\ ~confirm_kill' /\ procs' = procs
  BY DEF Move, Commanding, asking, table
<1> QED
  BY <1>6, <1>7 DEF IInv, SelectionListed, Waiting, AskedInLoop, ConfirmTarget

(* The ways out, and a poll that means nothing. *)
LEMMA PassInv ==
    IInv /\ host' = host /\ (Prime \/ Polled \/ Nothing \/ Stopped \/ Restore) => IInv'
<1>1. ASSUME IInv, host' = host, Prime PROVE IInv'
  <2>1. TypeOK'
    BY <1>1 DEF IInv, TypeOK, Prime, table, options, editing, asking, screen
  <2>2. ~confirm_kill /\ confirm_kill' = confirm_kill /\ pc' \notin {"poll", "key"}
    BY <1>1 DEF IInv, AskedInLoop, Prime, options, asking
  <2> QED
    BY <1>1, <2>1, <2>2, StandStillInv DEF Prime, table, options, editing, asking
<1>2. ASSUME IInv, host' = host, Nothing PROVE IInv'
  <2>1. TypeOK'
    BY <1>2 DEF IInv, TypeOK, Nothing, NoSignal, table, options, editing, asking, screen
  <2> QED
    BY <1>2, <2>1, StandStillInv DEF Nothing, table, options, editing, asking
<1>3. ASSUME IInv, host' = host, Stopped PROVE IInv'
  <2>1. TypeOK'
    BY <1>3 DEF IInv, TypeOK, Stopped, table, options, editing, asking, screen
  <2> QED
    BY <1>3, <2>1, StandStillInv DEF Stopped, table, options, editing, asking
<1>4. ASSUME IInv, host' = host, Restore PROVE IInv'
  <2>1. TypeOK'
    BY <1>4 DEF IInv, TypeOK, Restore, table, options, editing, asking
  <2> QED
    BY <1>4, <2>1, StandStillInv DEF Restore, table, options, editing, asking
<1>5. ASSUME IInv, host' = host, Polled PROVE IInv'
  <2>1. TypeOK'
    BY <1>5 DEF IInv, TypeOK, Polled, table, options, editing, asking, screen
  <2>2. pc = "poll" /\ pc' = "key"
    BY <1>5 DEF Polled
  <2> QED
    BY <1>5, <2>1, <2>2, StandStillInv
    DEF Polled, table, options, editing, asking
<1> QED
  BY <1>1, <1>2, <1>3, <1>4, <1>5

(* The world may do what it likes: what IInv says is about the program. *)
LEMMA WorldInv == IInv /\ host' = host /\ (World \/ UNCHANGED vars) => IInv'
<1>1. ASSUME IInv, host' = host, NEW now \in {"running", "gone"}, NEW p \in Procs,
             os' = [os EXCEPT ![p] = now],
             UNCHANGED <<pc, table, options, g_stop, screen, signalled>>
      PROVE  IInv'
  <2>1. os' \in [Procs -> {"unborn", "running", "gone"}]
    BY <1>1 DEF IInv, TypeOK
  <2>2. TypeOK'
    BY <1>1, <2>1 DEF IInv, TypeOK, table, options, editing, asking, screen
  <2> QED
    BY <1>1, <2>2
    DEF IInv, SelectionListed, AskedInLoop, ConfirmTarget, CanKill,
        table, options, editing, asking
<1>2. ASSUME IInv, host' = host, NEW p \in Procs, Spawn(p) \/ Exit(p) PROVE IInv'
  BY <1>1, <1>2 DEF Spawn, Exit
<1>3. ASSUME IInv, host' = host, on_stop PROVE IInv'
  <2>1. TypeOK'
    BY <1>3 DEF IInv, TypeOK, on_stop, table, options, editing, asking, screen
  <2> QED
    BY <1>3, <2>1
    DEF IInv, SelectionListed, AskedInLoop, ConfirmTarget, CanKill, on_stop,
        table, options, editing, asking
<1>4. ASSUME IInv, host' = host, Hangup \/ SecondInterrupt PROVE IInv'
  <2>1. pc' \in {"killed", "hungup"}
    BY <1>4 DEF Hangup, SecondInterrupt
  <2>2. TypeOK'
    BY <1>4, <2>1 DEF IInv, TypeOK, Hangup, SecondInterrupt, table, options, editing,
                      asking, screen
  <2> QED
    BY <1>4, <2>1, <2>2, StandStillInv
    DEF Hangup, SecondInterrupt, table, options, editing, asking
<1>5. ASSUME IInv, host' = host, UNCHANGED vars PROVE IInv'
  <2>1. TypeOK'
    BY <1>5 DEF IInv, TypeOK, vars, editing, asking
  <2> QED
    BY <1>5, <2>1
    DEF IInv, SelectionListed, AskedInLoop, ConfirmTarget, CanKill, vars
<1> QED
  BY <1>2, <1>3, <1>4, <1>5 DEF World

(* The invariant is inductive. *)
LEMMA NextInv == IInv /\ [Next]_vars => IInv'
<1> SUFFICES ASSUME IInv, [Next]_vars PROVE IInv'
  OBVIOUS
<1>1. CASE Program
  BY <1>1, StartupInv, IterateInv, AnswerInv, EditKeyInv, CommandInv, AskKillInv,
     MoveInv, PassInv
  DEF Program, KeyStep
<1>2. CASE World
  BY <1>2, WorldInv DEF World
<1>3. CASE UNCHANGED vars
  <2>1. host' = host
    BY <1>3 DEF vars
  <2> QED
    BY <1>3, <2>1, WorldInv
<1> QED
  BY <1>1, <1>2, <1>3 DEF Next, Terminated

LEMMA SpecInv == Spec => []IInv
BY InitInv, NextInv, PTL DEF Spec

-----------------------------------------------------------------------------
(* The theorems. *)

(* Whatever is typed, signalled and sampled, every variable keeps its type:*)
(* the filter stays within its buffer (filter_add), the scroll offset is an*)
(* index (clamp_view), and the selection is a pid or none.                 *)
THEOREM TypeCorrect == Spec => []TypeOK
<1>1. IInv => TypeOK
  BY DEF IInv
<1> QED
  BY <1>1, SpecInv, PTL

(* While a question is open its row is listed, may be killed, and cannot   *)
(* be filtered away (the k and K branches of the loop, and clamp_view).    *)
THEOREM ConfirmTargetHolds == Spec => []ConfirmTarget
<1>1. IInv => ConfirmTarget
  BY DEF IInv
<1> QED
  BY <1>1, SpecInv, PTL
=============================================================================
