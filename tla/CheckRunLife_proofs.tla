------------------------ MODULE CheckRunLife_proofs --------------------------
(* That CheckRunSync implements CheckRunLife, for every value of its       *)
(* constants, and that a reset moves a workflow to a fresh check run.      *)
EXTENDS CheckRunSync_proofs

\* The version a reset stores.
Reset(v) == [v EXCEPT !.published = FALSE, !.cr = wk.fresh, !.dep = NoIds]

\* What is stored is made from the latest version, which is live; it has the
\* same check run, unless a reset stored it.
LEMMA WriteShape ==
    ASSUME Inv, [Next]_vars
    PROVE  \/ log' = log
           \/ Latest.live /\ \E v : log' = Append(log, v) /\ v.cr = Latest.cr
           \/ /\ ResetPut /\ wf = Latest /\ Latest.live
              /\ log' = Append(log, Reset(Latest))
<1> DEFINE P == \/ log' = log
                \/ Latest.live /\ \E v : log' = Append(log, v) /\ v.cr = Latest.cr
                \/ /\ ResetPut /\ wf = Latest /\ Latest.live
                   /\ log' = Append(log, Reset(Latest))
<1>1. ASSUME NEW v, Store(v) \/ log' = Append(log, v), v.cr = Latest.cr, Latest.live PROVE P
  BY <1>1 DEF Store
<1>2. CASE ArgoPhase
  <2>1. PICK p : Store([Latest EXCEPT !.phase = p]) /\ Latest.live
    BY <1>2 DEF ArgoPhase
  <2>2. [Latest EXCEPT !.phase = p].cr = Latest.cr
    BY LatestFacts DEF Versions
  <2> QED
    BY <1>1, <2>1, <2>2
<1>3. CASE NodeStarts \/ NodeEnds
  <2>1. PICK n \in DeployNodes : \E p : Store([Latest EXCEPT !.node[n] = p]) /\ Latest.live
    BY <1>3 DEF NodeStarts, NodeEnds
  <2>2. PICK p : Store([Latest EXCEPT !.node[n] = p]) /\ Latest.live
    BY <2>1
  <2>3. [Latest EXCEPT !.node[n] = p].cr = Latest.cr
    BY LatestFacts DEF Versions
  <2> QED
    BY <1>1, <2>2, <2>3
<1>4. CASE Touch
  BY <1>1, <1>4 DEF Touch
<1>5. CASE Retry
  <2>1. PICK f : Store([Latest EXCEPT !.phase = "Running", !.ads = FALSE, !.node = f])
    BY <1>5 DEF Retry
  <2>2. [Latest EXCEPT !.phase = "Running", !.ads = FALSE, !.node = f].cr = Latest.cr
    BY LatestFacts DEF Versions
  <2> QED
    BY <1>1, <1>5, <2>1, <2>2 DEF Retry
<1>6. CASE Delete
  <2>1. [Latest EXCEPT !.live = FALSE].cr = Latest.cr
    BY LatestFacts DEF Versions
  <2> QED
    BY <1>1, <1>6, <2>1 DEF Delete
<1>7. CASE Cancel
  <2>1. [Latest EXCEPT !.ads = TRUE].cr = Latest.cr
    BY LatestFacts DEF Versions
  <2> QED
    BY <1>1, <1>7, <2>1 DEF Cancel, Current, Cached, Latest
<1>8. CASE ResetPut
  <2>1. CASE Current(wk.rv) /\ Store(Reset(wf))
    <3>1. wf = Latest /\ Latest.live
      BY <2>1 DEF Current, wf, Latest
    <3> QED
      BY <1>8, <2>1, <3>1 DEF Store
  <2> QED
    BY <1>8, <2>1 DEF ResetPut, Reset
<1>9. CASE RecordPut
  <2>1. [Latest EXCEPT !.dep = wk.ids].cr = Latest.cr
    BY LatestFacts DEF Versions
  <2> QED
    BY <1>1, <1>9, <2>1 DEF RecordPut, Current
<1>10. CASE PublishPut
  <2>1. [Latest EXCEPT !.published = TRUE].cr = Latest.cr
    BY LatestFacts DEF Versions
  <2> QED
    BY <1>1, <1>10, <2>1 DEF PublishPut, Current
<1>11. CASE /\ ~(ArgoPhase \/ NodeStarts \/ NodeEnds \/ Touch \/ Retry \/ Delete \/ Cancel)
            /\ ~(ResetPut \/ RecordPut \/ PublishPut)
  BY <1>11 DEF Next, vars, storeVars, WorkerStep, TakeGone, TakeSettled, TakeReset, TakeSync,
         ResetCreate, ReadInfo, Deploy, DeployKnown, DeployCreate, RecordGet,
         DeployStatus, Unreported, Status, CollectLogs, Offer, AddActions,
         PostBatch, PublishGet, QueueStep, WatchEvent, enqueue, Ready,
         Relist, Environment, doDelete, Crash
<1> QED
  BY <1>2, <1>3, <1>4, <1>5, <1>6, <1>7, <1>8, <1>9, <1>10, <1>11

-----------------------------------------------------------------------------
(* The copy and the check run of a reset.                                  *)

Resetting == {"resetCreate", "resetPut"}
RunsAgain(v) == v.published /\ v.phase \in {"Pending", "Running"}

\* A reset works on a published copy that runs again, and the check run it
\* has created is new: nothing points at it and nobody has reported on it.
ResetOK ==
    /\ wk.pc \in Resetting => RunsAgain(wf)
    /\ wk.pc = "resetPut" =>
          /\ crs[wk.fresh] = NewCheckRun
          /\ \A k \in 1 .. Len(log) : log[k].cr # wk.fresh

\* Only process and resetCheckRun bring the worker there.
LEMMA ResetBegins ==
    ASSUME Inv, [Next]_vars, wk'.pc \in Resetting
    PROVE  \/ TakeReset
           \/ ResetCreate
           \/ UNCHANGED wk
<1>1. ASSUME Inv, wk.pc # "idle" PROVE Idle(wk.rv).pc \notin Resetting /\ wk \in Workers
  BY <1>1, Busy DEF Resetting
<1>2. CASE TakeGone \/ TakeSettled \/ TakeSync
  BY <1>2 DEF TakeGone, TakeSettled, TakeSync, Idle, Resetting
<1>3. CASE ResetPut \/ ReadInfo
  BY <1>1, <1>3 DEF ResetPut, ReadInfo, At, Done, Idle, Resetting, Workers
<1>4. CASE Deploy \/ RecordGet
  BY <1>1, <1>4 DEF Deploy, DeployKnown, DeployCreate, RecordGet, At, NextNode, Resetting, Workers
<1>5. CASE RecordPut \/ DeployStatus
  BY <1>1, <1>5 DEF RecordPut, DeployStatus, At, Goto, Done, NextNode, Resetting, Workers
<1>6. CASE Unreported \/ Status \/ CollectLogs
  BY <1>1, <1>6 DEF Unreported, Status, CollectLogs, At, Goto, Done, Resetting, Workers
<1>7. CASE Offer \/ AddActions \/ PostBatch
  BY <1>1, <1>7 DEF Offer, AddActions, PostBatch, At, Goto, Resetting, Workers
<1>8. CASE PublishGet \/ PublishPut
  BY <1>1, <1>8 DEF PublishGet, PublishPut, At, Done, Resetting, Workers
<1>9. CASE Crash
  BY <1>9 DEF Crash, Idle, Resetting
<1>10. CASE ~WorkerStep /\ ~Crash
  BY <1>10 DEF Next, vars, doDelete, Cancel
<1> QED
  BY <1>2, <1>3, <1>4, <1>5, <1>6, <1>7, <1>8, <1>9, <1>10 DEF WorkerStep

\* The check run of a deletion is one that a version points at, and only that
\* one changes.
LEMMA DeletionSpares ==
    ASSUME Inv, doDelete
    PROVE  \/ crs' = crs
           \/ \E k \in 1 .. Len(log) :
                 /\ ~log[k].live /\ ~Finished(log[k])
                 /\ log[k].cr \in 1 .. Len(crs)
                 /\ StatusUpdate(log[k].cr, "completed", "cancelled", 0)
<1> DEFINE e == Head(events)
           S == 0 .. Len(log)
<1>1. events \in Seq(S) /\ events # <<>>
  BY DEF doDelete, Inv, TypeOK, TypeOKStore
<1> HIDE DEF S
<1>2. e \in S
  BY <1>1, HeadTailProperties
<1>3. CASE crs' # crs
  <2>1. /\ e # Lost /\ ~log[e].live /\ ~Finished(log[e])
        /\ StatusUpdate(log[e].cr, "completed", "cancelled", 0)
    BY <1>3 DEF doDelete, StatusLost
  <2>2. e \in 1 .. Len(log)
    BY <1>2, <2>1 DEF S, Lost
  <2>3. log[e].cr \in 1 .. Len(crs)
    BY <2>2 DEF Inv, CheckRunIds
  <2> QED
    BY <2>1, <2>2, <2>3
<1> QED
  BY <1>3

\* While a check run waits to be written to the object, it stays untouched.
LEMMA FreshStays ==
    ASSUME Inv, ResetOK, [Next]_vars, wk.pc = "resetPut", UNCHANGED wk
    PROVE  crs'[wk.fresh] = NewCheckRun
<1>1. wk.fresh \in 1 .. Len(crs) /\ crs \in Seq(CheckRuns)
  BY DEF Inv, CheckRunIds, TypeOK
<1>2. CASE doDelete
  <2>1. ASSUME NEW k \in 1 .. Len(log), log[k].cr \in 1 .. Len(crs),
               StatusUpdate(log[k].cr, "completed", "cancelled", 0)
        PROVE  crs'[wk.fresh] = crs[wk.fresh]
    <3>1. log[k].cr # wk.fresh
      BY DEF ResetOK
    <3> QED
      BY <1>1, <2>1, <3>1, StatusUpdateType DEF Statuses, Conclusions
  <2> QED
    BY <1>2, <2>1, DeletionSpares DEF ResetOK
<1>3. CASE ~doDelete
  <2>1. crs' = crs
    BY <1>3 DEF Next, vars, githubVars, WorkerStep, TakeGone, TakeSettled, TakeReset, TakeSync,
         Take, ResetCreate, ResetPut, ReadInfo, Deploy, DeployKnown, DeployCreate, RecordGet,
         RecordPut, DeployStatus, Unreported, Status, CollectLogs, Offer, AddActions,
         PostBatch, PublishGet, PublishPut, At, Cancel, Crash
  <2> QED
    BY <2>1 DEF ResetOK
<1> QED
  BY <1>2, <1>3

\* Every step keeps ResetOK.
LEMMA ResetKept == Inv /\ ResetOK /\ [Next]_vars => ResetOK'
<1> SUFFICES ASSUME Inv, ResetOK, [Next]_vars, wk'.pc \in Resetting PROVE ResetOK'
  BY DEF ResetOK, Resetting
<1>0. /\ crs \in Seq(CheckRuns) /\ Len(crs) \in Nat /\ log \in Seq(Versions) /\ Len(log) \in Nat
      /\ \A k \in 1 .. Len(log) : log[k].cr \in 1 .. Len(crs)
  BY LenProperties DEF Inv, TypeOK, TypeOKStore, CheckRunIds
<1>1. CASE TakeReset
  <2>1. wk' = [Idle(seen) EXCEPT !.pc = "resetCreate"] /\ log' = log /\ RunsAgain(Cached)
    BY <1>1 DEF TakeReset, RunsAgain
  <2>2. wk'.pc = "resetCreate" /\ wk'.rv = seen
    BY <2>1 DEF Idle
  <2> QED
    BY <2>1, <2>2 DEF ResetOK, wf, Cached, RunsAgain
<1>2. CASE ResetCreate
  <2>1. wk.pc = "resetCreate" /\ wk \in Workers /\ Idle(wk.rv).pc = "idle" /\ log' = log
    BY <1>2, Busy DEF ResetCreate, At
  <2>2. /\ crs' = Append(crs, NewCheckRun)
        /\ wk' = [wk EXCEPT !.pc = "resetPut", !.fresh = Len(crs')]
    BY <1>2, <2>1 DEF ResetCreate, Done, Resetting
  <2>3. wk'.pc = "resetPut" /\ wk'.fresh = Len(crs') /\ wk'.rv = wk.rv
    BY <2>1, <2>2 DEF Workers
  <2>4. Len(crs') = Len(crs) + 1 /\ crs'[Len(crs) + 1] = NewCheckRun
    BY <1>0, <2>2
  <2> QED
    BY <1>0, <2>1, <2>3, <2>4 DEF ResetOK, Resetting, wf, RunsAgain
<1>3. CASE UNCHANGED wk
  <2>1. RunsAgain(wf)'
    <3>1. wk.rv \in 1 .. Len(log)
      BY <1>3, Busy DEF Resetting
    <3>2. log'[wk.rv] = log[wk.rv]
      BY <3>1, HistoryGrows
    <3> QED
      BY <1>3, <3>2 DEF ResetOK, RunsAgain, wf
  <2>2. CASE wk.pc = "resetPut"
    <3>1. crs'[wk'.fresh] = NewCheckRun
      BY <1>3, <2>2, FreshStays
    <3>2. \A k \in 1 .. Len(log') : log'[k].cr # wk.fresh
      <4>1. \/ log' = log
            \/ \E v : log' = Append(log, v) /\ v.cr = Latest.cr
        <5>1. ~ResetPut
          BY <1>3, <2>2, Busy DEF ResetPut, Done, Idle, Workers
        <5> QED
          BY <5>1, WriteShape
      <4>2. ASSUME NEW v, log' = Append(log, v), v.cr = Latest.cr
            PROVE  \A k \in 1 .. Len(log') : log'[k].cr # wk.fresh
        <5>1. /\ Len(log') = Len(log) + 1 /\ log'[Len(log) + 1] = v
              /\ \A k \in 1 .. Len(log) : log'[k] = log[k]
          BY <1>0, <4>2
        <5>2. Latest.cr # wk.fresh
          BY <2>2, LatestFacts DEF ResetOK, Latest
        <5> QED
          BY <1>0, <2>2, <4>2, <5>1, <5>2 DEF ResetOK
      <4> QED
        BY <2>2, <4>1, <4>2 DEF ResetOK
    <3> QED
      BY <1>3, <2>1, <3>1, <3>2 DEF ResetOK
  <2> QED
    BY <1>3, <2>1, <2>2 DEF ResetOK
<1> QED
  BY <1>1, <1>2, <1>3, ResetBegins

\* At the start nothing is being reset.
LEMMA ResetInitially == Init => ResetOK
BY DEF Init, Idle, ResetOK, Resetting

\* The version a step stores is the latest one afterwards.
LEMMA AppendLatest ==
    ASSUME log \in Seq(Versions), NEW v, log' = Append(log, v)
    PROVE  /\ Latest' = v /\ Len(log') = Len(log) + 1 /\ log'[Len(log) + 1] = v
           /\ \A k \in 1 .. Len(log) : log'[k] = log[k]
BY DEF Latest

\* A workflow moves to another check run only when it runs again after being
\* published; that check run is new and the flag is taken back in the same
\* write (resetCheckRun).
THEOREM FreshReset == Spec => ResetIsFresh
<1> DEFINE A == Latest'.cr # Latest.cr =>
                  /\ Latest.published /\ Latest.phase \in {"Pending", "Running"}
                  /\ ~Latest'.published
                  /\ \A k \in DOMAIN log : log[k].cr # Latest'.cr
                  /\ crs[Latest'.cr] = NewCheckRun
<1>1. Inv /\ ResetOK /\ [Next]_vars => [A]_log
  <2> SUFFICES ASSUME Inv, ResetOK, [Next]_vars, log' # log PROVE A
    OBVIOUS
  <2>1. CASE \E v : log' = Append(log, v) /\ v.cr = Latest.cr
    BY <2>1, LatestFacts, AppendLatest
  <2>2. CASE ResetPut /\ wf = Latest /\ log' = Append(log, Reset(Latest))
    <3>1. Latest' = Reset(Latest)
      BY <2>2, LatestFacts, AppendLatest
    <3>2. Latest'.cr = wk.fresh /\ ~Latest'.published
      BY <3>1, LatestFacts DEF Reset, Versions
    <3>3. wk.pc = "resetPut"
      BY <2>2 DEF ResetPut, At
    <3>4. DOMAIN log = 1 .. Len(log)
      BY LatestFacts
    <3> QED
      BY <2>2, <3>2, <3>3, <3>4 DEF ResetOK, Resetting, RunsAgain
  <2> QED
    BY <2>1, <2>2, WriteShape
<1>2. [](Inv /\ ResetOK) /\ [][Next]_vars => [][A]_log
  BY <1>1, PTL
<1>3. Spec => [](Inv /\ ResetOK)
  BY Initially, Stepwise, ResetInitially, ResetKept, PTL DEF Spec
<1> QED
  BY <1>2, <1>3, PTL DEF Spec, ResetIsFresh

-----------------------------------------------------------------------------
(* The refinement.                                                         *)

\* What FactsOf says, without the union.
LEMMA FactsAre ==
    ASSUME NEW h \in Seq(Versions)
    PROVE  \A f : f \in FactsOf(h) <=>
              \E k \in 1 .. Len(h) : \E x \in ViewsOf(h[k]) : f = <<h[k].cr, x>>
<1>1. DOMAIN h = 1 .. Len(h)
  OBVIOUS
<1> QED
  BY <1>1 DEF FactsOf

\* The views of a version are views of the abstract specification.
LEMMA ViewsType == ASSUME NEW v \in Versions PROVE ViewsOf(v) \subseteq Life!Views
<1>1. completionStatus(v).status # "none" => completionStatus(v) \in Life!Views
  BY DEF completionStatus, Versions, Phases, Life!Views, Life!Queued, Life!View
<1>2. [status |-> "completed", conclusion |-> "cancelled"] \in Life!Views
  BY DEF Life!Views, Life!View
<1> SUFFICES ASSUME NEW x \in ViewsOf(v) PROVE x \in Life!Views
  OBVIOUS
<1>3. \/ x = completionStatus(v) /\ x.status # "none"
      \/ x = [status |-> "completed", conclusion |-> "cancelled"]
  BY Zenon DEF ViewsOf
<1> QED
  BY <1>1, <1>2, <1>3, Zenon

\* A stored version adds its views to the facts, those of its check run.
LEMMA FactsGrow ==
    ASSUME NEW h \in Seq(Versions), NEW v \in Versions
    PROVE  FactsOf(Append(h, v)) = FactsOf(h) \cup ({v.cr} \X ViewsOf(v))
<1> DEFINE g == Append(h, v)
<1>1. g \in Seq(Versions) /\ Len(h) \in Nat /\ Len(g) = Len(h) + 1
  OBVIOUS
<1>2. g[Len(h) + 1] = v /\ \A k \in 1 .. Len(h) : g[k] = h[k]
  OBVIOUS
<1>3. \A k : k \in 1 .. Len(g) <=> k \in 1 .. Len(h) \/ k = Len(h) + 1
  BY <1>1
<1> HIDE DEF g
<1>4. \A f : f \in FactsOf(g) <=>
              \E k \in 1 .. Len(g) : \E x \in ViewsOf(g[k]) : f = <<g[k].cr, x>>
  BY <1>1, FactsAre
<1>5. \A f : f \in FactsOf(g) <=>
         \/ \E k \in 1 .. Len(h) : \E x \in ViewsOf(h[k]) : f = <<h[k].cr, x>>
         \/ \E x \in ViewsOf(v) : f = <<v.cr, x>>
  BY <1>2, <1>3, <1>4
<1>6. \A f : f \in FactsOf(h) <=>
              \E k \in 1 .. Len(h) : \E x \in ViewsOf(h[k]) : f = <<h[k].cr, x>>
  BY FactsAre
<1>7. \A f : f \in {v.cr} \X ViewsOf(v) <=> \E x \in ViewsOf(v) : f = <<v.cr, x>>
  OBVIOUS
<1>8. FactsOf(g) = FactsOf(h) \cup ({v.cr} \X ViewsOf(v))
  BY <1>5, <1>6, <1>7
<1> QED
  BY <1>8 DEF g

\* A report of the worker's copy shows a view that copy deserves.
LEMMA ReportShows ==
    ASSUME Inv, wk.pc # "idle", completionStatus(wf).status # "none",
           NEW n \in Nat, Report(n), UNCHANGED log
    PROVE  [Life!LifeNext]_(Life!lifeVars)
<1>1. /\ wf \in Versions /\ wf.cr \in 1 .. Len(crs) /\ wk.rv \in 1 .. Len(log)
      /\ log \in Seq(Versions) /\ crs \in Seq(CheckRuns)
  BY Busy DEF Inv, TypeOK
<1>2. UNCHANGED <<Latest.cr, FactsOf(log)>>
  BY DEF Latest, FactsOf, ViewsOf, completionStatus, Finished
<1>3. CASE crs' = crs
  <2>1. Shown' = Shown
    BY <1>3 DEF Shown
  <2> QED
    BY <1>2, <2>1 DEF Life!lifeVars
<1>4. CASE StatusUpdate(wf.cr, completionStatus(wf).status, completionStatus(wf).conclusion, n)
  <2> DEFINE x == completionStatus(wf)
  <2>1. <<wf.cr, x>> \in FactsOf(log)
    <3>1. x \in ViewsOf(log[wk.rv])
      BY DEF ViewsOf, wf
    <3> QED
      BY <1>1, <3>1, FactsAre DEF wf
  <2>2. x = [status |-> x.status, conclusion |-> x.conclusion]
    BY <1>1 DEF completionStatus, Versions, Phases
  <2>3. Shown' = [Shown EXCEPT ![wf.cr] = x]
    <3>1. DOMAIN crs = 1 .. Len(crs)
      BY <1>1
    <3>2. crs' = [crs EXCEPT ![wf.cr] = [status |-> x.status, conclusion |-> x.conclusion,
                                          anns |-> @.anns + n]]
      BY <1>4 DEF StatusUpdate
    <3> HIDE DEF x
    <3> QED
      BY <1>1, <2>2, <3>1, <3>2 DEF Shown
  <2> HIDE DEF x
  <2>4. Life!Show
    BY <1>2, <2>1, <2>3 DEF Life!Show
  <2> QED
    BY <2>4 DEF Life!LifeNext
<1> QED
  BY <1>3, <1>4 DEF Report, StatusLost

\* A step that touches neither the object nor a check run is a stutter.
LEMMA LifeStutter ==
    ASSUME UNCHANGED log, UNCHANGED crs
    PROVE  UNCHANGED Life!lifeVars
BY DEF Life!lifeVars, Latest, FactsOf, ViewsOf, completionStatus, Finished, Shown

\* The delete handler shows what the deletion made true.
LEMMA DeletionShows ==
    ASSUME Inv, doDelete
    PROVE  [Life!LifeNext]_(Life!lifeVars)
<1>1. log' = log
  BY DEF doDelete
<1>2. CASE crs' = crs
  BY <1>1, <1>2, LifeStutter
<1>3. ASSUME NEW k \in 1 .. Len(log), ~log[k].live, ~Finished(log[k]),
             log[k].cr \in 1 .. Len(crs),
             StatusUpdate(log[k].cr, "completed", "cancelled", 0)
      PROVE  Life!Show
  <2> DEFINE x == [status |-> "completed", conclusion |-> "cancelled"]
             c == log[k].cr
  <2>1. x \in ViewsOf(log[k])
    BY <1>3 DEF ViewsOf
  <2>2. <<c, x>> \in FactsOf(log)
    BY <2>1, FactsAre DEF Inv, TypeOK, TypeOKStore
  <2>3. Shown' = [Shown EXCEPT ![c] = x]
    BY <1>3 DEF StatusUpdate, Shown, Inv, TypeOK
  <2>4. UNCHANGED <<Latest.cr, FactsOf(log)>>
    BY <1>1 DEF Latest, FactsOf, ViewsOf, completionStatus, Finished
  <2> HIDE DEF x, c
  <2> QED
    BY <2>2, <2>3, <2>4 DEF Life!Show
<1> QED
  BY <1>2, <1>3, DeletionSpares DEF Life!LifeNext

\* A new check run is one more that shows as queued.
LEMMA ResetOpens ==
    ASSUME Inv, ResetCreate
    PROVE  [Life!LifeNext]_(Life!lifeVars)
<1>1. log' = log /\ crs \in Seq(CheckRuns)
  BY DEF ResetCreate, Inv, TypeOK
<1>2. CASE crs' = crs
  BY <1>1, <1>2, LifeStutter
<1>3. CASE crs' = Append(crs, NewCheckRun)
  <2>1. Shown' = Append(Shown, Life!Queued)
    <3>1. /\ DOMAIN crs = 1 .. Len(crs) /\ Len(crs) \in Nat
          /\ Len(crs') = Len(crs) + 1 /\ DOMAIN crs' = 1 .. Len(crs) + 1
          /\ crs'[Len(crs) + 1] = NewCheckRun
          /\ \A c \in 1 .. Len(crs) : crs'[c] = crs[c]
      BY <1>1, <1>3
    <3>2. Shown \in Seq([status: Statuses, conclusion: Conclusions]) /\ Len(Shown) = Len(crs)
      <4> DEFINE S == [status: Statuses, conclusion: Conclusions]
                 n == Len(crs)
      <4>1. \A c \in 1 .. n : crs[c] \in CheckRuns
        BY <1>1, <3>1
      <4>2. \A c \in 1 .. n : [status |-> crs[c].status, conclusion |-> crs[c].conclusion] \in S
        BY <4>1 DEF CheckRuns
      <4> HIDE DEF S
      <4>3. Shown \in [1 .. n -> S] /\ n \in Nat
        BY <3>1, <4>2 DEF Shown
      <4> HIDE DEF n
      <4>4. Shown \in Seq(S)
        BY <4>3, SeqDef
      <4>5. Len(Shown) = n
        BY <4>3, <4>4, LenProperties
      <4> QED
        BY <4>4, <4>5 DEF S, n
    <3>3. Life!Queued = [status |-> NewCheckRun.status, conclusion |-> NewCheckRun.conclusion]
      BY DEF Life!Queued, Life!View, NewCheckRun
    <3> DEFINE A == Append(Shown, Life!Queued)
               V(r) == [status |-> r.status, conclusion |-> r.conclusion]
    <3>4. /\ A = [c \in 1 .. Len(crs) + 1 |-> A[c]]
          /\ A[Len(crs) + 1] = Life!Queued
          /\ \A c \in 1 .. Len(crs) : A[c] = Shown[c]
      <4> DEFINE S == [status: Statuses, conclusion: Conclusions]
      <4>1. Life!Queued \in S /\ Shown \in Seq(S)
        BY <3>2 DEF Life!Queued, Life!View, Statuses, Conclusions
      <4> HIDE DEF S
      <4>2. /\ A \in Seq(S) /\ Len(A) = Len(crs) + 1 /\ A[Len(crs) + 1] = Life!Queued
            /\ \A c \in 1 .. Len(crs) : A[c] = Shown[c]
        BY <3>2, <4>1, AppendProperties
      <4>3. A \in [1 .. Len(crs) + 1 -> S]
        BY <4>2, LenProperties
      <4> QED
        BY <4>2, <4>3
    <3> HIDE DEF A
    <3>5. \A c \in 1 .. Len(crs) : Shown[c] = V(crs'[c])
      BY <3>1 DEF Shown
    <3>6. \A c \in 1 .. Len(crs) + 1 : A[c] = V(crs'[c])
      <4> SUFFICES ASSUME NEW c \in 1 .. Len(crs) + 1 PROVE A[c] = V(crs'[c])
        OBVIOUS
      <4>1. CASE c = Len(crs) + 1
        <5>1. A[c] = Life!Queued /\ crs'[c] = NewCheckRun
          BY <3>1, <3>4, <4>1
        <5> QED
          BY <3>3, <5>1
      <4>2. CASE c \in 1 .. Len(crs)
        BY <3>4, <3>5, <4>2
      <4> QED
        BY <3>1, <4>1, <4>2
    <3>7. Shown' = [c \in 1 .. Len(crs) + 1 |-> V(crs'[c])]
      BY <3>1 DEF Shown
    <3> HIDE DEF V
    <3>8. Shown' = A
      BY <3>4, <3>6, <3>7
    <3> QED
      BY <3>8 DEF A
  <2>2. UNCHANGED <<Latest.cr, FactsOf(log)>>
    BY <1>1 DEF Latest, FactsOf, ViewsOf, completionStatus, Finished
  <2> QED
    BY <2>1, <2>2 DEF Life!LifeNext, Life!Open
<1> QED
  BY <1>2, <1>3 DEF ResetCreate

\* Whoever writes to the object leaves the check runs alone.
LEMMA WriterSparesGitHub ==
    ASSUME [Next]_vars, log' # log
    PROVE  crs' = crs
<1>1. CASE WorkerStep
  BY <1>1 DEF WorkerStep, TakeGone, TakeSettled, TakeReset, TakeSync,
         ResetCreate, ResetPut, ReadInfo, Deploy, DeployKnown, DeployCreate, RecordGet,
         RecordPut, DeployStatus, Unreported, Status, CollectLogs, Offer, AddActions,
         PostBatch, PublishGet, PublishPut, githubVars, storeVars
<1>2. CASE ~WorkerStep
  BY <1>2 DEF Next, vars, storeVars, githubVars, doDelete, Cancel, Crash
<1> QED
  BY <1>1, <1>2

\* A stored version is something that happens to the workflow, or moves it.
LEMMA WriteHappens ==
    ASSUME Inv, ResetOK, [Next]_vars, log' # log
    PROVE  Life!LifeNext
<1>0. log \in Seq(Versions) /\ log' \in Seq(Versions)
  BY Stepwise DEF Inv, TypeOK, TypeOKStore
<1>1. Shown' = Shown
  BY WriterSparesGitHub DEF Shown
<1>2. ASSUME NEW v, log' = Append(log, v)
      PROVE  /\ Latest' = v /\ ViewsOf(v) \in SUBSET Life!Views
             /\ FactsOf(log)' = FactsOf(log) \cup ({v.cr} \X ViewsOf(v))
  <2>1. Latest' = v /\ Len(log') = Len(log) + 1 /\ log'[Len(log) + 1] = v
    BY <1>0, <1>2, AppendLatest
  <2>2. v \in Versions
    BY <1>0, <2>1
  <2>3. FactsOf(log') = FactsOf(log) \cup ({v.cr} \X ViewsOf(v))
    BY <1>0, <1>2, <2>2, FactsGrow
  <2>4. FactsOf(log)' = FactsOf(log')
    BY DEF FactsOf, ViewsOf, completionStatus, Finished
  <2> QED
    BY <2>1, <2>2, <2>3, <2>4, ViewsType
<1>3. ASSUME NEW v, log' = Append(log, v), v.cr = Latest.cr PROVE Life!Happen
  <2>1. Latest' = v /\ ViewsOf(v) \in SUBSET Life!Views
    BY <1>2, <1>3
  <2>2. FactsOf(log)' = FactsOf(log) \cup ({Latest.cr} \X ViewsOf(v))
    BY <1>2, <1>3
  <2> QED
    BY <1>1, <1>3, <2>1, <2>2 DEF Life!Happen
<1>4. ASSUME ResetPut, wf = Latest, log' = Append(log, Reset(Latest)) PROVE Life!Move
  <2> DEFINE v == Reset(Latest)
  <2>1. Latest' = v /\ ViewsOf(v) \in SUBSET Life!Views
    BY <1>2, <1>4
  <2>2. v.cr = wk.fresh
    BY LatestFacts DEF Reset, Versions
  <2>3. wk.pc = "resetPut" /\ wk.fresh \in 1 .. Len(crs) /\ crs \in Seq(CheckRuns)
    BY <1>4 DEF ResetPut, At, Inv, CheckRunIds, TypeOK
  <2>4. wk.fresh \in DOMAIN Shown /\ Shown[wk.fresh] = Life!Queued
    BY <2>3 DEF Shown, ResetOK, NewCheckRun, Life!Queued, Life!View
  <2>5. \A f \in FactsOf(log) : f[1] # wk.fresh
    BY <1>0, <2>3, FactsAre DEF ResetOK
  <2>6. FactsOf(log)' = FactsOf(log) \cup ({Latest.cr'} \X ViewsOf(v))
    BY <1>2, <1>4, <2>1
  <2> HIDE DEF v
  <2> QED
    BY <1>1, <2>1, <2>2, <2>4, <2>5, <2>6 DEF Life!Move
<1> QED
  BY <1>3, <1>4, WriteShape DEF Life!LifeNext

\* Every step of the syncer and its environment is a step of CheckRunLife, or
\* leaves what it speaks of unchanged.
LEMMA LifeStep == Inv /\ ResetOK /\ [Next]_vars => [Life!LifeNext]_(Life!lifeVars)
<1> SUFFICES ASSUME Inv, ResetOK, [Next]_vars PROVE [Life!LifeNext]_(Life!lifeVars)
  OBVIOUS
<1>1. CASE log' # log
  BY <1>1, WriteHappens
<1>2. CASE doDelete
  BY <1>2, DeletionShows
<1>3. CASE ResetCreate
  BY <1>3, ResetOpens
<1>4. CASE Status
  BY <1>4, ReportShows DEF Status, At
<1>5. CASE AddActions
  BY <1>5, ReportShows, CompletesReported DEF AddActions, At, Inv, CopyOK, Completing
<1>6. CASE PostBatch
  <2>1. wk.pc = "annotate" /\ wk.at < wk.anns /\ Report(Batch(wk.at)) /\ Completes(wf)
    BY <1>6 DEF PostBatch, At, Inv, CopyOK, Completing
  <2>2. wk.at \in Nat /\ wk.anns \in Nat /\ BatchSize \in Nat
    BY <2>1, Busy, ConstantsAssumption DEF Workers
  <2>3. Batch(wk.at) \in Nat
    BY <2>1, <2>2 DEF Batch
  <2> QED
    BY <1>6, <2>1, <2>3, ReportShows, CompletesReported DEF PostBatch
<1>7. CASE /\ log' = log
           /\ ~(doDelete \/ ResetCreate \/ Status \/ AddActions \/ PostBatch)
  <2>1. crs' = crs
    <3>1. CASE WorkerStep
      BY <1>7, <3>1 DEF WorkerStep, TakeGone, TakeSettled, TakeReset, TakeSync, ResetPut,
         ReadInfo, Deploy, DeployKnown, DeployCreate, RecordGet, RecordPut, DeployStatus,
         Unreported, CollectLogs, Offer, PublishGet, PublishPut, githubVars
    <3>2. CASE ~WorkerStep
      BY <1>7, <3>2 DEF Next, vars, githubVars, Cancel, Crash
    <3> QED
      BY <3>1, <3>2
  <2> QED
    BY <1>7, <2>1, LifeStutter
<1> QED
  BY <1>1, <1>2, <1>3, <1>4, <1>5, <1>6, <1>7

\* A workflow starts with a check run nothing has been said about.
LEMMA LifeInitially == Init => Life!LifeInit
<1> SUFFICES ASSUME Init PROVE Life!LifeInit
  OBVIOUS
<1>1. PICK v \in {Fresh, Resubmitted} : log = <<v>>
  BY DEF Init, InitStore
<1>2. v.cr = 1 /\ v.phase = "none" /\ v.live
  BY DEF Fresh, Resubmitted
<1>3. Latest.cr = 1
  BY <1>1, <1>2 DEF Latest
<1>4. FactsOf(log) = {}
  <2>1. ViewsOf(v) = {}
    BY <1>2 DEF ViewsOf, completionStatus
  <2> QED
    BY <1>1, <2>1 DEF FactsOf
<1>5. Shown \in {<<Life!Queued>>, <<Life!View("completed", "failure")>>}
  BY DEF Init, Shown, NewCheckRun, Life!Queued, Life!View
<1> QED
  BY <1>3, <1>4, <1>5 DEF Life!LifeInit

\* The syncer implements CheckRunLife: whatever a stale cache, a crash, failed
\* calls, a retry or a deletion do, GitHub is told only what was true of the
\* workflow on that check run, and a new attempt gets an untouched check run.
THEOREM Refinement == Spec => ImplementsLife
<1>1. Inv /\ ResetOK /\ [Next]_vars => [Life!LifeNext]_(Life!lifeVars)
  BY LifeStep
<1> QED
  BY <1>1, LifeInitially, Initially, Stepwise, ResetInitially, ResetKept, PTL
     DEF Spec, ImplementsLife, Life!LifeSpec
=============================================================================
