----------------------- MODULE CheckRunReports_proofs ------------------------
(* More about CheckRunSync, for every value of its constants: what GitHub  *)
(* keeps showing once it was told, and what publishing and offering manual *)
(* steps may rely on.  Each theorem names the environment events its       *)
(* property excludes; all the others may happen any number of times.       *)
EXTENDS CheckRunSafety_proofs

\* Environment event k never happens.
Absent(k) == \A b \in Budgets : b[k] = 0

Syncing == wk.pc \notin Resetting \cup {"idle"}

\* The version still points at the check run of the run it was copied from.
Old(v) == log[1].published /\ v.cr = log[1].cr

-----------------------------------------------------------------------------
(* What a write carries over from the version before.                      *)

\* The history is one version longer; the writer held the latest one.
Extended ==
    /\ Latest.live
    /\ Len(log') = Len(log) + 1 /\ Latest' = log'[Len(log) + 1]
    /\ \A k \in 1 .. Len(log) : log'[k] = log[k]

SameReport == Latest'.cr = Latest.cr /\ Latest'.published = Latest.published
SameRun == Latest'.phase = Latest.phase /\ Latest'.node = Latest.node

\* Final phases, of the workflow and of its nodes, are kept.
FinalKept ==
    /\ Finished(Latest) => Latest'.phase = Latest.phase
    /\ \A n \in DeployNodes :
          Latest.node[n] \in FinalPhases => Latest'.node[n] = Latest.node[n]

\* The four kinds of write: a retry gives final phases up, publishing sets
\* the flag and a reset takes it back; no other write does.
Retried == Retry /\ SameReport /\ Latest.phase \in {"Failed", "Error"}

Published ==
    PublishPut /\ Current(wk.got) /\ SameRun /\ Latest'.published /\ Latest'.cr = Latest.cr

WasReset ==
    /\ ResetPut /\ Current(wk.rv) /\ wf = Latest /\ SameRun
    /\ ~Latest'.published /\ Latest'.cr = wk.fresh
    /\ wk'.pc \notin Resetting

Carried ==
    /\ Latest'.live \/ Delete
    /\ (SameReport /\ FinalKept) \/ Retried \/ Published \/ WasReset

\* A version that was stored is the latest one.
LEMMA StoredIs ==
    ASSUME Inv, NEW v, Store(v) \/ log' = Append(log, v), Latest.live
    PROVE  log' = log \/ (Extended /\ Latest' = v)
<1>1. log \in Seq(Versions)
  BY LatestFacts
<1>2. CASE log' = Append(log, v)
  BY <1>1, <1>2, AppendLatest DEF Extended
<1> QED
  BY <1>2 DEF Store

\* Every write carries the version before over.
LEMMA Writes ==
    ASSUME Inv, [Next]_vars
    PROVE  log' = log \/ (Extended /\ Carried)
<1>0. Latest \in Versions
  BY LatestFacts
<1> DEFINE P == log' = log \/ (Extended /\ Carried)
<1>1. CASE ArgoPhase
  <2>1. PICK p \in NextPhases(Latest) : Store([Latest EXCEPT !.phase = p])
    BY <1>1 DEF ArgoPhase
  <2>2. PICK v : v = [Latest EXCEPT !.phase = p]
    OBVIOUS
  <2>3. log' = log \/ (Extended /\ Latest' = v)
    BY <1>1, <2>1, <2>2, StoredIs DEF ArgoPhase
  <2>4. /\ v.cr = Latest.cr /\ v.published = Latest.published /\ v.node = Latest.node
        /\ v.live = Latest.live
        /\ ~Finished(Latest)
    BY <1>0, <2>1, <2>2 DEF Versions, NextPhases, Finished, FinalPhases
  <2> QED
    BY <2>3, <2>4 DEF Carried, Extended, SameReport, FinalKept
<1>2. ASSUME NEW n \in DeployNodes, NEW p, Store([Latest EXCEPT !.node[n] = p]), Latest.live,
             Latest.node[n] \notin FinalPhases
      PROVE  P
  <2>2. PICK v : v = [Latest EXCEPT !.node[n] = p]
    OBVIOUS
  <2>3. log' = log \/ (Extended /\ Latest' = v)
    BY <1>2, <2>2, StoredIs
  <2>4. /\ v.cr = Latest.cr /\ v.published = Latest.published /\ v.phase = Latest.phase
        /\ v.live = Latest.live
        /\ \A m \in DeployNodes \ {n} : v.node[m] = Latest.node[m]
    BY <1>0, <2>2 DEF Versions
  <2> QED
    BY <1>2, <2>3, <2>4 DEF Extended, Carried, SameReport, FinalKept
<1>3. CASE NodeStarts \/ NodeEnds
  <2>1. PICK n \in DeployNodes : \E p : /\ Store([Latest EXCEPT !.node[n] = p]) /\ Latest.live
                                        /\ Latest.node[n] \in {"none", "Running"}
    BY <1>3 DEF NodeStarts, NodeEnds
  <2> QED
    BY <1>2, <2>1 DEF FinalPhases
<1>4. CASE Touch
  <2>1. log' = log \/ (Extended /\ Latest' = Latest)
    BY <1>4, StoredIs DEF Touch
  <2> QED
    BY <2>1 DEF Extended, Carried, SameReport, FinalKept
<1>5. CASE Retry
  <2>1. PICK f : Store([Latest EXCEPT !.phase = "Running", !.ads = FALSE, !.node = f])
    BY <1>5 DEF Retry
  <2>2. PICK v : v = [Latest EXCEPT !.phase = "Running", !.ads = FALSE, !.node = f]
    OBVIOUS
  <2>3. log' = log \/ (Extended /\ Latest' = v)
    BY <1>5, <2>1, <2>2, StoredIs DEF Retry
  <2>4. v.cr = Latest.cr /\ v.published = Latest.published /\ v.live = Latest.live
    BY <1>0, <2>2 DEF Versions
  <2>5. Latest.phase \in {"Failed", "Error"}
    BY <1>5 DEF Retry
  <2> QED
    BY <1>5, <2>3, <2>4, <2>5 DEF Extended, Carried, Retried, SameReport
<1>6. ASSUME NEW v, Store(v), Latest.live, v.cr = Latest.cr, v.published = Latest.published,
             v.phase = Latest.phase, v.node = Latest.node, v.live = Latest.live \/ Delete
      PROVE  P
  BY <1>6, StoredIs DEF Extended, Carried, SameReport, FinalKept
<1>7. CASE Delete
  <2>1. PICK v : v = [Latest EXCEPT !.live = FALSE]
    OBVIOUS
  <2>2. /\ v.cr = Latest.cr /\ v.published = Latest.published
        /\ v.phase = Latest.phase /\ v.node = Latest.node
    BY <1>0, <2>1 DEF Versions
  <2> QED
    BY <1>6, <1>7, <2>1, <2>2 DEF Delete
<1>8. CASE Cancel
  <2>1. PICK v : v = [Latest EXCEPT !.ads = TRUE]
    OBVIOUS
  <2>2. /\ v.cr = Latest.cr /\ v.published = Latest.published
        /\ v.phase = Latest.phase /\ v.node = Latest.node /\ v.live = Latest.live
    BY <1>0, <2>1 DEF Versions
  <2> QED
    BY <1>6, <1>8, <2>1, <2>2 DEF Cancel, Current, Cached, Latest
<1>9. CASE RecordPut
  <2>1. PICK v : v = [Latest EXCEPT !.dep = wk.ids]
    OBVIOUS
  <2>2. /\ v.cr = Latest.cr /\ v.published = Latest.published
        /\ v.phase = Latest.phase /\ v.node = Latest.node /\ v.live = Latest.live
    BY <1>0, <2>1 DEF Versions
  <2>3. log' = log \/ (Store(v) /\ Latest.live)
    BY <1>9, <2>1 DEF RecordPut, Current
  <2> QED
    BY <1>6, <2>2, <2>3
<1>10. CASE PublishPut
  <2>1. PICK v : v = [Latest EXCEPT !.published = TRUE]
    OBVIOUS
  <2>2. /\ v.cr = Latest.cr /\ v.published /\ v.phase = Latest.phase /\ v.node = Latest.node
        /\ v.live = Latest.live
    BY <1>0, <2>1 DEF Versions
  <2>3. CASE Current(wk.got) /\ Store(v)
    <3>1. log' = log \/ (Extended /\ Latest' = v)
      BY <2>3, StoredIs DEF Current
    <3> QED
      BY <1>10, <2>2, <2>3, <3>1 DEF Extended, Carried, Published, SameRun
  <2>4. log' = log \/ (Current(wk.got) /\ Store(v))
    BY <1>10, <2>1 DEF PublishPut
  <2> QED
    BY <2>3, <2>4
<1>11. CASE ResetPut
  <2>0. wk'.pc \in {"info", "idle"}
    BY <1>11 DEF ResetPut, Done, Idle
  <2>1. CASE Current(wk.rv) /\ Store(Reset(wf))
    <3>1. wf = Latest /\ Latest.live
      BY <2>1 DEF Current, wf, Latest
    <3>2. PICK v : v = Reset(Latest)
      OBVIOUS
    <3>3. /\ ~v.published /\ v.cr = wk.fresh /\ v.phase = Latest.phase /\ v.node = Latest.node
          /\ v.live = Latest.live
      BY <1>0, <3>2 DEF Versions, Reset
    <3>4. log' = log \/ (Extended /\ Latest' = v)
      BY <2>1, <3>1, <3>2, StoredIs
    <3> QED
      BY <1>11, <2>0, <2>1, <3>1, <3>3, <3>4 DEF Extended, Carried, WasReset, SameRun, Resetting
  <2>2. log' = log \/ (Current(wk.rv) /\ Store(Reset(wf)))
    BY <1>11 DEF ResetPut, Reset
  <2> QED
    BY <2>1, <2>2
<1>12. CASE /\ ~(ArgoPhase \/ NodeStarts \/ NodeEnds \/ Touch \/ Retry \/ Delete \/ Cancel)
            /\ ~(ResetPut \/ RecordPut \/ PublishPut)
  <2>1. log' = log
    BY <1>12 DEF Next, vars, storeVars, WorkerStep, TakeGone, TakeSettled, TakeReset, TakeSync,
         ResetCreate, ReadInfo, Deploy, DeployKnown, DeployCreate, RecordGet,
         DeployStatus, Unreported, Status, CollectLogs, Offer, AddActions,
         PostBatch, PublishGet, QueueStep, WatchEvent, enqueue, Ready,
         Relist, Environment, doDelete, Crash
  <2> QED
    BY <2>1
<1> QED
  BY <1>1, <1>3, <1>4, <1>5, <1>7, <1>8, <1>9, <1>10, <1>11, <1>12

-----------------------------------------------------------------------------
(* Where the worker's copy stands.                                         *)

\* The worker keeps its copy, and whether it resets or syncs.
SameCopy ==
    /\ wk'.rv = wk.rv /\ wk.pc # "idle"
    /\ wk'.pc \in Resetting <=> wk.pc \in Resetting

\* The worker goes on with the version its reset has just stored.
GoesOn ==
    /\ ResetPut /\ Current(wk.rv) /\ Store(Reset(wf))
    /\ wk'.pc = "info" /\ wk'.rv = Len(log')

\* Deployments and their records leave the copy alone and send nothing.
LEMMA DeployMoves ==
    ASSUME Inv, Deploy \/ RecordGet
    PROVE  /\ wk.pc \in {"deploy", "recordGet"} /\ wk'.rv = wk.rv /\ wk'.at = wk.at
           /\ wk'.pc \in {"deploy", "recordGet", "recordPut", "deployStatus"}
<1>1. wk \in Workers
  BY DEF Inv, TypeOK
<1>2. CASE Deploy
  <2>1. PICK n \in DeployNodes : DeployKnown(n) \/ DeployCreate(n)
    BY <1>2 DEF Deploy
  <2>2. CASE DeployKnown(n)
    BY <1>1, <2>2 DEF DeployKnown, At, Workers
  <2>3. CASE DeployCreate(n)
    BY <1>1, <2>3 DEF DeployCreate, At, Workers
  <2> QED
    BY <2>1, <2>2, <2>3
<1>3. CASE RecordGet
  <2>1. /\ wk.pc = "recordGet"
        /\ \/ wk' = [wk EXCEPT !.pc = "recordPut", !.got = Len(log)]
           \/ wk' = [wk EXCEPT !.pc = "deploy", !.cur = {}]
    BY <1>3 DEF RecordGet, NextNode, At
  <2> QED
    BY <1>1, <2>1 DEF Workers
<1> QED
  BY <1>2, <1>3

\* Who has the worker on which copy after a step.
LEMMA WorkerMoves ==
    ASSUME Inv, [Next]_vars
    PROVE  \/ wk'.pc = "idle"
           \/ SameCopy
           \/ TakeReset /\ wk'.pc = "resetCreate" /\ wk'.rv = seen
           \/ TakeSync /\ wk'.pc = "info" /\ wk'.rv = seen
           \/ GoesOn
<1>1. \A v : /\ Idle(v).pc = "idle"
             /\ [Idle(v) EXCEPT !.pc = "info"].pc = "info"
             /\ [Idle(v) EXCEPT !.pc = "info"].rv = v
             /\ [Idle(v) EXCEPT !.pc = "resetCreate"].pc = "resetCreate"
             /\ [Idle(v) EXCEPT !.pc = "resetCreate"].rv = v
  BY DEF Idle
<1>2. wk \in Workers
  BY DEF Inv, TypeOK
<1>0. Done => wk'.pc = "idle"
  BY <1>1 DEF Done
<1>3. CASE TakeGone \/ TakeSettled \/ TakeReset \/ TakeSync
  <2>1. CASE TakeGone \/ TakeSettled
    <3>1. wk' = Idle(seen)
      BY <2>1 DEF TakeGone, TakeSettled
    <3> QED
      BY <1>1, <3>1
  <2>2. CASE TakeReset
    <3>1. wk' = [Idle(seen) EXCEPT !.pc = "resetCreate"]
      BY <2>2 DEF TakeReset
    <3> QED
      BY <1>1, <2>2, <3>1
  <2>3. CASE TakeSync
    <3>1. wk' = [Idle(seen) EXCEPT !.pc = "info"]
      BY <2>3 DEF TakeSync
    <3> QED
      BY <1>1, <2>3, <3>1
  <2> QED
    BY <1>3, <2>1, <2>2, <2>3
<1>4. CASE ResetPut
  <2>1. \/ Done
        \/ /\ Current(wk.rv) /\ Store(Reset(wf))
           /\ wk' = [Idle(Len(log')) EXCEPT !.pc = "info"]
    BY <1>4 DEF ResetPut, Reset
  <2> QED
    BY <1>0, <1>1, <1>4, <2>1 DEF GoesOn
<1>5. CASE ResetCreate
  BY <1>0, <1>2, <1>5 DEF ResetCreate, At, Workers, SameCopy, Resetting
<1>6. CASE ReadInfo
  BY <1>0, <1>2, <1>6 DEF ReadInfo, At, Workers, SameCopy, Resetting
<1>7. CASE Deploy \/ RecordGet
  BY <1>7, DeployMoves DEF SameCopy, Resetting
<1>8. CASE RecordPut \/ DeployStatus
  <2>1. CASE RecordPut
    BY <1>0, <1>2, <2>1 DEF RecordPut, Goto, NextNode, At, Workers, SameCopy, Resetting
  <2>2. CASE DeployStatus
    BY <1>0, <1>2, <2>2 DEF DeployStatus, Goto, NextNode, At, Workers, SameCopy, Resetting
  <2> QED
    BY <1>8, <2>1, <2>2
<1>9. CASE Unreported \/ Status \/ CollectLogs
  BY <1>0, <1>2, <1>9 DEF Unreported, Status, CollectLogs, Goto, At, Workers,
     SameCopy, Resetting
<1>10. CASE Offer \/ AddActions \/ PostBatch
  BY <1>2, <1>10 DEF Offer, AddActions, PostBatch, Goto, At, Workers, SameCopy, Resetting
<1>11. CASE PublishGet \/ PublishPut
  BY <1>0, <1>2, <1>11 DEF PublishGet, PublishPut, At, Workers, SameCopy, Resetting
<1>12. CASE Crash
  BY <1>1, <1>12 DEF Crash
<1>13. CASE ~WorkerStep /\ ~Crash
  BY <1>13 DEF Next, vars, doDelete, Cancel, SameCopy
<1> QED
  BY <1>3, <1>4, <1>5, <1>6, <1>7, <1>8, <1>9, <1>10, <1>11, <1>12, <1>13 DEF WorkerStep

\* A copy the worker keeps is the same version still.
LEMMA CopyStays ==
    ASSUME Inv, [Next]_vars, SameCopy
    PROVE  wf' = wf /\ wk.rv \in 1 .. Len(log)
<1>1. wk.rv \in 1 .. Len(log)
  BY Busy DEF SameCopy
<1> QED
  BY <1>1, HistoryGrows DEF SameCopy, wf

\* The cache never goes back, and moves only while nobody writes.
LEMMA CacheMoves ==
    ASSUME Inv, [Next]_vars
    PROVE  /\ seen \in 1 .. Len(log) /\ seen' \in 1 .. Len(log') /\ seen <= seen'
           /\ Len(log) \in Nat /\ Len(log') \in Nat
           /\ seen' # seen => log' = log /\ (wk' = wk \/ wk'.pc = "idle")
<1>1. /\ seen \in 1 .. Len(log) /\ seen' \in 1 .. Len(log')
      /\ Len(log) \in Nat /\ Len(log') \in Nat
  BY EventsType, HistoryGrows, Stepwise DEF Inv, TypeOK, TypeOKStore
<1>2. CASE WorkerStep \/ Cancel \/ doDelete \/ UNCHANGED vars
  <2>1. seen' = seen
    BY <1>2 DEF WorkerStep, TakeGone, TakeSettled, TakeReset, TakeSync, ResetCreate,
     ResetPut, ReadInfo, Deploy, DeployKnown, DeployCreate, RecordGet, RecordPut, DeployStatus,
     Unreported, Status, CollectLogs, Offer, AddActions, PostBatch, PublishGet, PublishPut,
     Cancel, doDelete, vars, storeVars
  <2> QED
    BY <1>1, <2>1
<1>3. CASE (QueueStep \/ Relist \/ Environment) /\ UNCHANGED <<githubVars, wk>>
  <2>1. CASE WatchEvent \/ Relist
    BY <1>1, <1>3, <2>1 DEF WatchEvent, Relist
  <2>2. CASE enqueue \/ Ready \/ Environment
    <3>1. seen' = seen
      BY <2>2 DEF enqueue, Ready, Environment, ArgoPhase, NodeStarts, NodeEnds, Touch,
         Retry, Delete
    <3> QED
      BY <1>1, <3>1
  <2> QED
    BY <1>3, <2>1, <2>2 DEF QueueStep
<1>4. CASE Crash
  BY <1>1, <1>4 DEF Crash, Idle
<1> QED
  BY <1>2, <1>3, <1>4 DEF Next

\* The worker resets a copy the cache has seen; what it syncs is unpublished,
\* and no newer than the cache, except for the version its own reset stored.
Position ==
    /\ wk.pc \in Resetting => wk.rv <= seen
    /\ Syncing =>
          /\ ~wf.published
          /\ \/ wk.rv <= seen
             \/ /\ wk.rv = seen + 1
                /\ Cached.published /\ wf.phase \in {"Pending", "Running"}

\* A reset is written on the latest version, which the cache holds.
LEMMA ResetStores ==
    ASSUME Inv, ResetOK, Position, GoesOn
    PROVE  /\ Extended /\ seen' = seen /\ seen = Len(log)
           /\ wf = Latest /\ Cached = Latest /\ RunsAgain(Latest)
           /\ wf' = Latest' /\ SameRun /\ ~Latest'.published /\ Latest'.cr = wk.fresh
           /\ wk.pc = "resetPut"
<1>1. wk.pc = "resetPut" /\ wk.pc \in Resetting /\ RunsAgain(wf) /\ seen' = seen
  BY DEF GoesOn, ResetPut, At, ResetOK, Resetting
<1>2. wk.rv = Len(log) /\ seen = Len(log) /\ wf = Latest /\ Cached = Latest /\ Latest.live
  BY <1>1, EventsType DEF GoesOn, Position, Current, wf, Latest, Cached
<1>3. PICK v : v = Reset(wf)
  OBVIOUS
<1>4. ~v.published /\ v.cr = wk.fresh /\ v.phase = Latest.phase /\ v.node = Latest.node
  BY <1>2, <1>3, LatestFacts DEF Versions, Reset
<1>5. log' = Append(log, v)
  BY <1>1, <1>2, <1>3, <1>4 DEF GoesOn, Store, RunsAgain
<1>6. Extended /\ Latest' = v
  BY <1>2, <1>5, LatestFacts, AppendLatest DEF Extended
<1>7. wf' = Latest'
  BY DEF GoesOn, wf, Latest
<1> QED
  BY <1>1, <1>2, <1>4, <1>6, <1>7 DEF SameRun

\* Every step keeps Position.
LEMMA PositionKept == Inv /\ ResetOK /\ Position /\ [Next]_vars => Position'
<1> SUFFICES ASSUME Inv, ResetOK, Position, [Next]_vars PROVE Position'
  OBVIOUS
<1>1. CASE wk'.pc = "idle"
  BY <1>1 DEF Position, Syncing, Resetting
<1>2. CASE SameCopy
  <2>1. wf' = wf /\ wk'.rv = wk.rv /\ wk.rv \in 1 .. Len(log) /\ (Syncing' => Syncing)
    BY <1>2, CopyStays DEF SameCopy, Syncing
  <2>2. CASE seen' = seen
    <3>1. Cached' = Cached
      BY <2>2, CachedStays
    <3> QED
      BY <1>2, <2>1, <2>2, <3>1 DEF Position, SameCopy
  <2>3. CASE seen' # seen
    <3>1. (Syncing \/ wk.pc \in Resetting) => wk.rv <= seen'
      BY <2>1, <2>3, CacheMoves DEF Position
    <3> QED
      BY <1>2, <2>1, <3>1 DEF Position, SameCopy
  <2> QED
    BY <2>2, <2>3
<1>3. CASE TakeReset /\ wk'.pc = "resetCreate" /\ wk'.rv = seen
  BY <1>3, CacheMoves DEF Position, Syncing, Resetting
<1>4. CASE TakeSync /\ wk'.pc = "info" /\ wk'.rv = seen
  <2>1. wf' = Cached /\ ~Cached.published
    BY <1>4 DEF TakeSync, wf, Cached
  <2> QED
    BY <1>4, <2>1, CacheMoves DEF Position, Resetting
<1>5. CASE GoesOn
  <2>1. Cached' = Cached
    BY <1>5, ResetStores, CachedStays
  <2>2. wk'.rv = seen' + 1 /\ wk'.pc = "info"
    BY <1>5, ResetStores DEF GoesOn, Extended
  <2> QED
    BY <1>5, <2>1, <2>2, ResetStores DEF Position, Resetting, SameRun, RunsAgain
<1> QED
  BY <1>1, <1>2, <1>3, <1>4, <1>5, WorkerMoves

-----------------------------------------------------------------------------
(* What a history may look like.                                           *)

\* An event that is absent stays absent.
LEMMA StaysAbsent ==
    ASSUME Inv, [Next]_vars, NEW k \in BudgetKeys, budget[k] = 0
    PROVE  budget'[k] = 0
<1>0. budget \in [BudgetKeys -> Nat]
  BY DEF Inv, TypeOK, TypeOKStore
<1>1. ASSUME NEW j \in BudgetKeys, Spend(j) PROVE budget'[k] = 0
  BY <1>0, <1>1 DEF Spend
<1>2. budget' = budget \/ \E j \in BudgetKeys : Spend(j)
  <2>0. BudgetKeys = {"touch", "retry", "delete", "cancel", "relist",
                      "crash", "fault", "resubmit", "deploy"}
    BY DEF BudgetKeys
  <2>1. CASE WorkerStep
    BY <2>0, <2>1 DEF WorkerStep, TakeGone, TakeSettled, TakeReset, TakeSync, ResetCreate, ResetPut,
       ReadInfo, Deploy, DeployKnown, DeployCreate, RecordGet, RecordPut, DeployStatus,
       Unreported, Status, CollectLogs, Offer, AddActions, PostBatch, PublishGet, PublishPut,
       Report, StatusLost, storeVars
  <2>2. CASE ~WorkerStep
    BY <2>0, <2>2 DEF Next, vars, storeVars, QueueStep, WatchEvent, enqueue, Ready, Relist,
       Environment, ArgoPhase, NodeStarts, NodeEnds, Touch, Retry, Delete, doDelete, StatusLost,
       Cancel, Crash
  <2> QED
    BY <2>1, <2>2
<1> QED
  BY <1>0, <1>1, <1>2

\* What is absent from every budget is absent at the start.
LEMMA AbsentInitially ==
    ASSUME NEW k \in BudgetKeys, Absent(k), Init
    PROVE  budget[k] = 0
BY DEF Init, InitStore, Absent

\* A success is final.
SuccessStays ==
    \A k \in 1 .. Len(log) : \A j \in 1 .. k :
        log[j].phase = "Succeeded" => log[k].phase = "Succeeded"

\* Every final phase in history h is.
FinalIn(h) ==
    \A k \in 1 .. Len(h) : \A j \in 1 .. k :
        /\ Finished(h[j]) => h[k].phase = h[j].phase
        /\ \A n \in DeployNodes :
              h[j].node[n] \in FinalPhases => h[k].node[n] = h[j].node[n]

FinalStays == FinalIn(log)

\* The versions on the check run of an earlier run come first, and all of
\* them are published.
OldFirst ==
    \A k \in 1 .. Len(log) : Old(log[k]) =>
        /\ log[k].published
        /\ \A j \in 1 .. k : Old(log[j])

\* A published version completed, or is that of an earlier run.
PublishedCompletes ==
    \A k \in 1 .. Len(log) : log[k].published => Old(log[k]) \/ Completes(log[k])

\* What is not published is on the present check run; so is what the worker syncs.
OneRun ==
    /\ \A k \in 1 .. Len(log) : ~log[k].published => log[k].cr = Latest.cr
    /\ Syncing => wf.cr = Latest.cr

\* The old versions of a longer history.
LEMMA LongerHistory ==
    ASSUME Inv, [Next]_vars
    PROVE  /\ Len(log) \in Nat /\ Len(log) >= 1 /\ log'[1] = log[1]
           /\ \A k \in 1 .. Len(log) : log'[k] = log[k]
           /\ Latest = log[Len(log)] /\ Latest' = log'[Len(log')]
           /\ log' # log => Extended
           /\ log' # log => \A k \in 1 .. Len(log') :
                  k \in 1 .. Len(log) \/ (k = Len(log) + 1 /\ log'[k] = Latest')
BY Writes, HistoryGrows DEF Latest, Extended

\* Every step keeps SuccessStays.
LEMMA SuccessKept == Inv /\ SuccessStays /\ [Next]_vars => SuccessStays'
<1> SUFFICES ASSUME Inv, SuccessStays, [Next]_vars, log' # log,
                    NEW k \in 1 .. Len(log'), NEW j \in 1 .. k, log'[j].phase = "Succeeded"
             PROVE  log'[k].phase = "Succeeded"
  BY DEF SuccessStays
<1>1. CASE k \in 1 .. Len(log)
  BY <1>1, LongerHistory DEF SuccessStays
<1>2. CASE k = Len(log) + 1 /\ log'[k] = Latest'
  <2>1. CASE j = k
    BY <2>1
  <2>2. CASE j # k
    <3>1. j \in 1 .. Len(log) /\ log'[j] = log[j]
      BY <1>2, <2>2, LongerHistory
    <3>2. Latest.phase = "Succeeded"
      BY <3>1, LongerHistory DEF SuccessStays
    <3>3. Latest'.phase = "Succeeded"
      BY <3>2, Writes DEF Carried, FinalKept, Finished, FinalPhases, Retried, Published,
         WasReset, SameRun
    <3> QED
      BY <1>2, <3>3
  <2> QED
    BY <2>1, <2>2
<1> QED
  BY <1>1, <1>2, LongerHistory

\* Without a retry every write keeps what is final.
LEMMA FinalCarried ==
    ASSUME Inv, [Next]_vars, budget["retry"] = 0, log' # log
    PROVE  FinalKept
<1>1. ~Retry
  BY DEF Retry, Spend
<1> QED
  BY <1>1, Writes DEF Carried, FinalKept, Retried, Published, WasReset, SameRun

\* Every step keeps FinalStays, when there are no retries.
LEMMA FinalStaysKept ==
    Inv /\ budget["retry"] = 0 /\ FinalStays /\ [Next]_vars => FinalStays'
<1> SUFFICES ASSUME Inv, budget["retry"] = 0, FinalStays, [Next]_vars, log' # log,
                    NEW k \in 1 .. Len(log'), NEW j \in 1 .. k
             PROVE  /\ Finished(log'[j]) => log'[k].phase = log'[j].phase
                    /\ \A n \in DeployNodes : log'[j].node[n] \in FinalPhases =>
                                                log'[k].node[n] = log'[j].node[n]
  BY DEF FinalStays, FinalIn, Finished
<1>1. CASE k \in 1 .. Len(log)
  <2>1. j \in 1 .. Len(log) /\ log'[k] = log[k] /\ log'[j] = log[j]
    BY <1>1, LongerHistory
  <2> QED
    BY <1>1, <2>1 DEF FinalStays, FinalIn
<1>2. CASE k = Len(log) + 1 /\ log'[k] = Latest'
  <2>1. CASE j = k
    BY <2>1
  <2>2. CASE j # k
    <3>1. j \in 1 .. Len(log) /\ log'[j] = log[j]
      BY <1>2, <2>2, LongerHistory
    <3>2. /\ Finished(log[j]) => Latest.phase = log[j].phase
          /\ \A n \in DeployNodes : log[j].node[n] \in FinalPhases =>
                                      Latest.node[n] = log[j].node[n]
      BY <3>1, LongerHistory DEF FinalStays, FinalIn
    <3> QED
      BY <1>2, <3>1, <3>2, FinalCarried DEF FinalKept, Finished
  <2> QED
    BY <2>1, <2>2
<1> QED
  BY <1>1, <1>2, LongerHistory

\* Every step keeps OldFirst.
LEMMA OldFirstKept == Inv /\ ResetOK /\ OldFirst /\ [Next]_vars => OldFirst'
<1> SUFFICES ASSUME Inv, ResetOK, OldFirst, [Next]_vars, log' # log,
                    NEW k \in 1 .. Len(log'), log'[1].published /\ log'[k].cr = log'[1].cr
             PROVE  /\ log'[k].published
                    /\ \A j \in 1 .. k : log'[j].cr = log'[1].cr
  BY DEF OldFirst, Old
<1>1. CASE k \in 1 .. Len(log)
  BY <1>1, LongerHistory DEF OldFirst, Old
<1>2. CASE k = Len(log) + 1 /\ log'[k] = Latest'
  <2>1. Latest'.cr = log[1].cr /\ log[1].published /\ 1 \in 1 .. Len(log)
    BY <1>2, LongerHistory
  <2>2. ~WasReset
    BY <2>1 DEF WasReset, ResetPut, At, ResetOK
  <2>3. Latest'.cr = Latest.cr /\ (Latest.published => Latest'.published)
    BY <2>2, Writes DEF Carried, SameReport, Retried, Published
  <2>4. Latest.published /\ \A j \in 1 .. Len(log) : log[j].cr = log[1].cr
    BY <2>1, <2>3, LongerHistory DEF OldFirst, Old
  <2> QED
    BY <1>2, <2>1, <2>3, <2>4, LongerHistory
<1> QED
  BY <1>1, <1>2, LongerHistory

\* Every step keeps PublishedCompletes, when there are no retries.
LEMMA PublishedCompletesKept ==
    Inv /\ budget["retry"] = 0 /\ FinalStays /\ PublishedCompletes /\ [Next]_vars
       => PublishedCompletes'
<1> SUFFICES ASSUME Inv, budget["retry"] = 0, FinalStays, PublishedCompletes, [Next]_vars,
                    log' # log, NEW k \in 1 .. Len(log'), log'[k].published
             PROVE  \/ log'[1].published /\ log'[k].cr = log'[1].cr
                    \/ Completes(log'[k])
  BY DEF PublishedCompletes, Old, Completes
<1>1. CASE k \in 1 .. Len(log)
  BY <1>1, LongerHistory DEF PublishedCompletes, Old
<1>2. CASE k = Len(log) + 1 /\ log'[k] = Latest'
  <2>1. FinalKept
    BY FinalCarried
  <2>2. CASE SameReport
    <3>1. Old(Latest) \/ Completes(Latest)
      BY <1>2, <2>2, LongerHistory DEF PublishedCompletes, SameReport
    <3> QED
      BY <1>2, <2>1, <2>2, <3>1, LongerHistory
         DEF Old, Completes, SameReport, FinalKept, Finished, FinalPhases
  <2>3. CASE Published
    <3>1. wk.pc = "publishPut" /\ wk.rv \in 1 .. Len(log) /\ Completes(wf)
      BY <2>3, Busy DEF Published, PublishPut, At, Inv, CopyOK, Completing
    <3>2. Latest.phase = wf.phase
      BY <3>1, LongerHistory DEF FinalStays, FinalIn, wf, Completes, Finished, FinalPhases
    <3> QED
      BY <1>2, <2>3, <3>1, <3>2 DEF Completes, Published, SameRun
  <2> QED
    BY <1>2, <2>2, <2>3, Writes DEF Carried, Retried, WasReset
<1> QED
  BY <1>1, <1>2, LongerHistory

\* What runs again without having been retried was resubmitted: nothing has
\* been synced on the check run it still points at.
LEMMA RunsAgainIsOld ==
    ASSUME Inv, OldFirst, PublishedCompletes, RunsAgain(Latest)
    PROVE  \A k \in 1 .. Len(log) : log[k].published
<1>1. Len(log) \in 1 .. Len(log) /\ Latest = log[Len(log)] /\ Len(log) \in Nat
  BY LatestFacts DEF Latest
<1>2. Old(Latest)
  BY <1>1 DEF PublishedCompletes, RunsAgain, Completes
<1>3. \A k \in 1 .. Len(log) : Old(log[k])
  BY <1>1, <1>2 DEF OldFirst
<1> QED
  BY <1>3 DEF OldFirst

\* Every step keeps OneRun, when there are no retries.
LEMMA OneRunKept ==
    Inv /\ ResetOK /\ Position /\ OldFirst /\ PublishedCompletes /\ OneRun /\ [Next]_vars
       => OneRun'
<1> SUFFICES ASSUME Inv, ResetOK, Position, OldFirst, PublishedCompletes, OneRun, [Next]_vars
             PROVE  OneRun'
  OBVIOUS
<1>0. log' = log => Latest' = Latest
  BY DEF Latest
<1>1. WasReset => RunsAgain(Latest) /\ wk.pc \in Resetting /\ wk'.pc \notin Resetting
  BY DEF WasReset, ResetPut, At, ResetOK, Resetting
<1>2. Latest'.cr = Latest.cr \/ WasReset
  BY <1>0, Writes DEF Carried, SameReport, Retried, Published
<1>3. ASSUME NEW k \in 1 .. Len(log'), ~log'[k].published
      PROVE  log'[k].cr = Latest'.cr
  <2>1. CASE k \in 1 .. Len(log)
    <3>1. log[k].cr = Latest.cr /\ log'[k] = log[k] /\ ~log[k].published
      BY <1>3, <2>1, LongerHistory DEF OneRun
    <3>2. ~WasReset
      BY <1>1, <2>1, <3>1, RunsAgainIsOld
    <3> QED
      BY <1>2, <3>1, <3>2
  <2>2. CASE log'[k] = Latest'
    BY <2>2
  <2> QED
    BY <2>1, <2>2, LongerHistory
<1>4. ASSUME Syncing' PROVE wf'.cr = Latest'.cr
  <2>1. CASE SameCopy
    <3>1. wf' = wf /\ Syncing
      BY <1>4, <2>1, CopyStays DEF SameCopy, Syncing
    <3>2. ~WasReset
      BY <1>1, <2>1 DEF SameCopy, Resetting
    <3> QED
      BY <1>2, <3>1, <3>2 DEF OneRun
  <2>2. CASE TakeSync /\ wk'.rv = seen
    <3>1. wf' = Cached /\ ~Cached.published /\ log' = log /\ seen \in 1 .. Len(log)
      BY <2>2, EventsType DEF TakeSync, wf, Cached
    <3> QED
      BY <1>0, <3>1 DEF OneRun, Cached
  <2>3. CASE GoesOn
    BY <2>3, ResetStores
  <2> QED
    BY <1>4, <2>1, <2>2, <2>3, WorkerMoves DEF Syncing, Resetting
<1> QED
  BY <1>3, <1>4 DEF OneRun

-----------------------------------------------------------------------------
(* What a step does to the check runs.                                     *)

\* Check run c takes the state of the worker's copy.
Told(c) ==
    /\ Syncing /\ c = wf.cr /\ completionStatus(wf).status # "none"
    /\ crs'[c].status = completionStatus(wf).status
    /\ crs'[c].conclusion = completionStatus(wf).conclusion
    /\ log' = log /\ seen' = seen

\* The workflow of check run c was deleted unfinished.
Cancelled(c) ==
    /\ crs'[c].status = "completed"
    /\ \E k \in 1 .. Len(log) : ~log[k].live /\ ~Finished(log[k]) /\ log[k].cr = c
    /\ doDelete

\* A check run is left alone, is new, or is told something; it never loses
\* annotations.
LEMMA Reports ==
    ASSUME Inv, [Next]_vars
    PROVE  /\ Len(crs) \in Nat /\ Len(crs') \in Nat /\ Len(crs') >= Len(crs)
           /\ \A c \in 1 .. Len(crs) :
                 /\ crs[c].anns \in Nat /\ crs'[c].anns \in Nat /\ crs'[c].anns >= crs[c].anns
                 /\ \/ crs'[c].status = crs[c].status /\ crs'[c].conclusion = crs[c].conclusion
                    \/ Told(c)
                    \/ Cancelled(c)
           /\ \A c \in 1 .. Len(crs') : c \in 1 .. Len(crs) \/ crs'[c] = NewCheckRun
<1>0. crs \in Seq(CheckRuns) /\ Len(crs) \in Nat /\ \A c \in 1 .. Len(crs) : crs[c].anns \in Nat
  <2>1. crs \in Seq(CheckRuns) /\ Len(crs) \in Nat
    BY LenProperties DEF Inv, TypeOK
  <2>2. \A r \in CheckRuns : r.anns \in Nat
    BY DEF CheckRuns
  <2>3. \A c \in 1 .. Len(crs) : crs[c] \in CheckRuns
    BY <2>1
  <2> QED
    BY <2>1, <2>2, <2>3
<1> DEFINE P ==
           /\ Len(crs') \in Nat /\ Len(crs') >= Len(crs)
           /\ \A c \in 1 .. Len(crs) :
                 /\ crs'[c].anns \in Nat /\ crs'[c].anns >= crs[c].anns
                 /\ \/ crs'[c].status = crs[c].status /\ crs'[c].conclusion = crs[c].conclusion
                    \/ Told(c)
                    \/ Cancelled(c)
           /\ \A c \in 1 .. Len(crs') : c \in 1 .. Len(crs) \/ crs'[c] = NewCheckRun
<1>1. CASE crs' = crs
  <2>1. P
    BY <1>0, <1>1
  <2> QED
    BY <1>0, <2>1
<1>2. ASSUME crs' = Append(crs, NewCheckRun) PROVE P
  BY <1>0, <1>2
<1>3. ASSUME NEW c \in 1 .. Len(crs), NEW st, NEW con, NEW n \in Nat,
             StatusUpdate(c, st, con, n)
      PROVE  /\ Len(crs') = Len(crs)
             /\ \A d \in 1 .. Len(crs) : d # c => crs'[d] = crs[d]
             /\ crs'[c].status = st /\ crs'[c].conclusion = con
             /\ crs'[c].anns = crs[c].anns + n
  <2>1. PICK r : r = [status |-> st, conclusion |-> con, anns |-> crs[c].anns + n]
    OBVIOUS
  <2>2. r.status = st /\ r.conclusion = con /\ r.anns = crs[c].anns + n
    BY <2>1
  <2>3. crs' = [crs EXCEPT ![c] = r]
    BY <1>3, <2>1 DEF StatusUpdate
  <2>4. /\ Len(crs') = Len(crs) /\ crs'[c] = r
        /\ \A d \in 1 .. Len(crs) : d # c => crs'[d] = crs[d]
    BY <1>0, <2>3
  <2> QED
    BY <2>2, <2>4
<1>4. ASSUME NEW n \in Nat, Syncing, completionStatus(wf).status # "none", Report(n),
             UNCHANGED <<log, seen>>
      PROVE  P
  <2>1. CASE StatusUpdate(wf.cr, completionStatus(wf).status, completionStatus(wf).conclusion, n)
    <3>1. wf.cr \in 1 .. Len(crs)
      BY <1>4, Busy DEF Syncing
    <3>2. /\ Len(crs') = Len(crs)
          /\ \A d \in 1 .. Len(crs) : d # wf.cr => crs'[d] = crs[d]
          /\ crs'[wf.cr].anns = crs[wf.cr].anns + n
      BY <1>3, <2>1, <3>1
    <3>3. Told(wf.cr)
      BY <1>3, <1>4, <2>1, <3>1 DEF Told
    <3> QED
      BY <1>0, <1>4, <3>1, <3>2, <3>3
  <2>2. CASE crs' = crs
    BY <1>0, <2>2
  <2> QED
    BY <1>4, <2>1, <2>2 DEF Report, StatusLost
<1>5. CASE Status \/ AddActions
  <2>1. Syncing /\ completionStatus(wf).status # "none" /\ Report(0) /\ UNCHANGED <<log, seen>>
    BY <1>5, CompletesReported DEF Status, AddActions, At, Syncing, Resetting, Inv, CopyOK,
       Completing
  <2> QED
    BY <1>0, <1>4, <2>1
<1>6. CASE PostBatch
  <2>1. wk.pc = "annotate" /\ wk.at < wk.anns /\ Report(Batch(wk.at)) /\ Completes(wf)
    BY <1>6 DEF PostBatch, At, Inv, CopyOK, Completing
  <2>2. wk.at \in Nat /\ wk.anns \in Nat /\ BatchSize \in Nat
    BY <2>1, Busy, ConstantsAssumption DEF Workers
  <2>3. Batch(wk.at) \in Nat
    BY <2>1, <2>2 DEF Batch
  <2>4. Syncing /\ completionStatus(wf).status # "none" /\ UNCHANGED <<log, seen>>
    BY <1>6, <2>1, CompletesReported DEF PostBatch, Syncing, Resetting
  <2> QED
    BY <1>0, <1>4, <2>1, <2>3, <2>4
<1>7. CASE doDelete
  <2>1. ASSUME NEW k \in 1 .. Len(log), ~log[k].live, ~Finished(log[k]),
               log[k].cr \in 1 .. Len(crs),
               StatusUpdate(log[k].cr, "completed", "cancelled", 0)
        PROVE  P
    <3>1. /\ Len(crs') = Len(crs)
          /\ \A d \in 1 .. Len(crs) : d # log[k].cr => crs'[d] = crs[d]
          /\ crs'[log[k].cr].status = "completed"
          /\ crs'[log[k].cr].anns = crs[log[k].cr].anns + 0
      BY <1>3, <2>1
    <3>2. Cancelled(log[k].cr)
      BY <1>7, <2>1, <3>1 DEF Cancelled
    <3> QED
      BY <1>0, <2>1, <3>1, <3>2
  <2> QED
    BY <1>0, <1>1, <1>7, <2>1, DeletionSpares
<1>8. CASE ResetCreate
  BY <1>0, <1>1, <1>2, <1>8 DEF ResetCreate
<1>9. CASE ~(Status \/ AddActions \/ PostBatch \/ doDelete \/ ResetCreate)
  <2>1. CASE WorkerStep
    <3>1. crs' = crs
      BY <1>9, <2>1 DEF WorkerStep, TakeGone, TakeSettled, TakeReset, TakeSync, ResetPut,
         ReadInfo, Deploy, DeployKnown, DeployCreate, RecordGet, RecordPut, DeployStatus,
         Unreported, CollectLogs, Offer, PublishGet, PublishPut, githubVars
    <3> QED
      BY <1>1, <3>1
  <2>2. CASE ~WorkerStep
    <3>1. crs' = crs
      BY <1>9, <2>2 DEF Next, vars, githubVars, Cancel, Crash
    <3> QED
      BY <1>1, <3>1
  <2> QED
    BY <2>1, <2>2
<1> QED
  BY <1>5, <1>6, <1>7, <1>8, <1>9

-----------------------------------------------------------------------------
(* A completed check run stays completed.                                  *)

\* The cache and the copy being synced both say that the workflow is over.
Over == Finished(Cached) /\ (Syncing => Finished(wf))

\* While the object is there, a completed check run is that of an earlier
\* run, or the workflow is over for whoever reports on it.
CompletedIsOver ==
    Latest.live => \A c \in 1 .. Len(crs) : crs[c].status = "completed" =>
        \/ log[1].published /\ c = log[1].cr
        \/ Over

\* What is over stays over, when there are no retries.
LEMMA OverStays ==
    ASSUME Inv, ResetOK, Position, FinalStays, budget["retry"] = 0, Over, [Next]_vars
    PROVE  Over'
<1>1. Finished(Cached')
  <2>1. FinalStays' /\ seen \in 1 .. seen' /\ seen' \in 1 .. Len(log') /\ log'[seen] = log[seen]
    BY FinalStaysKept, CacheMoves, LongerHistory
  <2>2. Finished(log'[seen])
    BY <2>1 DEF Over, Cached
  <2> HIDE DEF Over
  <2>3. log'[seen'].phase = log'[seen].phase
    BY <2>1, <2>2 DEF FinalStays, FinalIn, Finished
  <2> QED
    BY <2>2, <2>3 DEF Cached, Finished
<1>2. ASSUME Syncing' PROVE Finished(wf')
  <2>1. CASE SameCopy
    BY <1>2, <2>1, CopyStays DEF SameCopy, Syncing, Over
  <2>2. CASE TakeSync /\ wk'.rv = seen
    <3>1. wf' = Cached
      BY <2>2 DEF TakeSync, wf, Cached
    <3> QED
      BY <3>1 DEF Over
  <2>3. CASE GoesOn
    <3>1. RunsAgain(Cached)
      BY <2>3, ResetStores
    <3> QED
      BY <3>1 DEF Over, RunsAgain, Finished, FinalPhases
  <2> QED
    BY <1>2, <2>1, <2>2, <2>3, WorkerMoves DEF Syncing, Resetting
<1> QED
  BY <1>1, <1>2 DEF Over, Finished

\* A finished copy that is being synced is no newer than the cache.
LEMMA SyncedIsOver ==
    ASSUME Inv, Position, FinalStays, Syncing, Finished(wf)
    PROVE  Over
<1>1. wk.rv \in 1 .. Len(log) /\ wk.rv <= seen /\ seen \in 1 .. Len(log)
  BY Busy, EventsType DEF Position, Syncing, Finished, FinalPhases
<1>2. Cached.phase = wf.phase
  BY <1>1 DEF FinalStays, FinalIn, wf, Cached
<1> QED
  BY <1>2 DEF Over, Finished

\* A phase that is reported as completed is final, and the other way round.
LEMMA CompletedIsFinished ==
    ASSUME NEW v \in Versions
    PROVE  completionStatus(v).status = "completed" <=> Finished(v)
BY DEF completionStatus, Finished, FinalPhases, Versions, Phases

\* Nobody reports on the check run of an earlier run.
LEMMA OldIsNotTold ==
    ASSUME Inv, Position, OldFirst, Syncing
    PROVE  ~Old(wf)
<1>1. wk.rv \in 1 .. Len(log)
  BY Busy DEF Syncing
<1> QED
  BY <1>1 DEF OldFirst, Position, wf

\* A deletion that is reported is the end of the history.
LEMMA CancelledIsLast ==
    ASSUME Inv, DeadIsLast, NEW c, Cancelled(c)
    PROVE  ~Latest.live /\ ~Finished(Latest) /\ Latest.cr = c
BY DEF Cancelled, DeadIsLast, Latest

\* Without a retry, and while the object is there, no step opens a completed
\* check run again.
LEMMA NotReopened ==
    ASSUME Inv, Position, OldFirst, CompletedIsOver, Latest.live, [Next]_vars,
           NEW c \in 1 .. Len(crs), crs[c].status = "completed"
    PROVE  crs'[c].status = "completed"
<1>1. CASE Told(c)
  <2>1. ~Old(wf) /\ wf \in Versions /\ c = wf.cr /\ Syncing
    BY <1>1, OldIsNotTold, Busy DEF Told, Syncing
  <2>2. Finished(wf)
    BY <2>1 DEF CompletedIsOver, Over, Old
  <2> QED
    BY <1>1, <2>1, <2>2, CompletedIsFinished DEF Told
<1> QED
  BY <1>1, Reports DEF Cancelled

\* Every step keeps CompletedIsOver, when there are no retries.
LEMMA CompletedIsOverKept ==
    Inv /\ ResetOK /\ Position /\ DeadIsLast /\ OldFirst /\ FinalStays
        /\ budget["retry"] = 0 /\ CompletedIsOver /\ [Next]_vars
      => CompletedIsOver'
<1> SUFFICES ASSUME Inv, ResetOK, Position, DeadIsLast, OldFirst, FinalStays,
                    budget["retry"] = 0, CompletedIsOver, [Next]_vars
             PROVE  CompletedIsOver'
  OBVIOUS
<1> SUFFICES ASSUME Latest'.live, NEW c \in 1 .. Len(crs'), crs'[c].status = "completed",
                    ~(log'[1].published /\ c = log'[1].cr)
             PROVE  Over'
  BY DEF CompletedIsOver
<1>1. Latest.live
  BY LongerHistory DEF Extended, Latest
<1>2. c \in 1 .. Len(crs)
  BY Reports DEF NewCheckRun
<1>3. Over
  <2>1. CASE Told(c)
    <3>1. wf \in Versions /\ Syncing
      BY <2>1, Busy DEF Told, Syncing
    <3> QED
      BY <2>1, <3>1, SyncedIsOver, CompletedIsFinished DEF Told
  <2>2. CASE crs[c].status = "completed"
    BY <1>1, <1>2, <2>2, LongerHistory DEF CompletedIsOver
  <2> QED
    BY <1>1, <1>2, <2>1, <2>2, Reports, CancelledIsLast
<1> QED
  BY <1>3, OverStays

\* What the histories of a workflow look like when nobody retries it.
Settling ==
    /\ budget["retry"] = 0
    /\ ResetOK /\ WakeInv /\ Position /\ OldFirst
    /\ FinalStays /\ PublishedCompletes /\ OneRun /\ CompletedIsOver

\* Every step keeps Settling.
LEMMA SettlingKept == Inv /\ Settling /\ [Next]_vars => Settling'
<1> SUFFICES ASSUME Inv, Settling, [Next]_vars PROVE Settling'
  OBVIOUS
<1>1. budget'["retry"] = 0
  BY StaysAbsent DEF Settling, BudgetKeys
<1>2. ResetOK' /\ WakeInv' /\ Position' /\ OldFirst'
  BY ResetKept, WakeKept, PositionKept, OldFirstKept DEF Settling
<1>3. FinalStays' /\ PublishedCompletes'
  BY FinalStaysKept, PublishedCompletesKept DEF Settling
<1>4. OneRun'
  BY OneRunKept DEF Settling
<1>5. CompletedIsOver'
  BY CompletedIsOverKept DEF Settling, WakeInv
<1> QED
  BY <1>1, <1>2, <1>3, <1>4, <1>5 DEF Settling

\* The one version there is at the start.
LEMMA FirstVersion ==
    ASSUME Init
    PROVE  /\ Len(log) = 1 /\ Latest = log[1] /\ seen = 1 /\ log[1].cr = 1 /\ log[1].live
           /\ log[1].phase = "none" /\ wk.pc = "idle" /\ Len(crs) = 1
           /\ \/ ~log[1].published /\ crs[1].status = "queued"
              \/ log[1].published /\ crs[1].status = "completed" /\ crs[1].anns = NAnn
<1>1. Fresh.cr = 1 /\ Fresh.live /\ Fresh.phase = "none" /\ ~Fresh.published
  BY DEF Fresh
<1>2. /\ Resubmitted.cr = 1 /\ Resubmitted.live /\ Resubmitted.phase = "none"
      /\ Resubmitted.published
  BY DEF Resubmitted, Fresh
<1>3. NewCheckRun.status = "queued"
  BY DEF NewCheckRun
<1>4. wk.pc = "idle"
  BY DEF Init, Idle
<1>5. CASE InitStore(Fresh) /\ crs = <<NewCheckRun>>
  BY <1>1, <1>3, <1>4, <1>5 DEF InitStore, Latest
<1>6. CASE InitStore(Resubmitted) /\
           crs = <<[status |-> "completed", conclusion |-> "failure", anns |-> NAnn]>>
  BY <1>2, <1>4, <1>6 DEF InitStore, Latest
<1> QED
  BY <1>5, <1>6 DEF Init

\* At the start the history has one version, fresh or resubmitted.
LEMMA SettlingInitially == ASSUME Absent("retry") PROVE Init => Settling
<1> SUFFICES ASSUME Init PROVE Settling
  OBVIOUS
<1>1. budget["retry"] = 0
  BY AbsentInitially DEF BudgetKeys
<1>2. ResetOK /\ WakeInv
  BY ResetInitially, WakeInitially
<1>0. \A k \in 1 .. 1 : k = 1
  OBVIOUS
<1>3. Position
  BY FirstVersion DEF Position, Syncing, Resetting
<1>4. OldFirst /\ FinalStays
  <2>1. OldFirst
    BY <1>0, FirstVersion DEF OldFirst, Old
  <2>2. FinalStays
    <3> SUFFICES ASSUME NEW k \in 1 .. 1, NEW j \in 1 .. k
                 PROVE  /\ Finished(log[j]) => log[k].phase = log[j].phase
                        /\ \A n \in DeployNodes : log[j].node[n] \in FinalPhases =>
                                                    log[k].node[n] = log[j].node[n]
      BY FirstVersion DEF FinalStays, FinalIn
    <3> QED
      BY <1>0
  <2> QED
    BY <2>1, <2>2
<1>5. PublishedCompletes /\ OneRun
  <2>1. log[1].published => Old(log[1])
    BY DEF Old
  <2> QED
    BY <1>0, <2>1, FirstVersion DEF PublishedCompletes, OneRun, Syncing
<1>6. CompletedIsOver
  <2>1. crs[1].status = "completed" => log[1].published /\ log[1].cr = 1
    BY FirstVersion
  <2> QED
    BY <1>0, <2>1, FirstVersion DEF CompletedIsOver
<1> QED
  BY <1>1, <1>2, <1>3, <1>4, <1>5, <1>6 DEF Settling

\* As long as nobody retries or deletes the workflow, no step takes a check run
\* out of its completed state, whatever stale copies are synced, whichever
\* calls fail and wherever the program dies: StatusUpdate never reports an
\* older state after a newer one.
THEOREM CompletedIsFinal ==
    ASSUME Absent("retry"), Absent("delete") PROVE Spec => CompletedStays
<1> DEFINE Kept == \A c \in DOMAIN crs : crs[c].status = "completed" =>
                       crs'[c].status = "completed"
           Alive == budget["delete"] = 0 /\ Latest.live
<1>1. Init => Alive
  BY AbsentInitially, FirstVersion DEF BudgetKeys
<1>2. Inv /\ Alive /\ [Next]_vars => Alive'
  <2> SUFFICES ASSUME Inv, Alive, [Next]_vars PROVE Alive'
    OBVIOUS
  <2>1. budget'["delete"] = 0 /\ ~Delete
    BY StaysAbsent DEF BudgetKeys, Delete, Spend
  <2>2. Latest'.live
    BY <2>1, Writes DEF Carried, Latest
  <2> QED
    BY <2>1, <2>2
<1>3. Inv /\ Settling /\ Alive /\ [Next]_vars => [Kept]_crs
  <2> SUFFICES ASSUME Inv, Settling, Alive, [Next]_vars,
                      NEW c \in DOMAIN crs, crs[c].status = "completed"
               PROVE  crs'[c].status = "completed"
    OBVIOUS
  <2>1. DOMAIN crs = 1 .. Len(crs)
    BY DEF Inv, TypeOK
  <2> QED
    BY <2>1, NotReopened DEF Settling
<1> HIDE DEF Alive
<1>4. Spec => [](Inv /\ Settling /\ Alive)
  BY <1>1, <1>2, Initially, Stepwise, SettlingInitially, SettlingKept, PTL DEF Spec
<1>5. [](Inv /\ Settling /\ Alive) /\ [][Next]_vars => [][Kept]_crs
  BY <1>3, PTL
<1> QED
  BY <1>4, <1>5, PTL DEF Spec, CompletedStays

-----------------------------------------------------------------------------
(* What is published is complete.                                          *)

\* On the way from the progress update to publishing, the check run of the
\* worker's copy is completed, and it has the annotations sent so far.
Posted ==
    /\ wk.pc \in Completing => crs[wf.cr].status = "completed"
    /\ wk.pc \notin {"annotate", "publishPut"} => wk.at = 0
    /\ wk.pc \in {"offer", "annotate", "publishPut"} => wk.anns = NAnn
    /\ wk.pc = "annotate" => crs[wf.cr].anns >= wk.at \/ crs[wf.cr].anns >= NAnn
    /\ wk.pc = "publishPut" => crs[wf.cr].anns >= NAnn

\* Completing steps keep a completed check run completed.
LEMMA StaysPosted ==
    ASSUME Inv, [Next]_vars, wk.pc \in Completing, crs[wf.cr].status = "completed"
    PROVE  /\ crs'[wf.cr].status = "completed" /\ crs'[wf.cr].anns >= crs[wf.cr].anns
           /\ crs[wf.cr].anns \in Nat /\ crs'[wf.cr].anns \in Nat
<1>1. wf.cr \in 1 .. Len(crs) /\ wf \in Versions /\ Finished(wf)
  BY Busy DEF Inv, CopyOK, Completing, Completes, Finished, FinalPhases
<1>2. completionStatus(wf).status = "completed"
  BY <1>1, CompletedIsFinished
<1> QED
  BY <1>1, <1>2, Reports DEF Told, Cancelled

\* Any other step leaves the worker as it is or takes it out of completing.
LEMMA OtherSteps ==
    ASSUME Inv, [Next]_vars,
           ~(Status \/ CollectLogs \/ Offer \/ AddActions \/ PostBatch \/ PublishGet)
    PROVE  \/ wk' = wk
           \/ /\ wk'.pc \notin Completing
              /\ \/ wk'.at = 0
                 \/ wk'.at = wk.at /\ wk.pc \notin {"annotate", "publishPut"}
<1>1. \A v : /\ Idle(v).pc = "idle" /\ Idle(v).at = 0
             /\ [Idle(v) EXCEPT !.pc = "info"].pc = "info"
             /\ [Idle(v) EXCEPT !.pc = "info"].at = 0
             /\ [Idle(v) EXCEPT !.pc = "resetCreate"].pc = "resetCreate"
             /\ [Idle(v) EXCEPT !.pc = "resetCreate"].at = 0
  BY DEF Idle
<1>2. wk \in Workers
  BY DEF Inv, TypeOK
<1>0. Done => wk'.pc = "idle" /\ wk'.at = 0
  BY <1>1 DEF Done
<1>3. CASE TakeGone \/ TakeSettled \/ TakeReset \/ TakeSync
  <2>1. \/ wk' = Idle(seen)
        \/ wk' = [Idle(seen) EXCEPT !.pc = "resetCreate"]
        \/ wk' = [Idle(seen) EXCEPT !.pc = "info"]
    BY <1>3 DEF TakeGone, TakeSettled, TakeReset, TakeSync
  <2>0. /\ Idle(seen).pc = "idle" /\ Idle(seen).at = 0
        /\ [Idle(seen) EXCEPT !.pc = "info"].pc = "info"
        /\ [Idle(seen) EXCEPT !.pc = "info"].at = 0
        /\ [Idle(seen) EXCEPT !.pc = "resetCreate"].pc = "resetCreate"
        /\ [Idle(seen) EXCEPT !.pc = "resetCreate"].at = 0
    BY <1>1
  <2>2. wk'.at = 0 /\ wk'.pc \in {"idle", "resetCreate", "info"}
    BY <2>0, <2>1
  <2> QED
    BY <2>2 DEF Completing
<1>4. CASE ResetPut
  BY <1>0, <1>1, <1>4 DEF ResetPut, Completing
<1>5. CASE ResetCreate \/ ReadInfo
  BY <1>0, <1>2, <1>5 DEF ResetCreate, ReadInfo, At, Workers, Completing
<1>6. CASE Deploy \/ RecordGet
  BY <1>6, DeployMoves DEF Completing
<1>7. CASE RecordPut \/ DeployStatus
  BY <1>0, <1>2, <1>7 DEF RecordPut, DeployStatus, Goto, NextNode, At, Workers, Completing
<1>8. CASE Unreported \/ PublishPut
  BY <1>0, <1>8 DEF Unreported, PublishPut, Completing
<1>9. CASE Crash
  BY <1>1, <1>9 DEF Crash, Completing
<1>10. CASE ~WorkerStep /\ ~Crash
  BY <1>10 DEF Next, vars, doDelete, Cancel
<1> QED
  BY <1>3, <1>4, <1>5, <1>6, <1>7, <1>8, <1>9, <1>10 DEF WorkerStep

\* A report that is not lost.
LEMMA ReportArrives ==
    ASSUME Inv, budget["fault"] = 0, wk.pc # "idle", NEW n \in Nat, Report(n)
    PROVE  /\ crs'[wf.cr].status = completionStatus(wf).status
           /\ crs'[wf.cr].conclusion = completionStatus(wf).conclusion
           /\ crs'[wf.cr].anns = crs[wf.cr].anns + n
           /\ crs[wf.cr].anns \in Nat
<1>1. StatusUpdate(wf.cr, completionStatus(wf).status, completionStatus(wf).conclusion, n)
  BY DEF Report, StatusLost, Spend
<1>2. wf.cr \in 1 .. Len(crs) /\ crs \in Seq(CheckRuns)
  BY Busy DEF Inv, TypeOK
<1>3. PICK r : r = [status |-> completionStatus(wf).status,
                    conclusion |-> completionStatus(wf).conclusion,
                    anns |-> crs[wf.cr].anns + n]
  OBVIOUS
<1>4. crs' = [crs EXCEPT ![wf.cr] = r]
  BY <1>1, <1>3 DEF StatusUpdate
<1>5. crs'[wf.cr] = r
  BY <1>2, <1>4
<1>6. crs[wf.cr].anns \in Nat
  <2>1. crs[wf.cr] \in CheckRuns
    BY <1>2
  <2> QED
    BY <2>1 DEF CheckRuns
<1> QED
  BY <1>3, <1>5, <1>6

\* Every step keeps Posted, when no call fails.
LEMMA PostedKept == Inv /\ budget["fault"] = 0 /\ Posted /\ [Next]_vars => Posted'
<1> SUFFICES ASSUME Inv, budget["fault"] = 0, Posted, [Next]_vars PROVE Posted'
  OBVIOUS
<1>0. wk \in Workers /\ NAnn \in Nat /\ BatchSize \in Nat
  BY ConstantsAssumption DEF Inv, TypeOK
<1>1. CASE Status
  <2>1. wk.pc = "deploy" /\ wk.pc # "idle" /\ Report(0) /\ log' = log /\ wk.at = 0
    BY <1>1 DEF Status, At, Posted
  <2>2. CASE Completes(wf) /\ wk' = [wk EXCEPT !.pc = "logs"]
    <3>1. wk'.pc = "logs" /\ wk'.at = wk.at /\ wk'.rv = wk.rv
      BY <1>0, <2>2 DEF Workers
    <3>2. completionStatus(wf).status = "completed"
      BY <2>2 DEF Completes, completionStatus
    <3>3. crs'[wf.cr].status = "completed" /\ wf' = wf
      BY <2>1, <3>1, <3>2, ReportArrives DEF wf
    <3> QED
      BY <2>1, <3>1, <3>3 DEF Posted
  <2>3. CASE wk' = Idle(wk.rv)
    BY <2>3 DEF Posted, Idle, Completing
  <2> QED
    BY <1>1, <2>2, <2>3 DEF Status, Goto, Done
<1>2. CASE CollectLogs
  <2>0. ~Spend("fault")
    BY DEF Spend
  <2>1. PICK tasks : wk' = [wk EXCEPT !.pc = "offer", !.anns = NAnn, !.tasks = tasks]
    BY <1>2, <2>0 DEF CollectLogs
  <2>2. wk'.pc = "offer" /\ wk'.at = wk.at /\ wk'.rv = wk.rv /\ wk'.anns = NAnn
    BY <1>0, <2>1 DEF Workers
  <2>3. wk.pc = "logs" /\ crs' = crs /\ wf' = wf
    BY <1>2, <2>2 DEF CollectLogs, At, githubVars, wf
  <2> QED
    BY <2>2, <2>3 DEF Posted, Completing
<1>3. CASE Offer
  <2>1. wk' = [wk EXCEPT !.tasks = Tail(@)] /\ wk.pc = "offer" /\ log' = log /\ crs' = crs
    BY <1>3 DEF Offer, At
  <2>2. wk'.pc = "offer" /\ wk'.at = wk.at /\ wk'.rv = wk.rv /\ wk'.anns = wk.anns /\ wf' = wf
    BY <1>0, <2>1 DEF Workers, wf
  <2> QED
    BY <2>1, <2>2 DEF Posted, Completing
<1>4. CASE AddActions
  <2>1. wk' = [wk EXCEPT !.pc = "annotate"] /\ wk.pc = "offer" /\ log' = log /\ Report(0)
    BY <1>4 DEF AddActions, At, Goto
  <2>2. /\ wk'.pc = "annotate" /\ wk'.at = wk.at /\ wk'.rv = wk.rv /\ wk'.anns = wk.anns
        /\ wf' = wf
    BY <1>0, <2>1 DEF Workers, wf
  <2>3. /\ crs'[wf.cr].status = "completed" /\ crs'[wf.cr].anns \in Nat
        /\ wk.at = 0 /\ wk.anns = NAnn
    BY <2>1, StaysPosted DEF Posted, Completing
  <2> QED
    BY <2>2, <2>3 DEF Posted
<1>5. CASE PostBatch
  <2>1. /\ wk' = [wk EXCEPT !.at = @ + BatchSize] /\ wk.pc = "annotate" /\ log' = log
        /\ Report(Batch(wk.at)) /\ wk.at < wk.anns
    BY <1>5 DEF PostBatch, At
  <2>2. /\ wk'.pc = "annotate" /\ wk'.at = wk.at + BatchSize /\ wk'.rv = wk.rv
        /\ wk'.anns = wk.anns /\ wf' = wf /\ wk.at \in Nat
    BY <1>0, <2>1 DEF Workers, wf
  <2>3. wk.anns = NAnn /\ (crs[wf.cr].anns >= wk.at \/ crs[wf.cr].anns >= NAnn)
    BY <2>1 DEF Posted
  <2>4. Batch(wk.at) \in Nat /\ (Batch(wk.at) = BatchSize \/ wk.at + Batch(wk.at) = NAnn)
    BY <1>0, <2>1, <2>2, <2>3 DEF Batch
  <2>5. /\ crs'[wf.cr].anns = crs[wf.cr].anns + Batch(wk.at) /\ crs[wf.cr].anns \in Nat
        /\ crs'[wf.cr].status = "completed"
    BY <2>1, <2>4, ReportArrives, StaysPosted DEF Posted, Completing
  <2>6. crs'[wf.cr].anns >= wk.at + BatchSize \/ crs'[wf.cr].anns >= NAnn
    BY <1>0, <2>2, <2>3, <2>4, <2>5
  <2> QED
    BY <2>2, <2>3, <2>5, <2>6 DEF Posted
<1>6. CASE PublishGet
  <2>1. wk.pc = "annotate" /\ wk.at >= wk.anns /\ log' = log /\ crs' = crs
    BY <1>6 DEF PublishGet, At, githubVars
  <2>2. CASE wk' = [wk EXCEPT !.pc = "publishPut", !.got = Len(log)]
    <3>1. /\ wk'.pc = "publishPut" /\ wk'.rv = wk.rv /\ wk'.anns = wk.anns /\ wf' = wf
          /\ wk.at \in Nat
      BY <1>0, <2>1, <2>2 DEF Workers, wf
    <3>2. crs[wf.cr].status = "completed" /\ crs[wf.cr].anns \in Nat
      BY <2>1, StaysPosted DEF Posted, Completing
    <3>3. crs[wf.cr].anns >= NAnn /\ wk.anns = NAnn
      BY <1>0, <2>1, <3>1, <3>2 DEF Posted
    <3> QED
      BY <2>1, <3>1, <3>2, <3>3 DEF Posted
  <2>3. CASE wk' = Idle(wk.rv)
    BY <2>3 DEF Posted, Idle, Completing
  <2> QED
    BY <1>6, <2>2, <2>3 DEF PublishGet, Done
<1>7. CASE ~(Status \/ CollectLogs \/ Offer \/ AddActions \/ PostBatch \/ PublishGet)
  <2>1. CASE wk' = wk
    <3>1. CASE wk.pc \in Completing
      <4>1. wf' = wf
        BY <2>1, <3>1, CopyStays DEF SameCopy, Completing
      <4>2. /\ crs'[wf.cr].status = "completed" /\ crs'[wf.cr].anns >= crs[wf.cr].anns
            /\ crs[wf.cr].anns \in Nat /\ crs'[wf.cr].anns \in Nat
        BY <3>1, StaysPosted DEF Posted
      <4> QED
        BY <1>0, <2>1, <4>1, <4>2 DEF Posted, Workers
    <3>2. CASE wk.pc \notin Completing
      BY <2>1, <3>2 DEF Posted, Completing
    <3> QED
      BY <3>1, <3>2
  <2>2. CASE wk'.pc \notin Completing /\ wk'.at = 0
    BY <2>2 DEF Posted, Completing
  <2> QED
    BY <1>7, <2>1, <2>2, OtherSteps DEF Posted
<1> QED
  BY <1>1, <1>2, <1>3, <1>4, <1>5, <1>6, <1>7

\* Every step keeps PublishedIsComplete, when there are no retries and no
\* failed calls.
LEMMA PublishedKept ==
    Inv /\ Settling /\ Posted /\ PublishedIsComplete /\ [Next]_vars => PublishedIsComplete'
<1> SUFFICES ASSUME Inv, Settling, Posted, PublishedIsComplete, [Next]_vars,
                    Latest'.live, Latest'.published
             PROVE  crs'[Latest'.cr].status = "completed" /\ crs'[Latest'.cr].anns >= NAnn
  BY DEF PublishedIsComplete
<1>1. Latest.live /\ Latest.cr \in 1 .. Len(crs) /\ NAnn \in Nat
  BY LongerHistory, ConstantsAssumption DEF Extended, Latest, Inv, CheckRunIds
<1>2. CASE Latest.published /\ Latest'.cr = Latest.cr
  <2>1. crs[Latest.cr].status = "completed" /\ crs[Latest.cr].anns >= NAnn
    BY <1>1, <1>2 DEF PublishedIsComplete
  <2>2. crs'[Latest.cr].status = "completed"
    BY <1>1, <2>1, NotReopened DEF Settling
  <2>3. /\ crs[Latest.cr].anns \in Nat /\ crs'[Latest.cr].anns \in Nat
        /\ crs'[Latest.cr].anns >= crs[Latest.cr].anns
    BY <1>1, Reports
  <2> QED
    BY <1>1, <1>2, <2>1, <2>2, <2>3
<1>3. CASE log' # log /\ Published
  <2>1. wk.pc = "publishPut" /\ Syncing
    BY <1>3 DEF Published, PublishPut, At, Syncing, Resetting
  <2>2. Latest'.cr = wf.cr
    BY <1>3, <2>1 DEF Published, Settling, OneRun
  <2>3. crs' = crs
    BY <1>3, WriterSparesGitHub
  <2> QED
    BY <2>1, <2>2, <2>3 DEF Posted, Completing
<1>4. CASE log' = log
  <2>1. Latest' = Latest
    BY <1>4 DEF Latest
  <2> QED
    BY <1>2, <2>1
<1> QED
  BY <1>2, <1>3, <1>4, Writes DEF Carried, SameReport, Retried, WasReset

\* As long as nobody retries the workflow and no call to GitHub or the API
\* server fails, an object that says its annotations are published has a
\* completed check run that carries all of them, at every moment and across
\* restarts (completeCheckRun publishes last, with the copy it reported).
THEOREM PublishedMeansComplete ==
    ASSUME Absent("retry"), Absent("fault") PROVE Spec => []PublishedIsComplete
<1> DEFINE NoFault == budget["fault"] = 0
<1>1. Init => NoFault
  BY AbsentInitially DEF BudgetKeys
<1>2. Inv /\ NoFault /\ [Next]_vars => NoFault'
  BY StaysAbsent DEF BudgetKeys
<1>3. Init => Posted
  BY DEF Init, Idle, Posted, Completing
<1>4. Init => PublishedIsComplete
  <2> SUFFICES ASSUME Init PROVE PublishedIsComplete
    OBVIOUS
  <2> QED
    BY FirstVersion, ConstantsAssumption DEF PublishedIsComplete
<1>5. Inv /\ NoFault /\ Posted /\ [Next]_vars => Posted'
  BY PostedKept
<1> HIDE DEF NoFault
<1> QED
  BY <1>1, <1>2, <1>3, <1>4, <1>5, PublishedKept, Initially, Stepwise, SettlingInitially,
     SettlingKept, PTL DEF Spec

-----------------------------------------------------------------------------
(* Manual steps are offered after a success that GitHub shows.             *)

\* GitHub shows a success, and whoever works on the workflow knows of it.
SuccessShown ==
    /\ Cached.phase = "Succeeded"
    /\ wk.pc # "idle" => wf.phase = "Succeeded"
    /\ \E k \in 1 .. Len(log) : /\ log[k].phase = "Succeeded"
                                /\ crs[log[k].cr].conclusion = "success"

\* Past the progress update of a success GitHub shows it; the steps that are
\* left to offer are those of a success; and so are those offered.
Offering ==
    /\ wk.pc \in Completing /\ wf.phase = "Succeeded" => crs[wf.cr].conclusion = "success"
    /\ wk.pc = "offer" /\ wk.tasks # <<>> => wf.phase = "Succeeded"
    /\ (\E t \in TaskSet : manual[t] > 0) => SuccessShown

\* A check run that shows the success goes on showing it.
LEMMA SuccessIsKept ==
    ASSUME Inv, DeadIsLast, [Next]_vars, Latest.phase = "Succeeded",
           wk.pc # "idle" => wf.phase = "Succeeded",
           NEW c \in 1 .. Len(crs), crs[c].conclusion = "success"
    PROVE  crs'[c].conclusion = "success"
<1>1. ~Cancelled(c)
  BY CancelledIsLast DEF Finished, FinalPhases
<1>2. CASE Told(c)
  <2>1. wf.phase = "Succeeded"
    BY <1>2 DEF Told, Syncing
  <2> QED
    BY <1>2, <2>1 DEF Told, completionStatus
<1> QED
  BY <1>1, <1>2, Reports

\* What the cache or the worker knows to have succeeded has.
LEMMA LatestSucceeded ==
    ASSUME Inv, SuccessStays,
           Cached.phase = "Succeeded" \/ (wk.pc # "idle" /\ wf.phase = "Succeeded")
    PROVE  Latest.phase = "Succeeded"
<1>1. Len(log) \in 1 .. Len(log) /\ seen \in 1 .. Len(log)
  BY EventsType, LatestFacts
<1>2. wk.pc # "idle" => wk.rv \in 1 .. Len(log)
  BY Busy
<1> QED
  BY <1>1, <1>2 DEF SuccessStays, Latest, Cached, wf

\* A success that is shown stays shown.
LEMMA ShownIsKept ==
    ASSUME Inv, ResetOK, DeadIsLast, Position, SuccessStays, SuccessShown, [Next]_vars
    PROVE  SuccessShown'
<1>0. Latest.phase = "Succeeded"
  BY LatestSucceeded DEF SuccessShown
<1>1. Cached'.phase = "Succeeded"
  <2>1. seen \in 1 .. seen' /\ seen' \in 1 .. Len(log') /\ log'[seen] = log[seen]
    BY CacheMoves, LongerHistory
  <2>2. log'[seen].phase = "Succeeded"
    BY <2>1 DEF SuccessShown, Cached
  <2>3. log'[seen'].phase = "Succeeded"
    BY <2>1, <2>2, SuccessKept DEF SuccessStays
  <2> QED
    BY <2>3 DEF Cached
<1>2. ASSUME wk'.pc # "idle" PROVE wf'.phase = "Succeeded"
  <2>1. CASE SameCopy
    BY <2>1, CopyStays DEF SameCopy, SuccessShown
  <2>2. CASE (TakeSync \/ TakeReset) /\ wk'.rv = seen
    <3>1. wf' = Cached
      BY <2>2 DEF TakeSync, TakeReset, wf, Cached
    <3> QED
      BY <3>1 DEF SuccessShown
  <2>3. CASE GoesOn
    BY <1>0, <2>3, ResetStores DEF RunsAgain
  <2> QED
    BY <1>2, <2>1, <2>2, <2>3, WorkerMoves
<1>3. \E k \in 1 .. Len(log') : /\ log'[k].phase = "Succeeded"
                                /\ crs'[log'[k].cr].conclusion = "success"
  <2>1. PICK k \in 1 .. Len(log) : /\ log[k].phase = "Succeeded"
                                   /\ crs[log[k].cr].conclusion = "success"
    BY DEF SuccessShown
  <2>2. log[k].cr \in 1 .. Len(crs) /\ k \in 1 .. Len(log') /\ log'[k] = log[k]
    BY LongerHistory, HistoryGrows DEF Inv, CheckRunIds
  <2>3. crs'[log[k].cr].conclusion = "success"
    BY <1>0, <2>1, <2>2, SuccessIsKept DEF SuccessShown
  <2> QED
    BY <2>1, <2>2, <2>3
<1> QED
  BY <1>1, <1>2, <1>3 DEF SuccessShown

\* How the worker comes to complete a check run, and to offer steps.
LEMMA BeginsToComplete ==
    ASSUME Inv, [Next]_vars, wk'.pc \in Completing
    PROVE  /\ SameCopy
           /\ wk.pc \in Completing \/ Status
           /\ wk'.pc = "offer" => CollectLogs \/ Offer \/ wk' = wk
<1>1. SameCopy
  BY WorkerMoves DEF Completing, GoesOn
<1>2. wk.pc \in Completing \/ Status
  BY OtherSteps DEF CollectLogs, Offer, AddActions, PostBatch, PublishGet, At, Completing
<1>3. ASSUME Status \/ AddActions \/ PostBatch \/ PublishGet PROVE wk'.pc # "offer"
  <2>1. wk \in Workers /\ Idle(wk.rv).pc # "offer"
    BY DEF Inv, TypeOK, Idle
  <2> QED
    BY <1>3, <2>1 DEF Status, AddActions, PostBatch, PublishGet, Goto, Done, At, Workers
<1> QED
  BY <1>1, <1>2, <1>3, OtherSteps

\* Every step keeps Offering, when no call fails.
LEMMA OfferingKept ==
    Inv /\ ResetOK /\ DeadIsLast /\ Position /\ SuccessStays /\ budget["fault"] = 0
        /\ Offering /\ [Next]_vars
      => Offering'
<1> SUFFICES ASSUME Inv, ResetOK, DeadIsLast, Position, SuccessStays, budget["fault"] = 0,
                    Offering, [Next]_vars
             PROVE  Offering'
  OBVIOUS
<1>1. ASSUME wk'.pc \in Completing, wf'.phase = "Succeeded"
      PROVE  crs'[wf'.cr].conclusion = "success"
  <2>1. SameCopy /\ wf' = wf /\ wf.phase = "Succeeded" /\ wk.pc # "idle"
    BY <1>1, BeginsToComplete, CopyStays DEF SameCopy
  <2>2. CASE wk.pc \in Completing
    <3>1. wf.cr \in 1 .. Len(crs) /\ crs[wf.cr].conclusion = "success"
      BY <2>1, <2>2, Busy DEF Offering
    <3> QED
      BY <2>1, <3>1, LatestSucceeded, SuccessIsKept
  <2>3. CASE Status
    <3>1. Report(0)
      BY <2>3 DEF Status
    <3> QED
      BY <2>1, <3>1, ReportArrives DEF completionStatus
  <2> QED
    BY <1>1, <2>2, <2>3, BeginsToComplete
<1>2. ASSUME wk'.pc = "offer", wk'.tasks # <<>> PROVE wf'.phase = "Succeeded"
  <2>1. SameCopy /\ wf' = wf
    BY <1>2, BeginsToComplete, CopyStays DEF Completing
  <2>2. CASE CollectLogs
    <3>1. PICK anns, tasks :
             /\ wk' = [wk EXCEPT !.pc = "offer", !.anns = anns, !.tasks = tasks]
             /\ tasks # <<>> => wf.phase = "Succeeded"
      BY <2>2 DEF CollectLogs
    <3>2. wk'.tasks = tasks
      BY <3>1 DEF Inv, TypeOK, Workers
    <3> QED
      BY <1>2, <2>1, <3>1, <3>2
  <2>3. CASE Offer
    BY <2>1, <2>3 DEF Offer, At, Offering
  <2>4. CASE wk' = wk
    BY <1>2, <2>1, <2>4 DEF Offering
  <2> QED
    BY <1>2, <2>2, <2>3, <2>4, BeginsToComplete DEF Completing
<1>3. ASSUME \E t \in TaskSet : manual'[t] > 0 PROVE SuccessShown'
  <2>1. CASE manual' = manual
    BY <1>3, <2>1, ShownIsKept DEF Offering
  <2>2. CASE Offer
    <3>1. wk.pc = "offer" /\ wk.tasks # <<>> /\ wf.phase = "Succeeded"
      BY <2>2 DEF Offer, At, Offering
    <3>2. crs[wf.cr].conclusion = "success" /\ wk.rv \in 1 .. Len(log)
      BY <3>1, Busy DEF Offering, Completing
    <3>3. wk.rv <= seen /\ seen \in 1 .. Len(log)
      BY <3>1, EventsType DEF Position, Syncing, Resetting
    <3>4. Cached.phase = "Succeeded"
      BY <3>1, <3>2, <3>3 DEF SuccessStays, Cached, wf
    <3>5. SuccessShown
      BY <3>1, <3>2, <3>4 DEF SuccessShown, wf
    <3> QED
      BY <3>5, ShownIsKept
  <2>3. manual' = manual \/ Offer
    <3>1. CASE WorkerStep
      BY <3>1 DEF WorkerStep, TakeGone, TakeSettled, TakeReset, TakeSync, ResetCreate, ResetPut,
         ReadInfo, Deploy, DeployKnown, DeployCreate, RecordGet, RecordPut, DeployStatus,
         Unreported, Status, CollectLogs, AddActions, PostBatch, PublishGet, PublishPut,
         githubVars
    <3>2. CASE ~WorkerStep
      BY <3>2 DEF Next, vars, githubVars, doDelete, Cancel, Crash
    <3> QED
      BY <3>1, <3>2
  <2> QED
    BY <2>1, <2>2, <2>3
<1> QED
  BY <1>1, <1>2, <1>3 DEF Offering

\* As long as no call fails, a manual step is only ever offered when GitHub
\* shows the run it follows as a success - and still does, whatever retries,
\* deletions, cancellations and restarts come before and after it
\* (nextCheckRunsForWorkflow runs after the progress update).
THEOREM OfferedOnSuccess ==
    ASSUME Absent("fault") PROVE Spec => []OfferedAfterSuccess
<1> DEFINE NoFault == budget["fault"] = 0
<1>1. Init => NoFault
  BY AbsentInitially DEF BudgetKeys
<1>2. Inv /\ NoFault /\ [Next]_vars => NoFault'
  BY StaysAbsent DEF BudgetKeys
<1>3. Init => Position /\ Offering /\ SuccessStays
  <2> SUFFICES ASSUME Init PROVE Position /\ Offering /\ SuccessStays
    OBVIOUS
  <2>1. Position
    BY FirstVersion DEF Position, Syncing, Resetting
  <2>2. Offering
    <3>1. \A t \in TaskSet : manual[t] = 0
      BY DEF Init
    <3> QED
      BY <3>1, FirstVersion DEF Offering, Completing
  <2>3. SuccessStays
    <3>1. \A k \in 1 .. 1 : k = 1
      OBVIOUS
    <3> QED
      BY <3>1, FirstVersion DEF SuccessStays
  <2> QED
    BY <2>1, <2>2, <2>3
<1>4. Inv /\ Offering => OfferedAfterSuccess
  <2> SUFFICES ASSUME Inv, Offering PROVE OfferedAfterSuccess
    OBVIOUS
  <2>1. DOMAIN log = 1 .. Len(log)
    BY LatestFacts
  <2> QED
    BY <2>1 DEF Offering, OfferedAfterSuccess, SuccessShown
<1>5. WakeInv => DeadIsLast
  BY DEF WakeInv
<1>6. Inv /\ ResetOK /\ DeadIsLast /\ Position /\ SuccessStays /\ NoFault
        /\ Offering /\ [Next]_vars => Offering'
  BY OfferingKept
<1> HIDE DEF NoFault
<1> QED
  BY <1>1, <1>2, <1>3, <1>4, <1>5, <1>6, Initially, Stepwise, ResetInitially, ResetKept,
     WakeInitially, WakeKept, PositionKept, SuccessKept, PTL DEF Spec

-----------------------------------------------------------------------------
(* A deployment keeps its final state.                                     *)

FinalStates == {"success", "failure", "error"}

\* Version v says state st of node n.
Agrees(v, n, st) == deployStatusFromPhase(v.node[n]) = st

\* So does the version at k of history h, or it is one that a reset replaced by
\* one that does.
Settled(h, k, n, st) ==
    \/ Agrees(h[k], n, st)
    \/ h[k].published /\ k < Len(h) /\ Agrees(h[k + 1], n, st)

\* The cache and the worker's copy agree with every final state that is shown.
FinalAgrees ==
    \A d \in 1 .. Len(deps) : Reported(deps[d].state) \in FinalStates =>
        /\ Settled(log, seen, deps[d].node, Reported(deps[d].state))
        /\ wk.pc # "idle" => Settled(log, wk.rv, deps[d].node, Reported(deps[d].state))

\* The states that GitHub shows as final come from final phases.
LEMMA FinalPhaseOf ==
    ASSUME NEW v \in Versions, NEW n \in DeployNodes, NEW st \in FinalStates, Agrees(v, n, st)
    PROVE  v.node[n] \in FinalPhases
BY DEF Versions, NodePhases, deployStatusFromPhase, FinalStates, FinalPhases, Agrees

\* What a version says of a final state, later ones say too.
LEMMA AgreesLater ==
    ASSUME NEW h \in Seq(Versions), FinalIn(h), NEW k \in 1 .. Len(h), NEW j \in 1 .. k,
           NEW n \in DeployNodes, NEW st \in FinalStates, Agrees(h[j], n, st)
    PROVE  Agrees(h[k], n, st)
<1>1. j \in 1 .. Len(h) /\ h[j] \in Versions
  OBVIOUS
<1>2. h[j].node[n] \in FinalPhases
  BY <1>1, FinalPhaseOf
<1> QED
  BY <1>1, <1>2 DEF FinalIn, Agrees

\* A version that comes later than a settled one is settled.
LEMMA SettledLater ==
    ASSUME NEW h \in Seq(Versions), FinalIn(h), NEW k \in 1 .. Len(h), NEW j \in 1 .. k,
           NEW n \in DeployNodes, NEW st \in FinalStates, Settled(h, j, n, st)
    PROVE  Settled(h, k, n, st)
<1>1. CASE Agrees(h[j], n, st)
  BY <1>1, AgreesLater DEF Settled
<1>2. CASE k > j /\ Agrees(h[j + 1], n, st)
  <2>1. j + 1 \in 1 .. k
    BY <1>2
  <2> QED
    BY <1>2, <2>1, AgreesLater DEF Settled
<1> QED
  BY <1>1, <1>2 DEF Settled

\* A settled version stays settled as the history grows.
LEMMA SettledStays ==
    ASSUME Inv, [Next]_vars, NEW k \in 1 .. Len(log), NEW n, NEW st, Settled(log, k, n, st)
    PROVE  Settled(log', k, n, st) /\ k \in 1 .. Len(log')
BY HistoryGrows DEF Settled

\* Who changes what was reported of a deployment: it stays, the deployment is
\* new, or it is what the worker's copy says.
LEMMA DeploymentSteps ==
    ASSUME Inv, [Next]_vars
    PROVE  /\ Len(deps) \in Nat /\ Len(deps') \in Nat /\ Len(deps') >= Len(deps)
           /\ \A d \in 1 .. Len(deps) :
                /\ deps'[d].node = deps[d].node /\ deps[d].node \in DeployNodes
                /\ \/ Reported(deps'[d].state) = Reported(deps[d].state)
                   \/ /\ DeployStatus /\ Syncing
                      /\ Reported(deps'[d].state) =
                            deployStatusFromPhase(wf.node[deps[d].node])
           /\ \A d \in 1 .. Len(deps') : d \in 1 .. Len(deps) \/ deps'[d].state = "none"
<1>1. deps \in Seq(Deployments) /\ Len(deps) \in Nat
  BY LenProperties DEF Inv, TypeOK
<1>2. \A d \in 1 .. Len(deps) : deps[d].node \in DeployNodes
  <2>1. \A d \in 1 .. Len(deps) : deps[d] \in Deployments
    BY <1>1
  <2> QED
    BY <2>1 DEF Deployments
<1>3. ASSUME NEW n \in DeployNodes, deps' = Append(deps, [node |-> n, state |-> "none"])
      PROVE  /\ Len(deps') = Len(deps) + 1
             /\ deps'[Len(deps) + 1].state = "none"
             /\ \A d \in 1 .. Len(deps) : deps'[d] = deps[d]
  <2> DEFINE new == [node |-> n, state |-> "none"]
  <2>1. new \in Deployments /\ new.state = "none" /\ deps' = Append(deps, new)
    BY <1>3 DEF Deployments, DeployStates
  <2> HIDE DEF new
  <2> QED
    BY <1>1, <2>1, AppendProperties
<1>4. ASSUME DeployStatus, NEW n \in wk.cur,
             CreateDeploymentStatus(wk.ids[n], deployStatusFromPhase(wf.node[n]))
      PROVE  /\ Len(deps') = Len(deps)
             /\ \A d \in 1 .. Len(deps) :
                   /\ deps'[d].node = deps[d].node
                   /\ \/ Reported(deps'[d].state) = Reported(deps[d].state)
                      \/ Reported(deps'[d].state) =
                            deployStatusFromPhase(wf.node[deps[d].node])
  <2>1. wk.pc = "deployStatus"
    BY <1>4 DEF DeployStatus, At
  <2> DEFINE i == wk.ids[n]
             st == deployStatusFromPhase(wf.node[n])
  <2>2. n \in DeployNodes /\ i \in 1 .. Len(deps) /\ deps[i].node = n
    BY <1>4, <2>1, Busy DEF ValidIds, Workers
  <2>3. st \in DeployStates /\ st # "inactive"
    BY DEF deployStatusFromPhase, DeployStates
  <2>4. CreateDeploymentStatus(i, st)
    BY <1>4
  <2> HIDE DEF i
  <2>5. /\ Len(deps') = Len(deps)
        /\ \A d \in 1 .. Len(deps) :
             /\ deps'[d].node = deps[d].node
             /\ deps'[d].state = IF d = i THEN st
                                 ELSE IF Retires(i, st, d) THEN "inactive"
                                 ELSE deps[d].state
    BY <1>1, <2>2, <2>3, <2>4, DeploymentStatusType
  <2>6. \A d \in 1 .. Len(deps) : Retires(i, st, d) => deps[d].state = "success"
    BY DEF Retires
  <2> QED
    BY <2>2, <2>3, <2>5, <2>6 DEF Reported
<1>5. CASE DeployStatus
  <2>1. Syncing
    BY <1>5 DEF DeployStatus, At, Syncing, Resetting
  <2>2. \/ deps' = deps
        \/ \E n \in wk.cur :
              CreateDeploymentStatus(wk.ids[n], deployStatusFromPhase(wf.node[n]))
    BY <1>5 DEF DeployStatus
  <2>3. CASE deps' = deps
    BY <1>1, <1>2, <2>3
  <2>4. CASE deps' # deps
    <3>1. /\ Len(deps') = Len(deps)
          /\ \A d \in 1 .. Len(deps) :
                   /\ deps'[d].node = deps[d].node
                   /\ \/ Reported(deps'[d].state) = Reported(deps[d].state)
                      \/ Reported(deps'[d].state) =
                            deployStatusFromPhase(wf.node[deps[d].node])
      BY <1>4, <1>5, <2>2, <2>4
    <3> QED
      BY <1>1, <1>2, <1>5, <2>1, <3>1
  <2> QED
    BY <2>3, <2>4
<1>6. CASE \E n \in DeployNodes : DeployCreate(n)
  BY <1>1, <1>2, <1>3, <1>6 DEF DeployCreate
<1>7. CASE deps' = deps
  BY <1>1, <1>2, <1>7
<1>8. CASE ~DeployStatus /\ ~(\E n \in DeployNodes : DeployCreate(n))
  <2>1. CASE WorkerStep
    <3>1. deps' = deps
      BY <1>8, <2>1 DEF WorkerStep, TakeGone, TakeSettled, TakeReset, TakeSync, ResetCreate,
       ResetPut, ReadInfo, Deploy, DeployKnown, RecordGet, RecordPut, Unreported, Status,
       CollectLogs, Offer, AddActions, PostBatch, PublishGet, PublishPut, githubVars
    <3> QED
      BY <1>7, <3>1
  <2>2. CASE ~WorkerStep
    <3>1. deps' = deps
      BY <2>2 DEF Next, vars, githubVars, doDelete, Cancel, Crash
    <3> QED
      BY <1>7, <3>1
  <2> QED
    BY <2>1, <2>2
<1> QED
  BY <1>5, <1>6, <1>8

\* What the worker's copy says of a node that is over, the cache says too, or
\* it still holds the version that the reset replaced.
LEMMA CopySettles ==
    ASSUME Inv, Position, FinalStays, Syncing, NEW n \in DeployNodes, NEW st \in FinalStates,
           Agrees(wf, n, st)
    PROVE  Settled(log, seen, n, st)
<1>1. /\ wk.rv \in 1 .. Len(log) /\ seen \in 1 .. Len(log) /\ log \in Seq(Versions)
      /\ Len(log) \in Nat
  BY Busy, EventsType DEF Syncing
<1>2. CASE wk.rv <= seen
  <2>1. wk.rv \in 1 .. seen /\ Agrees(log[wk.rv], n, st) /\ FinalIn(log)
    BY <1>1, <1>2 DEF wf, FinalStays
  <2> QED
    BY <1>1, <2>1, AgreesLater DEF Settled
<1>3. CASE wk.rv = seen + 1 /\ Cached.published
  BY <1>1, <1>3 DEF Settled, wf, Cached
<1> QED
  BY <1>2, <1>3 DEF Position

\* A synced copy agrees with every final state that is shown.
LEMMA CopyAgrees ==
    ASSUME Inv, Position, FinalAgrees, Syncing, NEW d \in 1 .. Len(deps),
           Reported(deps[d].state) \in FinalStates
    PROVE  Agrees(wf, deps[d].node, Reported(deps[d].state))
BY DEF FinalAgrees, Position, Settled, Syncing, wf

\* Every step keeps FinalAgrees, when there are no retries.
LEMMA FinalAgreesKept ==
    Inv /\ Settling /\ FinalAgrees /\ [Next]_vars => FinalAgrees'
<1> SUFFICES ASSUME Inv, Settling, FinalAgrees, [Next]_vars PROVE FinalAgrees'
  OBVIOUS
<1> SUFFICES ASSUME NEW d \in 1 .. Len(deps'), Reported(deps'[d].state) \in FinalStates
             PROVE  /\ Settled(log', seen', deps'[d].node, Reported(deps'[d].state))
                    /\ wk'.pc # "idle" =>
                          Settled(log', wk'.rv, deps'[d].node, Reported(deps'[d].state))
  BY DEF FinalAgrees
<1>0. PICK n, st : n = deps'[d].node /\ st = Reported(deps'[d].state)
  OBVIOUS
<1>1. /\ d \in 1 .. Len(deps) /\ deps[d].node = n /\ n \in DeployNodes /\ st \in FinalStates
      /\ log \in Seq(Versions) /\ log' \in Seq(Versions)
  BY <1>0, DeploymentSteps, Stepwise DEF FinalStates, Reported, Inv, TypeOK, TypeOKStore
<1>2. ResetOK /\ Position /\ FinalStays /\ FinalIn(log')
  BY SettlingKept DEF Settling, FinalStays
<1>3. /\ Settled(log, seen, n, st)
      /\ wk.pc # "idle" => Settled(log, wk.rv, n, st)
  <2>1. CASE Reported(deps[d].state) = st
    BY <1>1, <2>1 DEF FinalAgrees
  <2>2. CASE Syncing /\ Agrees(wf, n, st)
    BY <1>1, <1>2, <2>2, CopySettles DEF Settled, wf
  <2> QED
    BY <1>0, <1>1, <2>1, <2>2, DeploymentSteps DEF Agrees
<1>4. /\ Settled(log', seen, n, st)
      /\ wk.pc # "idle" => Settled(log', wk.rv, n, st)
  <2>1. seen \in 1 .. Len(log) /\ (wk.pc # "idle" => wk.rv \in 1 .. Len(log))
    BY Busy, EventsType
  <2> QED
    BY <1>3, <2>1, SettledStays
<1>5. Settled(log', seen', n, st)
  <2>1. seen \in 1 .. seen' /\ seen' \in 1 .. Len(log')
    BY CacheMoves
  <2> QED
    BY <1>1, <1>2, <1>4, <2>1, SettledLater
<1>6. ASSUME wk'.pc # "idle" PROVE Settled(log', wk'.rv, n, st)
  <2>1. CASE SameCopy
    BY <1>4, <2>1 DEF SameCopy
  <2>2. CASE wk'.rv = seen
    BY <1>4, <2>2
  <2>3. CASE GoesOn
    <3>0. seen = Len(log) /\ SameRun /\ wk'.rv = Len(log')
      BY <1>2, <2>3, ResetStores DEF GoesOn
    <3>1. Agrees(Latest, n, st)
      BY <1>3, <3>0, EventsType DEF Settled, Latest
    <3>2. Latest'.node = Latest.node /\ log'[wk'.rv] = Latest'
      BY <3>0 DEF SameRun, Latest
    <3> QED
      BY <3>1, <3>2 DEF Agrees, Settled
  <2> QED
    BY <1>6, <2>1, <2>2, <2>3, WorkerMoves
<1> QED
  BY <1>0, <1>5, <1>6

\* As long as nobody retries the workflow, what was reported of a deployment
\* that has ended stays: no sync of an older copy, of the copy a reset stored, or
\* after a restart takes it back (syncDeployments reports the node of the copy it
\* holds, on the id that copy or the worker recorded).  GitHub may retire a
\* success; a failure or an unfinished state never takes its place.
THEOREM DeploymentIsFinal ==
    ASSUME Absent("retry") PROVE Spec => DeploymentStays
<1> DEFINE Kept == \A d \in DOMAIN deps :
                       Reported(deps[d].state) \in {"success", "failure", "error"} =>
                           Reported(deps'[d].state) = Reported(deps[d].state)
<1>1. Init => FinalAgrees
  <2>1. Init => Len(deps) = 0
    BY DEF Init
  <2> QED
    BY <2>1 DEF FinalAgrees
<1>2. Inv /\ Settling /\ FinalAgrees /\ [Next]_vars => [Kept]_deps
  <2> SUFFICES ASSUME Inv, Settling, FinalAgrees, [Next]_vars,
                      NEW d \in DOMAIN deps, Reported(deps[d].state) \in FinalStates
               PROVE  Reported(deps'[d].state) = Reported(deps[d].state)
    BY DEF FinalStates
  <2>1. d \in 1 .. Len(deps)
    BY DEF Inv, TypeOK
  <2>2. CASE /\ Syncing
             /\ Reported(deps'[d].state) = deployStatusFromPhase(wf.node[deps[d].node])
    BY <2>1, <2>2, CopyAgrees DEF Settling, Agrees
  <2> QED
    BY <2>1, <2>2, DeploymentSteps
<1>3. Spec => [](Inv /\ Settling /\ FinalAgrees)
  BY <1>1, Initially, Stepwise, SettlingInitially, SettlingKept, FinalAgreesKept, PTL DEF Spec
<1>4. [](Inv /\ Settling /\ FinalAgrees) /\ [][Next]_vars => [][Kept]_deps
  BY <1>2, PTL
<1> QED
  BY <1>3, <1>4, PTL DEF Spec, DeploymentStays
==============================================================================
