------------------------ MODULE CheckRunSync_proofs --------------------------
(* Proofs about CheckRunSync for every set of deploying nodes, every list  *)
(* of manual steps, every number of annotations and every budget.          *)
EXTENDS CheckRunSync, SequenceTheorems, TLAPS

\* The steps in which the worker holds a copy that completeCheckRun accepted.
Completing == {"logs", "offer", "annotate", "publishPut"}

\* The steps in which it holds a node.
Recording == {"recordGet", "recordPut", "deployStatus"}

\* The worker's copy is a stored version, and past the progress update of a
\* completed run it is one that completes.
CopyOK ==
    /\ wk.rv <= Len(log)
    /\ wk.pc # "idle" => wk.rv > 0
    /\ wk.pc \in Completing => Completes(wf)

\* Every check run the object points at, or is about to, exists.
CheckRunIds ==
    /\ \A k \in 1 .. Len(log) : log[k].cr \in 1 .. Len(crs)
    /\ wk.pc = "resetPut" => wk.fresh \in 1 .. Len(crs)

\* The ids in a map of deployments are those of deployments of the same node.
ValidIds(ids) ==
    \A n \in DeployNodes : ids[n] # 0 =>
        ids[n] \in 1 .. Len(deps) /\ deps[ids[n]].node = n

DeploymentIds ==
    /\ \A k \in 1 .. Len(log) : ValidIds(log[k].dep)
    /\ ValidIds(wk.ids)
    /\ \A n \in wk.cur : wk.ids[n] # 0
    /\ wk.cur # {} => wk.pc \in Recording

Inv == TypeOK /\ CopyOK /\ CheckRunIds /\ DeploymentIds

\* Spending keeps the budget a map to numbers.
LEMMA SpendType ==
    ASSUME budget \in [BudgetKeys -> Nat], NEW k \in BudgetKeys, Spend(k)
    PROVE  budget' \in [BudgetKeys -> Nat]
BY DEF Spend

\* Storing a version lengthens the history and keeps what is in it.
LEMMA StoreType ==
    ASSUME log \in Seq(Versions), Len(log) > 0, NEW v \in Versions, Store(v)
    PROVE  /\ log' \in Seq(Versions)
           /\ Len(log') >= Len(log)
           /\ Len(log') > 0
           /\ \A k \in 1 .. Len(log) : log'[k] = log[k]
BY DEF Store

\* Whatever is in the history is a version.
LEMMA StoredType ==
    ASSUME log \in Seq(Versions), NEW k \in 1 .. Len(log)
    PROVE  log[k] \in Versions
OBVIOUS

\* The changes that writers make to a version keep its type: to its phase.
LEMMA SetPhase ==
    ASSUME NEW v \in Versions, NEW p \in Phases
    PROVE  [v EXCEPT !.phase = p] \in Versions
BY DEF Versions

\* Likewise a change to the phase of a node.
LEMMA SetNode ==
    ASSUME NEW v \in Versions, NEW n \in DeployNodes, NEW p \in NodePhases
    PROVE  [v EXCEPT !.node[n] = p] \in Versions
BY DEF Versions

\* Likewise a retry.
LEMMA SetRetried ==
    ASSUME NEW v \in Versions, NEW f \in [DeployNodes -> NodePhases], NEW p \in Phases
    PROVE  [v EXCEPT !.phase = p, !.ads = FALSE, !.node = f] \in Versions
BY DEF Versions

\* Likewise a deletion.
LEMMA SetGone ==
    ASSUME NEW v \in Versions
    PROVE  [v EXCEPT !.live = FALSE] \in Versions
BY DEF Versions

\* Likewise a cancellation.
LEMMA SetDeadline ==
    ASSUME NEW v \in Versions
    PROVE  [v EXCEPT !.ads = TRUE] \in Versions
BY DEF Versions

\* Likewise publishing.
LEMMA SetPublished ==
    ASSUME NEW v \in Versions
    PROVE  [v EXCEPT !.published = TRUE] \in Versions
BY DEF Versions

\* Likewise recording deployments.
LEMMA SetIds ==
    ASSUME NEW v \in Versions, NEW d \in [DeployNodes -> Nat]
    PROVE  [v EXCEPT !.dep = d] \in Versions
BY DEF Versions

\* Likewise a reset.
LEMMA SetReset ==
    ASSUME NEW v \in Versions, NEW c \in Nat, NEW d \in [DeployNodes -> Nat]
    PROVE  [v EXCEPT !.published = FALSE, !.cr = c, !.dep = d] \in Versions
BY DEF Versions

\* StatusUpdate changes one check run, to a check run.
LEMMA StatusUpdateType ==
    ASSUME crs \in Seq(CheckRuns), NEW c \in 1 .. Len(crs),
           NEW st \in Statuses, NEW con \in Conclusions, NEW n \in Nat,
           StatusUpdate(c, st, con, n)
    PROVE  /\ crs' \in Seq(CheckRuns) /\ Len(crs') = Len(crs)
           /\ \A d \in 1 .. Len(crs) : d # c => crs'[d] = crs[d]
           /\ crs'[c].status = st /\ crs'[c].conclusion = con
<1> DEFINE r == [status |-> st, conclusion |-> con, anns |-> crs[c].anns + n]
<1>1. crs[c] \in CheckRuns
  OBVIOUS
<1>2. r \in CheckRuns
  BY <1>1 DEF CheckRuns
<1>3. crs' = [crs EXCEPT ![c] = r] /\ r.status = st /\ r.conclusion = con
  BY DEF StatusUpdate
<1> HIDE DEF r
<1> QED
  BY <1>2, <1>3, ExceptSeq

\* completionStatus gives a status and a conclusion GitHub knows.
LEMMA CompletionType ==
    ASSUME NEW v \in Versions, completionStatus(v).status # "none"
    PROVE  completionStatus(v).status \in Statuses /\ completionStatus(v).conclusion \in Conclusions
BY DEF completionStatus, Versions, Phases, Statuses, Conclusions

\* The invariant holds at the start, for a fresh and for a resubmitted workflow.
LEMMA Initially == Init => Inv
<1> SUFFICES ASSUME Init PROVE Inv
  OBVIOUS
<1>1. Fresh \in Versions /\ Resubmitted \in Versions
  BY DEF Fresh, Resubmitted, Versions, Phases, NodePhases, NoIds
<1>0. PICK v \in {Fresh, Resubmitted} : InitStore(v)
  BY DEF Init
<1>2. log \in Seq(Versions) /\ Len(log) = 1 /\ log[1] \in {Fresh, Resubmitted}
  BY <1>0, <1>1 DEF InitStore
<1>3. TypeOKStore
  BY <1>0, <1>2, BudgetAssumption DEF InitStore, TypeOKStore
<1>4. crs \in Seq(CheckRuns) /\ Len(crs) = 1
  <2>1. NewCheckRun \in CheckRuns
    BY DEF NewCheckRun, CheckRuns, Statuses, Conclusions
  <2>2. [status |-> "completed", conclusion |-> "failure", anns |-> NAnn] \in CheckRuns
    BY ConstantsAssumption DEF CheckRuns, Statuses, Conclusions
  <2>3. PICK c \in CheckRuns : crs = <<c>>
    BY <2>1, <2>2 DEF Init
  <2> QED
    BY <2>3
<1>5. manual \in [TaskSet -> Nat] /\ deps \in Seq(Deployments)
  BY DEF Init
<1>6. wk \in Workers
  BY DEF Init, Workers, Idle, NoIds, Steps
<1>7. CopyOK
  BY <1>2 DEF CopyOK, Init, Idle, Completing
<1>8. CheckRunIds
  BY <1>2, <1>4 DEF CheckRunIds, Init, Idle, Fresh, Resubmitted
<1>9. DeploymentIds
  BY <1>2 DEF DeploymentIds, ValidIds, Recording, Init, Idle, NoIds, Fresh, Resubmitted
<1> QED
  BY <1>3, <1>4, <1>5, <1>6, <1>7, <1>8, <1>9 DEF Inv, TypeOK

\* What the worker's record owes the invariant; x is the record after a step.
WorkerOK(x) ==
    /\ x \in Workers
    /\ x.rv <= Len(log)
    /\ x.pc # "idle" => x.rv > 0
    /\ x.pc \in Completing => Completes(log[x.rv])
    /\ ValidIds(x.ids)
    /\ \A n \in x.cur : x.ids[n] # 0
    /\ x.cur # {} => x.pc \in Recording

\* A worker between two syncs is in order.
LEMMA IdleOK ==
    ASSUME log \in Seq(Versions), NEW rv \in 0 .. Len(log)
    PROVE  WorkerOK(Idle(rv)) /\ Idle(rv).pc = "idle"
<1>1. Idle(rv) \in Workers
  BY DEF Idle, Workers, Steps, NoIds
<1>2. Idle(rv).pc = "idle" /\ Idle(rv).rv = rv /\ Idle(rv).ids = NoIds /\ Idle(rv).cur = {}
  BY DEF Idle
<1> QED
  BY <1>1, <1>2 DEF WorkerOK, ValidIds, NoIds, Completing

\* A worker that has just taken up a version is in order.
LEMMA BeginOK ==
    ASSUME log \in Seq(Versions), NEW rv \in 1 .. Len(log),
           NEW pc \in {"info", "resetCreate"}, NEW x, x = [Idle(rv) EXCEPT !.pc = pc]
    PROVE  WorkerOK(x) /\ x.pc = pc
<1>1. Idle(rv) \in Workers
  BY IdleOK DEF WorkerOK
<1>2. x \in Workers
  BY <1>1 DEF Workers, Steps
<1>3. x.pc = pc /\ x.rv = rv /\ x.ids = NoIds /\ x.cur = {}
  BY <1>1 DEF Workers, Idle
<1> QED
  BY <1>2, <1>3 DEF WorkerOK, ValidIds, NoIds, Completing

\* A step within a sync: the copy stays, the position moves to pc.
LEMMA MoveOK ==
    ASSUME Inv, wk.pc # "idle", NEW x \in Workers, x.rv = wk.rv,
           x.pc \in Completing => Completes(wf),
           ValidIds(x.ids), \A n \in x.cur : x.ids[n] # 0,
           x.cur # {} => x.pc \in Recording
    PROVE  WorkerOK(x)
BY DEF WorkerOK, Inv, CopyOK, wf

\* A step that changes the worker and the queue only, and may spend.
WorkerFrame ==
    /\ UNCHANGED <<log, seen, events, githubVars>>
    /\ queue' \in [waiting: BOOLEAN, dirty: BOOLEAN]
    /\ budget' \in [BudgetKeys -> Nat]

\* A step that leaves the object and GitHub alone keeps the invariant if it
\* leaves the worker in order.
LEMMA WorkerStepInv ==
    ASSUME Inv, WorkerFrame, WorkerOK(wk'), wk'.pc # "resetPut"
    PROVE  Inv'
<1>1. TypeOK'
  BY DEF Inv, WorkerFrame, WorkerOK, TypeOK, TypeOKStore, githubVars
<1>2. CopyOK'
  BY DEF WorkerFrame, WorkerOK, CopyOK, wf, Completes
<1>3. CheckRunIds'
  BY DEF Inv, WorkerFrame, CheckRunIds, githubVars
<1>4. DeploymentIds'
  BY DEF Inv, WorkerFrame, WorkerOK, DeploymentIds, ValidIds, githubVars
<1> QED
  BY <1>1, <1>2, <1>3, <1>4 DEF Inv

\* What Inv says in the middle of a sync.
LEMMA Busy ==
    ASSUME Inv, wk.pc # "idle"
    PROVE  /\ wk \in Workers /\ wk.rv \in 1 .. Len(log) /\ log \in Seq(Versions)
           /\ wf \in Versions /\ wf.cr \in 1 .. Len(crs)
           /\ ValidIds(wf.dep) /\ ValidIds(wk.ids) /\ \A n \in wk.cur : wk.ids[n] # 0
           /\ wk.cur # {} => wk.pc \in Recording
           /\ WorkerOK(Idle(wk.rv)) /\ Idle(wk.rv).pc = "idle"
<1>1. wk \in Workers /\ wk.rv \in 1 .. Len(log) /\ log \in Seq(Versions)
  BY DEF Inv, TypeOK, TypeOKStore, CopyOK, Workers
<1>2. wf \in Versions
  BY <1>1 DEF wf
<1>3. wf.cr \in 1 .. Len(crs) /\ ValidIds(wf.dep)
  BY <1>1 DEF Inv, wf, CheckRunIds, DeploymentIds
<1>4. /\ ValidIds(wk.ids) /\ \A n \in wk.cur : wk.ids[n] # 0
      /\ wk.cur # {} => wk.pc \in Recording
  BY DEF Inv, DeploymentIds
<1>5. WorkerOK(Idle(wk.rv)) /\ Idle(wk.rv).pc = "idle"
  BY <1>1, IdleOK
<1> QED
  BY <1>1, <1>2, <1>3, <1>4, <1>5

\* process and the four ways it can begin (controller.go:691-722).
LEMMA TakeInv ==
    ASSUME Inv, TakeGone \/ TakeSettled \/ TakeReset \/ TakeSync
    PROVE  Inv'
<1>1. seen \in 1 .. Len(log) /\ log \in Seq(Versions)
  BY DEF Inv, TypeOK, TypeOKStore
<1>2. WorkerFrame
  BY DEF Inv, TypeOK, TypeOKStore, WorkerFrame, TakeGone, TakeSettled, TakeReset, TakeSync, Take
<1>3. \/ wk' = Idle(seen)
      \/ \E pc \in {"info", "resetCreate"} : wk' = [Idle(seen) EXCEPT !.pc = pc]
  BY DEF TakeGone, TakeSettled, TakeReset, TakeSync
<1>4. WorkerOK(wk') /\ wk'.pc # "resetPut"
  <2>1. CASE wk' = Idle(seen)
    BY <1>1, <2>1, IdleOK
  <2>2. ASSUME NEW pc \in {"info", "resetCreate"}, wk' = [Idle(seen) EXCEPT !.pc = pc]
        PROVE  WorkerOK(wk') /\ wk'.pc # "resetPut"
    <3>1. WorkerOK(wk') /\ wk'.pc = pc
      BY <1>1, <2>2, BeginOK
    <3> QED
      BY <3>1
  <2> QED
    BY <1>3, <2>1, <2>2
<1> QED
  BY <1>2, <1>4, WorkerStepInv

\* githubInfoFromWorkflow keeps the invariant.
LEMMA ReadInfoInv == ASSUME Inv, ReadInfo PROVE Inv'
<1>1. wk.pc = "info"
  BY DEF ReadInfo, At
<1>2. WorkerFrame
  BY SpendType DEF ReadInfo, Inv, TypeOK, TypeOKStore, WorkerFrame, BudgetKeys
<1>3. CASE Done
  BY <1>1, <1>2, <1>3, Busy, WorkerStepInv DEF Done
<1>4. CASE ~Done
  <2>1. PICK todo \in SUBSET DeployNodes :
           wk' = [wk EXCEPT !.pc = "deploy", !.ids = wf.dep, !.todo = todo]
    BY <1>4 DEF ReadInfo
  <2>2. wf.dep \in [DeployNodes -> Nat]
    BY <1>1, Busy DEF Versions
  <2>3. wk' \in Workers
    BY <1>1, <2>1, <2>2, Busy DEF Workers, Steps
  <2>4. wk'.pc = "deploy" /\ wk'.rv = wk.rv /\ wk'.ids = wf.dep /\ wk'.cur = {}
    BY <1>1, <2>1, Busy DEF Workers, Recording
  <2>5. WorkerOK(wk')
    BY <1>1, <2>3, <2>4, Busy, MoveOK DEF Completing
  <2> QED
    BY <1>2, <2>4, <2>5, WorkerStepInv
<1> QED
  BY <1>3, <1>4

\* Passing over a node whose deployment is known keeps the invariant.
LEMMA DeployKnownInv ==
    ASSUME Inv, NEW n \in DeployNodes, DeployKnown(n) PROVE Inv'
<1>1. wk.pc = "deploy" /\ wk.ids[n] # 0
  BY DEF DeployKnown, At
<1>2. WorkerFrame
  BY DEF DeployKnown, storeVars, githubVars, Inv, TypeOK, TypeOKStore, WorkerFrame
<1>3. wk' = [wk EXCEPT !.pc = "deployStatus", !.todo = @ \ {n}, !.cur = {n}]
  BY DEF DeployKnown
<1>4. wk' \in Workers
  BY <1>1, <1>3, Busy DEF Workers, Steps
<1>5. wk'.pc = "deployStatus" /\ wk'.rv = wk.rv /\ wk'.ids = wk.ids /\ wk'.cur = {n}
  BY <1>1, <1>3, Busy DEF Workers
<1>6. WorkerOK(wk')
  BY <1>1, <1>4, <1>5, Busy, MoveOK DEF Completing, Recording
<1> QED
  BY <1>2, <1>5, <1>6, WorkerStepInv

\* Going on with the next node leaves the worker in order.
LEMMA NextNodeOK ==
    ASSUME Inv, wk.pc # "idle", NextNode
    PROVE  WorkerOK(wk') /\ wk'.pc = "deploy"
<1>1. wk' \in Workers
  BY Busy DEF NextNode, Workers, Steps
<1>2. wk'.pc = "deploy" /\ wk'.rv = wk.rv /\ wk'.ids = wk.ids /\ wk'.cur = {}
  BY Busy DEF NextNode, Workers
<1> QED
  BY <1>1, <1>2, Busy, MoveOK DEF Completing

\* Reading the object to record a deployment keeps the invariant.
LEMMA RecordGetInv == ASSUME Inv, RecordGet PROVE Inv'
<1>1. wk.pc = "recordGet"
  BY DEF RecordGet, At
<1>2. WorkerFrame
  BY SpendType DEF RecordGet, Inv, TypeOK, TypeOKStore, WorkerFrame, BudgetKeys
<1>3. CASE NextNode
  BY <1>1, <1>2, <1>3, NextNodeOK, WorkerStepInv
<1>4. CASE ~NextNode
  <2>1. wk' = [wk EXCEPT !.pc = "recordPut", !.got = Len(log)]
    BY <1>4 DEF RecordGet
  <2>0. Len(log) \in Nat
    BY <1>1, Busy, LenProperties
  <2>2. wk' \in Workers
    BY <1>1, <2>0, <2>1, Busy DEF Workers, Steps
  <2>3. wk'.pc = "recordPut" /\ wk'.rv = wk.rv /\ wk'.ids = wk.ids /\ wk'.cur = wk.cur
    BY <1>1, <2>1, Busy DEF Workers
  <2>4. WorkerOK(wk')
    BY <1>1, <2>2, <2>3, Busy, MoveOK DEF Completing, Recording
  <2> QED
    BY <1>2, <2>3, <2>4, WorkerStepInv
<1> QED
  BY <1>3, <1>4

\* A sync of a phase that is not reported keeps the invariant.
LEMMA UnreportedInv == ASSUME Inv, Unreported PROVE Inv'
<1>1. wk.pc = "deploy"
  BY DEF Unreported, At
<1>2. WorkerFrame
  BY DEF Unreported, storeVars, githubVars, Inv, TypeOK, TypeOKStore, WorkerFrame
<1> QED
  BY <1>1, <1>2, Busy, WorkerStepInv DEF Unreported, Done

\* Collecting annotations from the logs keeps the invariant.
LEMMA CollectLogsInv == ASSUME Inv, CollectLogs PROVE Inv'
<1>1. wk.pc = "logs" /\ Completes(wf)
  BY DEF CollectLogs, At, Inv, CopyOK, Completing
<1>2. WorkerFrame
  BY SpendType DEF CollectLogs, Inv, TypeOK, TypeOKStore, WorkerFrame, BudgetKeys
<1>3. <<>> \in Seq(TaskSet) /\ Tasks \in Seq(TaskSet) /\ NAnn \in Nat
  BY ConstantsAssumption
<1>4. PICK anns \in Nat, tasks \in Seq(TaskSet) :
         wk' = [wk EXCEPT !.pc = "offer", !.anns = anns, !.tasks = tasks]
  BY <1>3 DEF CollectLogs
<1>6. wk' \in Workers
  BY <1>1, <1>4, Busy DEF Workers, Steps
<1>7. wk'.pc = "offer" /\ wk'.rv = wk.rv /\ wk'.ids = wk.ids /\ wk'.cur = {}
  BY <1>1, <1>4, Busy DEF Workers, Recording
<1>8. WorkerOK(wk')
  BY <1>1, <1>6, <1>7, Busy, MoveOK
<1> QED
  BY <1>2, <1>7, <1>8, WorkerStepInv

\* Reading the object to publish it keeps the invariant.
LEMMA PublishGetInv == ASSUME Inv, PublishGet PROVE Inv'
<1>1. wk.pc = "annotate" /\ Completes(wf)
  BY DEF PublishGet, At, Inv, CopyOK, Completing
<1>2. WorkerFrame
  BY SpendType DEF PublishGet, Inv, TypeOK, TypeOKStore, WorkerFrame, BudgetKeys
<1>3. CASE Done
  BY <1>1, <1>2, <1>3, Busy, WorkerStepInv DEF Done
<1>4. CASE ~Done
  <2>1. wk' = [wk EXCEPT !.pc = "publishPut", !.got = Len(log)]
    BY <1>4 DEF PublishGet
  <2>0. Len(log) \in Nat
    BY <1>1, Busy, LenProperties
  <2>2. wk' \in Workers
    BY <1>1, <2>0, <2>1, Busy DEF Workers, Steps
  <2>3. wk'.pc = "publishPut" /\ wk'.rv = wk.rv /\ wk'.ids = wk.ids /\ wk'.cur = {}
    BY <1>1, <2>1, Busy DEF Workers, Recording
  <2>4. WorkerOK(wk')
    BY <1>1, <2>2, <2>3, Busy, MoveOK
  <2> QED
    BY <1>2, <2>3, <2>4, WorkerStepInv
<1> QED
  BY <1>3, <1>4

-----------------------------------------------------------------------------
(* Steps that change GitHub.                                               *)

\* A step that adds to GitHub keeps the invariant if it leaves the worker in order.
LEMMA GitHubStepInv ==
    ASSUME Inv, UNCHANGED <<log, seen, queue, deps>>,
           events' \in Seq(0 .. Len(log)), budget' \in [BudgetKeys -> Nat],
           crs' \in Seq(CheckRuns), Len(crs') >= Len(crs),
           manual' \in [TaskSet -> Nat], WorkerOK(wk'),
           wk'.pc = "resetPut" => wk'.fresh \in 1 .. Len(crs')
    PROVE  Inv'
<1>1. TypeOK'
  BY DEF Inv, WorkerOK, TypeOK, TypeOKStore
<1>2. CopyOK'
  BY DEF WorkerOK, CopyOK, wf, Completes
<1>3. CheckRunIds'
  BY DEF Inv, CheckRunIds, TypeOK
<1>4. DeploymentIds'
  BY DEF Inv, WorkerOK, DeploymentIds, ValidIds
<1> QED
  BY <1>1, <1>2, <1>3, <1>4 DEF Inv

\* The invariant says that the worker is in order.
LEMMA SelfOK ==
    ASSUME Inv
    PROVE  WorkerOK(wk) /\ (wk.pc = "resetPut" => wk.fresh \in 1 .. Len(crs))
BY DEF Inv, TypeOK, CopyOK, CheckRunIds, DeploymentIds, WorkerOK, wf

\* Creating the check run of a new attempt keeps the invariant.
LEMMA ResetCreateInv == ASSUME Inv, ResetCreate PROVE Inv'
<1>1. wk.pc = "resetCreate"
  BY DEF ResetCreate, At
<1>2. UNCHANGED <<log, seen, queue, deps, events, manual>> /\ budget' \in [BudgetKeys -> Nat]
  BY SpendType DEF ResetCreate, Inv, TypeOK, TypeOKStore, BudgetKeys
<1>3. crs \in Seq(CheckRuns) /\ events \in Seq(0 .. Len(log)) /\ manual \in [TaskSet -> Nat]
  BY DEF Inv, TypeOK, TypeOKStore
<1>4. CASE Done
  <2>1. crs' = crs \/ crs' = Append(crs, NewCheckRun)
    BY DEF ResetCreate
  <2>2. NewCheckRun \in CheckRuns
    BY DEF NewCheckRun, CheckRuns, Statuses, Conclusions
  <2>3. crs' \in Seq(CheckRuns) /\ Len(crs') >= Len(crs)
    BY <1>3, <2>1, <2>2, AppendProperties, LenProperties
  <2> QED
    BY <1>1, <1>2, <1>3, <1>4, <2>3, Busy, GitHubStepInv DEF Done
<1>5. CASE ~Done
  <2>1. /\ crs' = Append(crs, NewCheckRun)
        /\ wk' = [wk EXCEPT !.pc = "resetPut", !.fresh = Len(crs')]
    BY <1>5 DEF ResetCreate
  <2>2. NewCheckRun \in CheckRuns
    BY DEF NewCheckRun, CheckRuns, Statuses, Conclusions
  <2>3. crs' \in Seq(CheckRuns) /\ Len(crs') = Len(crs) + 1
    BY <1>3, <2>1, <2>2
  <2>4. wk' \in Workers
    <3>1. Len(crs') \in Nat
      BY <2>3, LenProperties
    <3> QED
      BY <1>1, <2>1, <3>1, Busy DEF Workers, Steps
  <2>5. /\ wk'.pc = "resetPut" /\ wk'.rv = wk.rv /\ wk'.ids = wk.ids /\ wk'.cur = {}
        /\ wk'.fresh = Len(crs')
    BY <1>1, <2>1, Busy DEF Workers, Recording
  <2>6. WorkerOK(wk')
    BY <1>1, <2>4, <2>5, Busy, MoveOK DEF Completing
  <2> QED
    BY <1>2, <1>3, <2>3, <2>5, <2>6, GitHubStepInv
<1> QED
  BY <1>4, <1>5

\* A report of the worker's copy keeps the check runs well-typed.
LEMMA ReportType ==
    ASSUME Inv, wk.pc # "idle", completionStatus(wf).status # "none",
           NEW n \in Nat, Report(n)
    PROVE  /\ crs' \in Seq(CheckRuns) /\ Len(crs') = Len(crs)
           /\ budget' \in [BudgetKeys -> Nat]
<1>1. /\ completionStatus(wf).status \in Statuses
      /\ completionStatus(wf).conclusion \in Conclusions
  BY Busy, CompletionType
<1>2. crs \in Seq(CheckRuns) /\ budget \in [BudgetKeys -> Nat]
  BY DEF Inv, TypeOK, TypeOKStore
<1>3. CASE StatusLost
  BY <1>2, <1>3, SpendType DEF StatusLost, BudgetKeys
<1>4. CASE ~StatusLost
  <2>1. /\ StatusUpdate(wf.cr, completionStatus(wf).status,
                        completionStatus(wf).conclusion, n)
        /\ UNCHANGED budget
    BY <1>4 DEF Report
  <2> QED
    BY <1>1, <1>2, <2>1, Busy, StatusUpdateType
<1> QED
  BY <1>3, <1>4

\* What completes a run is reported too.
LEMMA CompletesReported ==
    ASSUME NEW v, Completes(v) PROVE completionStatus(v).status # "none"
BY DEF Completes, completionStatus

\* The progress report keeps the invariant.
LEMMA StatusInv == ASSUME Inv, Status PROVE Inv'
<1>1. wk.pc = "deploy" /\ wk.todo = {} /\ completionStatus(wf).status # "none" /\ Report(0)
  BY DEF Status, At
<1>2. /\ crs' \in Seq(CheckRuns) /\ Len(crs') = Len(crs)
      /\ budget' \in [BudgetKeys -> Nat]
  BY <1>1, ReportType
<1>3. UNCHANGED <<log, seen, events, queue, manual, deps>>
  BY DEF Status
<1>4. events \in Seq(0 .. Len(log)) /\ manual \in [TaskSet -> Nat] /\ Len(crs) \in Nat
  BY LenProperties DEF Inv, TypeOK, TypeOKStore
<1>5. CASE Completes(wf)
  <2>1. wk' = [wk EXCEPT !.pc = "logs"]
    BY <1>5 DEF Status, Goto
  <2>2. wk' \in Workers
    BY <1>1, <2>1, Busy DEF Workers, Steps
  <2>3. wk'.pc = "logs" /\ wk'.rv = wk.rv /\ wk'.ids = wk.ids /\ wk'.cur = {}
    BY <1>1, <2>1, Busy DEF Workers, Recording
  <2>4. WorkerOK(wk')
    BY <1>1, <1>5, <2>2, <2>3, Busy, MoveOK
  <2> QED
    BY <1>2, <1>3, <1>4, <2>3, <2>4, GitHubStepInv
<1>6. CASE ~Completes(wf)
  <2>1. wk' = Idle(wk.rv)
    BY <1>6 DEF Status, Done
  <2> QED
    BY <1>1, <1>2, <1>3, <1>4, <2>1, Busy, GitHubStepInv
<1> QED
  BY <1>5, <1>6

\* Completing the check run keeps the invariant.
LEMMA AddActionsInv == ASSUME Inv, AddActions PROVE Inv'
<1>1. wk.pc = "offer" /\ Report(0) /\ Completes(wf)
  BY DEF AddActions, At, Inv, CopyOK, Completing
<1>2. /\ crs' \in Seq(CheckRuns) /\ Len(crs') = Len(crs)
      /\ budget' \in [BudgetKeys -> Nat]
  BY <1>1, ReportType, CompletesReported
<1>3. UNCHANGED <<log, seen, events, queue, manual, deps>>
  BY DEF AddActions
<1>4. events \in Seq(0 .. Len(log)) /\ manual \in [TaskSet -> Nat] /\ Len(crs) \in Nat
  BY LenProperties DEF Inv, TypeOK, TypeOKStore
<1>5. wk' = [wk EXCEPT !.pc = "annotate"]
  BY DEF AddActions, Goto
<1>6. wk' \in Workers
  BY <1>1, <1>5, Busy DEF Workers, Steps
<1>7. wk'.pc = "annotate" /\ wk'.rv = wk.rv /\ wk'.ids = wk.ids /\ wk'.cur = {}
  BY <1>1, <1>5, Busy DEF Workers, Recording
<1>8. WorkerOK(wk')
  BY <1>1, <1>6, <1>7, Busy, MoveOK
<1> QED
  BY <1>2, <1>3, <1>4, <1>7, <1>8, GitHubStepInv

\* Posting a batch of annotations keeps the invariant.
LEMMA PostBatchInv == ASSUME Inv, PostBatch PROVE Inv'
<1>1. wk.pc = "annotate" /\ wk.at < wk.anns /\ Report(Batch(wk.at)) /\ Completes(wf)
  BY DEF PostBatch, At, Inv, CopyOK, Completing
<1>2. wk.at \in Nat /\ wk.anns \in Nat /\ BatchSize \in Nat
  BY <1>1, Busy, ConstantsAssumption DEF Workers
<1>3. Batch(wk.at) \in Nat
  BY <1>1, <1>2 DEF Batch
<1>4. /\ crs' \in Seq(CheckRuns) /\ Len(crs') = Len(crs)
      /\ budget' \in [BudgetKeys -> Nat]
  BY <1>1, <1>3, ReportType, CompletesReported
<1>5. UNCHANGED <<log, seen, events, queue, manual, deps>>
  BY DEF PostBatch
<1>6. events \in Seq(0 .. Len(log)) /\ manual \in [TaskSet -> Nat] /\ Len(crs) \in Nat
  BY LenProperties DEF Inv, TypeOK, TypeOKStore
<1>7. wk' = [wk EXCEPT !.at = @ + BatchSize]
  BY DEF PostBatch
<1>8. wk' \in Workers
  <2> DEFINE next == wk.at + BatchSize
  <2>1. next \in Nat /\ wk' = [wk EXCEPT !.at = next]
    BY <1>2, <1>7
  <2> HIDE DEF next
  <2> QED
    BY <1>1, <2>1, Busy DEF Workers
<1>9. wk'.pc = "annotate" /\ wk'.rv = wk.rv /\ wk'.ids = wk.ids /\ wk'.cur = {}
  BY <1>1, <1>7, Busy DEF Workers, Recording
<1>10. WorkerOK(wk')
  BY <1>1, <1>8, <1>9, Busy, MoveOK
<1> QED
  BY <1>4, <1>5, <1>6, <1>9, <1>10, GitHubStepInv

\* Offering a manual step keeps the invariant.
LEMMA OfferInv == ASSUME Inv, Offer PROVE Inv'
<1>1. wk.pc = "offer" /\ wk.tasks # <<>> /\ Completes(wf)
  BY DEF Offer, At, Inv, CopyOK, Completing
<1>2. wk.tasks \in Seq(TaskSet) /\ Tail(wk.tasks) \in Seq(TaskSet)
  BY <1>1, Busy DEF Workers
<1>3. UNCHANGED <<log, seen, events, queue, crs, deps>>
  BY DEF Offer
<1>4. /\ events \in Seq(0 .. Len(log)) /\ manual \in [TaskSet -> Nat]
      /\ budget \in [BudgetKeys -> Nat] /\ crs \in Seq(CheckRuns) /\ Len(crs) \in Nat
  BY LenProperties DEF Inv, TypeOK, TypeOKStore
<1>5. manual' \in [TaskSet -> Nat] /\ budget' \in [BudgetKeys -> Nat]
  <2>1. CASE manual' = [manual EXCEPT ![Head(wk.tasks)] = @ + 1] /\ UNCHANGED budget
    <3>1. Head(wk.tasks) \in TaskSet
      BY <1>1, <1>2
    <3> QED
      BY <1>4, <2>1, <3>1
  <2>2. CASE Spend("fault") /\ UNCHANGED manual
    BY <1>4, <2>2, SpendType DEF BudgetKeys
  <2> QED
    BY <2>1, <2>2 DEF Offer
<1>6. wk' = [wk EXCEPT !.tasks = Tail(@)]
  BY DEF Offer
<1>7. wk' \in Workers
  <2>1. wk' = [wk EXCEPT !.tasks = Tail(wk.tasks)]
    BY <1>6
  <2> DEFINE rest == Tail(wk.tasks)
  <2>2. rest \in Seq(TaskSet) /\ wk' = [wk EXCEPT !.tasks = rest]
    BY <1>2, <2>1
  <2> HIDE DEF rest
  <2> QED
    BY <1>1, <2>2, Busy DEF Workers
<1>8. wk'.pc = "offer" /\ wk'.rv = wk.rv /\ wk'.ids = wk.ids /\ wk'.cur = {}
  BY <1>1, <1>6, Busy DEF Workers, Recording
<1>9. WorkerOK(wk')
  BY <1>1, <1>7, <1>8, Busy, MoveOK
<1> QED
  BY <1>3, <1>4, <1>5, <1>8, <1>9, GitHubStepInv

\* The delete handler keeps the invariant.
LEMMA doDeleteInv == ASSUME Inv, doDelete PROVE Inv'
<1>1. /\ events \in Seq(0 .. Len(log)) /\ manual \in [TaskSet -> Nat] /\ log \in Seq(Versions)
      /\ budget \in [BudgetKeys -> Nat] /\ crs \in Seq(CheckRuns) /\ Len(crs) \in Nat
  BY LenProperties DEF Inv, TypeOK, TypeOKStore
<1>2. /\ UNCHANGED <<log, seen, queue, manual, deps, wk>>
      /\ events # <<>> /\ events' = Tail(events)
  BY DEF doDelete
<1>3. Head(events) \in 0 .. Len(log) /\ events' \in Seq(0 .. Len(log))
  <2> DEFINE S == 0 .. Len(log)
  <2>1. events \in Seq(S)
    BY <1>1
  <2> HIDE DEF S
  <2>2. Head(events) \in S /\ Tail(events) \in Seq(S)
    BY <1>2, <2>1, HeadTailProperties
  <2> QED
    BY <1>2, <2>2 DEF S
<1>4. /\ crs' \in Seq(CheckRuns) /\ Len(crs') = Len(crs)
      /\ budget' \in [BudgetKeys -> Nat]
  <2>1. CASE UNCHANGED <<crs, budget>>
    BY <1>1, <2>1
  <2>2. CASE StatusLost
    BY <1>1, <2>2, SpendType DEF StatusLost, BudgetKeys
  <2>3. CASE Head(events) # Lost /\ UNCHANGED budget
             /\ StatusUpdate(log[Head(events)].cr, "completed", "cancelled", 0)
    <3>1. log[Head(events)].cr \in 1 .. Len(crs)
      BY <1>3, <2>3 DEF Inv, CheckRunIds, Lost
    <3> QED
      BY <1>1, <2>3, <3>1, StatusUpdateType DEF Statuses, Conclusions
  <2> QED
    BY <2>1, <2>2, <2>3 DEF doDelete
<1> QED
  BY <1>1, <1>2, <1>3, <1>4, SelfOK, GitHubStepInv

-----------------------------------------------------------------------------
(* Steps that change the deployments.                                      *)

\* A step about deployments keeps the invariant if their nodes stay and the
\* worker's ids are those of its nodes.
LEMMA DeployStepInv ==
    ASSUME Inv, UNCHANGED <<log, seen, events, queue, crs, manual>>,
           budget' \in [BudgetKeys -> Nat], deps' \in Seq(Deployments),
           Len(deps') >= Len(deps), Len(deps') \in Nat, Len(deps) \in Nat,
           \A d \in 1 .. Len(deps) : deps'[d].node = deps[d].node,
           wk' \in Workers, wk'.rv = wk.rv, wk.pc # "idle",
           wk'.pc \notin Completing, wk'.pc # "resetPut",
           \A n \in DeployNodes : wk'.ids[n] # 0 =>
               wk'.ids[n] \in 1 .. Len(deps') /\ deps'[wk'.ids[n]].node = n,
           \A n \in wk'.cur : wk'.ids[n] # 0,
           wk'.cur # {} => wk'.pc \in Recording
    PROVE  Inv'
<1>1. TypeOK'
  BY DEF Inv, TypeOK, TypeOKStore
<1>2. CopyOK'
  BY DEF Inv, CopyOK
<1>3. CheckRunIds'
  BY DEF Inv, CheckRunIds
<1>4. \A k \in 1 .. Len(log) : ValidIds(log[k].dep)'
  BY SMTT(30) DEF Inv, DeploymentIds, ValidIds
<1>5. DeploymentIds'
  BY <1>4 DEF DeploymentIds, ValidIds
<1> QED
  BY <1>1, <1>2, <1>3, <1>5 DEF Inv

\* Creating a deployment keeps the invariant.
LEMMA DeployCreateInv ==
    ASSUME Inv, NEW n \in DeployNodes, DeployCreate(n) PROVE Inv'
<1>1. wk.pc = "deploy" /\ wk.ids[n] = 0
  BY DEF DeployCreate, At
<1>2. UNCHANGED <<log, seen, events, queue, crs, manual>> /\ budget' \in [BudgetKeys -> Nat]
  BY SpendType DEF DeployCreate, Inv, TypeOK, TypeOKStore, BudgetKeys
<1>3. deps \in Seq(Deployments) /\ Len(deps) \in Nat
  BY LenProperties DEF Inv, TypeOK
<1> DEFINE new == [node |-> n, state |-> "none"]
<1>a. new \in Deployments /\ new.node = n
  BY DEF Deployments, DeployStates
<1> HIDE DEF new
<1>b. ASSUME deps' = Append(deps, new)
      PROVE  /\ deps' \in Seq(Deployments) /\ Len(deps') = Len(deps) + 1
             /\ deps'[Len(deps')] = new
             /\ \A d \in 1 .. Len(deps) : deps'[d] = deps[d]
  BY <1>3, <1>a, <1>b, AppendProperties
<1>4. CASE /\ wk' = [wk EXCEPT !.todo = @ \ {n}]
           /\ deps' = Append(deps, new) \/ UNCHANGED deps
  <2>1. wk' \in Workers
    BY <1>1, <1>4, Busy DEF Workers
  <2>2. wk'.pc = "deploy" /\ wk'.rv = wk.rv /\ wk'.ids = wk.ids /\ wk'.cur = wk.cur
    BY <1>1, <1>4, Busy DEF Workers
  <2>3. CASE UNCHANGED deps
    <3>1. WorkerFrame /\ WorkerOK(wk')
      BY <1>1, <1>2, <2>3, <2>1, <2>2, Busy, MoveOK
         DEF Completing, WorkerFrame, githubVars, Inv, TypeOK, TypeOKStore
    <3> QED
      BY <2>2, <3>1, WorkerStepInv
  <2>4. CASE deps' = Append(deps, new)
    <3>1. /\ deps' \in Seq(Deployments) /\ Len(deps') = Len(deps) + 1
          /\ \A d \in 1 .. Len(deps) : deps'[d] = deps[d]
      BY <1>b, <2>4
    <3>2. \A m \in DeployNodes : wk'.ids[m] # 0 =>
               wk'.ids[m] \in 1 .. Len(deps') /\ deps'[wk'.ids[m]].node = m
      BY <1>1, <1>3, <3>1, <2>2, Busy DEF ValidIds
    <3>3. \A m \in wk'.cur : wk'.ids[m] # 0
      BY <2>2 DEF Inv, DeploymentIds
    <3>4. wk'.cur # {} => wk'.pc \in Recording
      BY <1>1, <2>2 DEF Inv, DeploymentIds
    <3>5. wk'.pc \notin Completing /\ wk'.pc # "resetPut"
      BY <2>2 DEF Completing
    <3>6. Len(deps') >= Len(deps) /\ Len(deps') \in Nat
      BY <1>3, <3>1
    <3>7. \A d \in 1 .. Len(deps) : deps'[d].node = deps[d].node
      BY <3>1
    <3> QED
      BY <1>1, <1>2, <1>3, <2>1, <2>2, <3>1, <3>2, <3>3, <3>4, <3>5, <3>6, <3>7, DeployStepInv
  <2> QED
    BY <1>4, <2>3, <2>4
<1>5. CASE /\ deps' = Append(deps, new)
           /\ wk' = [wk EXCEPT !.pc = "recordGet", !.todo = @ \ {n},
                               !.cur = {n}, !.ids[n] = Len(deps')]
  <2>1. new \in Deployments /\ new.node = n
    BY <1>a
  <2>3. /\ deps' \in Seq(Deployments) /\ Len(deps') = Len(deps) + 1 /\ deps'[Len(deps')] = new
        /\ \A d \in 1 .. Len(deps) : deps'[d] = deps[d]
    BY <1>5, <1>b
  <2> DEFINE id == Len(deps')
  <2>4. id \in Nat /\ id # 0 /\ id \in 1 .. Len(deps') /\ deps'[id].node = n
    BY <1>3, <2>1, <2>3
  <2>5. wk' = [wk EXCEPT !.pc = "recordGet", !.todo = @ \ {n}, !.cur = {n}, !.ids[n] = id]
    BY <1>5
  <2> HIDE DEF id
  <2>6. wk' \in Workers
    BY <1>1, <2>4, <2>5, Busy DEF Workers, Steps
  <2>7. /\ wk'.pc = "recordGet" /\ wk'.rv = wk.rv /\ wk'.cur = {n}
        /\ wk'.ids = [wk.ids EXCEPT ![n] = id]
    BY <1>1, <2>5, Busy DEF Workers
  <2>8. wk'.ids[n] = id /\ \A m \in DeployNodes \ {n} : wk'.ids[m] = wk.ids[m]
    BY <1>1, <2>7, Busy DEF Workers
  <2>9. \A m \in DeployNodes : wk'.ids[m] # 0 =>
             wk'.ids[m] \in 1 .. Len(deps') /\ deps'[wk'.ids[m]].node = m
    <3> SUFFICES ASSUME NEW m \in DeployNodes, wk'.ids[m] # 0
                 PROVE  wk'.ids[m] \in 1 .. Len(deps') /\ deps'[wk'.ids[m]].node = m
      OBVIOUS
    <3>1. CASE m = n
      BY <3>1, <2>4, <2>8
    <3>2. CASE m # n
      <4>1. wk.ids[m] \in 1 .. Len(deps) /\ deps[wk.ids[m]].node = m /\ wk'.ids[m] = wk.ids[m]
        BY <1>1, <2>8, <3>2, Busy DEF ValidIds
      <4> QED
        BY <1>3, <2>3, <4>1
    <3> QED
      BY <3>1, <3>2
  <2>10. \A m \in wk'.cur : wk'.ids[m] # 0
    BY <2>4, <2>7, <2>8
  <2>11. Len(deps') >= Len(deps) /\ Len(deps') \in Nat
    BY <1>3, <2>3
  <2>12. wk'.pc \notin Completing /\ wk'.pc # "resetPut" /\ (wk'.cur # {} => wk'.pc \in Recording)
    BY <2>7 DEF Completing, Recording
  <2>13. \A d \in 1 .. Len(deps) : deps'[d].node = deps[d].node
    BY <2>3
  <2> QED
    BY <1>1, <1>2, <1>3, <2>3, <2>6, <2>7, <2>9, <2>10, <2>11, <2>12, <2>13, DeployStepInv
<1> QED
  BY <1>4, <1>5 DEF DeployCreate, new

\* A status changes the states of deployments only: its own, and of those it
\* retires.
LEMMA DeploymentStatusType ==
    ASSUME deps \in Seq(Deployments), NEW i \in 1 .. Len(deps), NEW st \in DeployStates,
           CreateDeploymentStatus(i, st)
    PROVE  /\ deps' \in Seq(Deployments) /\ Len(deps') = Len(deps)
           /\ \A d \in 1 .. Len(deps) :
                /\ deps'[d].node = deps[d].node
                /\ deps'[d].state = IF d = i THEN st
                                    ELSE IF Retires(i, st, d) THEN "inactive"
                                    ELSE deps[d].state
<1>1. DOMAIN deps = 1 .. Len(deps) /\ Len(deps) \in Nat
  BY LenProperties
<1>2. DOMAIN deps' = 1 .. Len(deps)
  BY <1>1 DEF CreateDeploymentStatus
<1>3. ASSUME NEW d \in 1 .. Len(deps)
      PROVE  /\ deps'[d] \in Deployments /\ deps'[d].node = deps[d].node
             /\ deps'[d].state = IF d = i THEN st
                                 ELSE IF Retires(i, st, d) THEN "inactive"
                                 ELSE deps[d].state
  <2>1. deps[d] \in Deployments
    BY <1>3, ElementOfSeq
  <2>2. deps'[d] = IF d = i THEN [deps[d] EXCEPT !.state = st]
                   ELSE IF Retires(i, st, d) THEN [deps[d] EXCEPT !.state = "inactive"]
                   ELSE deps[d]
    BY <1>1 DEF CreateDeploymentStatus
  <2> QED
    BY <2>1, <2>2 DEF Deployments, DeployStates
<1>4. deps' = [d \in 1 .. Len(deps) |-> deps'[d]]
  BY <1>1 DEF CreateDeploymentStatus
<1>5. deps' \in [1 .. Len(deps) -> Deployments]
  BY <1>3, <1>4
<1>6. deps' \in Seq(Deployments) /\ Len(deps') = Len(deps)
  BY <1>1, <1>2, <1>5, SeqDef
<1> QED
  BY <1>3, <1>6

\* Setting a deployment's state keeps the invariant.
LEMMA DeployStatusInv == ASSUME Inv, DeployStatus PROVE Inv'
<1>1. wk.pc = "deployStatus"
  BY DEF DeployStatus, At
<1>2. UNCHANGED <<log, seen, events, queue, crs, manual>> /\ budget' \in [BudgetKeys -> Nat]
  BY SpendType DEF DeployStatus, Inv, TypeOK, TypeOKStore, BudgetKeys
<1>3. deps \in Seq(Deployments) /\ Len(deps) \in Nat
  BY LenProperties DEF Inv, TypeOK
<1>4. CASE Done /\ UNCHANGED deps
  <2>1. WorkerFrame
    BY <1>2, <1>4 DEF WorkerFrame, githubVars, Inv, TypeOK, TypeOKStore
  <2> QED
    BY <1>1, <1>4, <2>1, Busy, WorkerStepInv DEF Done
<1>5. ASSUME NEW n \in wk.cur, NextNode \/ Done,
             CreateDeploymentStatus(wk.ids[n], deployStatusFromPhase(wf.node[n]))
      PROVE  Inv'
  <2> DEFINE i == wk.ids[n]
             st == deployStatusFromPhase(wf.node[n])
  <2>1. n \in DeployNodes /\ i \in 1 .. Len(deps) /\ deps[i].node = n
    BY <1>1, <1>5, Busy DEF ValidIds, Workers
  <2>2. st \in DeployStates
    BY DEF deployStatusFromPhase, DeployStates
  <2>3. CreateDeploymentStatus(i, st)
    BY <1>5
  <2> HIDE DEF i, st
  <2>5. /\ deps' \in Seq(Deployments) /\ Len(deps') = Len(deps)
        /\ \A d \in 1 .. Len(deps) : deps'[d].node = deps[d].node
    BY <1>3, <2>1, <2>2, <2>3, DeploymentStatusType
  <2>6. \A d \in 1 .. Len(deps) : deps'[d].node = deps[d].node
    BY <2>5
  <2>7. CASE Done
    <3>1. /\ WorkerOK(wk') /\ wk'.pc = "idle" /\ wk'.rv = wk.rv /\ wk'.cur = {}
          /\ wk'.ids = NoIds /\ wk' \in Workers
      BY <1>1, <2>7, Busy DEF Done, WorkerOK, Idle, Workers
    <3>2. \A m \in DeployNodes : wk'.ids[m] = 0
      BY <3>1 DEF NoIds
    <3>3. wk'.pc \notin Completing /\ wk'.pc # "resetPut"
      BY <3>1 DEF Completing
    <3>4. Len(deps') >= Len(deps) /\ Len(deps') \in Nat
      BY <1>3, <2>5
    <3> QED
      BY <1>1, <1>2, <1>3, <2>5, <2>6, <3>1, <3>2, <3>3, <3>4, DeployStepInv
  <2>8. CASE NextNode
    <3>1. /\ WorkerOK(wk') /\ wk'.pc = "deploy" /\ wk'.rv = wk.rv /\ wk'.cur = {}
          /\ wk'.ids = wk.ids
      BY <1>1, <2>8, Busy, NextNodeOK DEF NextNode, Workers
    <3>2. \A m \in DeployNodes : wk'.ids[m] # 0 =>
               wk'.ids[m] \in 1 .. Len(deps') /\ deps'[wk'.ids[m]].node = m
      BY <1>1, <2>5, <2>6, <3>1, Busy DEF ValidIds
    <3>3. wk'.pc \notin Completing /\ wk'.pc # "resetPut"
      BY <3>1 DEF Completing
    <3>4. Len(deps') >= Len(deps) /\ Len(deps') \in Nat
      BY <1>3, <2>5
    <3>5. wk' \in Workers
      BY <3>1 DEF WorkerOK
    <3> QED
      BY <1>1, <1>2, <1>3, <2>5, <2>6, <3>1, <3>2, <3>3, <3>4, <3>5, DeployStepInv
  <2> QED
    BY <1>5, <2>7, <2>8
<1> QED
  BY <1>4, <1>5 DEF DeployStatus

-----------------------------------------------------------------------------
(* Steps that store a version, or only move the cache and the queue.       *)

\* The history was extended, if at all, by versions that keep the facts.
Grown ==
    /\ log' \in Seq(Versions) /\ Len(log') \in Nat
    /\ Len(log') >= Len(log)
    /\ \A k \in 1 .. Len(log) : log'[k] = log[k]
    /\ \A k \in 1 .. Len(log') : log'[k].cr \in 1 .. Len(crs) /\ ValidIds(log'[k].dep)

\* A history that stays as it is has grown in the sense of Grown.
LEMMA NotGrown == ASSUME Inv, UNCHANGED log PROVE Grown
BY LenProperties DEF Inv, TypeOK, TypeOKStore, CheckRunIds, DeploymentIds, Grown

\* So has one to which a version with valid ids was added.
LEMMA StoreGrown ==
    ASSUME Inv, NEW v \in Versions, v.cr \in 1 .. Len(crs), ValidIds(v.dep),
           Store(v) \/ log' = Append(log, v)
    PROVE  Grown
<1>1. log \in Seq(Versions) /\ Len(log) \in Nat
  BY LenProperties DEF Inv, TypeOK, TypeOKStore
<1>2. CASE log' = log
  BY <1>2, NotGrown
<1>3. CASE log' = Append(log, v)
  <2>1. /\ log' \in Seq(Versions) /\ Len(log') = Len(log) + 1
        /\ \A k \in 1 .. Len(log) : log'[k] = log[k]
        /\ log'[Len(log) + 1] = v
    BY <1>1, <1>3, AppendProperties
  <2>2. \A k \in 1 .. Len(log') : k \in 1 .. Len(log) \/ k = Len(log) + 1
    BY <1>1, <2>1
  <2> QED
    BY <1>1, <2>1, <2>2 DEF Inv, CheckRunIds, DeploymentIds, Grown
<1> QED
  BY <1>2, <1>3 DEF Store

\* Latest is a version with all these facts.
LEMMA LatestFacts ==
    ASSUME Inv
    PROVE  /\ Latest \in Versions /\ Latest.cr \in 1 .. Len(crs) /\ ValidIds(Latest.dep)
           /\ Len(log) \in 1 .. Len(log) /\ Len(log) \in Nat /\ log \in Seq(Versions)
<1>1. log \in Seq(Versions) /\ Len(log) \in 1 .. Len(log) /\ Len(log) \in Nat
  BY LenProperties DEF Inv, TypeOK, TypeOKStore
<1> QED
  BY <1>1 DEF Latest, Inv, CheckRunIds, DeploymentIds

\* A step that adds to the history keeps the invariant.
LEMMA StoreStepInv ==
    ASSUME Inv, Grown, UNCHANGED githubVars,
           seen' \in 1 .. Len(log'), events' \in Seq(0 .. Len(log')),
           queue' \in [waiting: BOOLEAN, dirty: BOOLEAN],
           budget' \in [BudgetKeys -> Nat],
           \/ WorkerOK(wk') /\ (wk'.pc = "resetPut" => wk'.fresh \in 1 .. Len(crs))
           \/ /\ wk' \in Workers /\ wk'.pc = "info" /\ wk'.rv = Len(log')
              /\ wk'.ids = NoIds /\ wk'.cur = {}
    PROVE  Inv'
<1>0. log \in Seq(Versions) /\ Len(log) \in Nat /\ Len(log) > 0
  BY LenProperties DEF Inv, TypeOK, TypeOKStore
<1>1. TypeOK'
  BY <1>0 DEF Inv, Grown, WorkerOK, TypeOK, TypeOKStore, githubVars
<1>2. CopyOK'
  <2>1. CASE WorkerOK(wk')
    <3>1. wk'.rv \in Nat /\ wk'.rv <= Len(log')
      BY <1>0, <2>1 DEF WorkerOK, Grown, Workers
    <3>2. wk'.pc \in Completing => Completes(log'[wk'.rv])
      <4> SUFFICES ASSUME wk'.pc \in Completing PROVE Completes(log'[wk'.rv])
        OBVIOUS
      <4>1. wk'.rv \in 1 .. Len(log)
        BY <1>0, <2>1, <3>1 DEF WorkerOK, Completing
      <4> QED
        BY <2>1, <4>1 DEF WorkerOK, Grown
    <3> QED
      BY <2>1, <3>1, <3>2 DEF WorkerOK, CopyOK, wf, Completes
  <2>2. CASE wk'.pc = "info" /\ wk'.rv = Len(log')
    BY <1>0, <2>2 DEF Grown, CopyOK, Completing
  <2> QED
    BY <2>1, <2>2
<1>3. CheckRunIds'
  BY DEF Grown, CheckRunIds, githubVars
<1>4. DeploymentIds'
  BY DEF Grown, WorkerOK, DeploymentIds, ValidIds, githubVars, NoIds
<1> QED
  BY <1>1, <1>2, <1>3, <1>4 DEF Inv

\* The cache and the notifications stay valid while the history grows.
LEMMA CacheKept ==
    ASSUME Inv, Grown, UNCHANGED <<seen, events, queue>>
    PROVE  /\ seen' \in 1 .. Len(log') /\ events' \in Seq(0 .. Len(log'))
           /\ queue' \in [waiting: BOOLEAN, dirty: BOOLEAN]
<1>1. Len(log) \in Nat /\ Len(log') \in Nat /\ Len(log') >= Len(log)
  BY LatestFacts DEF Grown
<1>2. (0 .. Len(log)) \subseteq (0 .. Len(log'))
  BY <1>1
<1>3. events' \in Seq(0 .. Len(log'))
  BY <1>2, SeqMonotonic DEF Inv, TypeOK, TypeOKStore
<1> QED
  BY <1>1, <1>3 DEF Inv, TypeOK, TypeOKStore

\* Argo's and the users' writes keep the invariant.
LEMMA EnvironmentInv ==
    ASSUME Inv, Environment, UNCHANGED <<githubVars, wk>> PROVE Inv'
<1>1. UNCHANGED <<seen, events, queue>> /\ budget' \in [BudgetKeys -> Nat]
  BY SpendType DEF Environment, ArgoPhase, NodeStarts, NodeEnds, Touch, Retry, Delete,
                   Inv, TypeOK, TypeOKStore, BudgetKeys
<1>2. Grown
  <2>1. CASE ArgoPhase
    <3>1. PICK p \in NextPhases(Latest) : Store([Latest EXCEPT !.phase = p])
      BY <2>1 DEF ArgoPhase
    <3>2. p \in Phases
      BY BudgetAssumption DEF NextPhases, Phases, FinalPhases
    <3>3. [Latest EXCEPT !.phase = p] \in Versions
      BY <3>2, LatestFacts, SetPhase
    <3>4. /\ [Latest EXCEPT !.phase = p].cr = Latest.cr
          /\ [Latest EXCEPT !.phase = p].dep = Latest.dep
      BY LatestFacts DEF Versions
    <3> QED
      BY <3>1, <3>3, <3>4, LatestFacts, StoreGrown
  <2>2. CASE NodeStarts \/ NodeEnds
    <3>0. PICK n \in DeployNodes : \E p \in {"Running"} \cup NodeOutcomes :
             Store([Latest EXCEPT !.node[n] = p])
      BY <2>2 DEF NodeStarts, NodeEnds
    <3>1. PICK p \in {"Running"} \cup NodeOutcomes : Store([Latest EXCEPT !.node[n] = p])
      BY <3>0
    <3>2. p \in NodePhases
      BY BudgetAssumption DEF NodePhases, FinalPhases
    <3>3. [Latest EXCEPT !.node[n] = p] \in Versions
      BY <3>2, LatestFacts, SetNode
    <3>4. /\ [Latest EXCEPT !.node[n] = p].cr = Latest.cr
          /\ [Latest EXCEPT !.node[n] = p].dep = Latest.dep
      BY LatestFacts DEF Versions
    <3> QED
      BY <3>1, <3>3, <3>4, LatestFacts, StoreGrown
  <2>3. CASE Touch
    BY <2>3, LatestFacts, StoreGrown DEF Touch
  <2>4. CASE Retry
    <3>1. PICK f \in [DeployNodes -> NodePhases] :
             Store([Latest EXCEPT !.phase = "Running", !.ads = FALSE, !.node = f])
      BY <2>4 DEF Retry, NodePhases
    <3> DEFINE v == [Latest EXCEPT !.phase = "Running", !.ads = FALSE, !.node = f]
    <3>2. v \in Versions
      BY LatestFacts, SetRetried DEF Phases
    <3>3. v.cr = Latest.cr /\ v.dep = Latest.dep
      BY LatestFacts DEF Versions
    <3> QED
      BY <3>1, <3>2, <3>3, LatestFacts, StoreGrown
  <2>5. CASE Delete
    <3> DEFINE v == [Latest EXCEPT !.live = FALSE]
    <3>1. v \in Versions /\ Store(v)
      BY <2>5, LatestFacts, SetGone DEF Delete
    <3>2. v.cr = Latest.cr /\ v.dep = Latest.dep
      BY LatestFacts DEF Versions
    <3> QED
      BY <3>1, <3>2, LatestFacts, StoreGrown
  <2> QED
    BY <2>1, <2>2, <2>3, <2>4, <2>5 DEF Environment
<1>3. WorkerOK(wk') /\ (wk'.pc = "resetPut" => wk'.fresh \in 1 .. Len(crs))
  BY SelfOK
<1> QED
  BY <1>1, <1>2, <1>3, CacheKept, StoreStepInv

\* The cancellation by a newer build keeps the invariant.
LEMMA CancelInv == ASSUME Inv, Cancel PROVE Inv'
<1>1. /\ UNCHANGED <<seen, events, queue, githubVars, wk>>
      /\ budget' \in [BudgetKeys -> Nat]
  BY SpendType DEF Cancel, Inv, TypeOK, TypeOKStore, BudgetKeys
<1> DEFINE v == [Latest EXCEPT !.ads = TRUE]
<1>2. v \in Versions /\ Store(v)
  BY LatestFacts, SetDeadline DEF Cancel, Current, Cached, Latest
<1>3. v.cr = Latest.cr /\ v.dep = Latest.dep
  BY LatestFacts DEF Versions
<1>4. Grown
  BY <1>2, <1>3, LatestFacts, StoreGrown
<1> QED
  BY <1>1, <1>4, SelfOK, CacheKept, StoreStepInv

\* The informer and the queue keep the invariant.
LEMMA QueueInv ==
    ASSUME Inv, QueueStep \/ Relist, UNCHANGED <<githubVars, wk>> PROVE Inv'
<1>1. UNCHANGED log /\ Grown
  BY NotGrown DEF QueueStep, WatchEvent, Relist, enqueue, Ready
<1>2. /\ events \in Seq(0 .. Len(log)) /\ seen \in 1 .. Len(log) /\ Len(log) \in Nat
      /\ queue \in [waiting: BOOLEAN, dirty: BOOLEAN]
      /\ budget \in [BudgetKeys -> Nat]
  BY LatestFacts DEF Inv, TypeOK, TypeOKStore
<1> DEFINE S == 0 .. Len(log)
<1>3. events \in Seq(S)
  BY <1>2
<1>4. seen' \in 1 .. Len(log)
  BY <1>2 DEF QueueStep, WatchEvent, Relist, enqueue, Ready
<1>5. events' \in Seq(S)
  <2>1. CASE \E e \in S : events' = Append(events, e)
    BY <1>3, <2>1, AppendProperties
  <2>2. CASE events # <<>> /\ events' = Tail(events)
    BY <1>3, <2>2, HeadTailProperties
  <2>3. CASE events' = events
    BY <1>3, <2>3
  <2>4. WatchEvent => \E e \in S : events' = Append(events, e)
    BY <1>2, <1>4 DEF WatchEvent
  <2>5. Relist => \E e \in S : events' = Append(events, e)
    BY <1>2 DEF Relist, Lost
  <2> QED
    BY <2>1, <2>2, <2>3, <2>4, <2>5 DEF QueueStep, enqueue, Ready
<1>6. queue' \in [waiting: BOOLEAN, dirty: BOOLEAN]
  <2>1. CASE enqueue
    BY <1>2, <2>1 DEF enqueue
  <2>2. CASE ~enqueue
    <3>1. queue' = queue \/ queue' = [waiting |-> FALSE, dirty |-> TRUE]
      BY <2>2 DEF QueueStep, WatchEvent, Relist, Ready
    <3>2. CASE queue' = queue
      BY <1>2, <3>2
    <3>3. CASE queue' = [waiting |-> FALSE, dirty |-> TRUE]
      BY <3>3
    <3> QED
      BY <3>1, <3>2, <3>3
  <2> QED
    BY <2>1, <2>2
<1>7. budget' \in [BudgetKeys -> Nat]
  <2>1. CASE Relist
    BY <1>2, <2>1, SpendType DEF Relist, BudgetKeys
  <2>2. CASE QueueStep
    BY <1>2, <2>2 DEF QueueStep, WatchEvent, enqueue, Ready
  <2> QED
    BY <2>1, <2>2
<1> QED
  BY <1>1, <1>4, <1>5, <1>6, <1>7, SelfOK, StoreStepInv

\* A crash keeps the invariant.
LEMMA CrashInv == ASSUME Inv, Crash PROVE Inv'
<1>1. UNCHANGED <<log, githubVars>> /\ Grown
  BY NotGrown DEF Crash
<1>2. Len(log) \in 1 .. Len(log) /\ log \in Seq(Versions) /\ Len(log) \in Nat
  BY LatestFacts
<1>3. seen' \in 1 .. Len(log) /\ events' \in Seq(0 .. Len(log))
  <2> DEFINE S == 0 .. Len(log)
  <2>1. Len(log) \in S
    BY <1>2
  <2> HIDE DEF S
  <2>2. events' \in Seq(S)
    BY <2>1 DEF Crash
  <2> QED
    BY <1>2, <2>2 DEF Crash, S
<1>4. queue' \in [waiting: BOOLEAN, dirty: BOOLEAN] /\ budget' \in [BudgetKeys -> Nat]
  BY SpendType DEF Crash, Inv, TypeOK, TypeOKStore, BudgetKeys
<1>5. WorkerOK(wk') /\ wk'.pc # "resetPut"
  BY <1>2, IdleOK DEF Crash
<1> QED
  BY <1>1, <1>3, <1>4, <1>5, StoreStepInv

\* The write of resetCheckRun keeps the invariant.
LEMMA ResetPutInv == ASSUME Inv, ResetPut PROVE Inv'
<1>1. wk.pc = "resetPut" /\ wk.fresh \in 1 .. Len(crs)
  BY DEF ResetPut, At, Inv, CheckRunIds
<1>2. UNCHANGED <<seen, events, queue, githubVars>> /\ budget' \in [BudgetKeys -> Nat]
  BY SpendType DEF ResetPut, Inv, TypeOK, TypeOKStore, BudgetKeys
<1>3. CASE Done /\ UNCHANGED log
  <2>1. WorkerOK(wk') /\ wk'.pc = "idle" /\ Grown
    BY <1>1, <1>3, Busy, NotGrown DEF Done
  <2> QED
    BY <1>2, <2>1, CacheKept, StoreStepInv
<1>4. CASE /\ Store([wf EXCEPT !.published = FALSE, !.cr = wk.fresh, !.dep = NoIds])
           /\ wk' = [Idle(Len(log')) EXCEPT !.pc = "info"] \/ Done
  <2> DEFINE v == [wf EXCEPT !.published = FALSE, !.cr = wk.fresh, !.dep = NoIds]
  <2>1. NoIds \in [DeployNodes -> Nat] /\ wk.fresh \in Nat
    BY <1>1 DEF NoIds
  <2>2. v \in Versions
    BY <1>1, <2>1, Busy, SetReset
  <2>3. v.cr = wk.fresh /\ v.dep = NoIds
    BY <1>1, Busy DEF Versions
  <2>4. ValidIds(v.dep)
    BY <2>3 DEF ValidIds, NoIds
  <2>5. Grown
    BY <1>1, <1>4, <2>2, <2>3, <2>4, StoreGrown
  <2>6. CASE wk' = [Idle(Len(log')) EXCEPT !.pc = "info"]
    <3>1. Len(log') \in 0 .. Len(log')
      BY <2>5 DEF Grown
    <3>2. Idle(Len(log')) \in Workers
      BY <3>1 DEF Idle, Workers, Steps, NoIds
    <3>3. wk' \in Workers
      BY <2>6, <3>2 DEF Workers, Steps
    <3>4. wk'.pc = "info" /\ wk'.rv = Len(log') /\ wk'.ids = NoIds /\ wk'.cur = {}
      BY <2>6, <3>2 DEF Workers, Idle
    <3> QED
      BY <1>2, <2>5, <3>3, <3>4, CacheKept, StoreStepInv
  <2>7. CASE Done
    <3>1. WorkerOK(wk') /\ wk'.pc = "idle"
      BY <1>1, <2>7, Busy DEF Done
    <3> QED
      BY <1>2, <2>5, <3>1, CacheKept, StoreStepInv
  <2> QED
    BY <1>4, <2>6, <2>7
<1> QED
  BY <1>3, <1>4 DEF ResetPut

\* The write that records a deployment keeps the invariant.
LEMMA RecordPutInv == ASSUME Inv, RecordPut PROVE Inv'
<1>1. wk.pc = "recordPut"
  BY DEF RecordPut, At
<1>2. UNCHANGED <<seen, events, queue, githubVars>> /\ budget' \in [BudgetKeys -> Nat]
  BY SpendType DEF RecordPut, Inv, TypeOK, TypeOKStore, BudgetKeys
<1>3. CASE NextNode /\ UNCHANGED log
  BY <1>1, <1>2, <1>3, NextNodeOK, NotGrown, CacheKept, StoreStepInv
<1>4. CASE Store([Latest EXCEPT !.dep = wk.ids]) /\ (Goto("deployStatus") \/ NextNode)
  <2> DEFINE v == [Latest EXCEPT !.dep = wk.ids]
  <2>1. wk.ids \in [DeployNodes -> Nat]
    BY <1>1, Busy DEF Workers
  <2>2. v \in Versions
    BY <2>1, LatestFacts, SetIds
  <2>3. v.cr = Latest.cr /\ v.dep = wk.ids
    BY LatestFacts DEF Versions
  <2>4. Grown
    BY <1>1, <1>4, <2>2, <2>3, Busy, LatestFacts, StoreGrown
  <2>5. CASE NextNode
    <3>1. WorkerOK(wk') /\ wk'.pc = "deploy"
      BY <1>1, <2>5, NextNodeOK
    <3> QED
      BY <1>1, <1>2, <2>4, <2>5, <3>1, NextNodeOK, CacheKept, StoreStepInv
  <2>6. CASE Goto("deployStatus")
    <3>1. wk' \in Workers
      BY <1>1, <2>6, Busy DEF Goto, Workers, Steps
    <3>2. wk'.pc = "deployStatus" /\ wk'.rv = wk.rv /\ wk'.ids = wk.ids /\ wk'.cur = wk.cur
      BY <1>1, <2>6, Busy DEF Goto, Workers
    <3>3. WorkerOK(wk')
      BY <1>1, <3>1, <3>2, Busy, MoveOK DEF Completing, Recording
    <3> QED
      BY <1>2, <2>4, <3>2, <3>3, CacheKept, StoreStepInv
  <2> QED
    BY <1>4, <2>5, <2>6
<1> QED
  BY <1>3, <1>4 DEF RecordPut

\* The write that publishes keeps the invariant.
LEMMA PublishPutInv == ASSUME Inv, PublishPut PROVE Inv'
<1>1. wk.pc = "publishPut"
  BY DEF PublishPut, At
<1>2. UNCHANGED <<seen, events, queue, githubVars>> /\ budget' \in [BudgetKeys -> Nat]
  BY SpendType DEF PublishPut, Inv, TypeOK, TypeOKStore, BudgetKeys
<1>3. WorkerOK(wk') /\ wk'.pc = "idle"
  BY <1>1, Busy DEF PublishPut, Done
<1>4. Grown
  <2>1. CASE UNCHANGED log
    BY <2>1, NotGrown
  <2>2. CASE Store([Latest EXCEPT !.published = TRUE])
    <3> DEFINE v == [Latest EXCEPT !.published = TRUE]
    <3>1. v \in Versions
      BY LatestFacts, SetPublished
    <3>2. v.cr = Latest.cr /\ v.dep = Latest.dep
      BY LatestFacts DEF Versions
    <3> QED
      BY <2>2, <3>1, <3>2, LatestFacts, StoreGrown
  <2> QED
    BY <2>1, <2>2 DEF PublishPut
<1> QED
  BY <1>2, <1>3, <1>4, CacheKept, StoreStepInv

-----------------------------------------------------------------------------

\* Every step keeps the invariant.
LEMMA Stepwise == Inv /\ [Next]_vars => Inv'
<1> SUFFICES ASSUME Inv, [Next]_vars PROVE Inv'
  OBVIOUS
<1>1. CASE UNCHANGED vars
  <2>1. UNCHANGED <<log, seen, events, queue, budget, crs, manual, deps, wk>>
    BY <1>1 DEF vars, storeVars, githubVars
  <2> QED
    BY <2>1 DEF Inv, TypeOK, TypeOKStore, CopyOK, wf, Completes, CheckRunIds, DeploymentIds, ValidIds
<1>2. CASE WorkerStep
  BY <1>2, TakeInv, ResetCreateInv, ResetPutInv, ReadInfoInv, DeployKnownInv,
     DeployCreateInv, RecordGetInv, RecordPutInv, DeployStatusInv, UnreportedInv,
     StatusInv, CollectLogsInv, OfferInv, AddActionsInv, PostBatchInv, PublishGetInv,
     PublishPutInv
     DEF WorkerStep, Deploy
<1>3. CASE (QueueStep \/ Relist \/ Environment) /\ UNCHANGED <<githubVars, wk>>
  BY <1>3, QueueInv, EnvironmentInv
<1>4. CASE doDelete \/ Cancel \/ Crash
  BY <1>4, doDeleteInv, CancelInv, CrashInv
<1> QED
  BY <1>1, <1>2, <1>3, <1>4 DEF Next

\* Type correctness, with the facts it needs.
THEOREM Invariance == Spec => []Inv
BY Initially, Stepwise, PTL DEF Spec

\* Every variable keeps its type: in particular every id that the object, the
\* worker or GitHub holds is a number and every history a sequence of versions.
THEOREM TypeCorrect == Spec => []TypeOK
<1>1. Inv => TypeOK
  BY DEF Inv
<1> QED
  BY <1>1, Invariance, PTL

-----------------------------------------------------------------------------
(* A completed check run tells the truth.                                  *)

\* The outcome of version v, the one StatusUpdate may write.
Outcome(v, con) ==
    \/ con = "success" /\ v.phase = "Succeeded"
    \/ con = "failure" /\ v.phase \in {"Failed", "Error"}
    \/ con = "cancelled" /\ v.phase = "Failed" /\ v.ads
    \/ con = "cancelled" /\ ~v.live /\ ~Finished(v)

Witnessed(c, con) == \E k \in 1 .. Len(log) : log[k].cr = c /\ Outcome(log[k], con)

Truth ==
    \A c \in 1 .. Len(crs) : crs[c].status = "completed" =>
        \/ c = 1 /\ log[1].published /\ crs[c].conclusion = "failure"
        \/ Witnessed(c, crs[c].conclusion)

\* Truth is TruthfulConclusion with its domains written as intervals.
LEMMA TruthIsTruthful == Inv => (Truth <=> TruthfulConclusion)
<1> SUFFICES ASSUME Inv PROVE Truth <=> TruthfulConclusion
  OBVIOUS
<1>1. DOMAIN crs = 1 .. Len(crs) /\ DOMAIN log = 1 .. Len(log)
  BY DEF Inv, TypeOK, TypeOKStore
<1> QED
  BY <1>1 DEF Truth, Witnessed, Outcome, TruthfulConclusion

\* Every step extends the history.
LEMMA HistoryGrows ==
    ASSUME Inv, [Next]_vars
    PROVE  /\ Len(log) \in Nat /\ Len(log') \in Nat /\ 0 < Len(log) /\ Len(log') >= Len(log)
           /\ \A k \in 1 .. Len(log) : log'[k] = log[k]
<1>1. log \in Seq(Versions) /\ log' \in Seq(Versions) /\ 0 < Len(log)
  BY Stepwise DEF Inv, TypeOK, TypeOKStore
<1>2. log' = log \/ \E v : log' = Append(log, v)
  BY DEF Next, vars, storeVars, WorkerStep, TakeGone, TakeSettled, TakeReset, TakeSync,
         ResetCreate, ResetPut, ReadInfo, Deploy, DeployKnown, DeployCreate, RecordGet,
         RecordPut, DeployStatus, Unreported, Status, CollectLogs, Offer, AddActions,
         PostBatch, PublishGet, PublishPut, QueueStep, WatchEvent, enqueue, Ready,
         Relist, Environment, ArgoPhase, NodeStarts, NodeEnds, Touch, Retry, Delete, doDelete,
         Cancel, Crash, Store
<1>3. CASE log' = log
  BY <1>1, <1>3, LenProperties
<1>4. ASSUME NEW v, log' = Append(log, v)
      PROVE  Len(log') = Len(log) + 1 /\ \A k \in 1 .. Len(log) : log'[k] = log[k]
  BY <1>1, <1>4
<1> QED
  BY <1>1, <1>2, <1>3, <1>4, LenProperties

\* Whoever changes a check run: it stays as it is, is new, is reopened, or
\* takes the outcome of a version that points at it.
LEMMA CheckRunChange ==
    ASSUME Inv, [Next]_vars
    PROVE  \A c \in 1 .. Len(crs') : crs'[c].status = "completed" =>
              \/ c \in 1 .. Len(crs) /\ crs'[c].status = crs[c].status
                                    /\ crs'[c].conclusion = crs[c].conclusion
              \/ Witnessed(c, crs'[c].conclusion)
<1> DEFINE P == \A c \in 1 .. Len(crs') : crs'[c].status = "completed" =>
              \/ c \in 1 .. Len(crs) /\ crs'[c].status = crs[c].status
                                    /\ crs'[c].conclusion = crs[c].conclusion
              \/ Witnessed(c, crs'[c].conclusion)
<1>1. crs \in Seq(CheckRuns) /\ Len(crs) \in Nat
  BY LenProperties DEF Inv, TypeOK
<1>2. crs' = crs => P
  OBVIOUS
<1>3. ASSUME ResetCreate PROVE P
  <2>1. crs' = crs \/ crs' = Append(crs, NewCheckRun)
    BY <1>3 DEF ResetCreate
  <2>2. CASE crs' = Append(crs, NewCheckRun)
    <3>1. /\ Len(crs') = Len(crs) + 1 /\ crs'[Len(crs) + 1] = NewCheckRun
          /\ \A c \in 1 .. Len(crs) : crs'[c] = crs[c]
      BY <1>1, <2>2
    <3>2. NewCheckRun.status # "completed"
      BY DEF NewCheckRun
    <3> QED
      BY <1>1, <3>1, <3>2
  <2> QED
    BY <1>2, <2>1, <2>2
<1>4. ASSUME NEW n \in Nat, wk.pc # "idle", completionStatus(wf).status # "none", Report(n)
      PROVE  P
  <2>1. CASE StatusLost
    BY <1>2, <2>1 DEF StatusLost
  <2>2. CASE StatusUpdate(wf.cr, completionStatus(wf).status, completionStatus(wf).conclusion, n)
    <3>1. wf.cr \in 1 .. Len(crs) /\ wf \in Versions /\ wk.rv \in 1 .. Len(log)
      BY <1>4, Busy
    <3>2. /\ completionStatus(wf).status \in Statuses
          /\ completionStatus(wf).conclusion \in Conclusions
      BY <1>4, <3>1, CompletionType
    <3>3. /\ Len(crs') = Len(crs)
          /\ \A d \in 1 .. Len(crs) : d # wf.cr => crs'[d] = crs[d]
          /\ crs'[wf.cr].status = completionStatus(wf).status
          /\ crs'[wf.cr].conclusion = completionStatus(wf).conclusion
      BY <1>1, <1>4, <2>2, <3>1, <3>2, StatusUpdateType
    <3>4. completionStatus(wf).status = "completed" => Outcome(wf, completionStatus(wf).conclusion)
      BY DEF completionStatus, Outcome
    <3>5. crs'[wf.cr].status = "completed" => Witnessed(wf.cr, crs'[wf.cr].conclusion)
      BY <3>1, <3>3, <3>4 DEF Witnessed, wf
    <3> QED
      BY <3>3, <3>5
  <2> QED
    BY <1>4, <2>1, <2>2 DEF Report
<1>5. ASSUME doDelete PROVE P
  <2> DEFINE e == Head(events)
  <2>1. CASE crs' = crs
    BY <1>2, <2>1
  <2>2. CASE /\ e # Lost /\ ~log[e].live /\ ~Finished(log[e])
             /\ StatusUpdate(log[e].cr, "completed", "cancelled", 0)
    <3>1. e \in 1 .. Len(log)
      <4> DEFINE S == 0 .. Len(log)
      <4>1. events \in Seq(S) /\ events # <<>>
        BY <1>5 DEF doDelete, Inv, TypeOK, TypeOKStore
      <4> HIDE DEF S
      <4>2. e \in S
        BY <4>1, HeadTailProperties
      <4> QED
        BY <2>2, <4>2 DEF S, Lost
    <3>2. log[e].cr \in 1 .. Len(crs)
      BY <3>1 DEF Inv, CheckRunIds
    <3>3. /\ Len(crs') = Len(crs)
          /\ \A d \in 1 .. Len(crs) : d # log[e].cr => crs'[d] = crs[d]
          /\ crs'[log[e].cr].conclusion = "cancelled"
      BY <1>1, <2>2, <3>2, StatusUpdateType DEF Statuses, Conclusions
    <3>4. Witnessed(log[e].cr, "cancelled")
      BY <2>2, <3>1 DEF Witnessed, Outcome
    <3> QED
      BY <3>3, <3>4
  <2> QED
    BY <1>5, <2>1, <2>2 DEF doDelete, StatusLost
<1>6. ASSUME WorkerStep PROVE P
  <2>1. CASE Status
    BY <1>4, <2>1 DEF Status, At
  <2>2. CASE AddActions
    BY <1>4, <2>2, CompletesReported DEF AddActions, At, Inv, CopyOK, Completing
  <2>3. CASE PostBatch
    <3>1. wk.pc = "annotate" /\ wk.at < wk.anns /\ Report(Batch(wk.at)) /\ Completes(wf)
      BY <2>3 DEF PostBatch, At, Inv, CopyOK, Completing
    <3>2. wk.at \in Nat /\ wk.anns \in Nat /\ BatchSize \in Nat
      BY <3>1, Busy, ConstantsAssumption DEF Workers
    <3>3. Batch(wk.at) \in Nat
      BY <3>1, <3>2 DEF Batch
    <3> QED
      BY <1>4, <3>1, <3>3, CompletesReported
  <2>4. CASE ResetCreate
    BY <1>3, <2>4
  <2>5. CASE ~(Status \/ AddActions \/ PostBatch \/ ResetCreate)
    <3>1. crs' = crs
      BY <1>6, <2>5 DEF WorkerStep, TakeGone, TakeSettled, TakeReset, TakeSync, ResetPut,
         ReadInfo, Deploy, DeployKnown, DeployCreate, RecordGet, RecordPut, DeployStatus,
         Unreported, CollectLogs, Offer, PublishGet, PublishPut, githubVars
    <3> QED
      BY <1>2, <3>1
  <2> QED
    BY <2>1, <2>2, <2>3, <2>4, <2>5
<1>7. ASSUME ~WorkerStep, ~doDelete PROVE P
  <2>1. crs' = crs
    BY <1>7 DEF Next, vars, githubVars, Cancel, Crash
  <2> QED
    BY <1>2, <2>1
<1> HIDE DEF P
<1>8. P
  BY <1>5, <1>6, <1>7
<1> QED
  BY <1>8 DEF P

\* No step completes a check run with an outcome its workflow never had.
LEMMA TruthKept == Inv /\ Truth /\ [Next]_vars => Truth'
<1> SUFFICES ASSUME Inv, Truth, [Next]_vars,
                    NEW c \in 1 .. Len(crs'), crs'[c].status = "completed"
             PROVE  \/ c = 1 /\ log'[1].published /\ crs'[c].conclusion = "failure"
                    \/ \E k \in 1 .. Len(log') : /\ log'[k].cr = c
                                                  /\ Outcome(log'[k], crs'[c].conclusion)
  BY DEF Truth, Witnessed, Outcome, Finished
<1>1. /\ Len(log) \in Nat /\ Len(log') \in Nat /\ 0 < Len(log) /\ Len(log') >= Len(log)
      /\ \A k \in 1 .. Len(log) : log'[k] = log[k]
  BY HistoryGrows
<1>2. CASE Witnessed(c, crs'[c].conclusion)
  BY <1>1, <1>2 DEF Witnessed
<1>3. CASE c \in 1 .. Len(crs) /\ crs'[c].status = crs[c].status
                              /\ crs'[c].conclusion = crs[c].conclusion
  BY <1>1, <1>3, SMTT(30) DEF Truth, Witnessed
<1> QED
  BY <1>2, <1>3, CheckRunChange

\* A check run GitHub shows as completed has the outcome of a stored version
\* of its workflow: StatusUpdate pairs the state and the id of one copy.
THEOREM CheckRunTruth == Spec => []TruthfulConclusion
<1>1. Init => Truth
  <2> SUFFICES ASSUME Init PROVE Truth
    OBVIOUS
  <2>1. CASE InitStore(Fresh) /\ crs = <<NewCheckRun>>
    BY <2>1 DEF Truth, NewCheckRun
  <2>2. CASE InitStore(Resubmitted) /\
             crs = <<[status |-> "completed", conclusion |-> "failure", anns |-> NAnn]>>
    BY <2>2 DEF Truth, InitStore, Resubmitted, Fresh
  <2> QED
    BY <2>1, <2>2 DEF Init
<1>2. Inv /\ Truth => TruthfulConclusion
  BY TruthIsTruthful
<1> QED
  BY <1>1, <1>2, Initially, Stepwise, TruthKept, PTL DEF Spec

-----------------------------------------------------------------------------
(* kube-ci and Argo do not undo each other's writes.                       *)

\* Version w is v with, at most, one party's part changed.
OnePart(v, w) ==
    \/ v.phase = w.phase /\ v.node = w.node
    \/ v.cr = w.cr /\ v.published = w.published /\ v.dep = w.dep

\* Every write changes Argo's part of the latest version or kube-ci's, not both.
LEMMA WriteOnePart ==
    ASSUME Inv, [Next]_vars
    PROVE  log' = log \/ \E v : log' = Append(log, v) /\ OnePart(Latest, v)
<1> DEFINE P == log' = log \/ \E v : log' = Append(log, v) /\ OnePart(Latest, v)
<1>1. ASSUME NEW v, Store(v) \/ log' = Append(log, v), OnePart(Latest, v) PROVE P
  BY <1>1 DEF Store
<1>2. CASE ArgoPhase
  <2>1. PICK p : Store([Latest EXCEPT !.phase = p])
    BY <1>2 DEF ArgoPhase
  <2>2. OnePart(Latest, [Latest EXCEPT !.phase = p])
    BY LatestFacts DEF OnePart, Versions
  <2> QED
    BY <1>1, <2>1, <2>2
<1>3. CASE NodeStarts \/ NodeEnds
  <2>1. PICK n \in DeployNodes : \E p : Store([Latest EXCEPT !.node[n] = p])
    BY <1>3 DEF NodeStarts, NodeEnds
  <2>2. PICK p : Store([Latest EXCEPT !.node[n] = p])
    BY <2>1
  <2>3. OnePart(Latest, [Latest EXCEPT !.node[n] = p])
    BY LatestFacts DEF OnePart, Versions
  <2> QED
    BY <1>1, <2>2, <2>3
<1>4. CASE Touch
  BY <1>1, <1>4 DEF Touch, OnePart
<1>5. CASE Retry
  <2>1. PICK f : Store([Latest EXCEPT !.phase = "Running", !.ads = FALSE, !.node = f])
    BY <1>5 DEF Retry
  <2>2. OnePart(Latest, [Latest EXCEPT !.phase = "Running", !.ads = FALSE, !.node = f])
    BY LatestFacts DEF OnePart, Versions
  <2> QED
    BY <1>1, <2>1, <2>2
<1>6. CASE Delete
  <2>1. OnePart(Latest, [Latest EXCEPT !.live = FALSE])
    BY LatestFacts DEF OnePart, Versions
  <2> QED
    BY <1>1, <1>6, <2>1 DEF Delete
<1>7. CASE Cancel
  <2>1. OnePart(Latest, [Latest EXCEPT !.ads = TRUE])
    BY LatestFacts DEF OnePart, Versions
  <2> QED
    BY <1>1, <1>7, <2>1 DEF Cancel, Current, Cached, Latest
<1>8. CASE ResetPut
  <2> DEFINE v == [wf EXCEPT !.published = FALSE, !.cr = wk.fresh, !.dep = NoIds]
  <2>1. CASE Current(wk.rv) /\ Store(v)
    <3>1. wf = Latest
      BY <2>1 DEF Current, wf, Latest
    <3>2. OnePart(Latest, v)
      BY <3>1, LatestFacts DEF OnePart, Versions
    <3> QED
      BY <1>1, <2>1, <3>2
  <2> QED
    BY <1>8, <2>1 DEF ResetPut
<1>9. CASE RecordPut
  <2>1. OnePart(Latest, [Latest EXCEPT !.dep = wk.ids])
    BY LatestFacts DEF OnePart, Versions
  <2> QED
    BY <1>1, <1>9, <2>1 DEF RecordPut
<1>10. CASE PublishPut
  <2>1. OnePart(Latest, [Latest EXCEPT !.published = TRUE])
    BY LatestFacts DEF OnePart, Versions
  <2> QED
    BY <1>1, <1>10, <2>1 DEF PublishPut
<1>11. CASE /\ ~(ArgoPhase \/ NodeStarts \/ NodeEnds \/ Touch \/ Retry \/ Delete \/ Cancel)
            /\ ~(ResetPut \/ RecordPut \/ PublishPut)
  BY <1>11 DEF Next, vars, storeVars, WorkerStep, TakeGone, TakeSettled, TakeReset, TakeSync,
         ResetCreate, ReadInfo, Deploy, DeployKnown, DeployCreate, RecordGet,
         DeployStatus, Unreported, Status, CollectLogs, Offer, AddActions,
         PostBatch, PublishGet, QueueStep, WatchEvent, enqueue, Ready,
         Relist, Environment, doDelete, Crash
<1> QED
  BY <1>2, <1>3, <1>4, <1>5, <1>6, <1>7, <1>8, <1>9, <1>10, <1>11

\* No stored version undoes, in one write, what the other party wrote: every
\* Update of kube-ci's is made on the version it read.
THEOREM WritesAreNotLost == Spec => []NoLostUpdate
<1>1. Init => NoLostUpdate
  <2> SUFFICES ASSUME Init PROVE NoLostUpdate
    OBVIOUS
  <2>1. Len(log) = 1
    BY DEF Init, InitStore
  <2> QED
    BY <2>1 DEF NoLostUpdate
<1>2. Inv /\ NoLostUpdate /\ [Next]_vars => NoLostUpdate'
  <2> SUFFICES ASSUME Inv, NoLostUpdate, [Next]_vars, NEW k \in 1 .. Len(log') - 1
               PROVE  OnePart(log'[k], log'[k + 1])
    BY DEF NoLostUpdate, OnePart
  <2>1. log \in Seq(Versions) /\ Len(log) \in Nat /\ Len(log) > 0
    BY LatestFacts
  <2>2. CASE log' = log
    BY <2>2 DEF NoLostUpdate, OnePart
  <2>3. ASSUME NEW v, log' = Append(log, v), OnePart(Latest, v)
        PROVE  OnePart(log'[k], log'[k + 1])
    <3>1. /\ Len(log') = Len(log) + 1 /\ log'[Len(log) + 1] = v
          /\ \A i \in 1 .. Len(log) : log'[i] = log[i]
      BY <2>1, <2>3
    <3>2. CASE k = Len(log)
      BY <2>1, <2>3, <3>1, <3>2 DEF Latest
    <3>3. CASE k < Len(log)
      <4>1. k \in 1 .. Len(log) - 1 /\ log'[k] = log[k] /\ log'[k + 1] = log[k + 1]
        BY <2>1, <3>1, <3>3
      <4> QED
        BY <4>1 DEF NoLostUpdate, OnePart
    <3> QED
      BY <2>1, <3>1, <3>2, <3>3
  <2> QED
    BY <2>2, <2>3, WriteOnePart
<1> QED
  BY <1>1, <1>2, Initially, Stepwise, PTL DEF Spec
=============================================================================
