---------------------------- MODULE CheckRunSync -----------------------------
(***************************************************************************)
(* The workflow syncer (controller.go): one worker takes the key of a      *)
(* Workflow from the queue, reads the cached object and brings GitHub to   *)
(* match it - the check run, the deployments of the nodes that deploy, the *)
(* log annotations and the manual steps that come next - and records on    *)
(* the object what it did.  Every call to GitHub and to the API server is  *)
(* a step of its own, so that Argo, the informer's goroutine (doDelete),   *)
(* the webhook handlers (Cancel) and a crash come between any two of them. *)
(***************************************************************************)
EXTENDS WorkflowStore

CONSTANTS
    Tasks,      \* the manual steps this workflow is followed by, in order
    NAnn,       \* annotations in the logs of its pods
    BatchSize,  \* annotations one call to GitHub may carry
    Env,        \* the environment each node deploys to
    Production  \* the environments where GitHub retires no deployment

VARIABLES
    crs,        \* check runs on GitHub, by id
    manual,     \* how many check runs offer each manual step
    deps,       \* deployments on GitHub, by id
    wk          \* the worker

githubVars == <<crs, manual, deps>>
vars == <<storeVars, githubVars, wk>>

TaskSet == {Tasks[i] : i \in DOMAIN Tasks}
NoIds == [n \in DeployNodes |-> 0]

ASSUME ConstantsAssumption ==
    /\ NAnn \in Nat
    /\ BatchSize \in Nat \ {0}
    /\ Tasks \in Seq(TaskSet)
    /\ DOMAIN Env = DeployNodes

Statuses == {"queued", "in_progress", "completed"}
Conclusions == {"none", "success", "failure", "cancelled"}
DeployStates == {"none", "in_progress", "success", "failure", "error", "inactive"}
Steps == {"idle", "resetCreate", "resetPut", "info", "deploy", "recordGet",
          "recordPut", "deployStatus", "logs", "offer", "annotate", "publishPut"}

CheckRuns == [status: Statuses, conclusion: Conclusions, anns: Nat]
Deployments == [node: DeployNodes, state: DeployStates]

Workers ==
    [pc: Steps,
     rv: Nat,                       \* the version it works on: "wf" is log[rv]
     got: Nat,                      \* the version updateWorkflow's Get returned
     fresh: Nat,                    \* check run resetCheckRun just created
     ids: [DeployNodes -> Nat],     \* info.deploymentIDs
     cur: SUBSET DeployNodes,       \* the node being deployed, if any
     todo: SUBSET DeployNodes,      \* nodes syncDeployments has yet to visit
     tasks: Seq(TaskSet),           \* manual steps yet to offer
     anns: Nat,                     \* annotations found in the logs
     at: Nat]                       \* annotations already sent

Idle(rv) == [pc |-> "idle", rv |-> rv, got |-> 0, fresh |-> 0, ids |-> NoIds,
             cur |-> {}, todo |-> {}, tasks |-> <<>>, anns |-> 0, at |-> 0]

\* The worker's copy of the object.
wf == log[wk.rv]

TypeOK ==
    /\ TypeOKStore
    /\ crs \in Seq(CheckRuns)
    /\ manual \in [TaskSet -> Nat]
    /\ deps \in Seq(Deployments)
    /\ wk \in Workers

-----------------------------------------------------------------------------
(* What a workflow's phase means on GitHub.                                *)

\* Bug: a zero deadline decides whatever the phase is.
BugDeadlineDecides(v) ==
    CASE v.phase = "Pending" -> [status |-> "queued", conclusion |-> "none"]
      [] v.phase = "Running" -> [status |-> "in_progress", conclusion |-> "none"]
      [] v.phase \in FinalPhases ->
            [status |-> "completed",
             conclusion |-> IF v.ads THEN "cancelled"
                            ELSE IF v.phase = "Succeeded" THEN "success" ELSE "failure"]
      [] OTHER -> [status |-> "none", conclusion |-> "none"]

\* The status and conclusion of the check run; "none" stands for "ignore this phase".
completionStatus(v) ==
    CASE v.phase = "Pending" -> [status |-> "queued", conclusion |-> "none"]
      [] v.phase = "Running" -> [status |-> "in_progress", conclusion |-> "none"]
      [] v.phase = "Failed" ->
            [status |-> "completed",
             conclusion |-> IF v.ads THEN "cancelled" ELSE "failure"]
      [] v.phase = "Error" -> [status |-> "completed", conclusion |-> "failure"]
      [] v.phase = "Succeeded" -> [status |-> "completed", conclusion |-> "success"]
      [] OTHER -> [status |-> "none", conclusion |-> "none"]

deployStatusFromPhase(p) ==
    CASE p = "Running" -> "in_progress"
      [] p = "Succeeded" -> "success"
      [] p = "Failed" -> "failure"
      [] p = "Error" -> "error"
      [] OTHER -> "none"

\* GitHub merges an update of check run c: annotations are appended, and a
\* conclusion goes with a completed run only.
StatusUpdate(c, st, con, new) ==
    crs' = [crs EXCEPT ![c] =
              [status |-> st, conclusion |-> con, anns |-> @.anns + new]]

\* The call failed: StatusUpdate logs the error and its caller goes on (as it
\* does after a call that worked, so that a lost reply makes no difference).
StatusLost == Spend("fault") /\ UNCHANGED crs

NewCheckRun == [status |-> "queued", conclusion |-> "none", anns |-> 0]

Done == wk' = Idle(wk.rv)
Goto(pc) == wk' = [wk EXCEPT !.pc = pc]
At(pc) == wk.pc = pc

-----------------------------------------------------------------------------
(* process and sync, up to the check run reset.                            *)

Take == At("idle") /\ queue.dirty /\ queue' = [queue EXCEPT !.dirty = FALSE]

\* The lister does not know the key any more.
TakeGone ==
    /\ Take /\ ~Cached.live
    /\ wk' = Idle(seen)
    /\ UNCHANGED <<log, seen, events, budget, githubVars>>

\* Already published and not running again: nothing to do.
TakeSettled ==
    /\ Take /\ Cached.live
    /\ Cached.published /\ Cached.phase \notin {"Pending", "Running"}
    /\ wk' = Idle(seen)
    /\ UNCHANGED <<log, seen, events, budget, githubVars>>

\* Published, but running: the workflow was resubmitted or retried.
TakeReset ==
    /\ Take /\ Cached.live
    /\ Cached.published /\ Cached.phase \in {"Pending", "Running"}
    /\ wk' = [Idle(seen) EXCEPT !.pc = "resetCreate"]
    /\ UNCHANGED <<log, seen, events, budget, githubVars>>

TakeSync ==
    /\ Take /\ Cached.live /\ ~Cached.published
    /\ wk' = [Idle(seen) EXCEPT !.pc = "info"]
    /\ UNCHANGED <<log, seen, events, budget, githubVars>>

\* resetCheckRun: a new check run on GitHub ...  Here and below, a call that
\* failed may have taken effect all the same, and only its reply got lost.
ResetCreate ==
    /\ At("resetCreate")
    /\ LET new == crs' = Append(crs, NewCheckRun)
       IN  \/ /\ new
              /\ wk' = [wk EXCEPT !.pc = "resetPut", !.fresh = Len(crs')]
              /\ UNCHANGED budget
           \/ Spend("fault") /\ Done /\ (new \/ UNCHANGED crs)
    /\ UNCHANGED <<log, seen, events, queue, manual, deps>>

\* What a reset may write back, and the copy the sync goes on with.
ResetTo(v, guard, next) ==
    /\ At("resetPut")
    /\ \/ guard /\ Store(v) /\ wk' = next /\ UNCHANGED budget
       \/ ~Current(wk.rv) /\ Done /\ UNCHANGED <<log, budget>>
    /\ UNCHANGED <<seen, events, queue, githubVars>>

\* Bug: the flag is not taken back.
BugResetKeepsFlag ==
    ResetTo([wf EXCEPT !.cr = wk.fresh, !.dep = NoIds], Current(wk.rv),
            [Idle(Len(log')) EXCEPT !.pc = "info"])

\* Bug: the sync goes on with the copy it had before the reset.
BugResetOldCopy ==
    ResetTo([wf EXCEPT !.published = FALSE, !.cr = wk.fresh, !.dep = NoIds],
            Current(wk.rv), [wk EXCEPT !.pc = "info"])

\* Bug: the stale copy overwrites whatever is there.
BugResetForces ==
    ResetTo([wf EXCEPT !.published = FALSE, !.cr = wk.fresh, !.dep = NoIds],
            Latest.live, [Idle(Len(log')) EXCEPT !.pc = "info"])

\* ... and the copy from the cache written back with the new id.
ResetPut ==
    /\ At("resetPut")
    /\ LET put == /\ Current(wk.rv)
                  /\ Store([wf EXCEPT !.published = FALSE, !.cr = wk.fresh, !.dep = NoIds])
       IN  \/ put /\ wk' = [Idle(Len(log')) EXCEPT !.pc = "info"] /\ UNCHANGED budget
           \/ ~Current(wk.rv) /\ Done /\ UNCHANGED <<log, budget>>
           \/ Spend("fault") /\ Done /\ (put \/ UNCHANGED log)
    /\ UNCHANGED <<seen, events, queue, githubVars>>

\* Bug: nodes with a recorded deployment are not visited again.
BugVisitNewOnly ==
    /\ At("info")
    /\ wk' = [wk EXCEPT !.pc = "deploy", !.ids = wf.dep,
                        !.todo = {n \in DeployNodes :
                                    /\ deployStatusFromPhase(wf.node[n]) # "none"
                                    /\ wf.dep[n] = 0}]
    /\ UNCHANGED <<storeVars, githubVars>>

\* githubInfoFromWorkflow.
ReadInfo ==
    /\ At("info")
    /\ \/ /\ wk' = [wk EXCEPT !.pc = "deploy", !.ids = wf.dep,
                        !.todo = {n \in DeployNodes :
                                    deployStatusFromPhase(wf.node[n]) # "none"}]
          /\ UNCHANGED budget
       \/ Spend("fault") /\ Done
    /\ UNCHANGED <<log, seen, events, queue, githubVars>>

-----------------------------------------------------------------------------
(* syncDeployments: the nodes are visited in any order.                    *)

DeployKnown(n) ==
    /\ At("deploy") /\ n \in wk.todo /\ wk.ids[n] # 0
    /\ wk' = [wk EXCEPT !.pc = "deployStatus", !.todo = @ \ {n}, !.cur = {n}]
    /\ UNCHANGED <<storeVars, githubVars>>

\* createOnDemandDeployment; a failed call skips the node.
DeployCreate(n) ==
    /\ At("deploy") /\ n \in wk.todo /\ wk.ids[n] = 0
    /\ LET new == deps' = Append(deps, [node |-> n, state |-> "none"])
       IN  \/ /\ new
              /\ wk' = [wk EXCEPT !.pc = "recordGet", !.todo = @ \ {n},
                                  !.cur = {n}, !.ids[n] = Len(deps')]
              /\ UNCHANGED budget
           \/ /\ Spend("fault") /\ wk' = [wk EXCEPT !.todo = @ \ {n}]
              /\ new \/ UNCHANGED deps
    /\ UNCHANGED <<log, seen, events, queue, crs, manual>>

NextNode == wk' = [wk EXCEPT !.pc = "deploy", !.cur = {}]

\* updateWorkflow, first call.
RecordGet ==
    /\ At("recordGet")
    /\ \/ /\ Latest.live
          /\ wk' = [wk EXCEPT !.pc = "recordPut", !.got = Len(log)]
          /\ UNCHANGED budget
       \/ ~Latest.live /\ NextNode /\ UNCHANGED budget
       \/ Spend("fault") /\ NextNode
    /\ UNCHANGED <<log, seen, events, queue, githubVars>>

\* updateWorkflow, second call: the whole local map replaces the annotation.
RecordPut ==
    /\ At("recordPut")
    /\ LET put == Current(wk.got) /\ Store([Latest EXCEPT !.dep = wk.ids])
       IN  \/ put /\ Goto("deployStatus") /\ UNCHANGED budget
           \/ ~Current(wk.got) /\ NextNode /\ UNCHANGED <<log, budget>>
           \/ Spend("fault") /\ NextNode /\ (put \/ UNCHANGED log)
    /\ UNCHANGED <<seen, events, queue, githubVars>>

\* A success retires the earlier successes in its environment (AutoInactive).
Retires(d, st, e) ==
    /\ st = "success" /\ e < d /\ deps[e].state = "success"
    /\ Env[deps[e].node] = Env[deps[d].node] /\ Env[deps[d].node] \notin Production

CreateDeploymentStatus(d, st) ==
    deps' = [e \in DOMAIN deps |->
               IF e = d THEN [deps[e] EXCEPT !.state = st]
               ELSE IF Retires(d, st, e) THEN [deps[e] EXCEPT !.state = "inactive"]
               ELSE deps[e]]

\* Bug: a finished workflow's own phase is reported for its nodes.
BugDeployWorkflowPhase ==
    /\ At("deployStatus")
    /\ \E n \in wk.cur :
         CreateDeploymentStatus(wk.ids[n],
             deployStatusFromPhase(IF Finished(wf) THEN wf.phase ELSE wf.node[n]))
    /\ NextNode
    /\ UNCHANGED <<storeVars, crs, manual>>

\* An error here ends the whole sync.
DeployStatus ==
    /\ At("deployStatus")
    /\ \E n \in wk.cur :
         LET told == CreateDeploymentStatus(wk.ids[n], deployStatusFromPhase(wf.node[n]))
         IN  \/ told /\ NextNode /\ UNCHANGED budget
             \/ Spend("fault") /\ Done /\ (told \/ UNCHANGED deps)
    /\ UNCHANGED <<log, seen, events, queue, crs, manual>>

-----------------------------------------------------------------------------
(* The check run itself, and its completion.                               *)

\* Bug: failed runs are not completed.
BugCompletesSuccess(v) == v.phase = "Succeeded"

\* completeCheckRun works on these phases only.
Completes(v) == v.phase \in {"Failed", "Succeeded"}

\* The check run is given the state of the worker's copy, "new" annotations.
Report(new) ==
    \/ /\ StatusUpdate(wf.cr, completionStatus(wf).status,
                       completionStatus(wf).conclusion, new)
       /\ UNCHANGED budget
    \/ StatusLost

\* Nothing to report for this phase.
Unreported ==
    /\ At("deploy") /\ wk.todo = {} /\ completionStatus(wf).status = "none"
    /\ Done
    /\ UNCHANGED <<storeVars, githubVars>>

\* Bug: the early return for other phases is gone.
BugStatusAny ==
    /\ At("deploy") /\ wk.todo = {}
    /\ Report(0)
    /\ IF Completes(wf) THEN Goto("logs") ELSE Done
    /\ UNCHANGED <<log, seen, events, queue, manual, deps>>

\* The progress update.
Status ==
    /\ At("deploy") /\ wk.todo = {} /\ completionStatus(wf).status # "none"
    /\ Report(0)
    /\ IF Completes(wf) THEN Goto("logs") ELSE Done
    /\ UNCHANGED <<log, seen, events, queue, manual, deps>>

\* Bug: manual steps follow a failure too.
BugOfferAlways ==
    /\ At("logs")
    /\ wk' = [wk EXCEPT !.pc = "offer", !.anns = NAnn, !.tasks = Tasks]
    /\ UNCHANGED <<storeVars, githubVars>>

\* completeCheckRun reads the logs; a success has manual steps to offer,
\* unless the repository cannot be read.
CollectLogs ==
    /\ At("logs")
    /\ LET next == IF wf.phase = "Succeeded" THEN Tasks ELSE <<>>
           found(anns, tasks) ==
               wk' = [wk EXCEPT !.pc = "offer", !.anns = anns, !.tasks = tasks]
       IN  \/ found(NAnn, next) /\ UNCHANGED budget
           \/ Spend("fault") /\ found(0, next)
           \/ Spend("fault") /\ found(NAnn, <<>>)
    /\ UNCHANGED <<log, seen, events, queue, githubVars>>

\* nextCheckRunsForWorkflow: one check run for the next manual step.
Offer ==
    /\ At("offer") /\ wk.tasks # <<>>
    /\ wk' = [wk EXCEPT !.tasks = Tail(@)]
    /\ \/ /\ manual' = [manual EXCEPT ![Head(wk.tasks)] = @ + 1]
          /\ UNCHANGED budget
       \/ Spend("fault") /\ UNCHANGED manual
    /\ UNCHANGED <<log, seen, events, queue, crs, deps>>

AddActions ==
    /\ At("offer") /\ wk.tasks = <<>>
    /\ Report(0)
    /\ Goto("annotate")
    /\ UNCHANGED <<log, seen, events, queue, manual, deps>>

\* Bug: the last, partial batch is cut one short.
BugShortBatch(i) == IF i + BatchSize > wk.anns THEN wk.anns - i - 1 ELSE BatchSize

\* The size of the batch that starts at annotation i.
Batch(i) == IF i + BatchSize > wk.anns THEN wk.anns - i ELSE BatchSize

PostBatch ==
    /\ At("annotate") /\ wk.at < wk.anns
    /\ Report(Batch(wk.at))
    /\ wk' = [wk EXCEPT !.at = @ + BatchSize]
    /\ UNCHANGED <<log, seen, events, queue, manual, deps>>

\* updateWorkflow again, to mark the object as published.
PublishGet ==
    /\ At("annotate") /\ wk.at >= wk.anns
    /\ \/ /\ Latest.live
          /\ wk' = [wk EXCEPT !.pc = "publishPut", !.got = Len(log)]
          /\ UNCHANGED budget
       \/ ~Latest.live /\ Done /\ UNCHANGED budget
       \/ Spend("fault") /\ Done
    /\ UNCHANGED <<log, seen, events, queue, githubVars>>

\* Bug: the copy the sync started with is written, not the latest one.
BugPublishStale ==
    /\ At("publishPut")
    /\ Latest.live
    /\ Store([wf EXCEPT !.published = TRUE])
    /\ Done
    /\ UNCHANGED <<seen, events, queue, budget, githubVars>>

\* After this call the sync ends anyhow: a lost reply makes no difference.
PublishPut ==
    /\ At("publishPut")
    /\ \/ /\ Current(wk.got)
          /\ Store([Latest EXCEPT !.published = TRUE])
          /\ UNCHANGED budget
       \/ ~Current(wk.got) /\ UNCHANGED <<log, budget>>
       \/ Spend("fault") /\ UNCHANGED log
    /\ Done
    /\ UNCHANGED <<seen, events, queue, githubVars>>

-----------------------------------------------------------------------------
(* The informer's goroutine, the webhook handlers and restarts.            *)

\* Bug: the check for FinishedAt is gone.
BugDeleteAny ==
    /\ events # <<>> /\ Head(events) # Lost /\ ~log[Head(events)].live
    /\ events' = Tail(events)
    /\ StatusUpdate(log[Head(events)].cr, "completed", "cancelled", 0)
    /\ UNCHANGED <<log, seen, queue, budget, manual, deps, wk>>

\* The deletion of an unfinished workflow cancels its check run.
doDelete ==
    /\ events # <<>>
    /\ events' = Tail(events)
    /\ LET e == Head(events)
       IN  \/ e = Lost /\ UNCHANGED <<crs, budget>>
           \/ e # Lost /\ ~log[e].live /\ Finished(log[e]) /\ UNCHANGED <<crs, budget>>
           \/ /\ e # Lost /\ ~log[e].live /\ ~Finished(log[e])
              /\ \/ StatusUpdate(log[e].cr, "completed", "cancelled", 0) /\ UNCHANGED budget
                 \/ StatusLost
    /\ UNCHANGED <<log, seen, queue, manual, deps, wk>>

\* cancelRunningWorkflows writes the cached copy back with a zero deadline;
\* when the cache is behind, the write conflicts and the error is dropped.
Cancel ==
    /\ Spend("cancel")
    /\ Cached.live /\ Current(seen)
    /\ Store([Cached EXCEPT !.ads = TRUE])
    /\ UNCHANGED <<seen, events, queue, githubVars, wk>>

\* The process dies and starts again: the informer lists, the queue is empty.
Crash ==
    /\ Spend("crash")
    /\ wk' = Idle(0)
    /\ seen' = Len(log)
    /\ events' = IF Latest.live THEN <<Len(log)>> ELSE <<>>
    /\ queue' = [waiting |-> FALSE, dirty |-> FALSE]
    /\ UNCHANGED <<log, githubVars>>

-----------------------------------------------------------------------------

\* A workflow runWorkflow created, whose check run is queued ...
Fresh == [live |-> TRUE, phase |-> "none", ads |-> FALSE, published |-> FALSE, cr |-> 1,
          node |-> [n \in DeployNodes |-> "none"], dep |-> NoIds]

\* ... or one that "argo resubmit" copied from a run that was published.
Resubmitted == [Fresh EXCEPT !.published = TRUE]

Init ==
    /\ \/ InitStore(Fresh) /\ crs = <<NewCheckRun>>
       \/ /\ InitStore(Resubmitted)
          /\ budget["resubmit"] > 0
          /\ crs = <<[status |-> "completed", conclusion |-> "failure", anns |-> NAnn]>>
    /\ manual = [t \in TaskSet |-> 0]
    /\ deps = <<>>
    /\ wk = Idle(0)

Deploy == \E n \in DeployNodes : DeployKnown(n) \/ DeployCreate(n)

WorkerStep ==
    \/ TakeGone \/ TakeSettled \/ TakeReset \/ TakeSync
    \/ ResetCreate \/ ResetPut \/ ReadInfo
    \/ Deploy \/ RecordGet \/ RecordPut \/ DeployStatus
    \/ Unreported \/ Status
    \/ CollectLogs \/ Offer \/ AddActions \/ PostBatch \/ PublishGet \/ PublishPut

QueueStep == WatchEvent \/ enqueue \/ Ready

Next ==
    \/ WorkerStep
    \/ (QueueStep \/ Relist \/ Environment) /\ UNCHANGED <<githubVars, wk>>
    \/ doDelete \/ Cancel \/ Crash

Spec == Init /\ [][Next]_vars

\* The worker, the watch, the handlers and the rate limiter keep going;
\* nothing makes Argo, a user or a failure happen.
Fairness ==
    /\ WF_vars(WorkerStep)
    /\ WF_vars(WatchEvent /\ UNCHANGED <<githubVars, wk>>)
    /\ WF_vars(enqueue /\ UNCHANGED <<githubVars, wk>>)
    /\ WF_vars(Ready /\ UNCHANGED <<githubVars, wk>>)
    /\ WF_vars(doDelete)

LiveSpec == Spec /\ Fairness

-----------------------------------------------------------------------------
(* Safety.                                                                 *)

\* A check run that GitHub shows as completed tells the truth: some stored
\* version that pointed at it had that outcome (StatusUpdate is called with
\* the state and the check run id of one and the same copy), or its workflow
\* was deleted unfinished.  A resubmitted workflow starts out with the check
\* run of the earlier run.
TruthfulConclusion ==
    \A c \in DOMAIN crs : crs[c].status = "completed" =>
        \/ c = 1 /\ log[1].published /\ crs[c].conclusion = "failure"
        \/ \E k \in DOMAIN log :
              /\ log[k].cr = c
              /\ \/ crs[c].conclusion = "success" /\ log[k].phase = "Succeeded"
                 \/ crs[c].conclusion = "failure" /\ log[k].phase \in {"Failed", "Error"}
                 \/ crs[c].conclusion = "cancelled" /\ log[k].phase = "Failed" /\ log[k].ads
                 \/ crs[c].conclusion = "cancelled" /\ ~log[k].live /\ ~Finished(log[k])

\* No version is forgotten: while the cache holds one the worker has not
\* taken, a notification, the rate limiter or the queue still holds the key
\* (enqueue on every event, Done only after the sync).
NoLostWakeup ==
    Cached.live /\ wk.rv < seen => events # <<>> \/ queue.waiting \/ queue.dirty

\* The published annotation is set after the check run was completed and all
\* annotations were posted, and stays true to that until the reset
\* (completeCheckRun, resetCheckRun).
PublishedIsComplete ==
    Latest.live /\ Latest.published =>
        crs[Latest.cr].status = "completed" /\ crs[Latest.cr].anns >= NAnn

\* Manual steps are offered only when GitHub shows the run they follow as a
\* success (nextCheckRunsForWorkflow runs after the progress update).
OfferedAfterSuccess ==
    \A t \in TaskSet : manual[t] > 0 =>
        \E k \in DOMAIN log : /\ log[k].phase = "Succeeded"
                              /\ crs[log[k].cr].conclusion = "success"

\* kube-ci and Argo write different parts of the object and neither undoes
\* the other's write: no stored version changes both (updateWorkflow's Get
\* before Update, resetCheckRun's Update with the version it read).
NoLostUpdate ==
    \A k \in 1 .. Len(log) - 1 :
        \/ /\ log[k].phase = log[k + 1].phase
           /\ log[k].node = log[k + 1].node
        \/ /\ log[k].cr = log[k + 1].cr
           /\ log[k].published = log[k + 1].published
           /\ log[k].dep = log[k + 1].dep

\* What was reported of a deployment in a state: an inactive one was a success.
Reported(state) == IF state = "inactive" THEN "success" ELSE state

\* The state of a deployment is one its node really had; one that GitHub has
\* retired belongs to a node that succeeded.
DeploymentTruthful ==
    \A d \in DOMAIN deps : deps[d].state # "none" =>
        \E k \in DOMAIN log :
            deployStatusFromPhase(log[k].node[deps[d].node]) = Reported(deps[d].state)

-----------------------------------------------------------------------------
(* What a step may never do.                                               *)

\* A completed check run is not opened again, as long as nobody retries or
\* deletes the workflow: the syncer never reports an older state after a
\* newer one, and a resubmitted workflow gets a check run of its own.
CompletedStays ==
    [][\A c \in DOMAIN crs : crs[c].status = "completed" =>
            crs'[c].status = "completed"]_crs

\* A workflow is moved to another check run only while it runs again after
\* being published; the check run is new and the flag is taken back in the
\* same write (resetCheckRun).
ResetIsFresh ==
    [][Latest'.cr # Latest.cr =>
            /\ Latest.published /\ Latest.phase \in {"Pending", "Running"}
            /\ ~Latest'.published
            /\ \A k \in DOMAIN log : log[k].cr # Latest'.cr
            /\ crs[Latest'.cr] = NewCheckRun]_log

\* What was reported of a deployment that has ended stays, unless the workflow
\* is retried: later syncs of older or newer copies do not take it back.  A
\* success may be retired (AutoInactive) by the success of another deployment
\* in its environment, such as the second one that a sync of a stale copy makes
\* for the same node, and a sync may show it again; no failure and nothing
\* unfinished ever takes its place.
DeploymentStays ==
    [][\A d \in DOMAIN deps :
            Reported(deps[d].state) \in {"success", "failure", "error"} =>
                Reported(deps'[d].state) = Reported(deps[d].state)]_deps

-----------------------------------------------------------------------------
(* Liveness, under LiveSpec.                                               *)

\* In the end the check run of a finished workflow is completed, and a
\* success exactly when the workflow succeeded.
EventuallyReported ==
    <>[](Latest.live /\ Finished(Latest) =>
            /\ crs[Latest.cr].status = "completed"
            /\ crs[Latest.cr].conclusion = "success" <=> Latest.phase = "Succeeded")

\* And all annotations are there.
EventuallyPublished ==
    <>[](Latest.live /\ Latest.phase \in {"Failed", "Succeeded"} =>
            Latest.published /\ crs[Latest.cr].anns >= NAnn)

\* In the end each node that deployed has a deployment that shows how the
\* node ended.
DeploymentReported ==
    <>[](Latest.live /\ Finished(Latest) =>
            \A n \in DeployNodes :
                deployStatusFromPhase(Latest.node[n]) # "none" =>
                    \E d \in DOMAIN deps :
                        /\ deps[d].node = n
                        /\ Reported(deps[d].state) = deployStatusFromPhase(Latest.node[n]))

\* In the end the check run of a workflow that was deleted unfinished is
\* completed (the purpose doDelete's comment gives it).
DeletedIsReported ==
    <>[](~Latest.live /\ ~Finished(Latest) =>
            crs[Latest.cr].status = "completed")

-----------------------------------------------------------------------------
(* The syncer implements CheckRunLife.                                     *)

\* What a version deserves to be shown as.
ViewsOf(v) ==
    {x \in {completionStatus(v)} : x.status # "none"}
      \cup {x \in {[status |-> "completed", conclusion |-> "cancelled"]} :
               ~v.live /\ ~Finished(v)}

FactsOf(h) == UNION {{<<h[k].cr, x>> : x \in ViewsOf(h[k])} : k \in DOMAIN h}

Shown == [c \in DOMAIN crs |-> [status |-> crs[c].status, conclusion |-> crs[c].conclusion]]

Life == INSTANCE CheckRunLife WITH current <- Latest.cr, facts <- FactsOf(log), shown <- Shown

\* GitHub is only ever told what was true of the workflow while it was
\* reported on that check run, and only a new attempt moves it, to a check run
\* nobody has reported on (sync, resetCheckRun, doDelete).
ImplementsLife == Life!LifeSpec
=============================================================================
