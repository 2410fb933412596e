---------------------------- MODULE WorkflowStore ----------------------------
(***************************************************************************)
(* What kube-ci runs on, for one Workflow object: the Kubernetes API       *)
(* server that stores it, the shared informer and rate-limited work queue  *)
(* that bring its versions to the syncer (controller.go:329-368), the Argo *)
(* controller that executes it and the people who retry or delete it.      *)
(* Everything here but enqueue is outside src/.                            *)
(*                                                                         *)
(* The object is the history of its stored versions: a version's           *)
(* resourceVersion is its index in "log", the last one is the current one, *)
(* and the informer's cached copy is the one at index "seen".  Workflows   *)
(* do not interact in the syncer (one worker, one key at a time), so one   *)
(* object is enough.                                                       *)
(***************************************************************************)
EXTENDS Naturals, Sequences

CONSTANTS
    DeployNodes,    \* nodes of the workflow that run a deployment template
    Outcomes,       \* the final phases the workflow may reach
    NodeOutcomes,   \* the final phases such a node may reach
    Budgets,        \* bound: how often each environment event may happen, one
                    \*   map for each kind of environment to consider
    MaxEvents       \* bound: notifications the informer may have pending

VARIABLES
    log,        \* the versions of the Workflow object, oldest first
    seen,       \* index of the version in the informer's cache
    events,     \* informer notifications not yet handed to the handlers:
                \*   an index of log, or Lost for an unobserved deletion
    queue,      \* [waiting: rate limiter holds the key, dirty: key in queue]
    budget      \* what is left of the budget the environment started with

storeVars == <<log, seen, events, queue, budget>>

Phases == {"none", "Pending", "Running", "Succeeded", "Failed", "Error"}
FinalPhases == {"Succeeded", "Failed", "Error"}
NodePhases == {"none", "Running", "Succeeded", "Failed", "Error"}

\* The parts of a Workflow that kube-ci reads or writes.
Versions ==
    [live: BOOLEAN,                 \* FALSE: this entry records the deletion
     phase: Phases,                 \* status.phase
     ads: BOOLEAN,                  \* spec.activeDeadlineSeconds = 0
     published: BOOLEAN,            \* annotation annotations-published
     cr: Nat,                       \* annotation check-run-id
     node: [DeployNodes -> NodePhases],     \* status.nodes[n].phase
     dep: [DeployNodes -> Nat]]     \* annotation deployment-ids, 0 when absent

Lost == 0
BudgetKeys == {"touch", "retry", "delete", "cancel", "relist",
               "crash", "fault", "resubmit", "deploy"}

ASSUME BudgetAssumption ==
    /\ Budgets \subseteq [BudgetKeys -> Nat]
    /\ MaxEvents \in Nat \ {0}
    /\ Outcomes \cup NodeOutcomes \subseteq FinalPhases

Latest == log[Len(log)]
Cached == log[seen]
Finished(v) == v.phase \in FinalPhases

\* An event of kind k happens; the rest of the budget is kept.
Spend(k) ==
    /\ budget[k] > 0
    /\ budget' = [budget EXCEPT ![k] = @ - 1]

\* A write that leaves the object as it is stores no new version.
Store(v) == log' = IF v = Latest THEN log ELSE Append(log, v)

\* Update succeeds only for a writer that holds the current version.
Current(rv) == rv = Len(log) /\ Latest.live

TypeOKStore ==
    /\ log \in Seq(Versions) /\ Len(log) > 0
    /\ seen \in 1 .. Len(log)
    /\ events \in Seq(0 .. Len(log))
    /\ queue \in [waiting: BOOLEAN, dirty: BOOLEAN]
    /\ budget \in [BudgetKeys -> Nat]

\* The program starts: it lists the object and gets an Add event for it.
InitStore(v) ==
    /\ log = <<v>>
    /\ seen = 1
    /\ events = <<1>>
    /\ queue = [waiting |-> FALSE, dirty |-> FALSE]
    /\ budget \in Budgets

-----------------------------------------------------------------------------
(* The informer and the queue.                                             *)

\* The watch delivers the next version to the cache and queues a notification.
WatchEvent ==
    /\ seen < Len(log) /\ Len(events) < MaxEvents
    /\ seen' = seen + 1
    /\ events' = Append(events, seen')
    /\ UNCHANGED <<log, queue, budget>>

\* The watch broke and the informer listed again: it jumps to the current
\* version; a deletion it missed is reported without the final object
\* (cache.DeletedFinalStateUnknown).
Relist ==
    /\ Spend("relist")
    /\ seen < Len(log) /\ Len(events) < MaxEvents
    /\ seen' = Len(log)
    /\ events' = Append(events, IF Latest.live THEN Len(log) ELSE Lost)
    /\ UNCHANGED <<log, queue>>

\* Bug: updates of a finished workflow are filtered out.
BugEnqueueRunning ==
    /\ events # <<>>
    /\ Head(events) # Lost
    /\ log[Head(events)].live
    /\ events' = Tail(events)
    /\ queue' = [queue EXCEPT !.waiting = @ \/ ~Finished(log[Head(events)])]
    /\ UNCHANGED <<log, seen, budget>>

\* AddFunc and UpdateFunc: enqueue adds the key through the rate limiter.
enqueue ==
    /\ events # <<>>
    /\ Head(events) # Lost
    /\ log[Head(events)].live
    /\ events' = Tail(events)
    /\ queue' = [queue EXCEPT !.waiting = TRUE]
    /\ UNCHANGED <<log, seen, budget>>

\* The rate limiter's delay is over.
Ready ==
    /\ queue.waiting
    /\ queue' = [waiting |-> FALSE, dirty |-> TRUE]
    /\ UNCHANGED <<log, seen, events, budget>>

-----------------------------------------------------------------------------
(* Argo and the users of the cluster.                                      *)

\* The phases Argo may give a workflow next.
NextPhases(v) ==
    CASE v.phase = "none" -> {"Pending", "Running"} \cup (Outcomes \cap {"Error"})
      [] v.phase = "Pending" -> {"Running"} \cup (Outcomes \cap {"Error"})
      [] v.phase = "Running" -> IF v.ads THEN {"Failed"} ELSE Outcomes
      [] OTHER -> {}

\* The workflow moves to its next phase; it finishes after its nodes did.
ArgoPhase ==
    /\ Latest.live
    /\ \E p \in NextPhases(Latest) :
          /\ p \in FinalPhases => \A n \in DeployNodes : Latest.node[n] # "Running"
          /\ Store([Latest EXCEPT !.phase = p])
    /\ UNCHANGED <<seen, events, queue, budget>>

\* A node that deploys starts; how many do is bounded by the budget.
NodeStarts ==
    /\ Spend("deploy")
    /\ Latest.live /\ Latest.phase = "Running"
    /\ \E n \in DeployNodes :
          Latest.node[n] = "none" /\ Store([Latest EXCEPT !.node[n] = "Running"])
    /\ UNCHANGED <<seen, events, queue>>

NodeEnds ==
    /\ Latest.live /\ Latest.phase = "Running"
    /\ \E n \in DeployNodes : \E p \in NodeOutcomes :
          Latest.node[n] = "Running" /\ Store([Latest EXCEPT !.node[n] = p])
    /\ UNCHANGED <<seen, events, queue, budget>>

\* Somebody writes a part of the object kube-ci does not read.
Touch ==
    /\ Spend("touch")
    /\ Latest.live
    /\ log' = Append(log, Latest)
    /\ UNCHANGED <<seen, events, queue>>

\* "argo retry": the same object runs again, its deadline is lifted and the
\* nodes that did not succeed are forgotten.
Retry ==
    /\ Spend("retry")
    /\ Latest.live /\ Latest.phase \in {"Failed", "Error"}
    /\ LET again == [n \in DeployNodes |->
                        IF Latest.node[n] = "Succeeded" THEN "Succeeded" ELSE "none"]
       IN  Store([Latest EXCEPT !.phase = "Running", !.ads = FALSE, !.node = again])
    /\ UNCHANGED <<seen, events, queue>>

Delete ==
    /\ Spend("delete")
    /\ Latest.live
    /\ Store([Latest EXCEPT !.live = FALSE])
    /\ UNCHANGED <<seen, events, queue>>

Environment == ArgoPhase \/ NodeStarts \/ NodeEnds \/ Touch \/ Retry \/ Delete
=============================================================================
