----------------------- MODULE CheckRunSafety_proofs -------------------------
(* More about CheckRunSync, for every value of its constants: no version   *)
(* is forgotten, and deployments tell the truth.                           *)
EXTENDS CheckRunLife_proofs

-----------------------------------------------------------------------------
(* No version is forgotten.                                                *)

\* A deletion is the last thing in a history.
DeadIsLast == \A k \in 1 .. Len(log) : ~log[k].live => k = Len(log)

\* Notifications are of versions the cache has seen; one of a deletion nobody
\* observed comes when the cache knows of it.
EventsSeen ==
    \A i \in 1 .. Len(events) :
        IF events[i] = Lost THEN ~Cached.live ELSE events[i] <= seen

WakeInv == NoLostWakeup /\ DeadIsLast /\ EventsSeen

\* Who changes the version the worker has taken.
LEMMA TakenVersion ==
    ASSUME Inv, [Next]_vars
    PROVE  \/ wk'.rv = wk.rv
           \/ wk'.rv = seen /\ UNCHANGED <<log, seen, events>>
           \/ wk'.rv = Len(log') /\ UNCHANGED <<seen, events>>
           \/ Crash
<1>1. \A v : Idle(v).rv = v /\ [Idle(v) EXCEPT !.pc = "info"].rv = v
             /\ [Idle(v) EXCEPT !.pc = "resetCreate"].rv = v
  BY DEF Idle
<1>2. wk \in Workers
  BY DEF Inv, TypeOK
<1>3. CASE TakeGone \/ TakeSettled \/ TakeReset \/ TakeSync
  BY <1>1, <1>3 DEF TakeGone, TakeSettled, TakeReset, TakeSync
<1>4. CASE ResetPut
  BY <1>1, <1>4 DEF ResetPut, Done
<1>5. CASE ResetCreate \/ ReadInfo
  BY <1>1, <1>2, <1>5 DEF ResetCreate, ReadInfo, Done, Workers
<1>6. CASE Deploy \/ RecordGet
  BY <1>2, <1>6 DEF Deploy, DeployKnown, DeployCreate, RecordGet, NextNode, Workers
<1>7. CASE RecordPut \/ DeployStatus
  BY <1>1, <1>2, <1>7 DEF RecordPut, DeployStatus, Goto, Done, NextNode, Workers
<1>8. CASE Unreported \/ Status \/ CollectLogs
  BY <1>1, <1>2, <1>8 DEF Unreported, Status, CollectLogs, Goto, Done, Workers
<1>9. CASE Offer \/ AddActions \/ PostBatch
  BY <1>2, <1>9 DEF Offer, AddActions, PostBatch, Goto, Workers
<1>10. CASE PublishGet \/ PublishPut
  BY <1>1, <1>2, <1>10 DEF PublishGet, PublishPut, Done, Workers
<1>11. CASE ~WorkerStep /\ ~Crash
  BY <1>11 DEF Next, vars, doDelete, Cancel
<1> QED
  BY <1>3, <1>4, <1>5, <1>6, <1>7, <1>8, <1>9, <1>10, <1>11 DEF WorkerStep

\* The notifications as a sequence over a fixed set.
LEMMA EventsType ==
    ASSUME Inv
    PROVE  /\ events \in Seq(0 .. Len(log)) /\ seen \in 1 .. Len(log) /\ Len(log) \in Nat
           /\ wk.rv \in Nat /\ log \in Seq(Versions)
BY LatestFacts DEF Inv, TypeOK, TypeOKStore, Workers

\* Writers extend the history after a live version only.
LEMMA DeadStays ==
    ASSUME Inv, DeadIsLast, [Next]_vars
    PROVE  DeadIsLast'
<1>1. log \in Seq(Versions) /\ Len(log) \in Nat /\ Len(log) \in 1 .. Len(log)
  BY LatestFacts
<1>2. CASE log' = log
  BY <1>2 DEF DeadIsLast
<1>3. ASSUME NEW v, log' = Append(log, v), Latest.live PROVE DeadIsLast'
  <2>1. /\ Len(log') = Len(log) + 1
        /\ \A k \in 1 .. Len(log) : log'[k] = log[k]
    BY <1>1, <1>3
  <2>2. \A k \in 1 .. Len(log) : log[k].live
    BY <1>1, <1>3 DEF DeadIsLast, Latest
  <2> QED
    BY <1>1, <2>1, <2>2 DEF DeadIsLast
<1> QED
  BY <1>2, <1>3, WriteShape

\* The cached version stays what it is while the cache does not move.
LEMMA CachedStays ==
    ASSUME Inv, [Next]_vars, UNCHANGED seen
    PROVE  Cached' = Cached
<1>1. seen \in 1 .. Len(log)
  BY EventsType
<1> QED
  BY <1>1, HistoryGrows DEF Cached

\* Once the cache has seen the deletion there is nothing left to see.
LEMMA DeadIsSeen ==
    ASSUME Inv, DeadIsLast, ~Cached.live
    PROVE  seen = Len(log)
BY EventsType DEF DeadIsLast, Cached

\* The informer's steps keep WakeInv.
LEMMA InformerWakes ==
    ASSUME Inv, WakeInv, WatchEvent \/ Relist, UNCHANGED wk
    PROVE  NoLostWakeup' /\ EventsSeen'
<1> DEFINE S == 0 .. Len(log)
<1>1. PICK e \in S : events' = Append(events, e) /\ (e # Lost => e <= seen')
                     /\ (e = Lost => ~Cached'.live)
  <2>1. seen' \in 1 .. Len(log) /\ log' = log /\ Len(log) \in S /\ Lost \in S /\ seen' \in S
        /\ seen' # Lost
    BY EventsType DEF WatchEvent, Relist, Lost
  <2>2. CASE WatchEvent
    BY <2>1, <2>2, EventsType DEF WatchEvent, Lost
  <2>3. CASE Relist
    <3>1. seen' = Len(log) /\ seen' <= seen' /\ Cached' = Latest
      BY <2>1, <2>3, EventsType DEF Relist, Latest, Cached
    <3> QED
      BY <2>1, <2>3, <3>1 DEF Relist
  <2> QED
    BY <2>2, <2>3
<1>2. /\ events \in Seq(S) /\ seen < Len(log) /\ seen <= seen' /\ log' = log
      /\ seen \in Nat /\ seen' \in Nat
  BY EventsType DEF WatchEvent, Relist
<1> HIDE DEF S
<1>3. /\ Len(events') = Len(events) + 1 /\ Len(events) \in Nat /\ events' # <<>>
      /\ events'[Len(events) + 1] = e
      /\ \A i \in 1 .. Len(events) : events'[i] = events[i] /\ events[i] \in S
  BY <1>1, <1>2, AppendProperties, LenProperties
<1>4. \A i \in 1 .. Len(events) : events[i] # Lost /\ events[i] <= seen
  BY <1>2, DeadIsSeen DEF WakeInv, EventsSeen
<1>5. EventsSeen'
  <2> SUFFICES ASSUME NEW i \in 1 .. Len(events')
               PROVE  IF events'[i] = Lost THEN ~Cached'.live ELSE events'[i] <= seen'
    BY DEF EventsSeen
  <2>1. CASE i = Len(events) + 1
    BY <1>1, <1>3, <2>1
  <2>2. CASE i \in 1 .. Len(events)
    BY <1>2, <1>3, <1>4, <2>2, EventsType DEF S
  <2> QED
    BY <1>3, <2>1, <2>2
<1> QED
  BY <1>3, <1>5 DEF NoLostWakeup

\* Handing a notification to the handlers keeps WakeInv: the key is queued,
\* or the object is gone.
LEMMA HandlersWake ==
    ASSUME Inv, WakeInv, enqueue \/ doDelete, UNCHANGED wk
    PROVE  NoLostWakeup' /\ EventsSeen'
<1> DEFINE S == 0 .. Len(log)
           e == Head(events)
<1>1. events \in Seq(S) /\ events # <<>> /\ events' = Tail(events) /\ UNCHANGED <<log, seen>>
  BY EventsType DEF enqueue, doDelete
<1> HIDE DEF S
<1>2. /\ Len(events') = Len(events) - 1 /\ Len(events) \in Nat \ {0}
      /\ e = events[1]
      /\ \A i \in 1 .. Len(events') : events'[i] = events[i + 1]
  BY <1>1, HeadTailProperties, LenProperties
<1>3. EventsSeen'
  BY <1>1, <1>2 DEF WakeInv, EventsSeen, Cached
<1>4. CASE enqueue
  BY <1>3, <1>4 DEF enqueue, NoLostWakeup
<1>5. CASE doDelete
  <2>1. e = Lost \/ ~log[e].live
    BY <1>5 DEF doDelete
  <2>2. e \in S
    BY <1>1, HeadTailProperties
  <2>3. ~Cached.live
    <3>1. CASE e = Lost
      BY <1>2, <3>1 DEF WakeInv, EventsSeen
    <3>2. CASE e # Lost
      <4>1. e \in 1 .. Len(log) /\ e <= seen /\ e = Len(log)
        BY <1>2, <2>1, <2>2, <3>2, EventsType DEF WakeInv, EventsSeen, DeadIsLast, S, Lost
      <4> QED
        BY <2>1, <3>2, <4>1, EventsType DEF Cached
    <3> QED
      BY <3>1, <3>2
  <2> QED
    BY <1>1, <1>3, <2>3 DEF NoLostWakeup, Cached
<1> QED
  BY <1>4, <1>5

\* Every step keeps WakeInv.
LEMMA WakeKept == Inv /\ WakeInv /\ [Next]_vars => WakeInv'
<1> SUFFICES ASSUME Inv, WakeInv, [Next]_vars PROVE WakeInv'
  OBVIOUS
<1>1. DeadIsLast'
  BY DeadStays DEF WakeInv
<1>2. CASE (WatchEvent \/ Relist) /\ UNCHANGED wk
  BY <1>1, <1>2, InformerWakes DEF WakeInv
<1>3. CASE (enqueue \/ doDelete) /\ UNCHANGED wk
  BY <1>1, <1>3, HandlersWake DEF WakeInv
<1>4. CASE Crash
  <2>1. /\ seen' = Len(log) /\ log' = log
        /\ events' = IF Latest.live THEN <<Len(log)>> ELSE <<>>
    BY <1>4 DEF Crash
  <2>2. Cached' = Latest
    BY <2>1 DEF Cached, Latest
  <2>3. EventsSeen' /\ NoLostWakeup'
    <3>1. CASE Latest.live
      <4>1. events' = <<Len(log)>> /\ Len(log) # Lost /\ Len(log) \in Nat
        BY <2>1, <3>1, LatestFacts DEF Lost
      <4> DEFINE top == Len(log)
      <4>2. events' = <<top>> /\ top # Lost /\ top \in Nat /\ seen' = top
        BY <2>1, <4>1
      <4> HIDE DEF top
      <4>3. Len(events') = 1 /\ events'[1] = top /\ events' # <<>>
        BY <4>2
      <4>4. EventsSeen'
        BY <4>2, <4>3 DEF EventsSeen
      <4> QED
        BY <4>3, <4>4 DEF NoLostWakeup
    <3>2. CASE ~Latest.live
      BY <2>1, <2>2, <3>2 DEF EventsSeen, NoLostWakeup
    <3> QED
      BY <3>1, <3>2
  <2> QED
    BY <1>1, <2>3 DEF WakeInv
<1>5. CASE Ready /\ UNCHANGED wk
  <2>1. UNCHANGED <<log, seen, events, wk>> /\ queue'.dirty
    BY <1>5 DEF Ready
  <2> QED
    BY <1>1, <2>1 DEF WakeInv, EventsSeen, NoLostWakeup, Cached
<1>6. CASE UNCHANGED <<seen, events>>
  <2>1. Cached' = Cached /\ EventsSeen'
    <3>1. seen' = seen /\ events' = events
      BY <1>6
    <3>2. Cached' = Cached
      BY <3>1, CachedStays
    <3> QED
      BY <3>1, <3>2 DEF WakeInv, EventsSeen
  <2>2. NoLostWakeup'
    <3>1. CASE TakeGone \/ TakeSettled \/ TakeReset \/ TakeSync
      <4>1. wk'.rv = seen
        BY <3>1 DEF TakeGone, TakeSettled, TakeReset, TakeSync, Idle
      <4> QED
        BY <1>6, <4>1, EventsType DEF NoLostWakeup
    <3>2. CASE queue' = queue /\ wk'.rv = wk.rv
      BY <1>6, <2>1, <3>2 DEF WakeInv, NoLostWakeup
    <3>3. CASE wk'.rv = Len(log')
      <4>1. Len(log) <= Len(log') /\ Len(log') \in Nat
        BY HistoryGrows, Stepwise DEF Inv, TypeOK, TypeOKStore
      <4>2. seen' <= Len(log) /\ seen' \in Nat /\ Len(log) \in Nat
        BY <1>6, EventsType
      <4> QED
        BY <3>3, <4>1, <4>2 DEF NoLostWakeup
    <3>4. CASE Ready /\ UNCHANGED wk
      BY <1>5, <3>4 DEF WakeInv
    <3>5. CASE Crash
      BY <1>4, <3>5 DEF WakeInv
    <3>6. CASE wk'.rv = seen
      BY <1>6, <3>6, EventsType DEF NoLostWakeup
    <3>7. \/ queue' = queue
          \/ TakeGone \/ TakeSettled \/ TakeReset \/ TakeSync
          \/ Crash \/ ((Ready \/ enqueue) /\ UNCHANGED wk)
      <4>1. CASE WorkerStep
        BY <4>1 DEF WorkerStep, ResetCreate, ResetPut, ReadInfo, Deploy, DeployKnown,
           DeployCreate, RecordGet, RecordPut, DeployStatus, Unreported, Status, CollectLogs,
           Offer, AddActions, PostBatch, PublishGet, PublishPut, storeVars
      <4>2. CASE doDelete \/ Cancel \/ UNCHANGED vars
        BY <4>2 DEF doDelete, Cancel, vars, storeVars
      <4>3. CASE (Environment \/ WatchEvent \/ Relist) /\ UNCHANGED <<githubVars, wk>>
        BY <4>3 DEF Environment, WatchEvent, Relist, ArgoPhase, NodeStarts, NodeEnds,
           Touch, Retry, Delete
      <4>4. CASE (Ready \/ enqueue) /\ UNCHANGED wk
        BY <4>4
      <4>5. CASE Crash
        BY <4>5
      <4> QED
        BY <4>1, <4>2, <4>3, <4>4, <4>5 DEF Next, QueueStep, githubVars, vars
    <3> QED
      BY <1>3, <3>1, <3>2, <3>3, <3>4, <3>5, <3>6, <3>7, TakenVersion DEF WakeInv
  <2> QED
    BY <1>1, <2>1, <2>2 DEF WakeInv
<1>7. \/ UNCHANGED <<seen, events>>
      \/ (WatchEvent \/ Relist \/ enqueue \/ doDelete) /\ UNCHANGED wk
      \/ Crash
  BY DEF Next, vars, storeVars, WorkerStep, TakeGone, TakeSettled, TakeReset, TakeSync,
         ResetCreate, ResetPut, ReadInfo, Deploy, DeployKnown, DeployCreate, RecordGet,
         RecordPut, DeployStatus, Unreported, Status, CollectLogs, Offer, AddActions,
         PostBatch, PublishGet, PublishPut, QueueStep, Ready, Environment, ArgoPhase,
         NodeStarts, NodeEnds, Touch, Retry, Delete, doDelete, Cancel
<1> QED
  BY <1>2, <1>3, <1>4, <1>6, <1>7

\* At the start the one version there is has a notification of its own.
LEMMA WakeInitially == Init => WakeInv
<1> SUFFICES ASSUME Init PROVE WakeInv
  OBVIOUS
<1>1. PICK v \in {Fresh, Resubmitted} : log = <<v>> /\ seen = 1 /\ events = <<1>>
  BY DEF Init, InitStore
<1> QED
  BY <1>1 DEF WakeInv, NoLostWakeup, DeadIsLast, EventsSeen, Lost

\* While the cache holds a version the worker has not taken, something still
\* holds the key: no version is forgotten, however notifications, the rate
\* limiter, syncs, broken watches and crashes fall together.
THEOREM NothingForgotten == Spec => []NoLostWakeup
<1>1. WakeInv => NoLostWakeup
  BY DEF WakeInv
<1> QED
  BY <1>1, Initially, Stepwise, WakeInitially, WakeKept, PTL DEF Spec

-----------------------------------------------------------------------------
(* Deployments tell the truth.                                             *)

\* A version in history h said that node n is in state st.
StateSeen(h, n, st) ==
    \E k \in 1 .. Len(h) : deployStatusFromPhase(h[k].node[n]) = st

\* DeploymentTruthful over intervals.
StatesSeen ==
    \A d \in 1 .. Len(deps) : deps[d].state # "none" =>
        StateSeen(log, deps[d].node, Reported(deps[d].state))

\* StatesSeen is DeploymentTruthful.
LEMMA SeenIsTruthful == Inv => (StatesSeen <=> DeploymentTruthful)
<1> SUFFICES ASSUME Inv PROVE StatesSeen <=> DeploymentTruthful
  OBVIOUS
<1>1. DOMAIN deps = 1 .. Len(deps) /\ DOMAIN log = 1 .. Len(log)
  BY DEF Inv, TypeOK, TypeOKStore
<1> QED
  BY <1>1 DEF StatesSeen, StateSeen, DeploymentTruthful

\* What a version said, the longer history still says.
LEMMA SeenStays ==
    ASSUME Inv, [Next]_vars, NEW n, NEW st, StateSeen(log, n, st)
    PROVE  StateSeen(log', n, st)
<1>1. PICK k \in 1 .. Len(log) : deployStatusFromPhase(log[k].node[n]) = st
  BY DEF StateSeen
<1>2. k \in 1 .. Len(log') /\ log'[k] = log[k]
  BY <1>1, HistoryGrows
<1> QED
  BY <1>1, <1>2 DEF StateSeen

\* A new deployment has no state yet; a status comes from the worker's copy
\* and goes to a deployment of the node it was read from; only successes retire.
LEMMA DeploymentChange ==
    ASSUME Inv, [Next]_vars
    PROVE  \/ deps' = deps
           \/ /\ Len(deps') = Len(deps) + 1 /\ Len(deps) \in Nat
              /\ deps'[Len(deps) + 1].state = "none"
              /\ \A d \in 1 .. Len(deps) : deps'[d] = deps[d]
           \/ /\ Len(deps') = Len(deps)
              /\ \E i \in 1 .. Len(deps) :
                   /\ StateSeen(log, deps'[i].node, Reported(deps'[i].state))
                   /\ \A d \in 1 .. Len(deps) \ {i} :
                        /\ deps'[d].node = deps[d].node
                        /\ \/ deps'[d].state = deps[d].state
                           \/ deps[d].state = "success" /\ deps'[d].state = "inactive"
<1>1. deps \in Seq(Deployments) /\ Len(deps) \in Nat
  BY LenProperties DEF Inv, TypeOK
<1>2. ASSUME NEW n \in DeployNodes, deps' = Append(deps, [node |-> n, state |-> "none"])
      PROVE  /\ Len(deps') = Len(deps) + 1
             /\ deps'[Len(deps) + 1].state = "none"
             /\ \A d \in 1 .. Len(deps) : deps'[d] = deps[d]
  <2> DEFINE new == [node |-> n, state |-> "none"]
  <2>1. new \in Deployments /\ new.state = "none" /\ deps' = Append(deps, new)
    BY <1>2 DEF Deployments, DeployStates
  <2> HIDE DEF new
  <2> QED
    BY <1>1, <2>1, AppendProperties
<1>3. ASSUME DeployStatus, NEW n \in wk.cur,
             CreateDeploymentStatus(wk.ids[n], deployStatusFromPhase(wf.node[n]))
      PROVE  /\ Len(deps') = Len(deps)
             /\ \E i \in 1 .. Len(deps) :
                   /\ StateSeen(log, deps'[i].node, Reported(deps'[i].state))
                   /\ \A d \in 1 .. Len(deps) \ {i} :
                        /\ deps'[d].node = deps[d].node
                        /\ \/ deps'[d].state = deps[d].state
                           \/ deps[d].state = "success" /\ deps'[d].state = "inactive"
  <2>1. wk.pc = "deployStatus"
    BY <1>3 DEF DeployStatus, At
  <2> DEFINE i == wk.ids[n]
             st == deployStatusFromPhase(wf.node[n])
  <2>2. n \in DeployNodes /\ i \in 1 .. Len(deps) /\ deps[i].node = n
    BY <1>3, <2>1, Busy DEF ValidIds, Workers
  <2>3. st \in DeployStates /\ st # "inactive"
    BY DEF deployStatusFromPhase, DeployStates
  <2>4. CreateDeploymentStatus(i, st)
    BY <1>3
  <2>5. StateSeen(log, n, st)
    <3>1. wk.rv \in 1 .. Len(log)
      BY <2>1, Busy
    <3> QED
      BY <3>1 DEF StateSeen, wf
  <2> HIDE DEF i, st
  <2>6. /\ Len(deps') = Len(deps)
        /\ \A d \in 1 .. Len(deps) :
             /\ deps'[d].node = deps[d].node
             /\ deps'[d].state = IF d = i THEN st
                                 ELSE IF Retires(i, st, d) THEN "inactive"
                                 ELSE deps[d].state
    BY <1>1, <2>2, <2>3, <2>4, DeploymentStatusType
  <2>7. \A d \in 1 .. Len(deps) : Retires(i, st, d) => deps[d].state = "success"
    BY DEF Retires
  <2>8. deps'[i].node = n /\ Reported(deps'[i].state) = st
    BY <2>2, <2>3, <2>6 DEF Reported
  <2> QED
    BY <2>2, <2>5, <2>6, <2>7, <2>8
<1>4. CASE DeployStatus
  BY <1>3, <1>4 DEF DeployStatus
<1>5. CASE \E n \in DeployNodes : DeployCreate(n)
  BY <1>1, <1>2, <1>5 DEF DeployCreate
<1>6. CASE ~DeployStatus /\ ~(\E n \in DeployNodes : DeployCreate(n))
  <2>1. CASE WorkerStep
    BY <1>6, <2>1 DEF WorkerStep, TakeGone, TakeSettled, TakeReset, TakeSync, ResetCreate,
       ResetPut, ReadInfo, Deploy, DeployKnown, RecordGet, RecordPut, Unreported, Status,
       CollectLogs, Offer, AddActions, PostBatch, PublishGet, PublishPut, githubVars
  <2> QED
    BY <2>1 DEF Next, vars, githubVars, doDelete, Cancel, Crash
<1> QED
  BY <1>4, <1>5, <1>6

\* Every step keeps StatesSeen.
LEMMA StatesSeenKept == Inv /\ StatesSeen /\ [Next]_vars => StatesSeen'
<1> SUFFICES ASSUME Inv, StatesSeen, [Next]_vars PROVE StatesSeen'
  OBVIOUS
<1>1. \A d \in 1 .. Len(deps) :
          deps[d].state # "none" => StateSeen(log', deps[d].node, Reported(deps[d].state))
  BY SeenStays DEF StatesSeen
<1> SUFFICES ASSUME NEW d \in 1 .. Len(deps'), deps'[d].state # "none"
             PROVE  StateSeen(log', deps'[d].node, Reported(deps'[d].state))
  BY DEF StatesSeen
<1>2. CASE /\ d \in 1 .. Len(deps) /\ deps'[d].node = deps[d].node
           /\ \/ deps'[d].state = deps[d].state
              \/ deps[d].state = "success" /\ deps'[d].state = "inactive"
  BY <1>1, <1>2 DEF Reported
<1>3. CASE StateSeen(log, deps'[d].node, Reported(deps'[d].state))
  BY <1>3, SeenStays
<1> QED
  BY <1>2, <1>3, DeploymentChange

\* Whatever GitHub shows of a deployment, its node really was in that state
\* (or succeeded, if GitHub retired the deployment), at every moment and for
\* every interleaving, failure and restart.
THEOREM DeploymentTruth == Spec => []DeploymentTruthful
<1>1. Init => StatesSeen
  <2>1. Init => Len(deps) = 0
    BY DEF Init
  <2> QED
    BY <2>1 DEF StatesSeen
<1> QED
  BY <1>1, Initially, Stepwise, StatesSeenKept, SeenIsTruthful, PTL DEF Spec
=============================================================================
