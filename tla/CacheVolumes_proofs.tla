------------------------ MODULE CacheVolumes_proofs -------------------------
(* Proofs about CacheVolumes for any sets of callers, repositories and     *)
(* branches, any labels and every budget of mishaps.                       *)
EXTENDS CacheVolumes, TLAPS

\* Some call was asked to clear the cache that v belongs to.
Asked(v) == \E j \in Jobs : /\ Alike(jobs[j].repo, v.repo)
                            /\ jobs[j].ref = NoRef \/ jobs[j].ref = v.ref

\* A call has only claims on its list that it was asked to delete, and one
\* that has not begun was asked for nothing.
JobsOK ==
    \A j \in Jobs :
        /\ jobs[j].pc = "idle" => jobs[j] = NoJob
        /\ \A v \in jobs[j].todo : jobs[j].repo \in Repos /\ Selects(jobs[j].repo, jobs[j].ref, v)

MarkedIsAsked == \A v \in Volumes : pvcs[v] = "deleting" => Asked(v)

Inv == TypeOK /\ JobsOK /\ MarkedIsAsked /\ PromisedVolume

\* Spending keeps the budget's type.
LEMMA SpendType ==
    ASSUME budget \in [BudgetKeys -> Nat], NEW k \in BudgetKeys, Spend(k)
    PROVE  budget' \in [BudgetKeys -> Nat]
BY DEF Spend

\* A claim's name is one of the claims.
LEMMA VolumeType ==
    ASSUME NEW scope \in {"branch", "project"}, NEW repo \in Repos, NEW ref \in Refs
    PROVE  VolumeOf(scope, repo, ref) \in Volumes
BY DEF VolumeOf, Volumes

\* What is selected was asked for by whoever selects it.
LEMMA SelectedIsAsked ==
    ASSUME TypeOK, JobsOK, NEW j \in Jobs, NEW v \in jobs[j].todo
    PROVE  /\ v \in Volumes /\ Alike(jobs[j].repo, v.repo)
           /\ jobs[j].ref = NoRef \/ (v.scope = "branch" /\ jobs[j].ref = v.ref)
<1>1. v \in Volumes
  BY DEF TypeOK, TypeOKCache, DeleteCalls
<1>2. v.repo \in Repos
  BY <1>1 DEF Volumes
<1> QED
  BY <1>1, <1>2 DEF JobsOK, Selects, Alike

\* The invariant holds when nothing has been asked for.
LEMMA Initially == InitCache => Inv
<1> SUFFICES ASSUME InitCache PROVE Inv
  OBVIOUS
<1>1. TypeOK
  <2>1. NoCall \in EnsureCalls /\ NoJob \in DeleteCalls /\ NoPod \in Pods
    BY DEF NoCall, NoJob, NoPod, EnsureCalls, DeleteCalls, Pods
  <2> QED
    BY <2>1, CacheAssumption DEF TypeOK, TypeOKCache, InitCache
<1>2. JobsOK /\ MarkedIsAsked /\ PromisedVolume
  BY DEF InitCache, NoJob, NoCall, JobsOK, MarkedIsAsked, PromisedVolume
<1> QED
  BY <1>1, <1>2 DEF Inv

-----------------------------------------------------------------------------
(* The types.                                                              *)

\* A call of ensurePVC that moves on is still a call.
LEMMA EnsureToType ==
    ASSUME ens \in [Callers -> EnsureCalls], NEW c \in Callers,
           NEW pc \in {"idle", "get", "create", "ok", "err"}, EnsureTo(c, pc)
    PROVE  ens' \in [Callers -> EnsureCalls]
BY DEF EnsureTo, EnsureCalls

\* What is asked of ensurePVC is a scope, a repository and a ref.
LEMMA CallIs ==
    ASSUME NEW c \in Callers, Call(c)
    PROVE  \E scope \in {"none", "bad", "branch", "project"}, repo \in Repos, ref \in Refs :
               EnsureStart(c, scope, repo, ref) /\ UNCHANGED budget
<1>1. PICK want \in Wants : EnsureStart(c, want.scope, want.repo, want.ref) /\ UNCHANGED budget
  BY DEF Call
<1>2. /\ want.scope \in {"none", "bad", "branch", "project"}
      /\ want.repo \in Repos /\ want.ref \in Refs
  BY CacheAssumption
<1> QED
  BY <1>1, <1>2

\* What deletePVC is asked to clear is a repository or a branch of it.
LEMMA ClearIs ==
    ASSUME NEW what \in Clears
    PROVE  what.repo \in Repos /\ what.ref \in Refs \cup {NoRef}
BY CacheAssumption

\* The start of ensurePVC keeps the types.
LEMMA TypeStart ==
    ASSUME TypeOKCache, NEW c \in Callers, NEW scope \in {"none", "bad", "branch", "project"},
           NEW repo \in Repos, NEW ref \in Refs, EnsureStart(c, scope, repo, ref), UNCHANGED budget
    PROVE  TypeOKCache'
<1>1. scope \in {"branch", "project"} => VolumeOf(scope, repo, ref) \in Volumes
  BY VolumeType
<1> DEFINE vol == VolumeOf(scope, repo, ref)
<1> HIDE DEF vol
<1>2. \/ scope = "none" /\ ens' = [ens EXCEPT ![c] = [pc |-> "ok", vol |-> {}]]
      \/ scope = "bad" /\ ens' = [ens EXCEPT ![c] = [pc |-> "err", vol |-> {}]]
      \/ /\ scope \in {"branch", "project"}
         /\ ens' = [ens EXCEPT ![c] = [pc |-> "get", vol |-> {vol}]]
  BY DEF EnsureStart, vol
<1>3. ens' \in [Callers -> EnsureCalls]
  BY <1>1, <1>2 DEF TypeOKCache, EnsureCalls, vol
<1> QED
  BY <1>3 DEF TypeOKCache, EnsureStart

\* ensurePVC and the pods of its callers keep the types.
LEMMA TypeCaller ==
    ASSUME TypeOKCache, NEW c \in Callers,
           Call(c) \/ Ensure(c) \/ StartPod(c) \/ Schedule(c) \/ EndPod(c)
    PROVE  TypeOKCache'
<1>1. ASSUME Call(c) PROVE TypeOKCache'
  BY <1>1, CallIs, TypeStart
<1> USE DEF TypeOKCache
<1>2. ASSUME EnsureGet(c) PROVE TypeOKCache'
  <2>1. ens' \in [Callers -> EnsureCalls]
    BY <1>2, EnsureToType DEF EnsureGet
  <2> QED
    BY <1>2, <2>1, SpendType DEF EnsureGet, BudgetKeys
<1>3. ASSUME EnsureCreate(c) PROVE TypeOKCache'
  <2>1. ens' \in [Callers -> EnsureCalls]
    BY <1>3, EnsureToType DEF EnsureCreate
  <2>2. pvcs' \in [Volumes -> {"absent", "bound", "deleting"}]
    BY <1>3 DEF EnsureCreate, CreateClaims
  <2> QED
    BY <1>3, <2>1, <2>2, SpendType DEF EnsureCreate, BudgetKeys
<1>4. ASSUME StartPod(c) \/ Schedule(c) \/ EndPod(c) PROVE TypeOKCache'
  <2>1. pods' \in [Callers -> Pods]
    BY <1>4 DEF StartPod, Schedule, EndPod, Pods, EnsureCalls
  <2> QED
    BY <1>4, <2>1 DEF StartPod, Schedule, EndPod
<1> QED
  BY <1>1, <1>2, <1>3, <1>4 DEF Ensure

\* deletePVC keeps the types.
LEMMA TypeJob ==
    ASSUME TypeOKCache, NEW j \in Jobs, DeleteList(j) \/ deletePVC(j)
    PROVE  TypeOKCache'
<1> USE DEF TypeOKCache
<1>1. ASSUME DeleteList(j) PROVE TypeOKCache'
  <2>1. PICK repo \in Repos, ref \in Refs \cup {NoRef}, found \in SUBSET Volumes :
           \/ /\ jobs' = [jobs EXCEPT ![j] = [[NoJob EXCEPT !.repo = repo, !.ref = ref]
                                                EXCEPT !.pc = "delete", !.todo = found]]
              /\ UNCHANGED budget
           \/ /\ Spend("fault")
              /\ jobs' = [jobs EXCEPT ![j] = [[NoJob EXCEPT !.repo = repo, !.ref = ref]
                                                EXCEPT !.pc = "done"]]
    BY <1>1, ClearIs DEF DeleteList
  <2>2. /\ [[NoJob EXCEPT !.repo = repo, !.ref = ref]
               EXCEPT !.pc = "delete", !.todo = found] \in DeleteCalls
        /\ [[NoJob EXCEPT !.repo = repo, !.ref = ref] EXCEPT !.pc = "done"] \in DeleteCalls
    BY DEF NoJob, DeleteCalls
  <2>3. PICK d \in DeleteCalls : jobs' = [jobs EXCEPT ![j] = d]
    BY <2>1, <2>2
  <2>4. jobs' \in [Jobs -> DeleteCalls]
    BY <2>3
  <2> QED
    BY <1>1, <2>1, <2>4, SpendType DEF DeleteList, BudgetKeys
<1>2. ASSUME DeleteVolume(j) PROVE TypeOKCache'
  <2>1. jobs' \in [Jobs -> DeleteCalls]
    BY <1>2, SMTT(30) DEF DeleteVolume, DeleteCalls
  <2>2. pvcs' \in [Volumes -> {"absent", "bound", "deleting"}]
    BY <1>2 DEF DeleteVolume
  <2> QED
    BY <1>2, <2>1, <2>2, SpendType DEF DeleteVolume, BudgetKeys
<1>3. ASSUME DeleteDone(j) \/ PodsDone(j) PROVE TypeOKCache'
  <2>1. jobs' \in [Jobs -> DeleteCalls]
    BY <1>3, SMTT(30) DEF DeleteDone, PodsDone, DeleteCalls
  <2> QED
    BY <1>3, <2>1 DEF DeleteDone, PodsDone
<1>4. ASSUME getPodsForPVC(j) PROVE TypeOKCache'
  <2>1. jobs' \in [Jobs -> DeleteCalls]
    BY <1>4 DEF getPodsForPVC, DeleteCalls
  <2> QED
    BY <1>4, <2>1, SpendType DEF getPodsForPVC, BudgetKeys
<1>5. ASSUME DeletePod(j) PROVE TypeOKCache'
  <2>1. PICK c \in jobs[j].kill : jobs' = [jobs EXCEPT ![j].kill = @ \ {c}]
    BY <1>5 DEF DeletePod
  <2>2. jobs' \in [Jobs -> DeleteCalls]
    BY <2>1, SMTT(30) DEF DeleteCalls
  <2>3. pods' \in [Callers -> Pods]
    BY <1>5 DEF DeletePod, NoPod, Pods
  <2> QED
    BY <1>5, <2>2, <2>3, SpendType DEF DeletePod, BudgetKeys
<1> QED
  BY <1>1, <1>2, <1>3, <1>4, <1>5 DEF deletePVC

\* The API server and a crash keep the types.
LEMMA TypeCluster ==
    ASSUME TypeOKCache,
           \/ \E v \in Volumes : Finalize(v)
           \/ Spend("crash") /\ CrashCalls /\ UNCHANGED <<pvcs, pods>>
    PROVE  TypeOKCache'
<1> USE DEF TypeOKCache
<1>1. CASE \E v \in Volumes : Finalize(v)
  BY <1>1 DEF Finalize
<1>2. CASE Spend("crash") /\ CrashCalls /\ UNCHANGED <<pvcs, pods>>
  <2>1. ens' \in [Callers -> EnsureCalls]
    BY <1>2 DEF CrashCalls, NoCall, EnsureCalls
  <2>2. jobs' \in [Jobs -> DeleteCalls]
    BY <1>2, SMTT(30) DEF CrashCalls, NoJob, DeleteCalls
  <2> QED
    BY <1>2, <2>1, <2>2, SpendType DEF BudgetKeys
<1> QED
  BY <1>1, <1>2

\* Every step keeps the types.
LEMMA TypeStep == TypeOK /\ [Next]_cacheAll => TypeOK'
<1> SUFFICES ASSUME TypeOKCache, [Next]_cacheAll PROVE TypeOKCache'
  BY DEF TypeOK
<1>1. CASE UNCHANGED cacheAll
  BY <1>1 DEF cacheAll, cacheVars, TypeOKCache
<1>2. CASE Next
  BY <1>2, TypeCaller, TypeJob, TypeCluster DEF Next
<1> QED
  BY <1>1, <1>2

-----------------------------------------------------------------------------
(* What was asked for.                                                     *)

\* A call's list only shrinks, and what it was asked for does not change,
\* unless it has just begun.
LEMMA JobsStep ==
    ASSUME Inv, Next
    PROVE  /\ JobsOK'
           /\ \A v \in Volumes : Asked(v) => Asked(v)'
<1> USE DEF Inv, TypeOK, TypeOKCache
<1>0. ASSUME NEW i \in Jobs, jobs[i].repo # NoRef
      PROVE  jobs[i].pc # "idle"
  BY <1>0 DEF JobsOK, NoJob
<1>1. CASE UNCHANGED jobs
  BY <1>1 DEF JobsOK, Asked
<1>2. ASSUME NEW j \in Jobs, DeleteList(j)
      PROVE  JobsOK' /\ \A v \in Volumes : Asked(v) => Asked(v)'
  <2>0. PICK what \in Clears :
           LET found == {v \in Volumes : pvcs[v] # "absent" /\ Selects(what.repo, what.ref, v)}
           IN  \/ jobs' = [jobs EXCEPT ![j] = [[NoJob EXCEPT !.repo = what.repo, !.ref = what.ref]
                                                EXCEPT !.pc = "delete", !.todo = found]]
               \/ jobs' = [jobs EXCEPT ![j] = [[NoJob EXCEPT !.repo = what.repo, !.ref = what.ref]
                                                EXCEPT !.pc = "done"]]
    BY <1>2 DEF DeleteList
  <2>a. PICK repo \in Repos, ref \in Refs \cup {NoRef} : repo = what.repo /\ ref = what.ref
    BY ClearIs
  <2> DEFINE found == {v \in Volumes : pvcs[v] # "absent" /\ Selects(repo, ref, v)}
  <2>2. \A v \in found : Selects(repo, ref, v)
    OBVIOUS
  <2> HIDE DEF found
  <2>3. \/ jobs' = [jobs EXCEPT ![j] = [[NoJob EXCEPT !.repo = repo, !.ref = ref]
                                          EXCEPT !.pc = "delete", !.todo = found]]
        \/ jobs' = [jobs EXCEPT ![j] = [[NoJob EXCEPT !.repo = repo, !.ref = ref]
                                          EXCEPT !.pc = "done"]]
    BY <2>0, <2>a DEF found
  <2>4. /\ jobs'[j].repo = repo /\ jobs'[j].ref = ref /\ jobs'[j].pc # "idle"
        /\ jobs'[j].todo \subseteq found
    BY <2>3, ZenonT(40) DEF NoJob
  <2>5. \A i \in Jobs : i # j => jobs'[i] = jobs[i]
    BY <2>3
  <2>6. jobs[j].repo = NoRef
    BY <1>2 DEF DeleteList, JobsOK, NoJob
  <2>7. JobsOK'
    BY <2>2, <2>4, <2>5 DEF JobsOK, Selects
  <2>8. ASSUME NEW v \in Volumes, Asked(v) PROVE Asked(v)'
    <3>1. PICK i \in Jobs :
             Alike(jobs[i].repo, v.repo) /\ (jobs[i].ref = NoRef \/ jobs[i].ref = v.ref)
      BY <2>8 DEF Asked
    <3>2. jobs[i].repo # NoRef
      BY <3>1, CacheAssumption DEF Alike
    <3> QED
      BY <2>5, <2>6, <3>1, <3>2 DEF Asked
  <2> QED
    BY <2>7, <2>8
<1>3. ASSUME NEW j \in Jobs, deletePVC(j)
      PROVE  JobsOK' /\ \A v \in Volumes : Asked(v) => Asked(v)'
  <2>1. /\ jobs'[j].repo = jobs[j].repo /\ jobs'[j].ref = jobs[j].ref
        /\ jobs'[j].todo \subseteq jobs[j].todo /\ jobs'[j].pc # "idle"
        /\ \A i \in Jobs : i # j => jobs'[i] = jobs[i]
    <3>1. jobs[j] \in DeleteCalls
      OBVIOUS
    <3>2. CASE DeleteVolume(j)
      BY <3>1, <3>2 DEF DeleteVolume, DeleteCalls
    <3>3. CASE DeleteDone(j) \/ PodsDone(j)
      BY <3>1, <3>3, SMTT(30) DEF DeleteDone, PodsDone, DeleteCalls
    <3>4. CASE getPodsForPVC(j)
      BY <3>1, <3>4 DEF getPodsForPVC, DeleteCalls
    <3>5. CASE DeletePod(j)
      <4>1. PICK c \in jobs[j].kill : jobs' = [jobs EXCEPT ![j].kill = @ \ {c}]
        BY <3>5 DEF DeletePod
      <4>2. jobs[j].pc = "kill"
        BY <3>5 DEF DeletePod
      <4> QED
        BY <3>1, <4>1, <4>2 DEF DeleteCalls
    <3> QED
      BY <1>3, <3>2, <3>3, <3>4, <3>5 DEF deletePVC
  <2>2. JobsOK'
    BY <2>1 DEF JobsOK, Selects
  <2>3. \A v \in Volumes : Asked(v) => Asked(v)'
    BY <2>1 DEF Asked
  <2> QED
    BY <2>2, <2>3
<1>4. ASSUME CrashCalls PROVE JobsOK' /\ \A v \in Volumes : Asked(v) => Asked(v)'
  <2>1. ASSUME NEW i \in Jobs
        PROVE  /\ jobs'[i].repo = jobs[i].repo /\ jobs'[i].ref = jobs[i].ref
               /\ jobs'[i].todo = jobs[i].todo
               /\ jobs'[i].pc = "idle" => jobs'[i] = NoJob
    <3>1. jobs'[i] = IF jobs[i].pc = "idle" THEN NoJob ELSE [jobs[i] EXCEPT !.pc = "done"]
      BY <1>4 DEF CrashCalls
    <3>2. jobs[i] \in DeleteCalls
      OBVIOUS
    <3> QED
      BY <3>1, <3>2 DEF JobsOK, DeleteCalls
  <2> QED
    BY <2>1 DEF JobsOK, Asked, Selects
<1> QED
  <2>1. ASSUME NEW c \in Callers, Call(c) \/ Ensure(c) \/ StartPod(c) \/ Schedule(c) \/ EndPod(c)
        PROVE  UNCHANGED jobs
    BY <2>1 DEF Call, EnsureStart, Ensure, EnsureGet, EnsureCreate, StartPod, Schedule, EndPod
  <2>2. ASSUME NEW v \in Volumes, Finalize(v) PROVE UNCHANGED jobs
    BY <2>2 DEF Finalize
  <2> QED
    BY <1>1, <1>2, <1>3, <1>4, <2>1, <2>2 DEF Next

\* A claim that is marked or gone was asked for.
LEMMA ClaimsStep ==
    ASSUME Inv, Next, NEW v \in Volumes
    PROVE  \/ pvcs'[v] = "bound"
           \/ pvcs'[v] = pvcs[v]
           \/ Asked(v)
<1> USE DEF Inv, TypeOK, TypeOKCache
<1>1. CASE UNCHANGED pvcs
  BY <1>1
<1>2. ASSUME NEW c \in Callers, EnsureCreate(c)
      PROVE  pvcs'[v] = "bound" \/ pvcs'[v] = pvcs[v]
  BY <1>2 DEF EnsureCreate, CreateClaims
<1>3. ASSUME NEW j \in Jobs, DeleteVolume(j)
      PROVE  pvcs'[v] = pvcs[v] \/ Asked(v)
  <2>1. PICK u \in jobs[j].todo : pvcs' = [pvcs EXCEPT ![u] = "deleting"] \/ UNCHANGED pvcs
    BY <1>3 DEF DeleteVolume
  <2>2. Alike(jobs[j].repo, u.repo) /\ (jobs[j].ref = NoRef \/ jobs[j].ref = u.ref)
    BY SelectedIsAsked
  <2> QED
    BY <2>1, <2>2 DEF Asked
<1>4. ASSUME NEW u \in Volumes, Finalize(u)
      PROVE  pvcs'[v] = pvcs[v] \/ Asked(v)
  BY <1>4 DEF Finalize, MarkedIsAsked
<1> QED
  <2>1. ASSUME NEW c \in Callers, Call(c) \/ EnsureGet(c) \/ StartPod(c) \/ Schedule(c) \/ EndPod(c)
        PROVE  UNCHANGED pvcs
    BY <2>1 DEF Call, EnsureStart, EnsureGet, StartPod, Schedule, EndPod
  <2>2. ASSUME NEW j \in Jobs,
               DeleteList(j) \/ DeleteDone(j) \/ getPodsForPVC(j) \/ DeletePod(j) \/ PodsDone(j)
        PROVE  UNCHANGED pvcs
    BY <2>2 DEF DeleteList, DeleteDone, getPodsForPVC, DeletePod, PodsDone
  <2> QED
    BY <1>1, <1>2, <1>3, <1>4, <2>1, <2>2 DEF Next, Ensure, deletePVC

\* A call of ensurePVC that succeeds now found its claim or created it.
LEMMA SuccessStep ==
    ASSUME Inv, Next, NEW c \in Callers, ens'[c].pc = "ok", NEW v \in ens'[c].vol
    PROVE  \/ ens[c].pc = "ok" /\ v \in ens[c].vol
           \/ pvcs[v] # "absent" /\ UNCHANGED pvcs
           \/ pvcs'[v] = "bound"
<1> USE DEF Inv, TypeOK, TypeOKCache
<1>0. ens[c] \in EnsureCalls
  OBVIOUS
<1>1. CASE UNCHANGED ens
  BY <1>1
<1>2. ASSUME NEW d \in Callers, Call(d) PROVE ens[c].pc = "ok" /\ v \in ens[c].vol
  <2>1. PICK scope \in {"none", "bad", "branch", "project"}, repo \in Repos, ref \in Refs :
           EnsureStart(d, scope, repo, ref)
    BY <1>2, CallIs
  <2>2. CASE d = c
    <3>1. \/ ens'[c] = [pc |-> "ok", vol |-> {}]
          \/ ens'[c] = [pc |-> "err", vol |-> {}]
          \/ ens'[c] = [pc |-> "get", vol |-> {VolumeOf(scope, repo, ref)}]
      BY <2>1, <2>2 DEF EnsureStart
    <3> QED
      BY <3>1
  <2>3. CASE d # c
    BY <2>1, <2>3 DEF EnsureStart
  <2> QED
    BY <2>2, <2>3
<1>3. ASSUME NEW d \in Callers, EnsureGet(d)
      PROVE  (ens[c].pc = "ok" /\ v \in ens[c].vol) \/ (pvcs[v] # "absent" /\ UNCHANGED pvcs)
  <2>1. d # c => ens'[c] = ens[c]
    BY <1>3 DEF EnsureGet, EnsureTo
  <2>2. ens'[c].vol = ens[c].vol
    BY <1>0, <1>3 DEF EnsureGet, EnsureTo, EnsureCalls
  <2>3. d = c => ~(\E u \in ens[c].vol : pvcs[u] = "absent")
    BY <1>0, <1>3 DEF EnsureGet, EnsureTo, EnsureCalls
  <2> QED
    BY <1>3, <2>1, <2>2, <2>3 DEF EnsureGet
<1>4. ASSUME NEW d \in Callers, EnsureCreate(d)
      PROVE  (ens[c].pc = "ok" /\ v \in ens[c].vol) \/ pvcs'[v] = "bound"
  <2>1. d # c => ens'[c] = ens[c]
    BY <1>4 DEF EnsureCreate, EnsureTo
  <2>2. ens'[c].vol = ens[c].vol
    BY <1>0, <1>4 DEF EnsureCreate, EnsureTo, EnsureCalls
  <2>3. d = c => CreateClaims(ens[c].vol)
    BY <1>0, <1>4 DEF EnsureCreate, EnsureTo, EnsureCalls
  <2>4. v \in Volumes
    BY <1>0, <2>2 DEF EnsureCalls
  <2> QED
    BY <2>1, <2>2, <2>3, <2>4 DEF CreateClaims
<1>5. ASSUME CrashCalls PROVE ens[c].pc = "ok" /\ v \in ens[c].vol
  <2>1. ens'[c] = IF ens[c].pc = "ok" THEN ens[c] ELSE NoCall
    BY <1>5 DEF CrashCalls
  <2> QED
    BY <2>1 DEF NoCall
<1> QED
  <2>1. ASSUME NEW d \in Callers, StartPod(d) \/ Schedule(d) \/ EndPod(d)
        PROVE  UNCHANGED ens
    BY <2>1 DEF StartPod, Schedule, EndPod
  <2>2. ASSUME NEW j \in Jobs, DeleteList(j) \/ deletePVC(j)
        PROVE  UNCHANGED ens
    BY <2>2 DEF DeleteList, deletePVC, DeleteVolume, DeleteDone, getPodsForPVC, DeletePod, PodsDone
  <2>3. ASSUME NEW u \in Volumes, Finalize(u) PROVE UNCHANGED ens
    BY <2>3 DEF Finalize
  <2> QED
    BY <1>1, <1>2, <1>3, <1>4, <1>5, <2>1, <2>2, <2>3 DEF Next, Ensure

\* Every step keeps the invariant.
LEMMA Step == Inv /\ [Next]_cacheAll => Inv'
<1> SUFFICES ASSUME Inv, [Next]_cacheAll PROVE Inv'
  OBVIOUS
<1>1. CASE UNCHANGED cacheAll
  BY <1>1 DEF cacheAll, cacheVars, Inv, TypeOK, TypeOKCache, JobsOK, MarkedIsAsked, Asked, PromisedVolume
<1>2. CASE Next
  <2>1. TypeOK'
    BY <1>2, TypeStep DEF Inv
  <2>2. JobsOK' /\ \A v \in Volumes : Asked(v) => Asked(v)'
    BY <1>2, JobsStep
  <2>3. MarkedIsAsked'
    BY <1>2, <2>2, ClaimsStep DEF MarkedIsAsked, Inv
  <2>4. PromisedVolume'
    <3> SUFFICES ASSUME NEW c \in Callers, NEW v \in ens'[c].vol,
                        ens'[c].pc = "ok", pvcs'[v] # "bound"
                 PROVE  Asked(v)'
      BY DEF PromisedVolume, Asked
    <3>1. v \in Volumes
      BY <2>1 DEF TypeOK, TypeOKCache, EnsureCalls
    <3>2. \/ ens[c].pc = "ok" /\ v \in ens[c].vol
          \/ pvcs[v] # "absent" /\ UNCHANGED pvcs
      BY <1>2, SuccessStep
    <3>3. pvcs'[v] = pvcs[v] \/ Asked(v)
      BY <1>2, <3>1, ClaimsStep
    <3>4. CASE Asked(v)
      BY <2>2, <3>1, <3>4
    <3>5. CASE pvcs'[v] = pvcs[v] /\ ens[c].pc = "ok" /\ v \in ens[c].vol
      <4>1. Asked(v)
        BY <3>5 DEF Inv, PromisedVolume, Asked
      <4> QED
        BY <2>2, <3>1, <4>1
    <3>6. CASE pvcs[v] # "absent" /\ UNCHANGED pvcs
      <4>1. pvcs[v] = "deleting"
        BY <3>1, <3>6 DEF Inv, TypeOK, TypeOKCache
      <4>2. Asked(v)
        BY <3>1, <4>1 DEF Inv, MarkedIsAsked
      <4> QED
        BY <2>2, <3>1, <4>2
    <3> QED
      BY <3>2, <3>3, <3>4, <3>5, <3>6
  <2> QED
    BY <2>1, <2>2, <2>3, <2>4 DEF Inv
<1> QED
  BY <1>1, <1>2

-----------------------------------------------------------------------------

\* The types hold for any labels (pvc.go).
THEOREM TypeCorrect == Spec => []TypeOK
<1>1. InitCache => TypeOK
  BY Initially DEF Inv
<1> QED
  BY <1>1, TypeStep, PTL DEF Spec

\* A workflow's claim is there unless somebody asked for its cache to be
\* cleared, or for that of a repository with the same label (ensurePVC against
\* deletePVC).
THEOREM PromiseKept == Spec => []PromisedVolume
<1>2. Inv /\ [Next]_cacheAll => Inv'
  BY Step
<1>3. Inv => PromisedVolume
  BY DEF Inv
<1> QED
  BY <1>2, <1>3, Initially, PTL DEF Spec

\* Only a request for its branch, or for the whole of its repository, or of one
\* with the same label, marks a claim for deletion (deletePVC).
THEOREM OthersAreSpared == Spec => OnlyMatchingVolumes
<1> DEFINE Spared ==
      \A v \in Volumes : pvcs[v] = "bound" /\ pvcs'[v] = "deleting" =>
          \E j \in Jobs : /\ Alike(jobs[j].repo, v.repo)
                          /\ \/ jobs[j].ref = NoRef
                             \/ v.scope = "branch" /\ jobs[j].ref = v.ref
<1>2. Inv /\ [Next]_cacheAll => Inv'
  BY Step
<1>3. ASSUME Inv, Next PROVE Spared
  <2> SUFFICES ASSUME NEW v \in Volumes, pvcs[v] = "bound", pvcs'[v] = "deleting"
               PROVE  \E j \in Jobs : /\ Alike(jobs[j].repo, v.repo)
                                      /\ \/ jobs[j].ref = NoRef
                                         \/ v.scope = "branch" /\ jobs[j].ref = v.ref
    OBVIOUS
  <2>1. ASSUME NEW j \in Jobs, DeleteVolume(j)
        PROVE  /\ Alike(jobs[j].repo, v.repo)
               /\ jobs[j].ref = NoRef \/ (v.scope = "branch" /\ jobs[j].ref = v.ref)
    <3>1. PICK u \in jobs[j].todo : pvcs' = [pvcs EXCEPT ![u] = "deleting"] \/ UNCHANGED pvcs
      BY <2>1 DEF DeleteVolume
    <3>2. u = v
      BY <1>3, <3>1 DEF Inv, TypeOK, TypeOKCache
    <3> QED
      BY <1>3, <3>2, SelectedIsAsked DEF Inv
  <2>2. ASSUME NEW c \in Callers, Call(c) \/ Ensure(c) \/ StartPod(c) \/ Schedule(c) \/ EndPod(c)
        PROVE  FALSE
    BY <2>2 DEF Call, EnsureStart, Ensure, EnsureGet, EnsureCreate, CreateClaims, StartPod, Schedule, EndPod
  <2>3. ASSUME NEW j \in Jobs,
               DeleteList(j) \/ DeleteDone(j) \/ getPodsForPVC(j) \/ DeletePod(j) \/ PodsDone(j)
        PROVE  FALSE
    BY <2>3 DEF DeleteList, DeleteDone, getPodsForPVC, DeletePod, PodsDone
  <2>4. ASSUME NEW u \in Volumes, Finalize(u) PROVE FALSE
    BY <1>3, <2>4 DEF Finalize, Inv, TypeOK, TypeOKCache
  <2> QED
    BY <1>3, <2>1, <2>2, <2>3, <2>4 DEF Next, deletePVC
<1>4. Inv /\ [Next]_cacheAll => [Spared]_pvcs
  <2>1. CASE Next
    BY <1>3, <2>1
  <2>2. CASE UNCHANGED cacheAll
    BY <2>2 DEF cacheAll, cacheVars
  <2> QED
    BY <2>1, <2>2
<1> QED
  BY <1>2, <1>4, Initially, PTL DEF Spec, OnlyMatchingVolumes
=============================================================================
