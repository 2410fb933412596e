----------------------------- MODULE CacheVolumes -----------------------------
(***************************************************************************)
(* The cache volumes of pvc.go: ensurePVC, which finds or creates the      *)
(* claim a workflow will mount, and deletePVC, which the webhooks for a    *)
(* deleted branch or repository and the buttons "clear cache" call.  Both  *)
(* run in any number of webhook goroutines at once and have nothing but    *)
(* the API server between them; each of their calls to it is one step.     *)
(*                                                                         *)
(* Claims are known by what their name is made of: the scope, the          *)
(* repository and, for scope "branch", the ref (the hash in the name is    *)
(* taken to be free of collisions; the cacheName annotation is left out).  *)
(***************************************************************************)
EXTENDS Naturals

CONSTANTS
    Callers,    \* webhook goroutines that may call ensurePVC
    Jobs,       \* webhook goroutines that may call deletePVC
    Repos,
    Refs,
    NoRef,      \* stands for the empty branch
    Label,      \* labelSafe: the label value of a repository name
    Wants,      \* what workflows ask of ensurePVC: [scope, repo, ref]
    Clears,     \* what deletePVC is asked to clear: [repo, ref]
    Budget      \* how often each mishap may happen

VARIABLES
    pvcs,       \* the state of each claim
    ens,        \* the calls of ensurePVC
    jobs,       \* the calls of deletePVC
    pods,       \* for each caller's workflow, its pod
    budget      \* what is left of Budget

cacheVars == <<pvcs, ens, jobs, pods>>

BudgetKeys == {"fault", "hangup", "crash"}

ASSUME CacheAssumption ==
    /\ NoRef \notin Refs \cup Repos
    /\ DOMAIN Label = Repos
    /\ Wants \subseteq [scope: {"none", "bad", "branch", "project"}, repo: Repos, ref: Refs]
    /\ Clears \subseteq [repo: Repos, ref: Refs \cup {NoRef}]
    /\ Budget \in [BudgetKeys -> Nat]

Volumes == [scope: {"branch"}, repo: Repos, ref: Refs]
             \cup [scope: {"project"}, repo: Repos, ref: {NoRef}]

\* Bug: the ref is part of the name whatever the scope.
BugRefAlways(scope, repo, ref) == [scope |-> scope, repo |-> repo, ref |-> ref]

VolumeOf(scope, repo, ref) ==
    [scope |-> scope, repo |-> repo, ref |-> IF scope = "branch" THEN ref ELSE NoRef]

EnsureCalls == [pc: {"idle", "get", "create", "ok", "err"}, vol: SUBSET Volumes]
DeleteCalls ==
    [pc: {"idle", "delete", "pods", "kill", "done"},
     repo: Repos \cup {NoRef},
     ref: Refs \cup {NoRef},
     todo: SUBSET Volumes,      \* claims yet to delete
     cur: SUBSET Volumes,       \* the claim being deleted, if any
     kill: SUBSET Callers]      \* its pods yet to delete
Pods == [state: {"none", "pending", "using", "ended"}, vol: SUBSET Volumes]

TypeOKCache ==
    /\ pvcs \in [Volumes -> {"absent", "bound", "deleting"}]
    /\ ens \in [Callers -> EnsureCalls]
    /\ jobs \in [Jobs -> DeleteCalls]
    /\ pods \in [Callers -> Pods]
    /\ budget \in [BudgetKeys -> Nat]

NoCall == [pc |-> "idle", vol |-> {}]
NoJob == [pc |-> "idle", repo |-> NoRef, ref |-> NoRef, todo |-> {}, cur |-> {}, kill |-> {}]
NoPod == [state |-> "none", vol |-> {}]

InitCache ==
    /\ pvcs = [v \in Volumes |-> "absent"]
    /\ ens = [c \in Callers |-> NoCall]
    /\ jobs = [j \in Jobs |-> NoJob]
    /\ pods = [c \in Callers |-> NoPod]
    /\ budget = Budget

Spend(k) ==
    /\ budget[k] > 0
    /\ budget' = [budget EXCEPT ![k] = @ - 1]

-----------------------------------------------------------------------------
(* ensurePVC.                                                              *)

EnsureTo(c, pc) == ens' = [ens EXCEPT ![c].pc = pc]

\* No cache is wanted, the settings are unusable, or there is a claim to look for.
EnsureStart(c, scope, repo, ref) ==
    /\ ens[c].pc = "idle"
    /\ ens' = [ens EXCEPT ![c] =
          CASE scope = "none" -> [pc |-> "ok", vol |-> {}]
            [] scope = "bad" -> [pc |-> "err", vol |-> {}]
            [] OTHER -> [pc |-> "get", vol |-> {VolumeOf(scope, repo, ref)}]]
    /\ UNCHANGED <<pvcs, jobs, pods>>

\* A claim that exists is used, whatever its state.
EnsureGet(c) ==
    /\ ens[c].pc = "get"
    /\ \/ /\ EnsureTo(c, IF \E v \in ens[c].vol : pvcs[v] = "absent" THEN "create" ELSE "ok")
          /\ UNCHANGED budget
       \/ Spend("fault") /\ EnsureTo(c, "err")
    /\ UNCHANGED <<pvcs, jobs, pods>>

CreateClaims(vols) == pvcs' = [v \in Volumes |-> IF v \in vols THEN "bound" ELSE pvcs[v]]

\* Bug: the error of Create is ignored.
BugCreateIgnored(c) ==
    /\ ens[c].pc = "create"
    /\ \/ /\ \A v \in ens[c].vol : pvcs[v] = "absent"
          /\ CreateClaims(ens[c].vol)
          /\ UNCHANGED budget
       \/ Spend("fault") /\ UNCHANGED pvcs
    /\ EnsureTo(c, "ok")
    /\ UNCHANGED <<jobs, pods>>

\* AlreadyExists is an error like any other; a failed call may have worked.
EnsureCreate(c) ==
    /\ ens[c].pc = "create"
    /\ LET free == \A v \in ens[c].vol : pvcs[v] = "absent"
       IN  \/ free /\ CreateClaims(ens[c].vol) /\ EnsureTo(c, "ok") /\ UNCHANGED budget
           \/ ~free /\ EnsureTo(c, "err") /\ UNCHANGED <<pvcs, budget>>
           \/ Spend("fault") /\ EnsureTo(c, "err") /\ UNCHANGED pvcs
           \/ Spend("fault") /\ free /\ CreateClaims(ens[c].vol) /\ EnsureTo(c, "err")
    /\ UNCHANGED <<jobs, pods>>

Ensure(c) == EnsureGet(c) \/ EnsureCreate(c)

-----------------------------------------------------------------------------
(* deletePVC.                                                              *)

\* Bug: the branch annotation is not compared.
BugAnyBranch(repo, ref, v) ==
    /\ Label[v.repo] = Label[repo]
    /\ ref # NoRef => v.scope = "branch"

\* The claims a call is about: found by their labels, and when a branch is
\* given by their scope and their branch annotation.
Selects(repo, ref, v) ==
    /\ Label[v.repo] = Label[repo]
    /\ ref # NoRef => v.scope = "branch" /\ v.ref = ref

DeleteList(j) ==
    /\ jobs[j].pc = "idle"
    /\ \E what \in Clears :
          LET call == [NoJob EXCEPT !.repo = what.repo, !.ref = what.ref]
              found == {v \in Volumes : pvcs[v] # "absent" /\ Selects(what.repo, what.ref, v)}
          IN  \/ /\ jobs' = [jobs EXCEPT ![j] = [call EXCEPT !.pc = "delete", !.todo = found]]
                 /\ UNCHANGED budget
              \/ Spend("fault") /\ jobs' = [jobs EXCEPT ![j] = [call EXCEPT !.pc = "done"]]
    /\ UNCHANGED <<pvcs, ens, pods>>

\* The claim is marked; one that is gone or cannot be deleted is passed over.
DeleteVolume(j) ==
    /\ jobs[j].pc = "delete"
    /\ \E v \in jobs[j].todo :
          LET rest == [jobs EXCEPT ![j].todo = @ \ {v}]
          IN  \/ /\ pvcs[v] # "absent"
                 /\ pvcs' = [pvcs EXCEPT ![v] = "deleting"]
                 /\ jobs' = [rest EXCEPT ![j].pc = "pods", ![j].cur = {v}]
                 /\ UNCHANGED budget
              \/ pvcs[v] = "absent" /\ jobs' = rest /\ UNCHANGED <<pvcs, budget>>
              \/ Spend("fault") /\ jobs' = rest /\ UNCHANGED pvcs
    /\ UNCHANGED <<ens, pods>>

DeleteDone(j) ==
    /\ jobs[j].pc = "delete" /\ jobs[j].todo = {}
    /\ jobs' = [jobs EXCEPT ![j].pc = "done"]
    /\ UNCHANGED <<pvcs, ens, pods, budget>>

\* Bug: only the pods that are running are listed.
BugRunningPods(j) ==
    /\ jobs[j].pc = "pods"
    /\ jobs' = [jobs EXCEPT ![j].pc = "kill",
                            ![j].kill = {c \in Callers : /\ pods[c].state = "using"
                                                         /\ pods[c].vol = jobs[j].cur}]
    /\ UNCHANGED <<pvcs, ens, pods, budget>>

\* getPodsForPVC: the pods that mount the claim, running or not.
getPodsForPVC(j) ==
    /\ jobs[j].pc = "pods"
    /\ \/ /\ jobs' = [jobs EXCEPT ![j].pc = "kill",
                            ![j].kill = {c \in Callers : /\ pods[c].state # "none"
                                                         /\ pods[c].vol = jobs[j].cur}]
          /\ UNCHANGED budget
       \/ Spend("fault") /\ jobs' = [jobs EXCEPT ![j].pc = "delete", ![j].cur = {}]
    /\ UNCHANGED <<pvcs, ens, pods>>

DeletePod(j) ==
    /\ jobs[j].pc = "kill"
    /\ \E c \in jobs[j].kill :
          /\ jobs' = [jobs EXCEPT ![j].kill = @ \ {c}]
          /\ \/ pods' = [pods EXCEPT ![c] = NoPod] /\ UNCHANGED budget
             \/ Spend("fault") /\ UNCHANGED pods
    /\ UNCHANGED <<pvcs, ens>>

PodsDone(j) ==
    /\ jobs[j].pc = "kill" /\ jobs[j].kill = {}
    /\ jobs' = [jobs EXCEPT ![j].pc = "delete", ![j].cur = {}]
    /\ UNCHANGED <<pvcs, ens, pods, budget>>

deletePVC(j) ==
    \/ DeleteVolume(j) \/ DeleteDone(j)
    \/ getPodsForPVC(j) \/ DeletePod(j) \/ PodsDone(j)

-----------------------------------------------------------------------------
(* The cluster.                                                            *)

\* Argo starts the pod of the caller's workflow, or starts it again.
StartPod(c) ==
    /\ ens[c].pc = "ok" /\ ens[c].vol # {} /\ pods[c].state = "none"
    /\ pods' = [pods EXCEPT ![c] = [state |-> "pending", vol |-> ens[c].vol]]
    /\ UNCHANGED <<pvcs, ens, jobs, budget>>

\* A pod is scheduled only onto a claim that is there and not being deleted.
Schedule(c) ==
    /\ pods[c].state = "pending" /\ \A v \in pods[c].vol : pvcs[v] = "bound"
    /\ pods' = [pods EXCEPT ![c].state = "using"]
    /\ UNCHANGED <<pvcs, ens, jobs, budget>>

EndPod(c) ==
    /\ pods[c].state = "using"
    /\ pods' = [pods EXCEPT ![c].state = "ended"]
    /\ UNCHANGED <<pvcs, ens, jobs, budget>>

InUse(v) == \E c \in Callers : pods[c].state \in {"using", "ended"} /\ v \in pods[c].vol

\* The API server removes a claim once no pod is left on it.
Finalize(v) ==
    /\ pvcs[v] = "deleting" /\ ~InUse(v)
    /\ pvcs' = [pvcs EXCEPT ![v] = "absent"]
    /\ UNCHANGED <<ens, jobs, pods, budget>>

\* The process dies; calls in flight end where they are.
CrashCalls ==
    /\ ens' = [c \in Callers |-> IF ens[c].pc = "ok" THEN ens[c] ELSE NoCall]
    /\ jobs' = [j \in Jobs |-> IF jobs[j].pc = "idle" THEN NoJob ELSE [jobs[j] EXCEPT !.pc = "done"]]

-----------------------------------------------------------------------------

Call(c) == \E want \in Wants : EnsureStart(c, want.scope, want.repo, want.ref) /\ UNCHANGED budget

Next ==
    \/ \E c \in Callers : Call(c) \/ Ensure(c) \/ StartPod(c) \/ Schedule(c) \/ EndPod(c)
    \/ \E j \in Jobs : DeleteList(j) \/ deletePVC(j)
    \/ \E v \in Volumes : Finalize(v)
    \/ Spend("crash") /\ CrashCalls /\ UNCHANGED <<pvcs, pods>>

cacheAll == <<cacheVars, budget>>

Spec == InitCache /\ [][Next]_cacheAll

\* A call in flight goes on and the API server removes what it may remove;
\* nothing makes pods start, run or end.
Fairness ==
    /\ \A j \in Jobs : WF_cacheAll(deletePVC(j))
    /\ \A v \in Volumes : WF_cacheAll(Finalize(v))

LiveSpec == Spec /\ Fairness

-----------------------------------------------------------------------------

TypeOK == TypeOKCache

Unharmed == budget = Budget

\* Repositories that kube-ci takes for one: their names give the same label.
Alike(r, s) == {r, s} \subseteq Repos /\ Label[r] = Label[s]

\* The claim a workflow was promised is there, or some call was asked to
\* clear the cache it belongs to: its own branch's, or the whole repository's,
\* as far as labels tell repositories apart.  (An error of Create reaches the
\* caller, and deletePVC's selection goes by labels and annotations only.)
PromisedVolume ==
    \A c \in Callers : \A v \in ens[c].vol :
        ens[c].pc = "ok" /\ pvcs[v] # "bound" =>
            \E j \in Jobs : /\ Alike(jobs[j].repo, v.repo)
                            /\ jobs[j].ref = NoRef \/ jobs[j].ref = v.ref

\* A volume shared by the project outlives the branches, and a branch's
\* volume the other branches: only a matching request deletes a claim, for
\* its branch or for all of a repository with its label.
OnlyMatchingVolumes ==
    [][\A v \in Volumes : pvcs[v] = "bound" /\ pvcs'[v] = "deleting" =>
            \E j \in Jobs : /\ Alike(jobs[j].repo, v.repo)
                            /\ \/ jobs[j].ref = NoRef
                               \/ v.scope = "branch" /\ jobs[j].ref = v.ref]_pvcs

\* A claim that deletePVC has marked really goes away, even if pods were
\* using it or are started meanwhile, unless a call failed or the process died.
MarkedIsRemoved ==
    \A j \in Jobs, v \in Volumes :
        jobs[j].pc = "pods" /\ v \in jobs[j].cur /\ pvcs[v] = "deleting"
            ~> pvcs[v] = "absent" \/ ~Unharmed
=============================================================================
