------------------------- MODULE RunWorkflow_proofs -------------------------
(* Proofs about RunWorkflow for any handlers, pushes, requests, labels,    *)
(* policy and budget of mishaps: what is built is what the policy          *)
(* permits, every build has a check run of its own that tells the truth,   *)
(* and the handlers implement BuildRequests.                               *)
EXTENDS RunWorkflow, CacheVolumes_proofs, SequenceTheorems

\* A ref that was pushed has a head.
Headed ==
    \A repo \in Repos, ref \in Refs : CommitsOf(repo, ref) # {} =>
        \E k \in CommitsOf(repo, ref) : \A j \in CommitsOf(repo, ref) : j <= k

\* A handler that is at work was asked for something that was pushed.
AskedFor(h) ==
    run[h].pc # "idle" =>
        run[h].req \in Requests /\ CommitsOf(run[h].req.repo, run[h].req.ref) # {}

\* One that has read the CI files without an error may build the ref.
Chosen(h) ==
    run[h].pc \in {"create", "decide", "sweep", "ensure"} =>
        /\ run[h].def \in 1 .. Len(commits)
        /\ run[h].ok => /\ runBranchOrTag(run[h].req.type, Def(h))
                        /\ setupEntrypoint(run[h].req, Def(h))

\* One that cancels and creates has passed the policy.
Passed(h) == run[h].pc \in {"sweep", "ensure"} => Accepted(h)

\* One that has created a check run has it, for the commit asked for.
HasCheckRun(h) ==
    /\ run[h].pc \in {"idle", "read", "create"} => run[h].cr = 0
    /\ run[h].pc \in {"decide", "sweep", "ensure", "fail"} => run[h].cr # 0
    /\ run[h].cr # 0 => /\ run[h].cr \in 1 .. Len(crs)
                        /\ crs[run[h].cr].sha = run[h].sha

\* What a handler will cancel was built for its branch.
Sweeps(h) ==
    run[h].pc = "sweep" => \A t \in run[h].todo :
        t.build \in 1 .. Len(builds) /\ SameBranch(builds[t.build], run[h].req)

HandlerOK(h) == AskedFor(h) /\ Chosen(h) /\ Passed(h) /\ HasCheckRun(h) /\ Sweeps(h)

Base == TypeOKRun /\ Headed /\ \A h \in Callers : HandlerOK(h)

\* What was pushed, reported and built stays, with what it was made for.
Kept ==
    /\ Len(commits) <= Len(commits')
    /\ \A k \in 1 .. Len(commits) : commits'[k] = commits[k]
    /\ Len(crs) <= Len(crs')
    /\ \A k \in 1 .. Len(crs) : crs'[k].sha = crs[k].sha
    /\ Len(builds) <= Len(builds')
    /\ \A k \in 1 .. Len(builds) : /\ builds'[k].req = builds[k].req
                                   /\ builds'[k].sha = builds[k].sha
                                   /\ builds'[k].def = builds[k].def
                                   /\ builds'[k].cr = builds[k].cr

\* The lengths and domains of the histories.
LEMMA Lengths ==
    ASSUME TypeOKRun
    PROVE  /\ Len(commits) \in Nat /\ DOMAIN commits = 1 .. Len(commits)
           /\ Len(crs) \in Nat /\ DOMAIN crs = 1 .. Len(crs)
           /\ Len(builds) \in Nat /\ DOMAIN builds = 1 .. Len(builds)
           /\ Len(cached) \in Nat /\ DOMAIN cached = 1 .. Len(cached)
           /\ Len(cached) = Len(builds)
           /\ \A k \in 1 .. Len(commits) : commits[k] \in Pushes
           /\ \A k \in 1 .. Len(crs) : crs[k] \in [sha: Nat, status: {"queued", "failed"}]
           /\ \A k \in 1 .. Len(builds) : builds[k] \in Builds
           /\ \A k \in 1 .. Len(cached) : cached[k] \in Nat
BY LenProperties, ElementOfSeq DEF TypeOKRun

\* A request is for a repository and a ref there are.
LEMMA RequestFacts ==
    ASSUME NEW r \in Requests
    PROVE  r.repo \in Repos /\ r.ref \in Refs
BY RunAssumption

\* The head is one of the commits of the ref.
LEMMA HeadIsCommit ==
    ASSUME Base, NEW repo \in Repos, NEW ref \in Refs, CommitsOf(repo, ref) # {}
    PROVE  HeadOf(repo, ref) \in CommitsOf(repo, ref)
<1>1. \E k \in CommitsOf(repo, ref) : \A j \in CommitsOf(repo, ref) : j <= k
  BY DEF Base, Headed
<1> QED
  BY <1>1 DEF HeadOf

-----------------------------------------------------------------------------
(* The types.                                                              *)

\* One field of one handler changes.
LEMMA GotoType ==
    ASSUME run \in [Callers -> Runs], NEW h \in Callers, NEW pc \in Pcs, Goto(h, pc)
    PROVE  run' \in [Callers -> Runs]
BY DEF Goto, Runs

\* A call that fails keeps the budget's type.
LEMMA LostType ==
    ASSUME TypeOKCache, NEW h \in Callers, Lost(h)
    PROVE  budget' \in [BudgetKeys -> Nat]
BY SpendType DEF Lost, TypeOKCache, BudgetKeys

\* A check run that is reported as failed is still a check run, and the
\* others are as they were.
LEMMA FailType ==
    ASSUME TypeOKRun, NEW k \in 1 .. Len(crs), crs' = [crs EXCEPT ![k].status = "failed"]
    PROVE  /\ crs' \in Seq([sha: Nat, status: {"queued", "failed"}]) /\ Len(crs') = Len(crs)
           /\ \A j \in 1 .. Len(crs) : crs'[j].sha = crs[j].sha /\ (j # k => crs'[j] = crs[j])
           /\ crs'[k].status = "failed"
<1> DEFINE e == [crs[k] EXCEPT !.status = "failed"]
           T == [sha: Nat, status: {"queued", "failed"}]
<1>1. e \in T /\ e.sha = crs[k].sha /\ e.status = "failed"
  BY Lengths
<1>2. crs' = [crs EXCEPT ![k] = e] /\ crs \in Seq(T)
  BY DEF TypeOKRun
<1> HIDE DEF e, T
<1>3. /\ crs' \in Seq(T) /\ Len(crs') = Len(crs)
      /\ \A j \in 1 .. Len(crs) : crs'[j] = IF j = k THEN e ELSE crs[j]
  BY <1>1, <1>2, ExceptSeq
<1> QED
  BY <1>1, <1>3 DEF T

\* A build that is written again is still a build.
LEMMA BuildType ==
    ASSUME TypeOKRun, NEW k \in 1 .. Len(builds), NEW e \in Builds,
           builds' = [builds EXCEPT ![k] = e]
    PROVE  /\ builds' \in Seq(Builds) /\ Len(builds') = Len(builds)
           /\ \A j \in 1 .. Len(builds) : j # k => builds'[j] = builds[j]
           /\ builds'[k] = e
<1> HIDE DEF Builds
<1>1. builds \in Seq(Builds)
  BY DEF TypeOKRun
<1>2. /\ builds' \in Seq(Builds) /\ Len(builds') = Len(builds)
      /\ \A j \in 1 .. Len(builds) : builds'[j] = IF j = k THEN e ELSE builds[j]
  BY <1>1, ExceptSeq
<1> QED
  BY <1>2

\* The cache is a matter of its own.
LEMMA RunTypeCache ==
    ASSUME Base, NextRun
    PROVE  TypeOKCache'
<1>0. TypeOKCache
  BY DEF Base, TypeOKRun
<1>1. ASSUME NEW h \in Callers, StartEnsure(h) PROVE TypeOKCache'
  <2>1. run[h].req.repo \in Repos /\ run[h].req.ref \in Refs
    BY <1>1, RequestFacts DEF Base, HandlerOK, AskedFor, StartEnsure, At
  <2>2. Def(h).scope \in Scopes
    <3>1. commits[run[h].def] \in Pushes
      BY <1>1, Lengths DEF Base, HandlerOK, Chosen, StartEnsure, At
    <3>2. Def(h) \in Definitions
      BY <3>1, RunAssumption DEF Def
    <3> QED
      BY <3>2 DEF Definitions
  <2> QED
    BY <1>0, <1>1, <2>1, <2>2, TypeStart DEF StartEnsure, Scopes
<1>2. ASSUME NEW h \in Callers, Ensure(h) PROVE TypeOKCache'
  BY <1>0, <1>2, TypeCaller
<1>3. CASE Crash
  BY <1>0, <1>3, TypeCluster DEF Crash
<1>4. CASE DeleteCache
  BY <1>0, <1>4 DEF DeleteCache, TypeOKCache
<1>5. ASSUME UNCHANGED cacheVars, budget' \in [BudgetKeys -> Nat] PROVE TypeOKCache'
  BY <1>0, <1>5 DEF TypeOKCache, cacheVars
<1>6. ASSUME NEW h \in Callers, \/ Receive(h) \/ getWorkflow(h) \/ CreateCheckRun(h)
                                \/ Reject(h) \/ checkRunError(h) \/ ListBuilds(h) \/ CancelBuild(h)
                                \/ EnsureFailed(h) \/ CreateWorkflow(h) \/ Hangup(h)
      PROVE  TypeOKCache'
  <2>1. UNCHANGED cacheVars
    BY <1>6 DEF Receive, getWorkflow, CreateCheckRun, Reject, checkRunError, ListBuilds,
                CancelBuild, EnsureFailed, CreateWorkflow, Hangup, cacheVars
  <2>2. UNCHANGED budget \/ Lost(h) \/ \E k \in BudgetKeys : Spend(k)
    BY <1>6 DEF Receive, getWorkflow, CreateCheckRun, Reject, checkRunError, ListBuilds,
                CancelBuild, EnsureFailed, CreateWorkflow, Hangup, BudgetKeys
  <2>3. budget' \in [BudgetKeys -> Nat]
    BY <1>0, <2>2, LostType, SpendType DEF TypeOKCache
  <2> QED
    BY <1>5, <2>1, <2>3
<1>7. ASSUME NEW i \in DOMAIN builds, Argo(i) \/ Observe(i) PROVE TypeOKCache'
  BY <1>0, <1>5, <1>7 DEF Argo, Observe, TypeOKCache
<1>8. CASE Push
  BY <1>0, <1>5, <1>8 DEF Push, TypeOKCache
<1> QED
  BY <1>1, <1>2, <1>3, <1>4, <1>6, <1>7, <1>8 DEF NextRun, runWorkflow

\* The head of the ref a handler works for is one of what was pushed.
LEMMA HeadFacts ==
    ASSUME Base, NEW h \in Callers, ~At(h, "idle")
    PROVE  /\ HeadOf(run[h].req.repo, run[h].req.ref) \in 1 .. Len(commits)
           /\ run[h].req \in Requests
<1>1. run[h].req \in Requests /\ CommitsOf(run[h].req.repo, run[h].req.ref) # {}
  BY DEF Base, HandlerOK, AskedFor, At
<1>2. HeadOf(run[h].req.repo, run[h].req.ref) \in CommitsOf(run[h].req.repo, run[h].req.ref)
  BY <1>1, HeadIsCommit, RequestFacts
<1> QED
  BY <1>1, <1>2, Lengths DEF CommitsOf, Base

\* What reading the CI files comes to: nothing is done, or they are at the
\* head, and if no error was found they may be built.
LEMMA ReadShape ==
    ASSUME Base, NEW h \in Callers, getWorkflow(h)
    PROVE  \/ Goto(h, "done")
           \/ \E ok \in BOOLEAN : \E head \in 1 .. Len(commits) :
                 /\ run' = [run EXCEPT ![h].pc = "create", ![h].def = head, ![h].ok = ok]
                 /\ ok => /\ runBranchOrTag(run[h].req.type, commits[head].def)
                          /\ setupEntrypoint(run[h].req, commits[head].def)
<1> DEFINE head == HeadOf(run[h].req.repo, run[h].req.ref)
           set == setupEntrypoint(run[h].req, commits[head].def)
           may == runBranchOrTag(run[h].req.type, commits[head].def)
           found(ok) == run' = [run EXCEPT ![h].pc = "create", ![h].def = head, ![h].ok = ok]
<1>1. head \in 1 .. Len(commits)
  BY HeadFacts DEF getWorkflow, At
<1>2. set \in BOOLEAN
  BY DEF setupEntrypoint
<1>3. Goto(h, "done") \/ found(FALSE) \/ (may /\ found(set))
  BY DEF getWorkflow
<1> HIDE DEF head, set, may
<1>4. Goto(h, "done") \/ \E ok \in BOOLEAN : found(ok) /\ (ok => may /\ set)
  BY <1>2, <1>3
<1> QED
  BY <1>1, <1>4 DEF set, may

\* Handlers stay handlers.
LEMMA RunTypeHandlers ==
    ASSUME Base, NextRun
    PROVE  run' \in [Callers -> Runs]
<1>0. run \in [Callers -> Runs] /\ TypeOKRun
  BY DEF Base, TypeOKRun
<1>1. ASSUME NEW h \in Callers, Receive(h) PROVE run' \in [Callers -> Runs]
  <2>1. PICK req \in Requests : \E sha \in CommitsOf(req.repo, req.ref) :
           run' = [run EXCEPT ![h].pc = "read", ![h].req = req, ![h].sha = sha]
    BY <1>1 DEF Receive
  <2>2. PICK sha \in CommitsOf(req.repo, req.ref) :
           run' = [run EXCEPT ![h].pc = "read", ![h].req = req, ![h].sha = sha]
    BY <2>1
  <2>3. sha \in Nat
    BY <1>0, Lengths DEF CommitsOf
  <2>4. [run[h] EXCEPT !.pc = "read", !.req = req, !.sha = sha] \in Runs
    BY <1>0, <2>3 DEF Runs, Pcs
  <2> QED
    BY <1>0, <2>2, <2>4
<1>2. ASSUME NEW h \in Callers, getWorkflow(h) PROVE run' \in [Callers -> Runs]
  <2>1. CASE Goto(h, "done")
    BY <1>0, <2>1, GotoType DEF Pcs
  <2>2. ASSUME NEW ok \in BOOLEAN, NEW head \in 1 .. Len(commits),
               run' = [run EXCEPT ![h].pc = "create", ![h].def = head, ![h].ok = ok]
        PROVE  run' \in [Callers -> Runs]
    <3>1. head \in Nat
      BY <1>0, Lengths
    <3>2. [run[h] EXCEPT !.pc = "create", !.def = head, !.ok = ok] \in Runs
      BY <1>0, <3>1 DEF Runs, Pcs
    <3> QED
      BY <1>0, <2>2, <3>2
  <2> QED
    BY <1>2, <2>1, <2>2, ReadShape
<1>3. ASSUME NEW h \in Callers, CreateCheckRun(h) PROVE run' \in [Callers -> Runs]
  <2>1. CASE Goto(h, "done")
    BY <1>0, <2>1, GotoType DEF Pcs
  <2>2. CASE /\ crs' = Append(crs, [sha |-> run[h].sha, status |-> "queued"])
             /\ run' = [run EXCEPT ![h].pc = "decide", ![h].cr = Len(crs')]
    <3>1. run[h].sha \in Nat
      BY <1>0 DEF Runs
    <3>2. Len(crs') \in Nat
      BY <1>0, <2>2, <3>1, AppendProperties, Lengths DEF TypeOKRun
    <3>3. PICK id \in Nat : run' = [run EXCEPT ![h].pc = "decide", ![h].cr = id]
      BY <2>2, <3>2
    <3>4. [run[h] EXCEPT !.pc = "decide", !.cr = id] \in Runs
      BY <1>0 DEF Runs, Pcs
    <3> QED
      BY <1>0, <3>3, <3>4
  <2> QED
    BY <1>3, <2>1, <2>2 DEF CreateCheckRun
<1>4. ASSUME NEW h \in Callers, NEW pc \in Pcs, Goto(h, pc) PROVE run' \in [Callers -> Runs]
  BY <1>0, <1>4, GotoType
<1>5. ASSUME NEW h \in Callers, ListBuilds(h) PROVE run' \in [Callers -> Runs]
  <2> DEFINE found == {[build |-> i, ver |-> cached[i]] :
                          i \in {k \in DOMAIN builds :
                                    cached[k] # 0 /\ SameBranch(builds[k], run[h].req)}}
  <2>1. found \in SUBSET [build: Nat, ver: Nat]
    BY <1>0, Lengths
  <2>2. run' = [run EXCEPT ![h].pc = "sweep", ![h].todo = found]
    BY <1>5 DEF ListBuilds
  <2> HIDE DEF found
  <2>3. run[h] \in Runs
    BY <1>0
  <2>4. [run[h] EXCEPT !.pc = "sweep", !.todo = found] \in Runs
    BY <2>1, <2>3 DEF Runs, Pcs
  <2> QED
    BY <1>0, <2>2, <2>4
<1>6. ASSUME NEW h \in Callers, CancelBuild(h) PROVE run' \in [Callers -> Runs]
  <2>1. PICK t : run' = [run EXCEPT ![h].todo = @ \ {t}]
    BY <1>6 DEF CancelBuild
  <2> QED
    BY <1>0, <2>1 DEF Runs
<1>7. ASSUME NEW h \in Callers, Hangup(h) PROVE run' \in [Callers -> Runs]
  BY <1>0, <1>7 DEF Hangup, Runs
<1>8. CASE Crash
  BY <1>0, <1>8, SMTT(30) DEF Crash, Runs, Pcs
<1>9. CASE UNCHANGED run
  BY <1>0, <1>9
<1>10. ASSUME NEW h \in Callers, runWorkflow(h) PROVE run' \in [Callers -> Runs]
  BY <1>10, <1>4, <1>5, <1>6, <1>9
     DEF runWorkflow, Reject, checkRunError, StartEnsure, EnsureFailed, CreateWorkflow, runVars, Pcs
<1> QED
  BY <1>1, <1>2, <1>3, <1>7, <1>8, <1>9, <1>10
     DEF NextRun, Push, DeleteCache, Argo, Observe, runVars

-----------------------------------------------------------------------------
(* What each step writes.                                                  *)

\* Only a push adds commits.
LEMMA CommitsShape ==
    ASSUME NextRun
    PROVE  commits' = commits \/ (Push /\ \E p \in Pushes : commits' = Append(commits, p))
<1>1. ASSUME NEW h \in Callers, Receive(h) \/ getWorkflow(h) \/ CreateCheckRun(h) \/ Hangup(h)
      PROVE  commits' = commits
  BY <1>1 DEF Receive, getWorkflow, CreateCheckRun, Hangup
<1>2. ASSUME NEW h \in Callers, runWorkflow(h) PROVE commits' = commits
  BY <1>2 DEF runWorkflow, Reject, checkRunError, ListBuilds, CancelBuild, StartEnsure,
              EnsureFailed, CreateWorkflow, runVars
<1>3. CASE Crash \/ DeleteCache
  BY <1>3 DEF Crash, DeleteCache, runVars
<1>4. ASSUME NEW i \in DOMAIN builds, Argo(i) \/ Observe(i) PROVE commits' = commits
  BY <1>4 DEF Argo, Observe
<1>5. CASE Push
  BY <1>5 DEF Push
<1> QED
  BY <1>1, <1>2, <1>3, <1>4, <1>5 DEF NextRun

\* The check run a handler asks for.
Queued(h) == [sha |-> run[h].sha, status |-> "queued"]

\* Only CreateCheckRun adds check runs, and only checkRunError writes them.
LEMMA CheckRunsShape ==
    ASSUME NextRun
    PROVE  \/ crs' = crs
           \/ \E h \in Callers : /\ CreateCheckRun(h)
                                 /\ crs' = Append(crs, Queued(h))
           \/ \E h \in Callers : /\ checkRunError(h)
                                 /\ crs' = [crs EXCEPT ![run[h].cr].status = "failed"]
<1>1. ASSUME NEW h \in Callers, Receive(h) \/ getWorkflow(h) \/ Hangup(h) PROVE crs' = crs
  BY <1>1 DEF Receive, getWorkflow, Hangup
<1>2. ASSUME NEW h \in Callers, CreateCheckRun(h) PROVE crs' = crs \/ crs' = Append(crs, Queued(h))
  BY <1>2 DEF CreateCheckRun, Queued
<1>3. ASSUME NEW h \in Callers, checkRunError(h)
      PROVE  crs' = crs \/ crs' = [crs EXCEPT ![run[h].cr].status = "failed"]
  BY <1>3 DEF checkRunError
<1>4. ASSUME NEW h \in Callers, runWorkflow(h), ~checkRunError(h) PROVE crs' = crs
  BY <1>4 DEF runWorkflow, Reject, ListBuilds, CancelBuild, StartEnsure,
              EnsureFailed, CreateWorkflow, runVars
<1>5. CASE Crash \/ DeleteCache \/ Push
  BY <1>5 DEF Crash, DeleteCache, Push, runVars
<1>6. ASSUME NEW i \in DOMAIN builds, Argo(i) \/ Observe(i) PROVE crs' = crs
  BY <1>6 DEF Argo, Observe
<1> QED
  BY <1>1, <1>2, <1>3, <1>4, <1>5, <1>6 DEF NextRun

\* The build a handler creates.
Created(h) == [req |-> run[h].req, sha |-> run[h].sha, def |-> run[h].def, cr |-> run[h].cr,
               ads |-> FALSE, ended |-> FALSE, ver |-> 1]

\* Only CreateWorkflow adds builds; Argo and CancelBuild write them.
LEMMA BuildsShape ==
    ASSUME NextRun
    PROVE  \/ builds' = builds
           \/ \E h \in Callers : /\ CreateWorkflow(h)
                                 /\ builds' = Append(builds, Created(h))
                                 /\ cached' = Append(cached, 0)
           \/ \E h \in Callers : \E t \in run[h].todo :
                 /\ CancelBuild(h)
                 /\ builds' = [builds EXCEPT ![t.build].ads = TRUE, ![t.build].ver = @ + 1]
           \/ \E i \in DOMAIN builds : \E ended \in BOOLEAN :
                 /\ Argo(i)
                 /\ builds' = [builds EXCEPT ![i].ended = ended, ![i].ver = @ + 1]
<1>1. ASSUME NEW h \in Callers, Receive(h) \/ getWorkflow(h) \/ CreateCheckRun(h) \/ Hangup(h)
      PROVE  builds' = builds
  BY <1>1 DEF Receive, getWorkflow, CreateCheckRun, Hangup
<1>2. ASSUME NEW h \in Callers, CreateWorkflow(h)
      PROVE  builds' = builds \/ (builds' = Append(builds, Created(h)) /\ cached' = Append(cached, 0))
  BY <1>2 DEF CreateWorkflow, Created
<1>3. ASSUME NEW h \in Callers, CancelBuild(h)
      PROVE  \/ builds' = builds
             \/ \E t \in run[h].todo :
                   builds' = [builds EXCEPT ![t.build].ads = TRUE, ![t.build].ver = @ + 1]
  BY <1>3 DEF CancelBuild
<1>4. ASSUME NEW h \in Callers, runWorkflow(h), ~CreateWorkflow(h), ~CancelBuild(h)
      PROVE  builds' = builds
  BY <1>4 DEF runWorkflow, Reject, checkRunError, ListBuilds, StartEnsure, EnsureFailed, runVars
<1>5. CASE Crash \/ DeleteCache \/ Push
  BY <1>5 DEF Crash, DeleteCache, Push, runVars
<1>6. ASSUME NEW i \in DOMAIN builds, Argo(i)
      PROVE  \E ended \in BOOLEAN :
                builds' = [builds EXCEPT ![i].ended = ended, ![i].ver = @ + 1]
  BY <1>6 DEF Argo
<1>7. ASSUME NEW i \in DOMAIN builds, Observe(i) PROVE builds' = builds
  BY <1>7 DEF Observe
<1> QED
  BY <1>1, <1>2, <1>3, <1>4, <1>5, <1>6, <1>7 DEF NextRun

\* The types of the histories, and what stays.
LEMMA KeptCommits ==
    ASSUME Base, NextRun
    PROVE  /\ commits' \in Seq(Pushes) /\ Len(commits) <= Len(commits')
           /\ \A k \in 1 .. Len(commits) : commits'[k] = commits[k]
<1>1. commits \in Seq(Pushes) /\ Len(commits) \in Nat
  BY Lengths DEF Base, TypeOKRun
<1>2. CASE commits' = commits
  BY <1>1, <1>2
<1>3. ASSUME NEW p \in Pushes, commits' = Append(commits, p)
      PROVE  /\ commits' \in Seq(Pushes) /\ Len(commits) <= Len(commits')
             /\ \A k \in 1 .. Len(commits) : commits'[k] = commits[k]
  BY <1>1, <1>3, AppendProperties
<1> QED
  BY <1>2, <1>3, CommitsShape

\* A check run keeps its commit.
LEMMA KeptCheckRuns ==
    ASSUME Base, NextRun
    PROVE  /\ crs' \in Seq([sha: Nat, status: {"queued", "failed"}]) /\ Len(crs) <= Len(crs')
           /\ \A k \in 1 .. Len(crs) : crs'[k].sha = crs[k].sha
<1> DEFINE T == [sha: Nat, status: {"queued", "failed"}]
<1>1. /\ TypeOKRun /\ crs \in Seq(T) /\ Len(crs) \in Nat
      /\ \A k \in 1 .. Len(crs) : crs[k] \in T
  BY Lengths DEF Base, TypeOKRun
<1>2. CASE crs' = crs
  BY <1>1, <1>2
<1>3. ASSUME NEW h \in Callers, crs' = Append(crs, Queued(h))
      PROVE  /\ crs' \in Seq(T) /\ Len(crs) <= Len(crs')
             /\ \A k \in 1 .. Len(crs) : crs'[k].sha = crs[k].sha
  <2>1. Queued(h) \in T
    BY <1>1 DEF Queued, TypeOKRun, Runs
  <2> HIDE DEF T
  <2>2. /\ Append(crs, Queued(h)) \in Seq(T) /\ Len(Append(crs, Queued(h))) = Len(crs) + 1
        /\ \A k \in 1 .. Len(crs) : Append(crs, Queued(h))[k] = crs[k]
    BY <1>1, <2>1, AppendProperties
  <2> QED
    BY <1>1, <1>3, <2>2
<1>4. ASSUME NEW h \in Callers, checkRunError(h),
             crs' = [crs EXCEPT ![run[h].cr].status = "failed"]
      PROVE  /\ crs' \in Seq(T) /\ Len(crs) <= Len(crs')
             /\ \A k \in 1 .. Len(crs) : crs'[k].sha = crs[k].sha
  <2>1. run[h].cr \in 1 .. Len(crs)
    BY <1>4 DEF checkRunError, At, Base, HandlerOK, HasCheckRun
  <2>2. /\ crs' \in Seq(T) /\ Len(crs') = Len(crs)
        /\ \A j \in 1 .. Len(crs) : crs'[j].sha = crs[j].sha
    BY <1>1, <1>4, <2>1, FailType
  <2> QED
    BY <1>1, <2>2
<1> QED
  BY <1>2, <1>3, <1>4, CheckRunsShape

\* A build that is written again is for the same request, commit and check run.
SameBuild(e, b) == e.req = b.req /\ e.sha = b.sha /\ e.def = b.def /\ e.cr = b.cr

\* What CancelBuild and Argo write.
LEMMA WrittenBuild ==
    ASSUME NEW b \in Builds, NEW ended \in BOOLEAN
    PROVE  /\ [b EXCEPT !.ads = TRUE, !.ver = @ + 1] \in Builds
           /\ [b EXCEPT !.ended = ended, !.ver = @ + 1] \in Builds
           /\ SameBuild([b EXCEPT !.ads = TRUE, !.ver = @ + 1], b)
           /\ SameBuild([b EXCEPT !.ended = ended, !.ver = @ + 1], b)
<1>1. b.ver + 1 \in Nat
  BY DEF Builds
<1>2. [b EXCEPT !.ads = TRUE, !.ver = @ + 1] \in Builds
  BY <1>1 DEF Builds
<1>3. [b EXCEPT !.ended = ended, !.ver = @ + 1] \in Builds
  BY <1>1 DEF Builds
<1>4. SameBuild([b EXCEPT !.ads = TRUE, !.ver = @ + 1], b)
  BY DEF Builds, SameBuild
<1>5. SameBuild([b EXCEPT !.ended = ended, !.ver = @ + 1], b)
  BY DEF Builds, SameBuild
<1> QED
  BY <1>2, <1>3, <1>4, <1>5

\* The builds stay, and the one that is added has a number of its own.
LEMMA KeptBuilds ==
    ASSUME Base, NextRun
    PROVE  /\ builds' \in Seq(Builds) /\ Len(builds) <= Len(builds')
           /\ \A k \in 1 .. Len(builds) : SameBuild(builds'[k], builds[k])
<1>1. /\ TypeOKRun /\ builds \in Seq(Builds) /\ Len(builds) \in Nat
      /\ DOMAIN builds = 1 .. Len(builds)
      /\ \A k \in 1 .. Len(builds) : builds[k] \in Builds
  BY Lengths DEF Base, TypeOKRun
<1> DEFINE P == /\ builds' \in Seq(Builds) /\ Len(builds) <= Len(builds')
                /\ \A k \in 1 .. Len(builds) : SameBuild(builds'[k], builds[k])
<1>2. CASE builds' = builds
  BY <1>1, <1>2 DEF SameBuild
<1>3. ASSUME NEW h \in Callers, CreateWorkflow(h), builds' = Append(builds, Created(h)) PROVE P
  <2>1. Created(h) \in Builds
    <3>1. run[h].req \in Requests
      BY <1>3 DEF CreateWorkflow, At, Base, HandlerOK, AskedFor
    <3>2. run[h].sha \in Nat /\ run[h].def \in Nat /\ run[h].cr \in Nat
      BY <1>1 DEF TypeOKRun, Runs
    <3> QED
      BY <3>1, <3>2 DEF Created, Builds
  <2>2. /\ Append(builds, Created(h)) \in Seq(Builds)
        /\ Len(Append(builds, Created(h))) = Len(builds) + 1
        /\ \A k \in 1 .. Len(builds) : Append(builds, Created(h))[k] = builds[k]
    BY <1>1, <2>1, AppendProperties
  <2> QED
    BY <1>1, <1>3, <2>2 DEF SameBuild
<1>4. ASSUME NEW k \in 1 .. Len(builds), NEW e \in Builds, SameBuild(e, builds[k]),
             builds' = [builds EXCEPT ![k] = e]
      PROVE  P
  <2>1. /\ builds' \in Seq(Builds) /\ Len(builds') = Len(builds)
        /\ \A j \in 1 .. Len(builds) : j # k => builds'[j] = builds[j]
        /\ builds'[k] = e
    BY <1>1, <1>4, BuildType
  <2> QED
    BY <1>1, <1>4, <2>1 DEF SameBuild
<1>5. ASSUME NEW h \in Callers, NEW t \in run[h].todo, CancelBuild(h),
             builds' = [builds EXCEPT ![t.build].ads = TRUE, ![t.build].ver = @ + 1]
      PROVE  P
  <2> DEFINE e == [builds[t.build] EXCEPT !.ads = TRUE, !.ver = @ + 1]
  <2>1. t.build \in 1 .. Len(builds)
    BY <1>5 DEF CancelBuild, At, Base, HandlerOK, Sweeps
  <2>2. e \in Builds /\ SameBuild(e, builds[t.build])
    BY <1>1, <2>1, WrittenBuild
  <2>3. builds' = [builds EXCEPT ![t.build] = e]
    BY <1>5
  <2> QED
    BY <1>4, <2>1, <2>2, <2>3
<1>6. ASSUME NEW i \in DOMAIN builds, NEW ended \in BOOLEAN,
             builds' = [builds EXCEPT ![i].ended = ended, ![i].ver = @ + 1]
      PROVE  P
  <2> DEFINE e == [builds[i] EXCEPT !.ended = ended, !.ver = @ + 1]
  <2>1. e \in Builds /\ SameBuild(e, builds[i])
    BY <1>1, WrittenBuild
  <2>2. builds' = [builds EXCEPT ![i] = e]
    BY <1>6
  <2> QED
    BY <1>1, <1>4, <2>1, <2>2
<1> QED
  BY <1>2, <1>3, <1>5, <1>6, BuildsShape

\* The informer's cache has one version for each build.
LEMMA RunTypeCached ==
    ASSUME Base, NextRun
    PROVE  cached' \in Seq(Nat) /\ Len(cached') = Len(builds')
<1>1. /\ TypeOKRun /\ cached \in Seq(Nat) /\ Len(cached) = Len(builds)
      /\ builds \in Seq(Builds) /\ Len(builds) \in Nat
      /\ DOMAIN builds = 1 .. Len(builds) /\ DOMAIN cached = 1 .. Len(cached)
      /\ \A k \in 1 .. Len(builds) : builds[k] \in Builds
  BY Lengths DEF Base, TypeOKRun
<1>2. ASSUME NEW h \in Callers, CreateWorkflow(h), builds' = Append(builds, Created(h)),
             cached' = Append(cached, 0)
      PROVE  cached' \in Seq(Nat) /\ Len(cached') = Len(builds')
  <2>1. Len(builds') = Len(builds) + 1
    BY <1>1, <1>2
  <2>2. cached' \in Seq(Nat) /\ Len(cached') = Len(cached) + 1
    BY <1>1, <1>2, AppendProperties
  <2> QED
    BY <1>1, <2>1, <2>2
<1>3. ASSUME Len(builds') = Len(builds), UNCHANGED cached
      PROVE  cached' \in Seq(Nat) /\ Len(cached') = Len(builds')
  BY <1>1, <1>3
<1>4. ASSUME NEW h \in Callers, NEW t \in run[h].todo, CancelBuild(h),
             builds' = [builds EXCEPT ![t.build].ads = TRUE, ![t.build].ver = @ + 1]
      PROVE  Len(builds') = Len(builds) /\ UNCHANGED cached
  <2>1. t.build \in 1 .. Len(builds)
    BY <1>4 DEF CancelBuild, At, Base, HandlerOK, Sweeps
  <2>2. builds' = [builds EXCEPT ![t.build] = [builds[t.build] EXCEPT !.ads = TRUE, !.ver = @ + 1]]
    BY <1>4
  <2> QED
    BY <1>1, <1>4, <2>1, <2>2, WrittenBuild, BuildType DEF CancelBuild
<1>5. ASSUME NEW i \in DOMAIN builds, NEW ended \in BOOLEAN, Argo(i),
             builds' = [builds EXCEPT ![i].ended = ended, ![i].ver = @ + 1]
      PROVE  Len(builds') = Len(builds) /\ UNCHANGED cached
  <2> DEFINE e == [builds[i] EXCEPT !.ended = ended, !.ver = @ + 1]
  <2>1. e \in Builds
    BY <1>1, WrittenBuild
  <2>2. builds' = [builds EXCEPT ![i] = e]
    BY <1>5
  <2> HIDE DEF e
  <2> QED
    BY <1>1, <1>5, <2>1, <2>2, BuildType DEF Argo
<1>6. ASSUME builds' = builds
      PROVE  cached' \in Seq(Nat) /\ Len(cached') = Len(builds')
  <2>1. ASSUME NEW i \in DOMAIN builds, Observe(i) PROVE cached' \in Seq(Nat) /\ Len(cached') = Len(cached)
    <3>1. builds[i].ver \in Nat
      BY <1>1 DEF Builds
    <3> QED
      BY <1>1, <2>1, <3>1, ExceptSeq DEF Observe
  <2>2. CASE Crash
    <3>1. cached' = [i \in 1 .. Len(builds) |-> builds[i].ver]
      BY <1>1, <2>2 DEF Crash
    <3>2. \A i \in 1 .. Len(builds) : builds[i].ver \in Nat
      BY <1>1 DEF Builds
    <3> QED
      BY <1>1, <1>6, <3>1, <3>2
  <2>3. ASSUME NEW h \in Callers, \/ Receive(h) \/ getWorkflow(h) \/ CreateCheckRun(h)
                                  \/ Hangup(h) \/ (runWorkflow(h) /\ ~CreateWorkflow(h))
        PROVE  UNCHANGED cached
    BY <2>3 DEF Receive, getWorkflow, CreateCheckRun, Hangup, runWorkflow, Reject, checkRunError,
                ListBuilds, CancelBuild, StartEnsure, EnsureFailed, runVars
  <2>4. ASSUME NEW h \in Callers, CreateWorkflow(h) PROVE UNCHANGED cached
    <3>1. ASSUME builds' = Append(builds, Created(h)) PROVE FALSE
      <4>1. Len(builds') = Len(builds) + 1
        BY <1>1, <3>1
      <4>2. Len(builds') = Len(builds)
        BY <1>6
      <4> QED
        BY <1>1, <4>1, <4>2
    <3> QED
      BY <2>4, <3>1 DEF CreateWorkflow, Created
  <2>5. ASSUME NEW i \in DOMAIN builds, Argo(i) PROVE UNCHANGED cached
    BY <2>5 DEF Argo
  <2>6. ASSUME Push \/ DeleteCache PROVE UNCHANGED cached
    BY <2>6 DEF Push, DeleteCache, runVars
  <2> QED
    BY <1>1, <1>3, <1>6, <2>1, <2>2, <2>3, <2>4, <2>5, <2>6 DEF NextRun
<1> QED
  BY <1>2, <1>3, <1>4, <1>5, <1>6, BuildsShape

\* Every step keeps the types, and what was done before it.
LEMMA RunTypeStep ==
    ASSUME Base, NextRun
    PROVE  TypeOKRun' /\ Kept
<1>1. TypeOKRun'
  BY RunTypeCache, RunTypeHandlers, KeptCommits, KeptCheckRuns, KeptBuilds, RunTypeCached
     DEF TypeOKRun
<1>2. Kept
  BY KeptCommits, KeptCheckRuns, KeptBuilds DEF Kept, SameBuild
<1> QED
  BY <1>1, <1>2

\* The lengths and domains after a step.
LEMMA LengthsNext ==
    ASSUME TypeOKRun'
    PROVE  /\ Len(commits') \in Nat /\ DOMAIN commits' = 1 .. Len(commits')
           /\ Len(crs') \in Nat /\ DOMAIN crs' = 1 .. Len(crs')
           /\ Len(builds') \in Nat /\ DOMAIN builds' = 1 .. Len(builds')
           /\ \A k \in 1 .. Len(builds') : builds'[k] \in Builds
BY LenProperties, ElementOfSeq DEF TypeOKRun

-----------------------------------------------------------------------------
(* The handlers.                                                           *)

\* What was pushed for a ref stays.
LEMMA CommitsStay ==
    ASSUME Base, TypeOKRun', Kept, NEW repo, NEW ref
    PROVE  CommitsOf(repo, ref) \subseteq CommitsOf(repo, ref)'
<1>1. /\ Len(commits) \in Nat /\ DOMAIN commits = 1 .. Len(commits)
      /\ Len(commits') \in Nat /\ DOMAIN commits' = 1 .. Len(commits')
  BY Lengths, LengthsNext DEF Base
<1>2. Len(commits) <= Len(commits') /\ \A k \in 1 .. Len(commits) : commits'[k] = commits[k]
  BY DEF Kept
<1>3. DOMAIN commits \subseteq DOMAIN commits'
  BY <1>1, <1>2
<1> QED
  BY <1>1, <1>2, <1>3 DEF CommitsOf

\* A ref keeps its head, or its head is what was just pushed.
LEMMA HeadedStep ==
    ASSUME Base, NextRun, TypeOKRun', Kept
    PROVE  Headed'
<1> SUFFICES ASSUME NEW repo \in Repos, NEW ref \in Refs, CommitsOf(repo, ref)' # {}
             PROVE  \E k \in CommitsOf(repo, ref)' : \A j \in CommitsOf(repo, ref)' : j <= k
  BY DEF Headed
<1>1. /\ Len(commits) \in Nat /\ DOMAIN commits = 1 .. Len(commits)
      /\ DOMAIN commits' = 1 .. Len(commits') /\ commits \in Seq(Pushes)
  BY Lengths, LengthsNext DEF Base, TypeOKRun
<1>2. CASE commits' = commits
  BY <1>2 DEF Base, Headed, CommitsOf
<1>3. ASSUME NEW p \in Pushes, commits' = Append(commits, p)
      PROVE  \E k \in CommitsOf(repo, ref)' : \A j \in CommitsOf(repo, ref)' : j <= k
  <2>1. Len(commits') = Len(commits) + 1 /\ \A k \in 1 .. Len(commits) : commits'[k] = commits[k]
    BY <1>1, <1>3, AppendProperties
  <2>2. CASE Len(commits') \in CommitsOf(repo, ref)'
    BY <1>1, <2>1, <2>2, SMTT(30) DEF CommitsOf
  <2>3. CASE Len(commits') \notin CommitsOf(repo, ref)'
    <3>1. CommitsOf(repo, ref)' = CommitsOf(repo, ref)
      BY <1>1, <2>1, <2>3 DEF CommitsOf
    <3> QED
      BY <3>1 DEF Base, Headed
  <2> QED
    BY <2>2, <2>3
<1> QED
  BY <1>2, <1>3, CommitsShape

\* A handler that did not move is as it was.
LEMMA Unmoved ==
    ASSUME Base, TypeOKRun', Kept, NEW h \in Callers, run'[h] = run[h]
    PROVE  HandlerOK(h)'
<1>0. HandlerOK(h) /\ TypeOKRun
  BY DEF Base
<1>1. AskedFor(h)'
  BY <1>0, CommitsStay DEF HandlerOK, AskedFor
<1>2. Chosen(h)'
  BY <1>0, Lengths, LengthsNext DEF HandlerOK, Chosen, Def, Kept
<1>3. Passed(h)'
  BY <1>0 DEF HandlerOK, Passed, Accepted
<1>4. HasCheckRun(h)'
  BY <1>0, Lengths, LengthsNext DEF HandlerOK, HasCheckRun, Kept
<1>5. Sweeps(h)'
  <2> SUFFICES ASSUME run[h].pc = "sweep", NEW t \in run[h].todo
               PROVE  t.build \in 1 .. Len(builds') /\ SameBranch(builds'[t.build], run[h].req)
    BY DEF Sweeps, SameBranch
  <2>1. t.build \in 1 .. Len(builds) /\ SameBranch(builds[t.build], run[h].req)
    BY <1>0 DEF HandlerOK, Sweeps
  <2>2. builds'[t.build].req = builds[t.build].req
    BY <2>1 DEF Kept
  <2>3. Len(builds) \in Nat /\ Len(builds') \in Nat /\ Len(builds) <= Len(builds')
    BY <1>0, Lengths, LengthsNext DEF Kept
  <2> QED
    BY <2>1, <2>2, <2>3 DEF SameBranch
<1> QED
  BY <1>1, <1>2, <1>3, <1>4, <1>5 DEF HandlerOK

\* What a handler knows stays when only its place changes, or what it has
\* yet to cancel, or whether GitHub waits.
Moves(h) ==
    /\ run'[h].req = run[h].req /\ run'[h].sha = run[h].sha /\ run'[h].def = run[h].def
    /\ run'[h].ok = run[h].ok /\ run'[h].cr = run[h].cr
    /\ run[h].pc # "idle"
    /\ run'[h].pc = run[h].pc \/ run'[h].pc \notin {"idle", "read", "create"}
    /\ run'[h].pc \in {"create", "decide", "sweep", "ensure"} =>
          run[h].pc \in {"create", "decide", "sweep", "ensure"}
    /\ run'[h].pc \in {"decide", "sweep", "ensure", "fail"} =>
          run[h].pc \in {"decide", "sweep", "ensure", "fail"}
    /\ run'[h].pc \in {"sweep", "ensure"} => Accepted(h)
    /\ run'[h].pc = "sweep" => \A t \in run'[h].todo :
          t.build \in 1 .. Len(builds) /\ SameBranch(builds[t.build], run[h].req)

\* A handler that only moves on is in order.
LEMMA Moved ==
    ASSUME Base, TypeOKRun', Kept, NEW h \in Callers, Moves(h)
    PROVE  HandlerOK(h)'
<1>0. HandlerOK(h) /\ TypeOKRun
  BY DEF Base
<1>1. AskedFor(h)'
  BY <1>0, CommitsStay DEF HandlerOK, AskedFor, Moves
<1>2. Chosen(h)'
  BY <1>0, Lengths, LengthsNext DEF HandlerOK, Chosen, Def, Kept, Moves
<1>3. Passed(h)'
  BY <1>0 DEF HandlerOK, Passed, Accepted, Moves
<1>4. HasCheckRun(h)'
  BY <1>0, Lengths, LengthsNext DEF HandlerOK, HasCheckRun, Kept, Moves
<1>5. Sweeps(h)'
  <2> SUFFICES ASSUME run'[h].pc = "sweep", NEW t \in run'[h].todo
               PROVE  t.build \in 1 .. Len(builds') /\ SameBranch(builds'[t.build], run'[h].req)
    BY DEF Sweeps, SameBranch
  <2>1. t.build \in 1 .. Len(builds) /\ SameBranch(builds[t.build], run[h].req)
    BY DEF Moves
  <2>2. builds'[t.build].req = builds[t.build].req /\ run'[h].req = run[h].req
    BY <2>1 DEF Kept, Moves
  <2>3. Len(builds) \in Nat /\ Len(builds') \in Nat /\ Len(builds) <= Len(builds')
    BY <1>0, Lengths, LengthsNext DEF Kept
  <2> QED
    BY <2>1, <2>2, <2>3 DEF SameBranch
<1> QED
  BY <1>1, <1>2, <1>3, <1>4, <1>5 DEF HandlerOK

\* Only the handler that takes a step changes, and most steps only move it.
LEMMA HandlerSteps ==
    ASSUME Base, NextRun, NEW h \in Callers
    PROVE  \/ run'[h] = run[h]
           \/ Receive(h)
           \/ getWorkflow(h)
           \/ CreateCheckRun(h)
           \/ Moves(h)
<1>0. /\ run \in [Callers -> Runs] /\ run[h] \in Runs /\ TypeOKRun /\ HandlerOK(h)
      /\ DOMAIN builds = 1 .. Len(builds)
  BY Lengths DEF Base, TypeOKRun
<1>1. ASSUME NEW g \in Callers, g # h,
             Receive(g) \/ getWorkflow(g) \/ CreateCheckRun(g) \/ runWorkflow(g) \/ Hangup(g)
      PROVE  run'[h] = run[h]
  BY <1>0, <1>1 DEF Receive, getWorkflow, CreateCheckRun, runWorkflow, Reject, checkRunError,
        ListBuilds, CancelBuild, StartEnsure, EnsureFailed, CreateWorkflow, Hangup, Goto, runVars
<1>2. CASE runWorkflow(h)
  <2>1. CASE ListBuilds(h)
    <3> DEFINE found == {[build |-> i, ver |-> cached[i]] :
                            i \in {k \in DOMAIN builds :
                                      cached[k] # 0 /\ SameBranch(builds[k], run[h].req)}}
    <3>1. \A t \in found : t.build \in 1 .. Len(builds) /\ SameBranch(builds[t.build], run[h].req)
      BY <1>0
    <3>2. run' = [run EXCEPT ![h].pc = "sweep", ![h].todo = found] /\ At(h, "decide") /\ Accepted(h)
      BY <2>1 DEF ListBuilds
    <3> HIDE DEF found
    <3>3. run'[h] = [run[h] EXCEPT !.pc = "sweep", !.todo = found]
      BY <1>0, <3>2
    <3> QED
      BY <1>0, <3>1, <3>2, <3>3 DEF At, Moves, Runs
  <2>2. CASE CancelBuild(h)
    <3>1. PICK t : run' = [run EXCEPT ![h].todo = @ \ {t}]
      BY <2>2 DEF CancelBuild
    <3>2. run'[h] = [run[h] EXCEPT !.todo = @ \ {t}]
      BY <1>0, <3>1
    <3>3. Accepted(h) /\ run[h].pc = "sweep"
      BY <1>0, <2>2 DEF CancelBuild, At, HandlerOK, Passed
    <3>4. \A u \in run'[h].todo : u \in run[h].todo
      BY <1>0, <3>2 DEF Runs
    <3> QED
      BY <1>0, <3>2, <3>3, <3>4 DEF HandlerOK, Sweeps, Moves, Runs
  <2>3. ASSUME NEW pc \in {"ensure", "fail", "done"}, Goto(h, pc), run[h].pc # "idle",
               pc = "ensure" => run[h].pc = "sweep",
               pc = "fail" => run[h].pc \in {"decide", "ensure"}
        PROVE  Moves(h)
    <3>1. run'[h] = [run[h] EXCEPT !.pc = pc]
      BY <1>0, <2>3 DEF Goto
    <3>2. pc = "ensure" => Accepted(h)
      BY <1>0, <2>3 DEF HandlerOK, Passed
    <3> QED
      BY <1>0, <2>3, <3>1, <3>2 DEF Moves, Runs
  <2>4. CASE Reject(h)
    BY <2>3, <2>4 DEF Reject, At
  <2>5. CASE checkRunError(h)
    BY <2>3, <2>5 DEF checkRunError, At
  <2>6. CASE StartEnsure(h)
    BY <2>3, <2>6 DEF StartEnsure, At
  <2>7. CASE EnsureFailed(h)
    BY <2>3, <2>7 DEF EnsureFailed, At
  <2>8. CASE CreateWorkflow(h)
    BY <2>3, <2>8 DEF CreateWorkflow, At
  <2> QED
    BY <1>2, <2>1, <2>2, <2>4, <2>5, <2>6, <2>7, <2>8 DEF runWorkflow, runVars
<1>3. CASE Hangup(h)
  <2>1. run'[h] = [run[h] EXCEPT !.up = FALSE] /\ run[h].pc # "idle"
    BY <1>0, <1>3 DEF Hangup, At
  <2> QED
    BY <1>0, <2>1 DEF Moves, HandlerOK, Passed, Sweeps, Runs
<1>4. CASE Crash
  <2>1. run'[h] = run[h] \/ (run[h].pc # "idle" /\ run'[h] = [run[h] EXCEPT !.pc = "done"])
    BY <1>4 DEF Crash, At
  <2> QED
    BY <1>0, <2>1 DEF Moves, Runs
<1>5. ASSUME NEW i \in DOMAIN builds, Argo(i) \/ Observe(i) PROVE run' = run
  BY <1>5 DEF Argo, Observe
<1>6. ASSUME Push \/ DeleteCache PROVE run' = run
  BY <1>6 DEF Push, DeleteCache, runVars
<1> QED
  BY <1>1, <1>2, <1>3, <1>4, <1>5, <1>6 DEF NextRun

\* Where CreateCheckRun leads: on with the new check run, or nowhere.
LEMMA CreateShape ==
    ASSUME Base, NEW h \in Callers, CreateCheckRun(h)
    PROVE  \/ run'[h] = [run[h] EXCEPT !.pc = "done"]
           \/ /\ crs' = Append(crs, Queued(h)) /\ Len(crs') = Len(crs) + 1
              /\ crs'[Len(crs')] = Queued(h)
              /\ \A k \in 1 .. Len(crs) : crs'[k] = crs[k]
              /\ run'[h] = [run[h] EXCEPT !.pc = "decide", !.cr = Len(crs')]
<1>0. run \in [Callers -> Runs] /\ TypeOKRun
  BY DEF Base, TypeOKRun
<1>1. CASE Goto(h, "done")
  BY <1>0, <1>1 DEF Goto
<1>2. CASE /\ crs' = Append(crs, Queued(h))
           /\ run' = [run EXCEPT ![h].pc = "decide", ![h].cr = Len(crs')]
  <2> DEFINE T == [sha: Nat, status: {"queued", "failed"}]
  <2>1. Queued(h) \in T /\ crs \in Seq(T)
    BY <1>0 DEF Queued, TypeOKRun, Runs
  <2> HIDE DEF T
  <2>2. /\ Len(crs') = Len(crs) + 1 /\ crs'[Len(crs) + 1] = Queued(h)
        /\ \A k \in 1 .. Len(crs) : crs'[k] = crs[k]
    BY <1>2, <2>1, AppendProperties
  <2>3. run'[h] = [run[h] EXCEPT !.pc = "decide", !.cr = Len(crs')]
    BY <1>0, <1>2
  <2> QED
    BY <1>2, <2>2, <2>3
<1> QED
  BY <1>1, <1>2 DEF CreateCheckRun, Queued

\* Every step leaves the handlers in order.
LEMMA HandlersStep ==
    ASSUME Base, NextRun, TypeOKRun', Kept, NEW h \in Callers
    PROVE  HandlerOK(h)'
<1>0. /\ run \in [Callers -> Runs] /\ run[h] \in Runs /\ TypeOKRun /\ HandlerOK(h)
  BY DEF Base, TypeOKRun
<1>1. CASE Receive(h)
  <2>1. PICK req \in Requests : \E sha \in CommitsOf(req.repo, req.ref) :
           run' = [run EXCEPT ![h].pc = "read", ![h].req = req, ![h].sha = sha]
    BY <1>1 DEF Receive
  <2>2. PICK sha \in CommitsOf(req.repo, req.ref) :
           run' = [run EXCEPT ![h].pc = "read", ![h].req = req, ![h].sha = sha]
    BY <2>1
  <2>3. run'[h] = [run[h] EXCEPT !.pc = "read", !.req = req, !.sha = sha]
    BY <1>0, <2>2
  <2>4. run'[h].pc = "read" /\ run'[h].req = req /\ run'[h].cr = 0
    BY <1>0, <1>1, <2>3 DEF Receive, At, HandlerOK, HasCheckRun, Runs
  <2>5. sha \in CommitsOf(req.repo, req.ref)'
    BY CommitsStay
  <2> QED
    BY <2>4, <2>5 DEF HandlerOK, AskedFor, Chosen, Passed, HasCheckRun, Sweeps
<1>2. CASE getWorkflow(h)
  <2>1. run[h].pc = "read"
    BY <1>2 DEF getWorkflow, At
  <2>2. CASE Goto(h, "done")
    <3>1. run'[h] = [run[h] EXCEPT !.pc = "done"]
      BY <1>0, <2>2 DEF Goto
    <3>2. Moves(h)
      BY <1>0, <2>1, <3>1 DEF Moves, Runs
    <3> QED
      BY <3>2, Moved
  <2>3. ASSUME NEW ok \in BOOLEAN, NEW head \in 1 .. Len(commits),
               run' = [run EXCEPT ![h].pc = "create", ![h].def = head, ![h].ok = ok],
               ok => /\ runBranchOrTag(run[h].req.type, commits[head].def)
                     /\ setupEntrypoint(run[h].req, commits[head].def)
        PROVE  HandlerOK(h)'
    <3>1. run'[h] = [run[h] EXCEPT !.pc = "create", !.def = head, !.ok = ok]
      BY <1>0, <2>3
    <3>2. /\ run'[h].pc = "create" /\ run'[h].req = run[h].req /\ run'[h].def = head
          /\ run'[h].cr = run[h].cr
      BY <1>0, <3>1 DEF Runs
    <3>3. run'[h].ok = ok
      BY <1>0, <3>1 DEF Runs
    <3>4. head \in 1 .. Len(commits') /\ commits'[head] = commits[head]
      BY <1>0, Lengths, LengthsNext DEF Kept
    <3>5. AskedFor(h)'
      BY <1>0, <2>1, <3>2, CommitsStay DEF HandlerOK, AskedFor
    <3>6. Chosen(h)'
      BY <2>3, <3>2, <3>3, <3>4 DEF Chosen, Def
    <3>7. Passed(h)' /\ HasCheckRun(h)' /\ Sweeps(h)'
      BY <1>0, <2>1, <3>2 DEF HandlerOK, Passed, HasCheckRun, Sweeps
    <3> QED
      BY <3>5, <3>6, <3>7 DEF HandlerOK
  <2> QED
    BY <1>2, <2>2, <2>3, ReadShape
<1>3. CASE CreateCheckRun(h)
  <2>1. run[h].pc = "create"
    BY <1>3 DEF CreateCheckRun, At
  <2>2. CASE run'[h] = [run[h] EXCEPT !.pc = "done"]
    <3>1. Moves(h)
      BY <1>0, <2>1, <2>2 DEF Moves, Runs
    <3> QED
      BY <3>1, Moved
  <2>3. CASE /\ Len(crs') = Len(crs) + 1 /\ crs'[Len(crs')] = Queued(h)
             /\ run'[h] = [run[h] EXCEPT !.pc = "decide", !.cr = Len(crs')]
    <3> DEFINE id == Len(crs')
    <3>1. id \in 1 .. Len(crs') /\ id # 0 /\ id \in Nat
      BY <1>0, <2>3, Lengths, LengthsNext
    <3>2. run'[h] = [run[h] EXCEPT !.pc = "decide", !.cr = id] /\ crs'[id] = Queued(h)
      BY <2>3
    <3> HIDE DEF id
    <3>3. /\ run'[h].pc = "decide" /\ run'[h].req = run[h].req /\ run'[h].def = run[h].def
          /\ run'[h].cr = id /\ run'[h].sha = run[h].sha
      BY <1>0, <3>2 DEF Runs
    <3>4. run'[h].ok = run[h].ok
      BY <1>0, <3>2 DEF Runs
    <3>5. AskedFor(h)'
      BY <1>0, <2>1, <3>3, CommitsStay DEF HandlerOK, AskedFor
    <3>6. Chosen(h)'
      BY <1>0, <2>1, <3>3, <3>4, Lengths, LengthsNext DEF HandlerOK, Chosen, Def, Kept
    <3>7. HasCheckRun(h)'
      BY <3>1, <3>2, <3>3 DEF HasCheckRun, Queued
    <3>8. Passed(h)' /\ Sweeps(h)'
      BY <3>3 DEF Passed, Sweeps
    <3> QED
      BY <3>5, <3>6, <3>7, <3>8 DEF HandlerOK
  <2> QED
    BY <1>3, <2>2, <2>3, CreateShape
<1> QED
  BY <1>1, <1>2, <1>3, HandlerSteps, Moved, Unmoved

\* The base invariant holds before anything was pushed.
LEMMA BaseInit == InitRun => Base
<1> SUFFICES ASSUME InitRun PROVE Base
  OBVIOUS
<1>1. TypeOKCache
  BY Initially DEF InitRun, Inv, TypeOK
<1>2. run \in [Callers -> Runs]
  BY DEF InitRun, NoRun, Runs, Pcs
<1>3. commits = <<>> /\ crs = <<>> /\ builds = <<>> /\ cached = <<>>
  BY DEF InitRun
<1>4. TypeOKRun
  BY <1>1, <1>2, <1>3 DEF TypeOKRun
<1>5. Headed
  BY <1>3 DEF Headed, CommitsOf
<1>6. \A h \in Callers : HandlerOK(h)
  BY DEF InitRun, NoRun, HandlerOK, AskedFor, Chosen, Passed, HasCheckRun, Sweeps
<1> QED
  BY <1>4, <1>5, <1>6 DEF Base

\* Every step keeps the base invariant.
LEMMA BaseStep == Base /\ [NextRun]_runAll => Base'
<1> SUFFICES ASSUME Base, [NextRun]_runAll PROVE Base'
  OBVIOUS
<1>1. CASE NextRun
  <2>1. TypeOKRun' /\ Kept
    BY <1>1, RunTypeStep
  <2> QED
    BY <1>1, <2>1, HeadedStep, HandlersStep DEF Base
<1>2. CASE UNCHANGED runAll
  <2>1. UNCHANGED <<commits, crs, builds, cached, run, pvcs, ens, jobs, pods, budget>>
    BY <1>2 DEF runAll, runVars, cacheVars
  <2>2. TypeOKRun'
    BY <2>1 DEF Base, TypeOKRun, TypeOKCache
  <2>3. Headed'
    BY <2>1 DEF Base, Headed, CommitsOf
  <2>4. Kept
    BY <2>1, Lengths DEF Base, Kept
  <2>5. \A h \in Callers : HandlerOK(h)'
    BY <2>1, <2>2, <2>4, Unmoved
  <2> QED
    BY <2>2, <2>3, <2>5 DEF Base
<1> QED
  BY <1>1, <1>2

\* Every state of the webhook handlers, the check runs and the builds has
\* its type (workflow.go:646).
THEOREM RunTypeCorrect == RunSpec => []TypeOKRun
<1>1. Base => TypeOKRun
  BY DEF Base
<1> QED
  BY <1>1, BaseInit, BaseStep, PTL DEF RunSpec

-----------------------------------------------------------------------------
(* What is built.                                                          *)

\* What BuildsArePermitted asks of one build.
Permitted(req, def) ==
    /\ req.type = "tag" => def.forTag = "true"
    /\ req.type = "branch" => def.forBranch # "false"
    /\ req.prs = {} => req.ref \in BuildBranches
    /\ req.prs # {} => /\ \A pr \in req.prs : pr.local
                       /\ \E pr \in req.prs : pr.base \in BuildBranches
                       /\ BuildDraftPRs \/ \E pr \in req.prs : ~pr.draft
    /\ req.event = "deployment" => req.entry \in def.deploys

\* A build is permitted by the CI files it was made from, and its check run
\* is there, for the same commit.
BuildOK(i) ==
    /\ builds[i].def \in 1 .. Len(commits)
    /\ Permitted(builds[i].req, commits[builds[i].def].def)
    /\ builds[i].cr \in 1 .. Len(crs)
    /\ crs[builds[i].cr].sha = builds[i].sha

BuildsOK == \A i \in 1 .. Len(builds) : BuildOK(i)

\* A handler that is about to create a workflow may.
LEMMA ChosenIsPermitted ==
    ASSUME NEW h \in Callers, HandlerOK(h), run[h].pc = "ensure"
    PROVE  Permitted(run[h].req, Def(h))
<1> DEFINE req == run[h].req
           def == Def(h)
<1>1. /\ runBranchOrTag(req.type, def) /\ setupEntrypoint(req, def)
      /\ policy(req.ref, req.prs)
  BY DEF HandlerOK, Chosen, Passed, Accepted
<1> HIDE DEF req, def
<1>2. /\ req.type = "tag" => def.forTag = "true"
      /\ req.type = "branch" => def.forBranch # "false"
  BY <1>1 DEF runBranchOrTag, Parsed
<1>3. req.event = "deployment" => req.entry \in def.deploys
  BY <1>1 DEF setupEntrypoint
<1>4. /\ req.prs = {} => req.ref \in BuildBranches
      /\ req.prs # {} => /\ \A pr \in req.prs : pr.local
                         /\ \E pr \in req.prs : pr.base \in BuildBranches
                         /\ BuildDraftPRs \/ \E pr \in req.prs : ~pr.draft
  BY <1>1 DEF policy
<1>5. Permitted(req, def)
  BY <1>2, <1>3, <1>4 DEF Permitted
<1> QED
  BY <1>5 DEF req, def

\* A build was there before the step, or it is the one a handler created.
LEMMA BuildAt ==
    ASSUME Base, NextRun, TypeOKRun', Kept, NEW i \in 1 .. Len(builds')
    PROVE  \/ i \in 1 .. Len(builds) /\ SameBuild(builds'[i], builds[i])
           \/ /\ \E h \in Callers : CreateWorkflow(h) /\ builds'[i] = Created(h)
              /\ i = Len(builds) + 1 /\ Len(builds') = Len(builds) + 1
<1>1. Len(builds) \in Nat /\ Len(builds') \in Nat /\ builds \in Seq(Builds)
  BY Lengths, LengthsNext DEF Base, TypeOKRun
<1>2. CASE i \in 1 .. Len(builds)
  BY <1>2 DEF Kept, SameBuild
<1>3. CASE i \notin 1 .. Len(builds)
  <2>1. Len(builds') # Len(builds)
    BY <1>1, <1>3
  <2>2. PICK h \in Callers : CreateWorkflow(h) /\ builds' = Append(builds, Created(h))
    <3>1. ASSUME NEW k \in 1 .. Len(builds), NEW e \in Builds, builds' = [builds EXCEPT ![k] = e]
          PROVE  FALSE
      BY <1>1, <2>1, <3>1, BuildType DEF Base
    <3>2. \A k \in 1 .. Len(builds) : builds[k] \in Builds
      BY Lengths DEF Base
    <3>3. ASSUME NEW h \in Callers, NEW t \in run[h].todo, CancelBuild(h),
                 builds' = [builds EXCEPT ![t.build].ads = TRUE, ![t.build].ver = @ + 1]
          PROVE  FALSE
      <4> DEFINE e == [builds[t.build] EXCEPT !.ads = TRUE, !.ver = @ + 1]
      <4>1. t.build \in 1 .. Len(builds)
        BY <3>3 DEF CancelBuild, At, Base, HandlerOK, Sweeps
      <4>2. e \in Builds
        BY <3>2, <4>1, WrittenBuild
      <4>3. builds' = [builds EXCEPT ![t.build] = e]
        BY <3>3
      <4> HIDE DEF e
      <4> QED
        BY <3>1, <4>1, <4>2, <4>3
    <3>4. ASSUME NEW k \in DOMAIN builds, NEW ended \in BOOLEAN,
                 builds' = [builds EXCEPT ![k].ended = ended, ![k].ver = @ + 1]
          PROVE  FALSE
      <4> DEFINE e == [builds[k] EXCEPT !.ended = ended, !.ver = @ + 1]
      <4>1. k \in 1 .. Len(builds)
        BY Lengths DEF Base
      <4>2. e \in Builds
        BY <3>2, <4>1, WrittenBuild
      <4>3. builds' = [builds EXCEPT ![k] = e]
        BY <3>4
      <4> HIDE DEF e
      <4> QED
        BY <3>1, <4>1, <4>2, <4>3
    <3> QED
      BY <2>1, <3>3, <3>4, BuildsShape
  <2> DEFINE new == Created(h)
  <2>3. new \in Builds
    <3>1. run[h].req \in Requests
      BY <2>2 DEF CreateWorkflow, At, Base, HandlerOK, AskedFor
    <3>2. run[h].sha \in Nat /\ run[h].def \in Nat /\ run[h].cr \in Nat
      BY DEF Base, TypeOKRun, Runs
    <3> QED
      BY <3>1, <3>2 DEF Created, Builds
  <2> HIDE DEF new
  <2>4. builds' = Append(builds, new)
    BY <2>2 DEF new
  <2>5. Len(builds') = Len(builds) + 1 /\ builds'[Len(builds) + 1] = new
    BY <1>1, <2>3, <2>4, AppendProperties
  <2>6. i = Len(builds) + 1
    BY <1>1, <1>3, <2>5
  <2> QED
    BY <2>2, <2>5, <2>6 DEF new
<1> QED
  BY <1>2, <1>3

\* A commit and a check run that are there stay.
LEMMA KeptAt ==
    ASSUME Kept, Len(commits) \in Nat, Len(commits') \in Nat, Len(crs) \in Nat, Len(crs') \in Nat
    PROVE  /\ \A d \in 1 .. Len(commits) : d \in 1 .. Len(commits') /\ commits'[d] = commits[d]
           /\ \A c \in 1 .. Len(crs) : c \in 1 .. Len(crs') /\ crs'[c].sha = crs[c].sha
<1>1. /\ Len(commits) <= Len(commits') /\ \A d \in 1 .. Len(commits) : commits'[d] = commits[d]
      /\ Len(crs) <= Len(crs') /\ \A c \in 1 .. Len(crs) : crs'[c].sha = crs[c].sha
  BY DEF Kept
<1> QED
  BY <1>1

\* A step builds only what is permitted, and with a check run.
LEMMA BuildsStep ==
    ASSUME Base, BuildsOK, NextRun, TypeOKRun', Kept
    PROVE  BuildsOK'
<1> SUFFICES ASSUME NEW i \in 1 .. Len(builds') PROVE BuildOK(i)'
  BY DEF BuildsOK
<1>0. /\ Len(commits) \in Nat /\ Len(commits') \in Nat
      /\ Len(crs) \in Nat /\ Len(crs') \in Nat
  BY Lengths, LengthsNext DEF Base
<1>0a. /\ \A d \in 1 .. Len(commits) : d \in 1 .. Len(commits') /\ commits'[d] = commits[d]
       /\ \A c \in 1 .. Len(crs) : c \in 1 .. Len(crs') /\ crs'[c].sha = crs[c].sha
  BY <1>0, KeptAt
<1>1. CASE i \in 1 .. Len(builds) /\ SameBuild(builds'[i], builds[i])
  <2>1. BuildOK(i)
    BY <1>1 DEF BuildsOK
  <2>2. /\ builds[i].def \in 1 .. Len(commits) /\ builds[i].cr \in 1 .. Len(crs)
        /\ Permitted(builds[i].req, commits[builds[i].def].def)
        /\ crs[builds[i].cr].sha = builds[i].sha
    BY <2>1 DEF BuildOK
  <2>3. /\ builds[i].def \in 1 .. Len(commits') /\ builds[i].cr \in 1 .. Len(crs')
        /\ commits'[builds[i].def] = commits[builds[i].def]
        /\ crs'[builds[i].cr].sha = builds[i].sha
    BY <1>0a, <2>2
  <2>4. /\ builds'[i].req = builds[i].req /\ builds'[i].sha = builds[i].sha
        /\ builds'[i].def = builds[i].def /\ builds'[i].cr = builds[i].cr
    BY <1>1 DEF SameBuild
  <2> QED
    BY <2>2, <2>3, <2>4 DEF BuildOK, Permitted
<1>2. ASSUME NEW h \in Callers, CreateWorkflow(h), builds'[i] = Created(h)
      PROVE  BuildOK(i)'
  <2>1. run[h].pc = "ensure" /\ HandlerOK(h)
    BY <1>2 DEF CreateWorkflow, At, Base
  <2>2. Permitted(run[h].req, Def(h))
    BY <2>1, ChosenIsPermitted
  <2>3. /\ builds'[i].req = run[h].req /\ builds'[i].sha = run[h].sha
        /\ builds'[i].def = run[h].def /\ builds'[i].cr = run[h].cr
    BY <1>2 DEF Created
  <2>4. /\ run[h].def \in 1 .. Len(commits) /\ run[h].cr \in 1 .. Len(crs)
        /\ crs[run[h].cr].sha = run[h].sha
    BY <2>1 DEF HandlerOK, Chosen, HasCheckRun
  <2>5. /\ run[h].def \in 1 .. Len(commits') /\ run[h].cr \in 1 .. Len(crs')
        /\ crs'[run[h].cr].sha = run[h].sha /\ commits'[run[h].def] = commits[run[h].def]
    BY <1>0a, <2>4
  <2> QED
    BY <2>2, <2>3, <2>5 DEF BuildOK, Def, Permitted
<1> QED
  BY <1>1, <1>2, BuildAt

\* What is kept together with the types.
LEMMA BuildsInv == Base /\ BuildsOK /\ [NextRun]_runAll => BuildsOK'
<1>1. CASE NextRun
  BY <1>1, RunTypeStep, BuildsStep
<1>2. CASE UNCHANGED runAll
  BY <1>2 DEF runAll, runVars, BuildsOK, BuildOK, Permitted
<1> QED
  BY <1>1, <1>2

\* No build of a draft or a foreign pull request, of a branch that is not
\* configured, or of a kind of ref the workflow does not want, however the
\* handlers, pushes, hang-ups and crashes interleave (workflow.go:646).
THEOREM PolicyHolds == RunSpec => []BuildsArePermitted
<1>1. InitRun => BuildsOK
  BY DEF InitRun, BuildsOK
<1>2. Base /\ BuildsOK => BuildsArePermitted
  BY Lengths DEF Base, BuildsOK, BuildOK, Permitted, BuildsArePermitted
<1> QED
  BY <1>1, <1>2, BaseInit, BaseStep, BuildsInv, PTL DEF RunSpec

-----------------------------------------------------------------------------
(* Whose check run it is.                                                  *)

\* Handlers have check runs of their own, so have builds, and a handler that
\* has yet to build has not built.
OwnCheckRuns ==
    /\ \A h, g \in Callers : run[h].cr # 0 /\ run[h].cr = run[g].cr => h = g
    /\ \A i, k \in 1 .. Len(builds) : builds[i].cr = builds[k].cr => i = k
    /\ \A h \in Callers : run[h].pc \in {"decide", "sweep", "ensure"} =>
          \A i \in 1 .. Len(builds) : builds[i].cr # run[h].cr

\* A handler gets a check run once, and keeps it.
LEMMA CheckRunMoves ==
    ASSUME Base, NextRun, NEW h \in Callers
    PROVE  \/ /\ run'[h].cr = run[h].cr
              /\ run'[h].pc \in {"decide", "sweep", "ensure"} =>
                    run[h].pc \in {"decide", "sweep", "ensure"}
           \/ /\ CreateCheckRun(h) /\ run[h].cr = 0
              /\ run'[h].cr = Len(crs) + 1 /\ run'[h].pc = "decide"
              /\ Len(crs') = Len(crs) + 1 /\ crs'[Len(crs')] = Queued(h)
              /\ \A k \in 1 .. Len(crs) : crs'[k] = crs[k]
<1>0. run \in [Callers -> Runs] /\ run[h] \in Runs /\ HandlerOK(h)
  BY DEF Base, TypeOKRun
<1>1. CASE Receive(h)
  <2>1. run'[h].cr = run[h].cr /\ run'[h].pc = "read"
    BY <1>0, <1>1 DEF Receive, Runs
  <2> QED
    BY <2>1
<1>2. CASE getWorkflow(h)
  <2>1. run'[h].cr = run[h].cr /\ run'[h].pc \in {"create", "done"}
    <3>1. CASE Goto(h, "done")
      BY <1>0, <3>1 DEF Goto, Runs
    <3>2. ASSUME NEW ok, NEW head,
                 run' = [run EXCEPT ![h].pc = "create", ![h].def = head, ![h].ok = ok]
          PROVE  run'[h].cr = run[h].cr /\ run'[h].pc = "create"
      BY <1>0, <3>2 DEF Runs
    <3> QED
      BY <1>2, <3>1, <3>2, ReadShape
  <2> QED
    BY <2>1
<1>3. CASE CreateCheckRun(h)
  <2>1. run[h].cr = 0
    BY <1>0, <1>3 DEF CreateCheckRun, At, HandlerOK, HasCheckRun
  <2>2. CASE run'[h] = [run[h] EXCEPT !.pc = "done"]
    BY <1>0, <2>2 DEF Runs
  <2>3. CASE run'[h] = [run[h] EXCEPT !.pc = "decide", !.cr = Len(crs')] /\ Len(crs') = Len(crs) + 1
    <3>1. run'[h].cr = Len(crs) + 1 /\ run'[h].pc = "decide"
      BY <1>0, <2>3 DEF Runs
    <3> QED
      BY <1>3, <2>1, <2>2, <2>3, <3>1, CreateShape
  <2> QED
    BY <1>3, <2>2, <2>3, CreateShape
<1>4. CASE Moves(h)
  BY <1>4 DEF Moves
<1> QED
  BY <1>1, <1>2, <1>3, <1>4, HandlerSteps

\* A handler that takes a step leaves the others and the rest alone.
LEMMA OthersRest ==
    ASSUME Base, NEW h \in Callers, NEW g \in Callers, g # h
    PROVE  /\ CreateCheckRun(h) => run'[g] = run[g] /\ builds' = builds
           /\ CreateWorkflow(h) => run'[g] = run[g] /\ crs' = crs
           /\ checkRunError(h) => run'[g] = run[g] /\ builds' = builds
           /\ CancelBuild(h) => run'[g] = run[g] /\ crs' = crs
<1>0. run \in [Callers -> Runs]
  BY DEF Base, TypeOKRun
<1>1. CreateCheckRun(h) => run'[g] = run[g] /\ builds' = builds
  BY <1>0 DEF CreateCheckRun, Goto
<1>2. CreateWorkflow(h) => run'[g] = run[g] /\ crs' = crs
  BY <1>0 DEF CreateWorkflow, Goto
<1>3. checkRunError(h) => run'[g] = run[g] /\ builds' = builds
  BY <1>0 DEF checkRunError, Goto
<1>4. CancelBuild(h) => run'[g] = run[g] /\ crs' = crs
  BY <1>0 DEF CancelBuild
<1> QED
  BY <1>1, <1>2, <1>3, <1>4

\* A handler that creates a workflow is through, or reports that it failed.
LEMMA CreateEnds ==
    ASSUME Base, NEW h \in Callers, CreateWorkflow(h)
    PROVE  /\ run[h].pc = "ensure" /\ run'[h].pc \in {"done", "fail"}
           /\ run'[h].cr = run[h].cr /\ run'[h].req = run[h].req
<1>0. run \in [Callers -> Runs] /\ run[h] \in Runs
  BY DEF Base, TypeOKRun
<1> QED
  BY <1>0 DEF CreateWorkflow, At, Goto, Runs

\* Check runs stay with their owners.
LEMMA OwnStep ==
    ASSUME Base, BuildsOK, OwnCheckRuns, NextRun, TypeOKRun', Kept
    PROVE  OwnCheckRuns'
<1>0. /\ Len(crs) \in Nat /\ Len(crs') \in Nat /\ Len(builds) \in Nat /\ Len(builds') \in Nat
      /\ \A h \in Callers : run[h].cr # 0 => run[h].cr \in 1 .. Len(crs)
      /\ \A i \in 1 .. Len(builds) : builds[i].cr \in 1 .. Len(crs)
  BY Lengths, LengthsNext DEF Base, HandlerOK, HasCheckRun, BuildsOK, BuildOK
<1>1. ASSUME NEW h \in Callers, NEW g \in Callers, run'[h].cr # 0, run'[h].cr = run'[g].cr, h # g
      PROVE  FALSE
  <2>1. CASE run'[h].cr = run[h].cr /\ run'[g].cr = run[g].cr
    BY <1>1, <2>1 DEF OwnCheckRuns
  <2>2. ASSUME NEW a \in Callers, NEW b \in Callers, a # b, CreateCheckRun(a),
               run'[a].cr = Len(crs) + 1, run'[b].cr = run'[a].cr
        PROVE  FALSE
    <3>1. run'[b].cr = run[b].cr
      BY <2>2, OthersRest
    <3> QED
      BY <1>0, <2>2, <3>1
  <2> QED
    BY <1>1, <2>1, <2>2, CheckRunMoves
<1>2. ASSUME NEW i \in 1 .. Len(builds'), NEW k \in 1 .. Len(builds'),
             builds'[i].cr = builds'[k].cr, i # k
      PROVE  FALSE
  <2>1. ASSUME NEW a \in 1 .. Len(builds), NEW b \in 1 .. Len(builds'), NEW h \in Callers,
               builds'[a].cr = builds[a].cr, CreateWorkflow(h), builds'[b] = Created(h),
               builds'[a].cr = builds'[b].cr
        PROVE  FALSE
    <3>1. builds'[b].cr = run[h].cr
      BY <2>1 DEF Created
    <3>2. run[h].pc = "ensure"
      BY <2>1, CreateEnds
    <3> QED
      BY <2>1, <3>1, <3>2 DEF OwnCheckRuns
  <2>2. CASE i \in 1 .. Len(builds) /\ k \in 1 .. Len(builds)
    BY <1>2, <2>2 DEF OwnCheckRuns, Kept
  <2> QED
    BY <1>0, <1>2, <2>1, <2>2, BuildAt DEF SameBuild
<1>3. ASSUME NEW h \in Callers, run'[h].pc \in {"decide", "sweep", "ensure"},
             NEW i \in 1 .. Len(builds'), builds'[i].cr = run'[h].cr
      PROVE  FALSE
  <2>1. CASE CreateCheckRun(h) /\ run'[h].cr = Len(crs) + 1
    <3>1. builds' = builds
      BY <2>1 DEF CreateCheckRun
    <3> QED
      BY <1>0, <1>3, <2>1, <3>1
  <2>2. CASE run'[h].cr = run[h].cr /\ run[h].pc \in {"decide", "sweep", "ensure"}
    <3>1. CASE i \in 1 .. Len(builds) /\ builds'[i].cr = builds[i].cr
      BY <1>3, <2>2, <3>1 DEF OwnCheckRuns
    <3>2. ASSUME NEW g \in Callers, CreateWorkflow(g), builds'[i] = Created(g)
          PROVE  FALSE
      <4>1. g # h
        BY <1>3, <3>2, CreateEnds
      <4>2. builds'[i].cr = run[g].cr
        BY <3>2 DEF Created
      <4>3. run[h].cr # 0
        BY <2>2 DEF Base, HandlerOK, HasCheckRun
      <4> QED
        BY <1>3, <2>2, <4>1, <4>2, <4>3 DEF OwnCheckRuns
    <3> QED
      BY <3>1, <3>2, BuildAt DEF SameBuild
  <2> QED
    BY <1>3, <2>1, <2>2, CheckRunMoves
<1> QED
  BY <1>1, <1>2, <1>3 DEF OwnCheckRuns

-----------------------------------------------------------------------------
(* As long as every call gets through.                                     *)

BudgetOK == \A k \in BudgetKeys : budget[k] <= Budget[k]

\* A step that spends nothing fails no call.
Quiet == UNCHANGED budget /\ \A h \in Callers : run[h].up

\* What may be spent is left or spent.
LEMMA BudgetShape ==
    ASSUME NextRun
    PROVE  UNCHANGED budget \/ \E k \in BudgetKeys : Spend(k)
<1>1. ASSUME NEW h \in Callers, Receive(h) \/ getWorkflow(h) \/ CreateCheckRun(h) \/ Hangup(h)
      PROVE  UNCHANGED budget \/ \E k \in BudgetKeys : Spend(k)
  BY <1>1 DEF Receive, getWorkflow, CreateCheckRun, Hangup, Lost, BudgetKeys
<1>2. ASSUME NEW h \in Callers, runWorkflow(h)
      PROVE  UNCHANGED budget \/ \E k \in BudgetKeys : Spend(k)
  BY <1>2 DEF runWorkflow, Reject, checkRunError, ListBuilds, CancelBuild, StartEnsure, Ensure,
              EnsureGet, EnsureCreate, EnsureFailed, CreateWorkflow, Lost, BudgetKeys
<1>3. ASSUME Crash \/ DeleteCache \/ Push \/ \E i \in DOMAIN builds : Argo(i) \/ Observe(i)
      PROVE  UNCHANGED budget \/ \E k \in BudgetKeys : Spend(k)
  BY <1>3 DEF Crash, DeleteCache, Push, Argo, Observe, BudgetKeys
<1> QED
  BY <1>1, <1>2, <1>3 DEF NextRun

\* The budget only shrinks, so nothing was spent as long as it is whole.
LEMMA BudgetStep ==
    ASSUME Base, BudgetOK, NextRun
    PROVE  BudgetOK' /\ (Unharmed' => Unharmed /\ UNCHANGED budget)
<1>0. budget \in [BudgetKeys -> Nat] /\ Budget \in [BudgetKeys -> Nat]
  BY CacheAssumption DEF Base, TypeOKRun, TypeOKCache
<1>1. CASE UNCHANGED budget
  BY <1>1 DEF BudgetOK, Unharmed
<1>2. ASSUME NEW k \in BudgetKeys, Spend(k) PROVE BudgetOK' /\ ~Unharmed'
  <2>1. budget'[k] = budget[k] - 1 /\ \A j \in BudgetKeys : j # k => budget'[j] = budget[j]
    BY <1>0, <1>2 DEF Spend
  <2> QED
    BY <1>0, <2>1 DEF BudgetOK, Unharmed
<1> QED
  BY <1>1, <1>2, BudgetShape

\* Nothing fails in a quiet step.
LEMMA NoMishap ==
    ASSUME Base, Quiet
    PROVE  (\A k \in BudgetKeys : ~Spend(k)) /\ (\A h \in Callers : ~Lost(h))
<1>1. ASSUME NEW k \in BudgetKeys, Spend(k) PROVE FALSE
  <2>1. budget \in [BudgetKeys -> Nat]
    BY DEF Base, TypeOKRun, TypeOKCache
  <2>2. budget'[k] = budget[k] - 1 /\ budget'[k] = budget[k]
    BY <1>1, <2>1 DEF Spend, Quiet
  <2> QED
    BY <2>1, <2>2
<1> QED
  BY <1>1 DEF Lost, Quiet, BudgetKeys

\* The handlers that have a check run and are not through.
Reporting(h) == run[h].pc \in {"decide", "sweep", "ensure", "fail"}

\* A check run is queued as long as its handler or its build needs it, and a
\* handler that is through left a build or a failed check run.
Smooth ==
    /\ \A h \in Callers : run[h].up
    /\ \A h \in Callers : Reporting(h) => crs[run[h].cr].status = "queued"
    /\ \A h \in Callers : run[h].pc = "fail" =>
          \A i \in 1 .. Len(builds) : builds[i].cr # run[h].cr
    /\ \A i \in 1 .. Len(builds) : crs[builds[i].cr].status = "queued"
    /\ \A h \in Callers : run[h].pc = "done" /\ run[h].cr # 0 =>
          \/ crs[run[h].cr].status = "failed"
          \/ \E i \in 1 .. Len(builds) : builds[i].cr = run[h].cr

\* Where a handler can go in a quiet step.
LEMMA QuietMoves ==
    ASSUME Base, NextRun, Quiet, NEW h \in Callers
    PROVE  /\ run'[h].up
           /\ run'[h].pc = "done" /\ run'[h].cr # 0 =>
                 \/ run[h].pc = "done" /\ run'[h].cr = run[h].cr
                 \/ checkRunError(h) /\ crs' = [crs EXCEPT ![run[h].cr].status = "failed"]
                 \/ CreateWorkflow(h) /\ builds' = Append(builds, Created(h))
           /\ run'[h].pc = "fail" => run[h].pc \in {"decide", "ensure", "fail"} /\ ~CreateWorkflow(h)
           /\ Reporting(h)' => Reporting(h) \/ CreateCheckRun(h)
           /\ run[h].pc # "idle" => run'[h].req = run[h].req
           /\ run[h].pc = "done" => run'[h].pc = "done" /\ run'[h].cr = run[h].cr
           /\ run[h].pc \in {"sweep", "ensure"} =>
                 \/ run'[h].pc \in {"sweep", "ensure", "fail"}
                 \/ CreateWorkflow(h) /\ builds' = Append(builds, Created(h))
           /\ run[h].pc = "fail" =>
                 \/ run'[h].pc = "fail"
                 \/ checkRunError(h) /\ crs' = [crs EXCEPT ![run[h].cr].status = "failed"]
<1> DEFINE P == run'[h].up
           D == run'[h].pc = "done" /\ run'[h].cr # 0 =>
                 \/ run[h].pc = "done" /\ run'[h].cr = run[h].cr
                 \/ checkRunError(h) /\ crs' = [crs EXCEPT ![run[h].cr].status = "failed"]
                 \/ CreateWorkflow(h) /\ builds' = Append(builds, Created(h))
           F == run'[h].pc = "fail" =>
                   run[h].pc \in {"decide", "ensure", "fail"} /\ ~CreateWorkflow(h)
           R == Reporting(h)' => Reporting(h) \/ CreateCheckRun(h)
           Q == run[h].pc # "idle" => run'[h].req = run[h].req
           O == run[h].pc = "done" => run'[h].pc = "done" /\ run'[h].cr = run[h].cr
           S == run[h].pc \in {"sweep", "ensure"} =>
                 \/ run'[h].pc \in {"sweep", "ensure", "fail"}
                 \/ CreateWorkflow(h) /\ builds' = Append(builds, Created(h))
           E == run[h].pc = "fail" =>
                 \/ run'[h].pc = "fail"
                 \/ checkRunError(h) /\ crs' = [crs EXCEPT ![run[h].cr].status = "failed"]
           All == P /\ D /\ F /\ R /\ Q /\ O /\ S /\ E
<1>0. /\ run \in [Callers -> Runs] /\ run[h] \in Runs /\ HandlerOK(h) /\ run[h].up
      /\ ~Lost(h) /\ \A k \in BudgetKeys : ~Spend(k)
      /\ ~Spend("fault") /\ ~Spend("hangup") /\ ~Spend("crash")
  BY NoMishap DEF Base, TypeOKRun, Quiet, BudgetKeys
<1>1. ASSUME run'[h] = run[h], ~CreateWorkflow(h) PROVE All
  BY <1>0, <1>1 DEF Reporting
<1>2. ASSUME Receive(h) PROVE All
  <2>1. run[h].pc = "idle" /\ run'[h].pc = "read" /\ run'[h].up
    BY <1>0, <1>2 DEF Receive, At, Runs
  <2> QED
    BY <2>1 DEF Reporting
<1>3. ASSUME getWorkflow(h) PROVE All
  <2>1. /\ run[h].pc = "read" /\ run[h].cr = 0 /\ run'[h].pc \in {"create", "done"} /\ run'[h].up
        /\ run'[h].req = run[h].req /\ run'[h].cr = 0
    <3>1. run[h].pc = "read" /\ run[h].cr = 0
      BY <1>0, <1>3 DEF getWorkflow, At, HandlerOK, HasCheckRun
    <3>2. CASE Goto(h, "done")
      BY <1>0, <3>1, <3>2 DEF Goto, Runs
    <3>3. ASSUME NEW ok, NEW head,
                 run' = [run EXCEPT ![h].pc = "create", ![h].def = head, ![h].ok = ok]
          PROVE  /\ run'[h].pc = "create" /\ run'[h].up
                 /\ run'[h].req = run[h].req /\ run'[h].cr = 0
      <4>1. run' = [run EXCEPT ![h] = [run[h] EXCEPT !.pc = "create", !.def = head, !.ok = ok]]
        BY <3>3
      <4>2. run'[h] = [run[h] EXCEPT !.pc = "create", !.def = head, !.ok = ok]
        BY <1>0, <4>1
      <4> QED
        BY <1>0, <3>1, <4>2 DEF Runs
    <3> QED
      BY <1>3, <3>1, <3>2, <3>3, ReadShape, ZenonT(40)
  <2> QED
    BY <2>1 DEF Reporting
<1>4. ASSUME CreateCheckRun(h) PROVE All
  <2>1. /\ run[h].pc = "create"
        /\ run' = [run EXCEPT ![h].pc = "decide", ![h].cr = Len(crs')]
    BY <1>0, <1>4 DEF CreateCheckRun, At
  <2>2. run'[h].pc = "decide" /\ run'[h].up /\ run'[h].req = run[h].req
    BY <1>0, <2>1 DEF Runs
  <2> QED
    BY <1>4, <2>1, <2>2 DEF Reporting
<1>5. ASSUME Reject(h) \/ EnsureFailed(h) PROVE All
  <2>1. run[h].pc \in {"decide", "ensure"} /\ run'[h] = [run[h] EXCEPT !.pc = "fail"]
    BY <1>0, <1>5 DEF Reject, EnsureFailed, At, Goto
  <2>2. ~CreateWorkflow(h)
    BY <1>5 DEF Reject, EnsureFailed, CreateWorkflow, At
  <2> QED
    BY <1>0, <2>1, <2>2 DEF Reporting, Runs
<1>6. ASSUME checkRunError(h) PROVE All
  <2>1. /\ run[h].pc = "fail" /\ run'[h] = [run[h] EXCEPT !.pc = "done"]
        /\ crs' = [crs EXCEPT ![run[h].cr].status = "failed"]
    BY <1>0, <1>6 DEF checkRunError, At, Goto
  <2> QED
    BY <1>0, <1>6, <2>1 DEF Reporting, Runs
<1>7. ASSUME ListBuilds(h) PROVE All
  <2>1. PICK found : run' = [run EXCEPT ![h].pc = "sweep", ![h].todo = found]
    BY <1>7 DEF ListBuilds
  <2>2. run[h].pc = "decide" /\ run'[h] = [run[h] EXCEPT !.pc = "sweep", !.todo = found]
    BY <1>0, <1>7, <2>1 DEF ListBuilds, At
  <2> QED
    BY <1>0, <2>2 DEF Reporting, Runs
<1>8. ASSUME CancelBuild(h) PROVE All
  <2>1. PICK t : run' = [run EXCEPT ![h].todo = @ \ {t}]
    BY <1>8 DEF CancelBuild
  <2>2. run[h].pc = "sweep" /\ run'[h] = [run[h] EXCEPT !.todo = @ \ {t}]
    BY <1>0, <1>8, <2>1 DEF CancelBuild, At
  <2> QED
    BY <1>0, <2>2 DEF Reporting, Runs
<1>9. ASSUME StartEnsure(h) PROVE All
  <2>1. run[h].pc = "sweep" /\ run'[h] = [run[h] EXCEPT !.pc = "ensure"]
    BY <1>0, <1>9 DEF StartEnsure, At, Goto
  <2> QED
    BY <1>0, <2>1 DEF Reporting, Runs
<1>10. ASSUME CreateWorkflow(h) PROVE All
  <2>1. /\ run[h].pc = "ensure" /\ run'[h] = [run[h] EXCEPT !.pc = "done"]
        /\ builds' = Append(builds, Created(h))
    BY <1>0, <1>10 DEF CreateWorkflow, At, Goto, Created
  <2> QED
    BY <1>0, <1>10, <2>1 DEF Reporting, Runs
<1>11. ASSUME NEW g \in Callers, g # h,
              Receive(g) \/ getWorkflow(g) \/ CreateCheckRun(g) \/ runWorkflow(g)
       PROVE  run'[h] = run[h]
  BY <1>0, <1>11 DEF Receive, getWorkflow, CreateCheckRun, runWorkflow, Reject, checkRunError,
        ListBuilds, CancelBuild, StartEnsure, EnsureFailed, CreateWorkflow, Goto, runVars
<1>12. ASSUME run'[h] = run[h] PROVE All
  BY <1>0, <1>1, <1>10, <1>12
<1>13. ASSUME Push \/ DeleteCache \/ (\E i \in DOMAIN builds : Argo(i) \/ Observe(i))
              \/ (Ensure(h) /\ UNCHANGED runVars)
       PROVE  run'[h] = run[h]
  BY <1>13 DEF Push, DeleteCache, Argo, Observe, runVars
<1>14. ~Crash /\ \A g \in Callers : ~Hangup(g)
  BY <1>0 DEF Crash, Hangup
<1>15. All
  <2> HIDE DEF All
  <2> QED
    BY <1>2, <1>3, <1>4, <1>5, <1>6, <1>7, <1>8, <1>9, <1>10, <1>11, <1>12, <1>13, <1>14
       DEF NextRun, runWorkflow
<1> QED
  BY <1>15

\* A check run keeps its status, until its handler reports that it failed.
LEMMA StatusStep ==
    ASSUME Base, NextRun, NEW k \in 1 .. Len(crs)
    PROVE  \/ crs'[k] = crs[k]
           \/ \E h \in Callers : checkRunError(h) /\ run[h].cr = k /\ crs'[k].status = "failed"
<1>1. TypeOKRun /\ \A h \in Callers : HandlerOK(h)
  BY DEF Base
<1>2. ASSUME NEW h \in Callers, crs' = Append(crs, Queued(h)) PROVE crs'[k] = crs[k]
  <2> DEFINE T == [sha: Nat, status: {"queued", "failed"}]
  <2>1. Queued(h) \in T /\ crs \in Seq(T)
    BY <1>1 DEF Queued, TypeOKRun, Runs
  <2> HIDE DEF T
  <2> QED
    BY <1>2, <2>1, AppendProperties
<1>3. ASSUME NEW h \in Callers, checkRunError(h),
             crs' = [crs EXCEPT ![run[h].cr].status = "failed"]
      PROVE  crs'[k] = crs[k] \/ (run[h].cr = k /\ crs'[k].status = "failed")
  <2>1. run[h].cr \in 1 .. Len(crs)
    BY <1>1, <1>3 DEF checkRunError, At, HandlerOK, HasCheckRun
  <2> QED
    BY <1>1, <1>3, <2>1, FailType
<1> QED
  BY <1>2, <1>3, CheckRunsShape

\* A quiet step keeps the promises.
LEMMA SmoothStep ==
    ASSUME Base, BuildsOK, OwnCheckRuns, Smooth, NextRun, UNCHANGED budget, TypeOKRun', Kept
    PROVE  Smooth'
<1>0. /\ Len(crs) \in Nat /\ Len(crs') \in Nat /\ Len(builds) \in Nat /\ Len(builds') \in Nat
      /\ \A h \in Callers : HandlerOK(h)
      /\ \A h \in Callers : run[h].cr # 0 => run[h].cr \in 1 .. Len(crs)
      /\ \A i \in 1 .. Len(builds) : builds[i].cr \in 1 .. Len(crs)
  BY Lengths, LengthsNext DEF Base, HandlerOK, HasCheckRun, BuildsOK, BuildOK
<1>1. Quiet
  BY DEF Quiet, Smooth
<1>2. ASSUME NEW h \in Callers PROVE run'[h].up
  BY <1>1, QuietMoves
<1>3. ASSUME NEW h \in Callers, Reporting(h)' PROVE crs'[run'[h].cr].status = "queued"
  <2>1. CASE CreateCheckRun(h) /\ run'[h].cr = Len(crs) + 1 /\ Len(crs') = Len(crs) + 1
             /\ crs'[Len(crs')] = Queued(h)
    BY <2>1 DEF Queued
  <2>2. CASE run'[h].cr = run[h].cr
    <3>1. Reporting(h)
      <4>1. ASSUME CreateCheckRun(h) PROVE FALSE
        <5>1. run[h].cr = 0
          BY <1>0, <4>1 DEF CreateCheckRun, At, HandlerOK, HasCheckRun
        <5>2. run'[h].cr # 0
          BY <1>3, BaseStep, <5>1 DEF Base, HandlerOK, HasCheckRun, Reporting
        <5> QED
          BY <2>2, <5>1, <5>2
      <4> QED
        BY <1>1, <1>3, <4>1, QuietMoves
    <3>2. crs[run[h].cr].status = "queued" /\ run[h].cr # 0
      BY <1>0, <3>1 DEF Smooth, Reporting, HandlerOK, HasCheckRun
    <3>3. ASSUME NEW g \in Callers, checkRunError(g), run[g].cr = run[h].cr PROVE FALSE
      <4>1. g = h
        BY <3>2, <3>3 DEF OwnCheckRuns
      <4>2. run'[h].pc = "done"
        BY <3>3, <4>1 DEF checkRunError, Goto, Base, TypeOKRun, Runs
      <4> QED
        BY <1>3, <4>2 DEF Reporting
    <3>4. crs'[run[h].cr] = crs[run[h].cr]
      BY <1>0, <3>2, <3>3, StatusStep
    <3> QED
      BY <2>2, <3>2, <3>4
  <2> QED
    BY <2>1, <2>2, CheckRunMoves
<1>4. ASSUME NEW h \in Callers, run'[h].pc = "fail", NEW i \in 1 .. Len(builds'),
             builds'[i].cr = run'[h].cr
      PROVE  FALSE
  <2>1. run[h].pc \in {"decide", "ensure", "fail"} /\ ~CreateWorkflow(h)
    BY <1>1, <1>4, QuietMoves
  <2>2. run'[h].cr = run[h].cr
    BY <1>4, CheckRunMoves
  <2>3. \A k \in 1 .. Len(builds) : builds[k].cr # run[h].cr
    BY <2>1 DEF OwnCheckRuns, Smooth
  <2>4. ASSUME NEW g \in Callers, CreateWorkflow(g), builds'[i] = Created(g) PROVE FALSE
    <3>1. builds'[i].cr = run[g].cr /\ g # h
      BY <2>1, <2>4 DEF Created
    <3>2. run[h].cr # 0
      BY <1>0, <2>1 DEF HandlerOK, HasCheckRun
    <3> QED
      BY <1>4, <2>2, <3>1, <3>2 DEF OwnCheckRuns
  <2> QED
    BY <1>4, <2>2, <2>3, <2>4, BuildAt DEF SameBuild
<1>5. ASSUME NEW i \in 1 .. Len(builds') PROVE crs'[builds'[i].cr].status = "queued"
  <2>1. CASE i \in 1 .. Len(builds) /\ builds'[i].cr = builds[i].cr
    <3>1. crs[builds[i].cr].status = "queued" /\ builds[i].cr \in 1 .. Len(crs)
      BY <1>0, <2>1 DEF Smooth
    <3>2. ASSUME NEW g \in Callers, checkRunError(g), run[g].cr = builds[i].cr PROVE FALSE
      BY <2>1, <3>2 DEF checkRunError, At, Smooth
    <3>3. crs'[builds[i].cr] = crs[builds[i].cr]
      BY <3>1, <3>2, StatusStep
    <3> QED
      BY <2>1, <3>1, <3>3
  <2>2. ASSUME NEW g \in Callers, CreateWorkflow(g), builds'[i] = Created(g)
        PROVE  crs'[builds'[i].cr].status = "queued"
    <3>1. builds'[i].cr = run[g].cr
      BY <2>2 DEF Created
    <3>2. run[g].pc = "ensure" /\ crs' = crs
      BY <2>2 DEF CreateWorkflow, At
    <3> QED
      BY <3>1, <3>2 DEF Smooth, Reporting
  <2> QED
    BY <2>1, <2>2, BuildAt DEF SameBuild
<1>6. ASSUME NEW h \in Callers, run'[h].pc = "done", run'[h].cr # 0
      PROVE  \/ crs'[run'[h].cr].status = "failed"
             \/ \E i \in 1 .. Len(builds') : builds'[i].cr = run'[h].cr
  <2>1. run'[h].cr = run[h].cr /\ run[h].cr \in 1 .. Len(crs)
    BY <1>0, <1>6, CheckRunMoves
  <2>2. CASE run[h].pc = "done"
    <3>1. CASE crs[run[h].cr].status = "failed"
      BY <2>1, <3>1, StatusStep
    <3>2. ASSUME NEW i \in 1 .. Len(builds), builds[i].cr = run[h].cr
          PROVE  i \in 1 .. Len(builds') /\ builds'[i].cr = run'[h].cr
      BY <1>0, <2>1, <3>2 DEF Kept
    <3> QED
      BY <1>6, <2>1, <2>2, <3>1, <3>2 DEF Smooth
  <2>3. CASE checkRunError(h) /\ crs' = [crs EXCEPT ![run[h].cr].status = "failed"]
    BY <2>1, <2>3, FailType DEF Base
  <2>4. CASE CreateWorkflow(h) /\ builds' = Append(builds, Created(h))
    <3>1. builds \in Seq(Builds)
      BY DEF Base, TypeOKRun
    <3>2. Len(builds') = Len(builds) + 1 /\ builds'[Len(builds) + 1] = Created(h)
      BY <1>0, <2>4, <3>1
    <3> QED
      BY <1>0, <2>1, <3>2 DEF Created
  <2> QED
    BY <1>1, <1>6, <2>2, <2>3, <2>4, QuietMoves
<1> QED
  BY <1>2, <1>3, <1>4, <1>5, <1>6 DEF Smooth

-----------------------------------------------------------------------------

RunInv == Base /\ BuildsOK /\ OwnCheckRuns /\ BudgetOK /\ (Unharmed => Smooth)

\* The invariant holds before anything was pushed.
LEMMA RunInvInit == InitRun => RunInv
<1> SUFFICES ASSUME InitRun PROVE RunInv
  OBVIOUS
<1>1. Base
  BY BaseInit
<1>2. BuildsOK /\ OwnCheckRuns
  BY DEF InitRun, NoRun, BuildsOK, OwnCheckRuns
<1>3. BudgetOK
  BY CacheAssumption DEF InitRun, InitCache, BudgetOK
<1>4. Smooth
  BY DEF InitRun, NoRun, Smooth, Reporting
<1> QED
  BY <1>1, <1>2, <1>3, <1>4 DEF RunInv

\* Every step keeps the invariant.
LEMMA RunInvStep == RunInv /\ [NextRun]_runAll => RunInv'
<1> SUFFICES ASSUME RunInv, [NextRun]_runAll PROVE RunInv'
  OBVIOUS
<1>1. Base' /\ BuildsOK'
  BY BaseStep, BuildsInv DEF RunInv
<1>2. CASE NextRun
  <2>1. TypeOKRun' /\ Kept
    BY <1>2, RunTypeStep DEF RunInv
  <2>2. OwnCheckRuns'
    BY <1>2, <2>1, OwnStep DEF RunInv
  <2>3. BudgetOK' /\ (Unharmed' => Unharmed /\ UNCHANGED budget)
    BY <1>2, BudgetStep DEF RunInv
  <2>4. Unharmed' => Smooth'
    BY <1>2, <2>1, <2>3, SmoothStep DEF RunInv
  <2> QED
    BY <1>1, <2>2, <2>3, <2>4 DEF RunInv
<1>3. CASE UNCHANGED runAll
  <2>1. UNCHANGED <<commits, crs, builds, run, budget>>
    BY <1>3 DEF runAll, runVars
  <2>2. OwnCheckRuns' /\ BudgetOK' /\ (Unharmed' => Smooth')
    BY <2>1 DEF RunInv, OwnCheckRuns, BudgetOK, Unharmed, Smooth, Reporting
  <2> QED
    BY <1>1, <2>2 DEF RunInv
<1> QED
  BY <1>2, <1>3

\* A build's check run is its own, for the same commit, and does not say that
\* the build failed to start (workflow.go:646), unless a call failed.
THEOREM BuildHasItsCheckRun == RunSpec => []CheckRunOfBuild
<1>1. RunInv => CheckRunOfBuild
  BY Lengths DEF RunInv, Base, BuildsOK, BuildOK, OwnCheckRuns, Smooth, CheckRunOfBuild
<1> QED
  BY <1>1, RunInvInit, RunInvStep, PTL DEF RunSpec

\* A handler that is through left a build, or a check run that says why not:
\* no check run stays queued when no call failed (workflow.go:646).
THEOREM NothingIsForgotten == RunSpec => []ReportedOrBuilt
<1>1. RunInv => ReportedOrBuilt
  BY Lengths DEF RunInv, Base, Smooth, ReportedOrBuilt
<1> QED
  BY <1>1, RunInvInit, RunInvStep, PTL DEF RunSpec

-----------------------------------------------------------------------------
(* Builds that cancel one another.                                         *)

\* What is listed for a branch is of that branch, as far as labels tell.
LEMMA BranchIsListed ==
    ASSUME NEW b \in Builds, NEW req \in Requests, SameBranch(b, req)
    PROVE  OneBranch(req, b.req)
<1>1. b.req \in Requests
  BY DEF Builds
<1>2. b.req.repo \in Repos /\ req.repo \in Repos
  BY <1>1, RequestFacts
<1> QED
  BY <1>2 DEF SameBranch, OneBranch, Alike

\* One branch is one branch whichever way and through whichever request.
LEMMA OneBranchJoins ==
    ASSUME NEW r, NEW s, NEW u, OneBranch(r, s), OneBranch(s, u)
    PROVE  OneBranch(r, u)
BY DEF OneBranch, Alike

\* A build is cancelled by CancelBuild, of a handler that will build its branch.
LEMMA CancelShape ==
    ASSUME Base, NextRun, NEW i \in 1 .. Len(builds), builds'[i].ads # builds[i].ads
    PROVE  \E h \in Callers : /\ CancelBuild(h) /\ run[h].pc = "sweep" /\ Accepted(h)
                              /\ OneBranch(run[h].req, builds[i].req)
<1>1. /\ TypeOKRun /\ builds \in Seq(Builds) /\ DOMAIN builds = 1 .. Len(builds)
      /\ \A k \in 1 .. Len(builds) : builds[k] \in Builds
  BY Lengths DEF Base, TypeOKRun
<1>2. ASSUME NEW h \in Callers, CreateWorkflow(h), builds' = Append(builds, Created(h)) PROVE FALSE
  <2> DEFINE new == Created(h)
  <2>1. new \in Builds
    <3>1. run[h].req \in Requests
      BY <1>2 DEF CreateWorkflow, At, Base, HandlerOK, AskedFor
    <3>2. run[h].sha \in Nat /\ run[h].def \in Nat /\ run[h].cr \in Nat
      BY DEF Base, TypeOKRun, Runs
    <3> QED
      BY <3>1, <3>2 DEF Created, Builds
  <2> HIDE DEF new
  <2>2. builds' = Append(builds, new)
    BY <1>2 DEF new
  <2>3. builds'[i] = builds[i]
    BY <1>1, <2>1, <2>2, AppendProperties
  <2> QED
    BY <2>3
<1>3. ASSUME NEW k \in DOMAIN builds, NEW ended \in BOOLEAN,
             builds' = [builds EXCEPT ![k].ended = ended, ![k].ver = @ + 1]
      PROVE  FALSE
  <2> DEFINE e == [builds[k] EXCEPT !.ended = ended, !.ver = @ + 1]
  <2>1. e.ads = builds[k].ads
    BY <1>1 DEF Builds
  <2>2. builds' = [builds EXCEPT ![k] = e]
    BY <1>3
  <2> HIDE DEF e
  <2> QED
    BY <1>1, <2>1, <2>2
<1>4. ASSUME NEW h \in Callers, NEW t \in run[h].todo, CancelBuild(h),
             builds' = [builds EXCEPT ![t.build].ads = TRUE, ![t.build].ver = @ + 1]
      PROVE  run[h].pc = "sweep" /\ Accepted(h) /\ OneBranch(run[h].req, builds[i].req)
  <2>1. run[h].pc = "sweep" /\ HandlerOK(h)
    BY <1>4 DEF CancelBuild, At, Base
  <2>2. run[h].req \in Requests /\ Accepted(h) /\ SameBranch(builds[t.build], run[h].req)
    BY <2>1 DEF HandlerOK, AskedFor, Passed, Sweeps
  <2>3. t.build = i
    BY <1>1, <1>4
  <2> QED
    BY <1>1, <2>1, <2>2, <2>3, BranchIsListed
<1> QED
  BY <1>2, <1>3, <1>4, BuildsShape

\* A handler that will build the branch, or has reported that it did not.
Pending(h) ==
    \/ run[h].pc \in {"sweep", "ensure", "fail"}
    \/ run[h].pc = "done" /\ run[h].cr # 0 /\ crs[run[h].cr].status = "failed"

\* The branch of a request has a build that goes on, or a handler that answers
\* for it.
Lives(s) ==
    \/ \E k \in 1 .. Len(builds) : OneBranch(builds[k].req, s) /\ ~builds[k].ads
    \/ \E h \in Callers : OneBranch(run[h].req, s) /\ Pending(h)

BranchesLive ==
    \A s \in Requests, i \in 1 .. Len(builds) : OneBranch(builds[i].req, s) => Lives(s)

\* The build a handler adds goes on.
LEMMA NewBuildLives ==
    ASSUME Base, TypeOKRun', NEW h \in Callers, CreateWorkflow(h), builds' = Append(builds, Created(h)),
           NEW s, OneBranch(run[h].req, s)
    PROVE  Lives(s)'
<1>0. builds \in Seq(Builds) /\ Len(builds) \in Nat /\ Len(builds') \in Nat
  BY Lengths, LengthsNext DEF Base, TypeOKRun
<1>1. Len(builds') = Len(builds) + 1 /\ builds'[Len(builds) + 1] = Created(h)
  BY <1>0
<1>2. Len(builds') \in 1 .. Len(builds') /\ builds'[Len(builds')] = Created(h)
  BY <1>0, <1>1
<1> QED
  BY <1>2 DEF Lives, Created, OneBranch, Alike

\* Whoever cancels the last build of a branch answers for the branch.
LEMMA LivesStep ==
    ASSUME Base, Smooth, NextRun, UNCHANGED budget, TypeOKRun', Kept,
           NEW s, Lives(s)
    PROVE  Lives(s)'
<1>0. /\ Quiet /\ Len(builds) \in Nat /\ Len(builds') \in Nat /\ Len(builds) <= Len(builds')
      /\ \A h \in Callers : HandlerOK(h)
      /\ run \in [Callers -> Runs]
  BY Lengths, LengthsNext DEF Base, Smooth, Quiet, Kept, TypeOKRun
<1>1. ASSUME NEW k \in 1 .. Len(builds), OneBranch(builds[k].req, s), ~builds[k].ads
      PROVE  Lives(s)'
  <2>1. k \in 1 .. Len(builds') /\ builds'[k].req = builds[k].req
    BY <1>0 DEF Kept
  <2>2. CASE builds'[k].ads = builds[k].ads
    BY <1>1, <2>1, <2>2 DEF Lives, OneBranch, Alike
  <2>3. CASE builds'[k].ads # builds[k].ads
    <3>1. PICK h \in Callers : /\ CancelBuild(h) /\ run[h].pc = "sweep"
                               /\ OneBranch(run[h].req, builds[k].req)
      BY <2>3, CancelShape
    <3>2. run'[h].pc = "sweep" /\ run'[h].req = run[h].req
      <4>1. PICK t : run' = [run EXCEPT ![h].todo = @ \ {t}]
        BY <3>1 DEF CancelBuild
      <4>2. run'[h] = [run[h] EXCEPT !.todo = @ \ {t}] /\ run[h] \in Runs
        BY <1>0, <4>1
      <4> QED
        BY <3>1, <4>2 DEF Runs
    <3>3. OneBranch(run[h].req, s)
      BY <1>1, <3>1, OneBranchJoins
    <3> QED
      BY <3>2, <3>3 DEF Lives, Pending, OneBranch, Alike
  <2> QED
    BY <2>2, <2>3
<1>2. ASSUME NEW h \in Callers, OneBranch(run[h].req, s), Pending(h)
      PROVE  Lives(s)'
  <2>1. run'[h].req = run[h].req
    BY <1>0, <1>2, QuietMoves DEF Pending
  <2>2. Pending(h) => run[h].cr \in 1 .. Len(crs) /\ run[h].cr # 0
    BY <1>0 DEF Pending, HandlerOK, HasCheckRun
  <2>3. CASE run'[h].pc \in {"sweep", "ensure", "fail"}
    BY <1>2, <2>1, <2>3 DEF Lives, Pending, OneBranch, Alike
  <2>4. CASE CreateWorkflow(h) /\ builds' = Append(builds, Created(h))
    BY <1>2, <2>4, NewBuildLives
  <2>5. CASE checkRunError(h) /\ crs' = [crs EXCEPT ![run[h].cr].status = "failed"]
    <3>1. crs'[run[h].cr].status = "failed"
      BY <1>2, <2>2, <2>5, FailType DEF Base
    <3>2. run'[h].pc = "done" /\ run'[h].cr = run[h].cr
      BY <1>0, <2>5 DEF checkRunError, Goto, Runs
    <3> QED
      BY <1>2, <2>1, <2>2, <3>1, <3>2 DEF Lives, Pending, OneBranch, Alike
  <2>6. CASE run[h].pc = "done" /\ run[h].cr # 0 /\ crs[run[h].cr].status = "failed"
    <3>1. run'[h].pc = "done" /\ run'[h].cr = run[h].cr
      BY <1>0, <2>6, QuietMoves
    <3>2. crs'[run[h].cr].status = "failed"
      BY <1>2, <2>2, <2>6, StatusStep
    <3> QED
      BY <1>2, <2>1, <2>6, <3>1, <3>2 DEF Lives, Pending, OneBranch, Alike
  <2> QED
    BY <1>0, <1>2, <2>3, <2>4, <2>5, <2>6, QuietMoves DEF Pending
<1> QED
  BY <1>1, <1>2 DEF Lives

\* The branches stay alive as long as every call gets through.
LEMMA BranchesStep ==
    RunInv /\ (Unharmed => BranchesLive) /\ [NextRun]_runAll => (Unharmed' => BranchesLive')
<1> SUFFICES ASSUME RunInv, Unharmed => BranchesLive, [NextRun]_runAll, Unharmed'
             PROVE  BranchesLive'
  OBVIOUS
<1>1. CASE NextRun
  <2>1. /\ Unharmed /\ UNCHANGED budget /\ Base /\ Smooth /\ BranchesLive
        /\ TypeOKRun' /\ Kept
    BY <1>1, BudgetStep, RunTypeStep DEF RunInv
  <2> SUFFICES ASSUME NEW s \in Requests, NEW i \in 1 .. Len(builds'),
                      OneBranch(builds'[i].req, s)
               PROVE  Lives(s)'
    BY DEF BranchesLive, OneBranch, Alike
  <2>2. CASE i \in 1 .. Len(builds) /\ SameBuild(builds'[i], builds[i])
    <3>1. OneBranch(builds[i].req, s)
      BY <2>2 DEF SameBuild
    <3>2. Lives(s)
      BY <2>1, <2>2, <3>1 DEF BranchesLive
    <3> QED
      BY <1>1, <2>1, <3>2, LivesStep
  <2>3. ASSUME NEW h \in Callers, CreateWorkflow(h), builds'[i] = Created(h)
        PROVE  Lives(s)'
    <3>1. ~builds'[i].ads
      BY <2>3 DEF Created
    <3> QED
      BY <3>1 DEF Lives, OneBranch, Alike
  <2> QED
    BY <1>1, <2>1, <2>2, <2>3, BuildAt
<1>2. CASE UNCHANGED runAll
  BY <1>2 DEF runAll, runVars, BranchesLive, Lives, Pending, Unharmed
<1> QED
  BY <1>1, <1>2

\* Builds cancel one another, but when the handlers for a branch are through
\* and none of them failed, one build of it goes on (runWorkflow cancels before
\* it creates), whether or not other repositories have the same label.
THEOREM OneBuildGoesOn == RunSpec => []BranchKeepsABuild
<1> DEFINE I == RunInv /\ (Unharmed => BranchesLive)
<1>1. InitRun => I
  BY RunInvInit DEF InitRun, BranchesLive
<1>2. I /\ [NextRun]_runAll => I'
  BY RunInvStep, BranchesStep
<1>3. I => BranchKeepsABuild
  <2> SUFFICES ASSUME RunInv, Unharmed, BranchesLive, NEW i \in DOMAIN builds,
                      ~Busy(builds[i].req)
               PROVE  LET req == builds[i].req
                      IN  \/ \E k \in DOMAIN builds : OneBranch(builds[k].req, req) /\ ~builds[k].ads
                          \/ \E h \in Callers :
                                /\ run[h].pc = "done" /\ run[h].cr # 0 /\ OneBranch(run[h].req, req)
                                /\ crs[run[h].cr].status = "failed"
    BY DEF BranchKeepsABuild
  <2>1. /\ DOMAIN builds = 1 .. Len(builds) /\ builds[i] \in Builds
    BY Lengths DEF RunInv, Base
  <2>2. builds[i].req \in Requests /\ builds[i].req.repo \in Repos
    BY <2>1, RequestFacts DEF Builds
  <2>3. OneBranch(builds[i].req, builds[i].req)
    BY <2>2 DEF OneBranch, Alike
  <2>4. Lives(builds[i].req)
    BY <2>1, <2>2, <2>3 DEF BranchesLive
  <2> QED
    BY <2>1, <2>4 DEF Lives, Pending, Busy
<1> HIDE DEF I
<1> QED
  BY <1>1, <1>2, <1>3, PTL DEF RunSpec

-----------------------------------------------------------------------------
(* RunWorkflow implements BuildRequests.                                   *)

\* A handler, a check run and a build are about a commit of the branch that
\* was asked for, and a check run is queued as long as its handler is at work.
OfItsBranch ==
    /\ \A k \in 1 .. Len(crs) : crs[k].sha \in 1 .. Len(commits)
    /\ \A h \in Callers : run[h].pc # "idle" =>
          run[h].sha \in CommitsOf(run[h].req.repo, run[h].req.ref)
    /\ \A i \in 1 .. Len(builds) :
          builds[i].sha \in CommitsOf(builds[i].req.repo, builds[i].req.ref)

StillQueued == \A h \in Callers : Reporting(h) => crs[run[h].cr].status = "queued"

\* A handler keeps the request and the commit it was given.
LEMMA SameRequest ==
    ASSUME Base, NextRun, NEW h \in Callers
    PROVE  \/ run'[h].req = run[h].req /\ run'[h].sha = run[h].sha
              /\ (run'[h].pc # "idle" => run[h].pc # "idle")
           \/ /\ Receive(h) /\ commits' = commits
              /\ run'[h].sha \in CommitsOf(run'[h].req.repo, run'[h].req.ref)
<1>0. run \in [Callers -> Runs] /\ run[h] \in Runs
  BY DEF Base, TypeOKRun
<1>1. CASE Receive(h)
  <2>1. PICK req, sha :
           /\ sha \in CommitsOf(req.repo, req.ref)
           /\ run' = [run EXCEPT ![h].pc = "read", ![h].req = req, ![h].sha = sha]
    BY <1>1 DEF Receive
  <2>2. run'[h].req = req /\ run'[h].sha = sha
    BY <1>0, <2>1 DEF Runs
  <2> QED
    BY <1>1, <2>1, <2>2 DEF Receive
<1>2. CASE getWorkflow(h)
  <2>1. run[h].pc = "read"
    BY <1>2 DEF getWorkflow, At
  <2>2. CASE Goto(h, "done")
    BY <1>0, <2>1, <2>2 DEF Goto, Runs
  <2>3. ASSUME NEW ok, NEW head,
               run' = [run EXCEPT ![h].pc = "create", ![h].def = head, ![h].ok = ok]
        PROVE  run'[h].req = run[h].req /\ run'[h].sha = run[h].sha
    BY <1>0, <2>3 DEF Runs
  <2> QED
    BY <1>2, <2>1, <2>2, <2>3, ReadShape
<1>3. CASE CreateCheckRun(h)
  <2>1. run[h].pc = "create"
    BY <1>3 DEF CreateCheckRun, At
  <2>2. run'[h].req = run[h].req /\ run'[h].sha = run[h].sha
    BY <1>0, <1>3, CreateShape DEF Runs
  <2> QED
    BY <2>1, <2>2
<1>4. CASE Moves(h)
  BY <1>4 DEF Moves
<1>5. CASE run'[h] = run[h]
  BY <1>5
<1> QED
  BY <1>1, <1>2, <1>3, <1>4, <1>5, HandlerSteps

\* What was asked for, reported and built stays on its branch.
LEMMA BranchStep ==
    ASSUME Base, OfItsBranch, NextRun, TypeOKRun', Kept
    PROVE  OfItsBranch'
<1>0. /\ Len(crs) \in Nat /\ Len(crs') \in Nat /\ Len(commits) \in Nat /\ Len(commits') \in Nat
      /\ Len(commits) <= Len(commits')
      /\ DOMAIN commits = 1 .. Len(commits) /\ DOMAIN commits' = 1 .. Len(commits')
      /\ TypeOKRun
  BY Lengths, LengthsNext DEF Base, Kept
<1>1. ASSUME NEW k \in 1 .. Len(crs')
      PROVE  crs'[k].sha \in 1 .. Len(commits')
  <2>1. CASE k \in 1 .. Len(crs)
    <3>1. crs[k].sha \in 1 .. Len(commits) /\ crs'[k].sha = crs[k].sha
      BY <2>1 DEF OfItsBranch, Kept
    <3> QED
      BY <1>0, <3>1
  <2>2. CASE k \notin 1 .. Len(crs)
    <3>1. PICK h \in Callers : CreateCheckRun(h) /\ crs' = Append(crs, Queued(h))
      <4>1. ASSUME NEW h \in Callers, checkRunError(h),
                   crs' = [crs EXCEPT ![run[h].cr].status = "failed"]
            PROVE  Len(crs') = Len(crs)
        <5>1. run[h].cr \in 1 .. Len(crs)
          BY <4>1 DEF Base, HandlerOK, HasCheckRun, checkRunError, At
        <5> QED
          BY <1>0, <4>1, <5>1, FailType
      <4> QED
        BY <2>2, <4>1, CheckRunsShape
    <3>2. CreateCheckRun(h) /\ run[h].pc = "create"
      BY <3>1 DEF CreateCheckRun, At
    <3>3. run[h].sha \in 1 .. Len(commits)
      BY <1>0, <3>2 DEF OfItsBranch, CommitsOf
    <3>4. crs'[k] = Queued(h)
      <4> DEFINE T == [sha: Nat, status: {"queued", "failed"}]
      <4>1. Queued(h) \in T /\ crs \in Seq(T)
        BY <1>0, <3>3 DEF Queued, TypeOKRun
      <4> HIDE DEF T
      <4>2. Len(crs') = Len(crs) + 1 /\ crs'[Len(crs) + 1] = Queued(h)
        BY <3>1, <4>1, AppendProperties
      <4>3. k = Len(crs) + 1
        BY <1>0, <2>2, <4>2
      <4> QED
        BY <4>2, <4>3
    <3> QED
      BY <1>0, <3>3, <3>4 DEF Queued
  <2> QED
    BY <2>1, <2>2
<1>2. ASSUME NEW h \in Callers, run'[h].pc # "idle"
      PROVE  (run[h].sha \in CommitsOf(run[h].req.repo, run[h].req.ref))'
  <2>1. CASE /\ run'[h].req = run[h].req /\ run'[h].sha = run[h].sha
             /\ run[h].pc # "idle"
    <3>1. run[h].sha \in CommitsOf(run[h].req.repo, run[h].req.ref)
      BY <2>1 DEF OfItsBranch
    <3>2. PICK repo, ref : repo = run[h].req.repo /\ ref = run[h].req.ref
      OBVIOUS
    <3>3. run[h].sha \in CommitsOf(repo, ref)'
      BY <3>1, <3>2, CommitsStay
    <3> QED
      BY <2>1, <3>2, <3>3 DEF CommitsOf
  <2>2. CASE /\ commits' = commits
             /\ run'[h].sha \in CommitsOf(run'[h].req.repo, run'[h].req.ref)
    BY <2>2 DEF CommitsOf
  <2> QED
    BY <1>2, <2>1, <2>2, SameRequest
<1>3. ASSUME NEW i \in 1 .. Len(builds')
      PROVE  (builds[i].sha \in CommitsOf(builds[i].req.repo, builds[i].req.ref))'
  <2>1. PICK req, sha : /\ builds'[i].req = req /\ builds'[i].sha = sha
                        /\ sha \in CommitsOf(req.repo, req.ref)
    <3>1. CASE i \in 1 .. Len(builds) /\ SameBuild(builds'[i], builds[i])
      BY <3>1 DEF OfItsBranch, SameBuild
    <3>2. ASSUME NEW h \in Callers, CreateWorkflow(h), builds'[i] = Created(h)
          PROVE  /\ builds'[i].req = run[h].req /\ builds'[i].sha = run[h].sha
                 /\ run[h].sha \in CommitsOf(run[h].req.repo, run[h].req.ref)
      BY <3>2 DEF CreateWorkflow, At, Created, OfItsBranch
    <3> QED
      BY <3>1, <3>2, BuildAt
  <2>2. sha \in CommitsOf(req.repo, req.ref)'
    BY <2>1, CommitsStay
  <2> QED
    BY <2>1, <2>2 DEF CommitsOf
<1> QED
  BY <1>1, <1>2, <1>3 DEF OfItsBranch

\* Nobody reports on the check run of a handler at work.
LEMMA QueuedStep ==
    ASSUME Base, OwnCheckRuns, StillQueued, NextRun, TypeOKRun', Kept
    PROVE  StillQueued'
<1> SUFFICES ASSUME NEW h \in Callers, Reporting(h)'
             PROVE  crs'[run'[h].cr].status = "queued"
  BY DEF StillQueued
<1>0. /\ run \in [Callers -> Runs] /\ run[h] \in Runs /\ HandlerOK(h)
      /\ run'[h].pc \in {"decide", "sweep", "ensure", "fail"}
  BY DEF Base, TypeOKRun, Reporting
<1>1. CASE CreateCheckRun(h)
  <2>1. /\ crs'[Len(crs')] = Queued(h) /\ run'[h].cr = Len(crs')
    <3>1. CASE run'[h] = [run[h] EXCEPT !.pc = "done"]
      BY <1>0, <3>1 DEF Runs
    <3>2. CASE run'[h] = [run[h] EXCEPT !.pc = "decide", !.cr = Len(crs')]
               /\ crs'[Len(crs')] = Queued(h)
      BY <1>0, <3>2 DEF Runs
    <3> QED
      BY <1>1, <3>1, <3>2, CreateShape
  <2> QED
    BY <2>1 DEF Queued
<1>2. CASE ~CreateCheckRun(h)
  <2>1. run'[h].cr = run[h].cr
    BY <1>2, CheckRunMoves
  <2>2. Reporting(h)
    <3>1. ~Receive(h)
      <4>1. Receive(h) => run'[h].pc = "read"
        BY <1>0 DEF Receive, Runs
      <4> QED
        BY <1>0, <4>1
    <3>2. ~getWorkflow(h)
      <4>1. CASE Goto(h, "done")
        BY <1>0, <4>1 DEF Goto, Runs
      <4>2. ASSUME NEW ok, NEW head,
                   run' = [run EXCEPT ![h].pc = "create", ![h].def = head, ![h].ok = ok]
            PROVE  FALSE
        BY <1>0, <4>2 DEF Runs
      <4> QED
        BY <1>0, <4>1, <4>2, ReadShape DEF Goto, Runs
    <3> QED
      BY <1>0, <1>2, <3>1, <3>2, HandlerSteps DEF Moves, Reporting
  <2>3. crs[run[h].cr].status = "queued" /\ run[h].cr # 0 /\ run[h].cr \in 1 .. Len(crs)
    BY <1>0, <2>2 DEF StillQueued, Reporting, HandlerOK, HasCheckRun
  <2>4. ASSUME NEW g \in Callers, checkRunError(g), run[g].cr = run[h].cr PROVE FALSE
    <3>1. g = h
      BY <2>3, <2>4 DEF OwnCheckRuns
    <3>2. run'[h].pc = "done"
      BY <1>0, <2>4, <3>1 DEF checkRunError, Goto, Runs
    <3> QED
      BY <1>0, <3>2
  <2>5. crs'[run[h].cr] = crs[run[h].cr]
    BY <2>3, <2>4, StatusStep
  <2> QED
    BY <2>1, <2>3, <2>5
<1> QED
  BY <1>1, <1>2

JointInv == RunInv /\ OfItsBranch /\ StillQueued

\* The invariant holds from the start.
LEMMA JointAlways == RunSpec => []JointInv
<1>1. InitRun => JointInv
  <2>1. InitRun => OfItsBranch /\ StillQueued
    BY DEF InitRun, NoRun, OfItsBranch, StillQueued, Reporting
  <2> QED
    BY <2>1, RunInvInit DEF JointInv
<1>2. JointInv /\ [NextRun]_runAll => JointInv'
  <2> SUFFICES ASSUME JointInv, [NextRun]_runAll PROVE JointInv'
    OBVIOUS
  <2>1. RunInv'
    BY RunInvStep DEF JointInv
  <2>2. CASE NextRun
    <3>1. Base /\ OwnCheckRuns /\ TypeOKRun' /\ Kept
      BY <2>2, RunTypeStep DEF JointInv, RunInv
    <3> QED
      BY <2>1, <2>2, <3>1, BranchStep, QueuedStep DEF JointInv
  <2>3. CASE UNCHANGED runAll
    BY <2>1, <2>3 DEF runAll, runVars, JointInv, OfItsBranch, StillQueued, CommitsOf, Reporting
  <2> QED
    BY <2>2, <2>3
<1> QED
  BY <1>1, <1>2, PTL DEF RunSpec

\* What BuildRequests sees of a check run.
AnswerTo(k) ==
    IF BuildsOf(k) = {} THEN IF crs[k].status = "failed" THEN "error" ELSE "none"
    ELSE IF crs[k].status = "failed" THEN "both" ELSE "build"
Stopped(k) == \E i \in BuildsOf(k) : builds[i].ads
Entry(k) == [branch |-> BranchOf(k), answer |-> AnswerTo(k), cancelled |-> Stopped(k)]

EntryType ==
    [branch: {Label[r] : r \in Repos} \X Refs, answer: {"none", "build", "error", "both"}, cancelled: BOOLEAN]

\* The requests are the entries of the check runs.
LEMMA RequestedIs == TypeOKRun => Requested = [k \in 1 .. Len(crs) |-> Entry(k)]
<1>1. Requested = [k \in DOMAIN crs |-> Entry(k)]
  BY DEF Requested, Entry, AnswerTo, Stopped
<1>2. TypeOKRun => DOMAIN crs = 1 .. Len(crs)
  BY Lengths
<1> QED
  BY <1>1, <1>2

\* Also after a step.
LEMMA RequestedNext == TypeOKRun' => Requested' = [k \in 1 .. Len(crs') |-> Entry(k)']
<1>1. (TypeOKRun => Requested = [k \in 1 .. Len(crs) |-> Entry(k)])'
  BY RequestedIs, PTL
<1> QED
  BY <1>1

\* Their type.
LEMMA EntryTyped ==
    ASSUME TypeOKRun, OfItsBranch, NEW k \in 1 .. Len(crs)
    PROVE  Entry(k) \in EntryType
<1>1. crs[k].sha \in 1 .. Len(commits)
  BY DEF OfItsBranch
<1>2. commits[crs[k].sha] \in Pushes
  BY <1>1, Lengths
<1>3. BranchOf(k) \in {Label[r] : r \in Repos} \X Refs
  <2>1. commits[crs[k].sha].repo \in Repos /\ commits[crs[k].sha].ref \in Refs
    BY <1>2, RunAssumption
  <2> QED
    BY <2>1 DEF BranchOf
<1>4. AnswerTo(k) \in {"none", "build", "error", "both"}
  BY DEF AnswerTo
<1>5. Stopped(k) \in BOOLEAN
  BY DEF Stopped
<1> QED
  BY <1>3, <1>4, <1>5 DEF Entry, EntryType

\* A check run keeps its branch.
LEMMA BranchKept ==
    ASSUME TypeOKRun, OfItsBranch, Kept, NEW k \in 1 .. Len(crs)
    PROVE  BranchOf(k)' = BranchOf(k)
<1>1. crs[k].sha \in 1 .. Len(commits) /\ crs'[k].sha = crs[k].sha
  BY DEF OfItsBranch, Kept
<1>2. commits'[crs[k].sha] = commits[crs[k].sha]
  BY <1>1 DEF Kept
<1> QED
  BY <1>1, <1>2 DEF BranchOf

\* The branch of a handler's check run, and of a build's, is the one asked for.
LEMMA BranchAsked ==
    ASSUME Base, BuildsOK, OfItsBranch
    PROVE  /\ \A h \in Callers : run[h].cr # 0 =>
                 BranchOf(run[h].cr) = <<Label[run[h].req.repo], run[h].req.ref>>
           /\ \A i \in 1 .. Len(builds) :
                 BranchOf(builds[i].cr) = <<Label[builds[i].req.repo], builds[i].req.ref>>
<1>1. ASSUME NEW h \in Callers, run[h].cr # 0
      PROVE  BranchOf(run[h].cr) = <<Label[run[h].req.repo], run[h].req.ref>>
  <2>1. crs[run[h].cr].sha = run[h].sha /\ run[h].pc # "idle"
    BY <1>1 DEF Base, HandlerOK, HasCheckRun
  <2>2. run[h].sha \in CommitsOf(run[h].req.repo, run[h].req.ref)
    BY <2>1 DEF OfItsBranch
  <2> QED
    BY <2>1, <2>2 DEF BranchOf, CommitsOf
<1>2. ASSUME NEW i \in 1 .. Len(builds)
      PROVE  BranchOf(builds[i].cr) = <<Label[builds[i].req.repo], builds[i].req.ref>>
  <2>1. crs[builds[i].cr].sha = builds[i].sha
    BY DEF BuildsOK, BuildOK
  <2>2. builds[i].sha \in CommitsOf(builds[i].req.repo, builds[i].req.ref)
    BY DEF OfItsBranch
  <2> QED
    BY <2>1, <2>2 DEF BranchOf, CommitsOf
<1> QED
  BY <1>1, <1>2

\* When the entries stay, so do the requests.
LEMMA SameRequested ==
    ASSUME TypeOKRun, TypeOKRun', crs' = crs, \A k \in 1 .. Len(crs) : Entry(k)' = Entry(k)
    PROVE  Requested' = Requested
<1>1. /\ DOMAIN crs = 1 .. Len(crs) /\ DOMAIN builds = 1 .. Len(builds)
      /\ DOMAIN builds' = 1 .. Len(builds')
  BY Lengths, LengthsNext
<1>2. Requested = [k \in 1 .. Len(crs) |-> Entry(k)]
  BY RequestedIs
<1>3. Requested' = [k \in 1 .. Len(crs) |-> Entry(k)']
  <2>1. Requested' = [k \in 1 .. Len(crs') |-> Entry(k)']
    BY RequestedNext
  <2> QED
    BY <2>1
<1> QED
  BY <1>2, <1>3

\* A request is answered, or its build cancelled, and the others stay.
LEMMA OneEntry ==
    ASSUME TypeOKRun, TypeOKRun', OfItsBranch, NEW k \in 1 .. Len(crs), Len(crs') = Len(crs),
           \A j \in 1 .. Len(crs) : j # k => Entry(j)' = Entry(j)
    PROVE  /\ \A a : Entry(k)' = [Entry(k) EXCEPT !.answer = a] =>
                  Requested' = [Requested EXCEPT ![k].answer = a]
           /\ Entry(k)' = [Entry(k) EXCEPT !.cancelled = TRUE] =>
                  Requested' = [Requested EXCEPT ![k].cancelled = TRUE]
<1>1. /\ DOMAIN crs = 1 .. Len(crs) /\ DOMAIN builds = 1 .. Len(builds)
      /\ DOMAIN crs' = 1 .. Len(crs') /\ DOMAIN builds' = 1 .. Len(builds')
  BY Lengths, LengthsNext
<1>2. Requested = [j \in 1 .. Len(crs) |-> Entry(j)]
  BY RequestedIs
<1>3. Requested' = [j \in 1 .. Len(crs) |-> Entry(j)']
  <2>1. Requested' = [j \in 1 .. Len(crs') |-> Entry(j)']
    BY RequestedNext
  <2> QED
    BY <2>1
<1>4. ASSUME NEW e, Entry(k)' = e
      PROVE  Requested' = [Requested EXCEPT ![k] = e]
  BY <1>2, <1>3, <1>4
<1>5. Requested[k] = Entry(k)
  BY <1>2
<1> QED
  BY <1>4, <1>5

\* An entry stays when its check run and its builds do.
LEMMA SameEntry ==
    ASSUME TypeOKRun, OfItsBranch, Kept, NEW k \in 1 .. Len(crs), crs'[k].status = crs[k].status,
           BuildsOf(k)' = BuildsOf(k), \A i \in BuildsOf(k) : builds'[i].ads = builds[i].ads
    PROVE  Entry(k)' = Entry(k)
<1>1. BranchOf(k)' = BranchOf(k)
  BY BranchKept
<1>2. AnswerTo(k)' = AnswerTo(k)
  BY DEF AnswerTo
<1>3. Stopped(k)' <=> Stopped(k)
  BY DEF Stopped
<1>4. Stopped(k) \in BOOLEAN /\ Stopped(k)' \in BOOLEAN
  BY DEF Stopped
<1>5. Stopped(k)' = Stopped(k)
  BY <1>3, <1>4
<1> QED
  BY <1>1, <1>2, <1>5 DEF Entry

\* What an entry tells.
LEMMA EntryTells ==
    ASSUME TypeOKRun, NEW k \in 1 .. Len(crs)
    PROVE  /\ k \in DOMAIN Requested /\ Requested[k].branch = BranchOf(k)
           /\ Requested[k].answer = AnswerTo(k)
           /\ Requested[k].cancelled <=> Stopped(k)
<1>1. Requested = [j \in 1 .. Len(crs) |-> Entry(j)]
  BY RequestedIs
<1>2. k \in DOMAIN Requested /\ Requested[k] = Entry(k)
  BY <1>1
<1> QED
  BY <1>2 DEF Entry

\* One more at the end.
LEMMA OneMore ==
    ASSUME NEW S, NEW n \in Nat, NEW f \in [1 .. n -> S], NEW e \in S,
           NEW g \in [1 .. n + 1 -> S], \A k \in 1 .. n : g[k] = f[k], g[n + 1] = e
    PROVE  g = Append(f, e)
<1>1. f \in Seq(S) /\ Len(f) = n /\ g \in Seq(S) /\ Len(g) = n + 1
  OBVIOUS
<1>2. /\ Append(f, e) \in Seq(S) /\ Len(Append(f, e)) = n + 1
      /\ \A k \in 1 .. n : Append(f, e)[k] = f[k]
      /\ Append(f, e)[n + 1] = e
  BY <1>1, AppendProperties
<1>3. \A k \in 1 .. n + 1 : k \in 1 .. n \/ k = n + 1
  OBVIOUS
<1>4. \A k \in 1 .. Len(g) : g[k] = Append(f, e)[k]
  BY <1>1, <1>2, <1>3
<1> QED
  BY <1>1, <1>2, <1>4, SeqEqual

\* What the invariant says of a step.
LEMMA JointFacts ==
    ASSUME JointInv, NextRun
    PROVE  /\ Base /\ BuildsOK /\ OwnCheckRuns /\ OfItsBranch /\ StillQueued /\ (Unharmed => Smooth)
           /\ TypeOKRun /\ TypeOKRun' /\ Kept /\ (Unharmed' => Unharmed)
           /\ \A h \in Callers : HandlerOK(h)
           /\ DOMAIN builds = 1 .. Len(builds) /\ DOMAIN builds' = 1 .. Len(builds')
           /\ Len(crs) \in Nat /\ Len(crs') \in Nat /\ Len(builds) \in Nat /\ Len(builds') \in Nat
           /\ OfItsBranch'
<1>1. /\ Base /\ BuildsOK /\ OwnCheckRuns /\ OfItsBranch /\ StillQueued /\ (Unharmed => Smooth)
      /\ BudgetOK /\ TypeOKRun /\ \A h \in Callers : HandlerOK(h)
  BY DEF JointInv, RunInv, Base
<1>2. TypeOKRun' /\ Kept /\ (Unharmed' => Unharmed)
  BY <1>1, RunTypeStep, BudgetStep
<1>3. OfItsBranch'
  BY <1>1, <1>2, BranchStep
<1> QED
  BY <1>1, <1>2, <1>3, Lengths, LengthsNext

\* A new check run is a new request.
LEMMA AskStep ==
    ASSUME JointInv, NextRun, NEW h \in Callers, CreateCheckRun(h), crs' = Append(crs, Queued(h))
    PROVE  Promise!Ask
<1>0. /\ BuildsOK /\ OfItsBranch /\ OfItsBranch' /\ TypeOKRun /\ TypeOKRun' /\ Kept
      /\ DOMAIN builds = 1 .. Len(builds) /\ Len(crs) \in Nat
  BY JointFacts
<1>1. builds' = builds /\ commits' = commits
  BY DEF CreateCheckRun
<1>2. /\ Len(crs') = Len(crs) + 1 /\ crs'[Len(crs) + 1] = Queued(h)
      /\ \A k \in 1 .. Len(crs) : crs'[k] = crs[k]
  <2> DEFINE T == [sha: Nat, status: {"queued", "failed"}]
  <2>1. Queued(h) \in T /\ crs \in Seq(T)
    BY <1>0 DEF Queued, TypeOKRun, Runs
  <2> HIDE DEF T
  <2> QED
    BY <2>1, AppendProperties
<1>3. PICK n : n = Len(crs)
  OBVIOUS
<1>4. n \in Nat /\ Len(crs') = n + 1 /\ n + 1 \in 1 .. Len(crs')
  BY <1>0, <1>2, <1>3
<1>5. \A k \in 1 .. n : Entry(k)' = Entry(k)
  <2> SUFFICES ASSUME NEW k \in 1 .. Len(crs) PROVE Entry(k)' = Entry(k)
    BY <1>3
  <2>1. BuildsOf(k)' = BuildsOf(k)
    BY <1>1 DEF BuildsOf
  <2> QED
    BY <1>0, <1>1, <1>2, <2>1, SameEntry
<1>6. PICK b : b = BranchOf(n + 1)'
  OBVIOUS
<1> DEFINE e == [branch |-> b, answer |-> "none", cancelled |-> FALSE]
<1>7. Entry(n + 1)' = e
  <2>1. BuildsOf(n + 1)' = {}
    <3>1. \A i \in 1 .. Len(builds) : builds[i].cr \in 1 .. n
      BY <1>0, <1>3 DEF BuildsOK, BuildOK
    <3> QED
      BY <1>0, <1>1, <1>4, <3>1 DEF BuildsOf
  <2>2. AnswerTo(n + 1)' = "none"
    BY <1>2, <1>3, <2>1 DEF AnswerTo, Queued
  <2>3. Stopped(n + 1)' = FALSE
    BY <2>1 DEF Stopped
  <2> QED
    BY <1>6, <2>2, <2>3 DEF Entry
<1>8. b \in {Label[r] : r \in Repos} \X Refs
  <2>1. crs'[n + 1].sha \in 1 .. Len(commits')
    BY <1>0, <1>4 DEF OfItsBranch
  <2>2. commits'[crs'[n + 1].sha] \in Pushes
    BY <1>0, <1>1, <2>1, Lengths
  <2>3. b = <<Label[commits'[crs'[n + 1].sha].repo], commits'[crs'[n + 1].sha].ref>>
    BY <1>6 DEF BranchOf
  <2>4. commits'[crs'[n + 1].sha].repo \in Repos /\ commits'[crs'[n + 1].sha].ref \in Refs
    BY <2>2, RunAssumption
  <2> QED
    BY <2>3, <2>4
<1>9. Requested' = Append(Requested, e)
  <2>1. Requested = [k \in 1 .. n |-> Entry(k)] /\ Requested' = [k \in 1 .. n + 1 |-> Entry(k)']
    BY <1>0, <1>3, <1>4, RequestedIs, RequestedNext
  <2>2. e \in EntryType /\ \A k \in 1 .. n : Entry(k) \in EntryType
    BY <1>0, <1>3, <1>8, EntryTyped DEF EntryType
  <2> HIDE DEF e, EntryType
  <2>3. Requested \in [1 .. n -> EntryType] /\ \A k \in 1 .. n : Requested'[k] = Requested[k]
    BY <1>4, <1>5, <2>1, <2>2
  <2>4. Requested'[n + 1] = e
    BY <1>4, <1>7, <2>1
  <2>5. \A k \in 1 .. n + 1 : Requested'[k] \in EntryType
    <3>1. \A k \in 1 .. n + 1 : k \in 1 .. n \/ k = n + 1
      BY <1>4
    <3> QED
      BY <2>2, <2>3, <2>4, <3>1
  <2>6. Requested' \in [1 .. n + 1 -> EntryType]
    BY <2>1, <2>5
  <2> QED
    BY <1>4, <2>2, <2>3, <2>4, <2>6, OneMore
<1> QED
  BY <1>8, <1>9 DEF Promise!Ask

\* A reported error is an answer, or contradicts the build nobody heard of.
LEMMA ErrorStep ==
    ASSUME JointInv, NextRun, NEW h \in Callers, checkRunError(h),
           crs' = [crs EXCEPT ![run[h].cr].status = "failed"]
    PROVE  \E k \in DOMAIN Requested : Promise!Answer(k) \/ Promise!Contradict(k)
<1>k. PICK k : k = run[h].cr
  OBVIOUS
<1>0. /\ OfItsBranch /\ StillQueued /\ TypeOKRun /\ TypeOKRun' /\ Kept /\ HandlerOK(h)
      /\ (Unharmed => Smooth) /\ DOMAIN builds = 1 .. Len(builds)
  BY JointFacts
<1>1. run[h].pc = "fail" /\ builds' = builds /\ commits' = commits
  BY DEF checkRunError, At
<1>2. k \in 1 .. Len(crs) /\ crs[k].status = "queued"
  BY <1>0, <1>1, <1>k DEF HandlerOK, HasCheckRun, StillQueued, Reporting
<1>3. /\ Len(crs') = Len(crs) /\ crs'[k].status = "failed"
      /\ \A j \in 1 .. Len(crs) : j # k => crs'[j] = crs[j]
  BY <1>0, <1>2, <1>k, FailType
<1>4. \A j : BuildsOf(j)' = BuildsOf(j)
  BY <1>1 DEF BuildsOf
<1>5. \A j \in 1 .. Len(crs) : j # k => Entry(j)' = Entry(j)
  BY <1>0, <1>1, <1>3, <1>4, SameEntry
<1> DEFINE a == IF BuildsOf(k) = {} THEN "error" ELSE "both"
<1>6. Entry(k)' = [Entry(k) EXCEPT !.answer = a]
  <2>1. BranchOf(k)' = BranchOf(k)
    BY <1>0, <1>2, BranchKept
  <2>2. AnswerTo(k)' = a
    BY <1>3, <1>4 DEF AnswerTo
  <2>3. Stopped(k)' = Stopped(k)
    BY <1>1, <1>4 DEF Stopped
  <2> QED
    BY <2>1, <2>2, <2>3 DEF Entry
<1> HIDE DEF a
<1>7. Requested' = [Requested EXCEPT ![k].answer = a]
  BY <1>0, <1>2, <1>3, <1>5, <1>6, OneEntry
<1>8. k \in DOMAIN Requested /\ Requested[k].answer = AnswerTo(k)
  BY <1>0, <1>2, EntryTells
<1>9. CASE BuildsOf(k) = {}
  <2>1. Requested[k].answer = "none" /\ a = "error"
    BY <1>2, <1>8, <1>9 DEF AnswerTo, a
  <2> QED
    BY <1>7, <1>8, <2>1 DEF Promise!Answer
<1>10. CASE BuildsOf(k) # {}
  <2>1. Requested[k].answer = "build" /\ a = "both"
    BY <1>2, <1>8, <1>10 DEF AnswerTo, a
  <2>2. ~Unharmed
    BY <1>0, <1>1, <1>10, <1>k DEF Smooth, BuildsOf
  <2> QED
    BY <1>7, <1>8, <2>1, <2>2 DEF Promise!Contradict
<1> QED
  BY <1>9, <1>10

\* A workflow is an answer.
LEMMA BuildStep ==
    ASSUME JointInv, NextRun, NEW h \in Callers, CreateWorkflow(h), builds' = Append(builds, Created(h))
    PROVE  \E k \in DOMAIN Requested : Promise!Answer(k)
<1>k. PICK k : k = run[h].cr
  OBVIOUS
<1>0. /\ OfItsBranch /\ StillQueued /\ TypeOKRun /\ TypeOKRun' /\ Kept /\ HandlerOK(h)
      /\ OwnCheckRuns /\ DOMAIN builds = 1 .. Len(builds) /\ DOMAIN builds' = 1 .. Len(builds')
      /\ Len(builds) \in Nat
  BY JointFacts
<1>1. run[h].pc = "ensure" /\ crs' = crs /\ commits' = commits
  BY DEF CreateWorkflow, At
<1>2. k \in 1 .. Len(crs) /\ crs[k].status = "queued"
  BY <1>0, <1>1, <1>k DEF HandlerOK, HasCheckRun, StillQueued, Reporting
<1>3. BuildsOf(k) = {}
  BY <1>0, <1>1, <1>k DEF OwnCheckRuns, BuildsOf
<1>4. /\ Len(builds') = Len(builds) + 1 /\ builds'[Len(builds) + 1] = Created(h)
      /\ \A i \in 1 .. Len(builds) : builds'[i] = builds[i]
  <2> DEFINE new == Created(h)
  <2>1. builds \in Seq(Builds) /\ new \in Builds
    <3>1. run[h].req \in Requests
      BY <1>0, <1>1 DEF HandlerOK, AskedFor
    <3>2. run[h].sha \in Nat /\ run[h].def \in Nat /\ run[h].cr \in Nat
      BY <1>0 DEF TypeOKRun, Runs
    <3> QED
      BY <1>0, <3>1, <3>2 DEF TypeOKRun, Created, Builds
  <2>2. builds' = Append(builds, new)
    OBVIOUS
  <2> HIDE DEF new, Builds
  <2>3. /\ Len(builds') = Len(builds) + 1 /\ builds'[Len(builds) + 1] = new
        /\ \A i \in 1 .. Len(builds) : builds'[i] = builds[i]
    BY <2>1, <2>2, AppendProperties
  <2> QED
    BY <2>3 DEF new
<1>5. PICK n : n = Len(builds)
  OBVIOUS
<1>6. /\ DOMAIN builds = 1 .. n /\ DOMAIN builds' = 1 .. n + 1 /\ n \in Nat
      /\ builds'[n + 1].cr = k /\ builds'[n + 1].ads = FALSE
      /\ \A i \in 1 .. n : builds'[i] = builds[i]
  BY <1>0, <1>4, <1>5, <1>k DEF Created
<1>7. /\ \A j : j # k => BuildsOf(j)' = BuildsOf(j)
      /\ BuildsOf(k)' = {n + 1}
  <2>1. \A i \in 1 .. n + 1 : i \in 1 .. n \/ i = n + 1
    BY <1>6
  <2>2. \A i \in 1 .. n : i \in 1 .. n + 1
    BY <1>6
  <2>3. n + 1 \in 1 .. n + 1
    BY <1>6
  <2> QED
    BY <1>3, <1>6, <2>1, <2>2, <2>3 DEF BuildsOf
<1>8. \A j \in 1 .. Len(crs) : j # k => Entry(j)' = Entry(j)
  <2> SUFFICES ASSUME NEW j \in 1 .. Len(crs), j # k PROVE Entry(j)' = Entry(j)
    OBVIOUS
  <2>1. \A i \in BuildsOf(j) : builds'[i].ads = builds[i].ads
    BY <1>6 DEF BuildsOf
  <2> QED
    BY <1>0, <1>1, <1>7, <2>1, SameEntry
<1>9. Entry(k)' = [Entry(k) EXCEPT !.answer = "build"]
  <2>1. BranchOf(k)' = BranchOf(k)
    BY <1>0, <1>2, BranchKept
  <2>2. AnswerTo(k)' = "build"
    BY <1>1, <1>2, <1>7 DEF AnswerTo
  <2>3. Stopped(k) = FALSE /\ Stopped(k)' = FALSE
    BY <1>3, <1>6, <1>7 DEF Stopped
  <2>4. Stopped(k)' = Stopped(k)
    BY <2>3
  <2> QED
    BY <2>1, <2>2, <2>4 DEF Entry
<1>10. Requested' = [Requested EXCEPT ![k].answer = "build"]
  BY <1>0, <1>1, <1>2, <1>8, <1>9, OneEntry
<1>11. k \in DOMAIN Requested /\ Requested[k].answer = "none"
  BY <1>0, <1>2, <1>3, EntryTells DEF AnswerTo
<1> QED
  BY <1>10, <1>11 DEF Promise!Answer

\* What is written when an entry is marked as cancelled.
LEMMA EntryCancelled ==
    ASSUME NEW b, NEW a, NEW c, NEW v
    PROVE  [[branch |-> b, answer |-> a, cancelled |-> c] EXCEPT !.cancelled = v]
               = [branch |-> b, answer |-> a, cancelled |-> v]
OBVIOUS

\* A cancelled build makes way for the request of the handler that cancels.
LEMMA CancelStep ==
    ASSUME JointInv, NextRun, NEW h \in Callers, NEW t \in run[h].todo, CancelBuild(h),
           builds' = [builds EXCEPT ![t.build].ads = TRUE, ![t.build].ver = @ + 1]
    PROVE  (\E k \in DOMAIN Requested : Promise!Cancel(k)) \/ Requested' = Requested
<1>0. /\ Base /\ BuildsOK /\ OwnCheckRuns /\ OfItsBranch /\ StillQueued
      /\ TypeOKRun /\ TypeOKRun' /\ Kept /\ HandlerOK(h)
      /\ DOMAIN builds = 1 .. Len(builds) /\ DOMAIN builds' = 1 .. Len(builds')
  BY JointFacts
<1>1. run[h].pc = "sweep" /\ crs' = crs /\ commits' = commits
  BY DEF CancelBuild, At
<1>2. PICK b : b = t.build
  OBVIOUS
<1>3. b \in 1 .. Len(builds) /\ SameBranch(builds[b], run[h].req) /\ builds[b] \in Builds
  BY <1>0, <1>1, <1>2, Lengths DEF HandlerOK, Sweeps
<1>4. /\ DOMAIN builds' = DOMAIN builds /\ builds'[b].ads = TRUE /\ builds'[b].cr = builds[b].cr
      /\ \A i \in DOMAIN builds : i # b => builds'[i] = builds[i]
  <2>1. PICK e : e = [builds[b] EXCEPT !.ads = TRUE, !.ver = @ + 1]
    OBVIOUS
  <2>2. builds' = [builds EXCEPT ![b] = e]
    BY <1>2, <2>1
  <2>3. e.ads = TRUE /\ e.cr = builds[b].cr
    BY <1>3, <2>1 DEF Builds
  <2> QED
    BY <1>0, <1>3, <2>2, <2>3
<1>5. \A j : BuildsOf(j)' = BuildsOf(j)
  BY <1>0, <1>3, <1>4 DEF BuildsOf
<1>6. PICK k : k = builds[b].cr
  OBVIOUS
<1>7. k \in 1 .. Len(crs) /\ BuildsOf(k) = {b}
  BY <1>0, <1>3, <1>6 DEF BuildsOK, BuildOK, OwnCheckRuns, BuildsOf
<1>8. \A j \in 1 .. Len(crs) : j # k => Entry(j)' = Entry(j)
  <2> SUFFICES ASSUME NEW j \in 1 .. Len(crs), j # k PROVE Entry(j)' = Entry(j)
    OBVIOUS
  <2>1. \A i \in BuildsOf(j) : builds'[i].ads = builds[i].ads
    BY <1>4, <1>6 DEF BuildsOf
  <2> QED
    BY <1>0, <1>1, <1>5, <2>1, SameEntry
<1>9. CASE builds[b].ads = TRUE
  <2>1. \A i \in BuildsOf(k) : builds'[i].ads = builds[i].ads
    BY <1>4, <1>7, <1>9
  <2>2. Entry(k)' = Entry(k)
    BY <1>0, <1>1, <1>5, <1>7, <2>1, SameEntry
  <2> QED
    BY <1>0, <1>1, <1>8, <2>2, SameRequested
<1>10. CASE builds[b].ads = FALSE
  <2>1. Stopped(k) = FALSE /\ Stopped(k)' = TRUE
    BY <1>4, <1>5, <1>7, <1>10 DEF Stopped
  <2>2. Entry(k)' = [Entry(k) EXCEPT !.cancelled = TRUE]
    <3>1. BranchOf(k)' = BranchOf(k)
      BY <1>0, <1>7, BranchKept
    <3>2. AnswerTo(k)' = AnswerTo(k)
      BY <1>1, <1>5 DEF AnswerTo
    <3>3. PICK s : s = Stopped(k)'
      OBVIOUS
    <3>4. Entry(k)' = [branch |-> BranchOf(k), answer |-> AnswerTo(k), cancelled |-> s]
      BY <3>1, <3>2, <3>3 DEF Entry
    <3>5. s = TRUE
      BY <2>1, <3>3
    <3>6. Entry(k) = [branch |-> BranchOf(k), answer |-> AnswerTo(k), cancelled |-> Stopped(k)]
      BY DEF Entry
    <3>7. [Entry(k) EXCEPT !.cancelled = s]
              = [branch |-> BranchOf(k), answer |-> AnswerTo(k), cancelled |-> s]
      BY <3>6, EntryCancelled
    <3> QED
      BY <3>4, <3>5, <3>7
  <2>3. Requested' = [Requested EXCEPT ![k].cancelled = TRUE]
    BY <1>0, <1>1, <1>7, <1>8, <2>2, OneEntry
  <2>4. k \in DOMAIN Requested /\ Requested[k].answer \in {"build", "both"} /\ ~Requested[k].cancelled
    BY <1>0, <1>7, <2>1, EntryTells DEF AnswerTo
  <2>5. PICK j : j = run[h].cr
    OBVIOUS
  <2>6. j # 0 /\ j \in 1 .. Len(crs) /\ crs[j].status = "queued" /\ BuildsOf(j) = {}
    BY <1>0, <1>1, <2>5 DEF HandlerOK, HasCheckRun, StillQueued, Reporting, OwnCheckRuns, BuildsOf
  <2>7. j # k
    BY <1>7, <2>6
  <2>8. BranchOf(j) = BranchOf(k)
    <3>1. /\ BranchOf(j) = <<Label[run[h].req.repo], run[h].req.ref>>
          /\ BranchOf(k) = <<Label[builds[b].req.repo], builds[b].req.ref>>
      BY <1>0, <1>3, <1>6, <2>5, <2>6, BranchAsked
    <3> QED
      BY <1>3, <3>1 DEF SameBranch
  <2>9. /\ j \in DOMAIN Requested \ {k} /\ Requested[j].branch = Requested[k].branch
        /\ Requested[j].answer = "none"
    BY <1>0, <1>7, <2>6, <2>7, <2>8, EntryTells DEF AnswerTo
  <2> QED
    BY <2>3, <2>4, <2>9 DEF Promise!Cancel
<1>11. builds[b].ads \in BOOLEAN
  BY <1>3 DEF Builds
<1> QED
  BY <1>9, <1>10, <1>11

\* Whatever leaves check runs and the cancellation of builds alone.
LEMMA OtherStep ==
    ASSUME JointInv, NextRun, crs' = crs,
           \/ builds' = builds
           \/ \E i \in DOMAIN builds : \E ended \in BOOLEAN :
                 builds' = [builds EXCEPT ![i].ended = ended, ![i].ver = @ + 1]
    PROVE  Requested' = Requested
<1>0. /\ OfItsBranch /\ TypeOKRun /\ TypeOKRun' /\ Kept
      /\ \A k \in DOMAIN builds : builds[k] \in Builds
  BY JointFacts, Lengths
<1>1. /\ DOMAIN builds' = DOMAIN builds
      /\ \A k \in DOMAIN builds : builds'[k].cr = builds[k].cr /\ builds'[k].ads = builds[k].ads
  <2>1. ASSUME NEW i \in DOMAIN builds, NEW ended \in BOOLEAN,
               builds' = [builds EXCEPT ![i].ended = ended, ![i].ver = @ + 1]
        PROVE  /\ DOMAIN builds' = DOMAIN builds
               /\ \A k \in DOMAIN builds : /\ builds'[k].cr = builds[k].cr
                                           /\ builds'[k].ads = builds[k].ads
    <3>1. PICK e : e = [builds[i] EXCEPT !.ended = ended, !.ver = @ + 1]
      OBVIOUS
    <3>2. builds' = [builds EXCEPT ![i] = e]
      BY <2>1, <3>1
    <3>3. e.ads = builds[i].ads /\ e.cr = builds[i].cr
      BY <1>0, <3>1 DEF Builds
    <3> QED
      BY <3>2, <3>3
  <2> QED
    BY <2>1
<1>2. \A k \in 1 .. Len(crs) : Entry(k)' = Entry(k)
  <2> SUFFICES ASSUME NEW k \in 1 .. Len(crs) PROVE Entry(k)' = Entry(k)
    OBVIOUS
  <2>1. BuildsOf(k)' = BuildsOf(k) /\ \A i \in BuildsOf(k) : builds'[i].ads = builds[i].ads
    BY <1>1 DEF BuildsOf
  <2> QED
    BY <1>0, <2>1, SameEntry
<1> QED
  BY <1>0, <1>2, SameRequested

\* Every step is one of BuildRequests, or leaves the requests alone.
LEMMA RequestStep ==
    JointInv /\ [NextRun]_runAll => [Promise!RequestNext]_<<Requested, ~Unharmed>>
<1> SUFFICES ASSUME JointInv, [NextRun]_runAll
             PROVE  [Promise!RequestNext]_<<Requested, ~Unharmed>>
  OBVIOUS
<1>1. CASE NextRun
  <2>1. (~Unharmed)' \in {~Unharmed, TRUE}
    <3>1. Unharmed' => Unharmed
      BY <1>1, JointFacts
    <3> QED
      BY <3>1
  <2>2. \/ Promise!Ask
        \/ \E k \in DOMAIN Requested : Promise!Answer(k) \/ Promise!Contradict(k) \/ Promise!Cancel(k)
        \/ Requested' = Requested
    <3>1. ASSUME NEW h \in Callers, CreateCheckRun(h), crs' = Append(crs, Queued(h))
          PROVE  Promise!Ask
      BY <1>1, <3>1, AskStep
    <3>2. ASSUME NEW h \in Callers, checkRunError(h),
                 crs' = [crs EXCEPT ![run[h].cr].status = "failed"]
          PROVE  \E k \in DOMAIN Requested : Promise!Answer(k) \/ Promise!Contradict(k)
      BY <1>1, <3>2, ErrorStep
    <3>3. ASSUME NEW h \in Callers, CreateWorkflow(h), builds' = Append(builds, Created(h))
          PROVE  \E k \in DOMAIN Requested : Promise!Answer(k)
      BY <1>1, <3>3, BuildStep
    <3>4. ASSUME NEW h \in Callers, NEW t \in run[h].todo, CancelBuild(h),
                 builds' = [builds EXCEPT ![t.build].ads = TRUE, ![t.build].ver = @ + 1]
          PROVE  (\E k \in DOMAIN Requested : Promise!Cancel(k)) \/ Requested' = Requested
      BY <1>1, <3>4, CancelStep
    <3>5. ASSUME crs' = crs,
                 \/ builds' = builds
                 \/ \E i \in DOMAIN builds : \E ended \in BOOLEAN :
                       builds' = [builds EXCEPT ![i].ended = ended, ![i].ver = @ + 1]
          PROVE  Requested' = Requested
      BY <1>1, <3>5, OtherStep
    <3> QED
      BY <1>1, <3>1, <3>2, <3>3, <3>4, <3>5, CheckRunsShape, BuildsShape
  <2> QED
    BY <2>1, <2>2 DEF Promise!RequestNext
<1>2. CASE UNCHANGED runAll
  <2>1. UNCHANGED <<commits, crs, builds, budget>>
    BY <1>2 DEF runAll, runVars
  <2> QED
    BY <2>1 DEF Requested, BuildsOf, BranchOf, Unharmed
<1> QED
  BY <1>1, <1>2

\* RunWorkflow implements BuildRequests, with branches as their labels tell
\* them apart: a request is answered once, by a build or an error, nothing is
\* built after an error was reported, and a build is cancelled once and only in
\* favour of a request for its branch that is still open - with hang-ups,
\* failed calls and crashes (runWorkflow, cancelRunningWorkflows).
THEOREM RequestsAnswered == RunSpec => ImplementsRequests
<1>1. InitRun => Promise!RequestInit
  <2> SUFFICES ASSUME InitRun PROVE Promise!RequestInit
    OBVIOUS
  <2>1. Requested = <<>>
    BY DEF InitRun, Requested
  <2>2. Unharmed
    BY DEF InitRun, InitCache, Unharmed
  <2> QED
    BY <2>1, <2>2 DEF Promise!RequestInit
<1> QED
  BY <1>1, RequestStep, JointAlways, PTL
     DEF RunSpec, ImplementsRequests, Promise!RequestSpec, Promise!requestVars
=============================================================================
