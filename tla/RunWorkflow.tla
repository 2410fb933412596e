----------------------------- MODULE RunWorkflow ------------------------------
(***************************************************************************)
(* From a webhook to a running workflow: runWorkflow (workflow.go:646) and *)
(* the handlers that call it (webhook.go, slashcmds.go).  Every delivery   *)
(* is handled by a goroutine of its own, so any number of them work on the *)
(* same branch at once: each reads the CI files, creates a check run,      *)
(* cancels the builds the informer's cache shows for the branch, makes     *)
(* sure of the cache volume and creates the workflow.  GitHub may hang up  *)
(* on a delivery at any time, which fails the calls that use the request's *)
(* context; the process may die.  What the syncer does with a workflow     *)
(* once it exists is the matter of CheckRunSync.                           *)
(***************************************************************************)
EXTENDS BuildPolicy, CacheVolumes, Sequences

CONSTANTS
    Pushes,     \* what may be pushed: [repo, ref, type, def]
    Requests,   \* what may be asked for: [event, repo, ref, type, prs, entry]
    MaxCommits, \* bound: commits pushed
    MaxVer      \* bound: versions of a build Argo writes

VARIABLES
    commits,    \* what was pushed, oldest first
    crs,        \* check runs on GitHub, by id
    builds,     \* the Workflow objects kube-ci created
    cached,     \* the version of each build in the informer's cache, 0: none
    run         \* the handlers

runVars == <<commits, crs, builds, cached, run>>
runAll == <<runVars, cacheVars, budget>>

ASSUME RunAssumption ==
    /\ \A p \in Pushes : p.repo \in Repos /\ p.ref \in Refs /\ p.type \in RefTypes
    /\ \A p \in Pushes : p.def \in Definitions
    /\ \A r \in Requests : /\ r.event \in EventKinds /\ r.repo \in Repos /\ r.ref \in Refs
                           /\ r.type \in RefTypes /\ r.entry \in Templates \cup {NoEntry}
    /\ MaxCommits \in Nat /\ MaxVer \in Nat

Pcs == {"idle", "read", "create", "decide", "sweep", "ensure", "fail", "done"}
NoReq == [event |-> "none"]

Runs ==
    [pc: Pcs,
     req: Requests \cup {NoReq},
     sha: Nat,                  \* the commit asked for
     def: Nat,                  \* the commit the CI files came from
     ok: BOOLEAN,               \* neither wfErr nor epErr
     cr: Nat,                   \* its check run, 0 before there is one
     todo: SUBSET [build: Nat, ver: Nat],   \* cached builds yet to cancel
     up: BOOLEAN]               \* GitHub still waits for the answer

Builds ==
    [req: Requests, sha: Nat, def: Nat, cr: Nat,
     ads: BOOLEAN,              \* activeDeadlineSeconds = 0
     ended: BOOLEAN,
     ver: Nat]                  \* resourceVersion

NoRun == [pc |-> "idle", req |-> NoReq, sha |-> 0, def |-> 0, ok |-> FALSE,
          cr |-> 0, todo |-> {}, up |-> TRUE]

TypeOKRun ==
    /\ TypeOKCache
    /\ commits \in Seq(Pushes)
    /\ crs \in Seq([sha: Nat, status: {"queued", "failed"}])
    /\ builds \in Seq(Builds)
    /\ cached \in Seq(Nat) /\ Len(cached) = Len(builds)
    /\ run \in [Callers -> Runs]

InitRun ==
    /\ InitCache
    /\ commits = <<>>
    /\ crs = <<>>
    /\ builds = <<>>
    /\ cached = <<>>
    /\ run = [h \in Callers |-> NoRun]

CommitsOf(repo, ref) == {k \in DOMAIN commits : commits[k].repo = repo /\ commits[k].ref = ref}
HeadOf(repo, ref) == CHOOSE k \in CommitsOf(repo, ref) : \A j \in CommitsOf(repo, ref) : j <= k

\* The CI files handler h works with.
Def(h) == commits[run[h].def].def

At(h, pc) == run[h].pc = pc
Goto(h, pc) == run' = [run EXCEPT ![h].pc = pc]

\* A call that uses the request's context fails.
Lost(h) == Spend("fault") \/ (~run[h].up /\ UNCHANGED budget)

-----------------------------------------------------------------------------
(* The handlers.                                                           *)

\* A tag is looked up (GetRef) and so is a comment's pull request
\* (GetPullRequest): these give the head there is now.
HeadEvents == {"create_tag", "slash_run"}

\* A delivery arrives.  Checks may be asked for any commit.
Receive(h) ==
    /\ At(h, "idle")
    /\ \E req \in Requests : \E sha \in CommitsOf(req.repo, req.ref) :
          /\ commits[sha].type = req.type
          /\ req.event \in HeadEvents => sha = HeadOf(req.repo, req.ref)
          /\ run' = [run EXCEPT ![h].pc = "read", ![h].req = req, ![h].sha = sha]
    /\ UNCHANGED <<commits, crs, builds, cached, cacheVars, budget>>

\* getWorkflow reads the files at the ref, that is at its head; without any,
\* or if this kind of ref is not built, nothing happens at all.  A failed
\* read is reported like a broken file, or the handler panics.
getWorkflow(h) ==
    /\ At(h, "read")
    /\ LET req == run[h].req
           head == HeadOf(req.repo, req.ref)
           def == commits[head].def
           found(ok) == run' = [run EXCEPT ![h].pc = "create", ![h].def = head, ![h].ok = ok]
       IN  \/ /\ run[h].up /\ UNCHANGED budget
              /\ \/ def.ci = "absent" /\ Goto(h, "done")
                 \/ def.ci = "broken" /\ found(FALSE)
                 \/ def.ci = "good" /\ ~runBranchOrTag(req.type, def) /\ Goto(h, "done")
                 \/ /\ def.ci = "good" /\ runBranchOrTag(req.type, def)
                    /\ found(setupEntrypoint(req, def))
           \/ Lost(h) /\ (found(FALSE) \/ Goto(h, "done"))
    /\ UNCHANGED <<commits, crs, builds, cached, cacheVars>>

\* Without a check run nothing is reported and nothing is built.  (The update
\* that follows sets "queued" once more and is not a step.)
CreateCheckRun(h) ==
    /\ At(h, "create")
    /\ LET new == crs' = Append(crs, [sha |-> run[h].sha, status |-> "queued"])
       IN  \/ /\ run[h].up /\ UNCHANGED budget
              /\ new
              /\ run' = [run EXCEPT ![h].pc = "decide", ![h].cr = Len(crs')]
           \/ Lost(h) /\ Goto(h, "done") /\ UNCHANGED crs
           \/ Spend("fault") /\ run[h].up /\ new /\ Goto(h, "done")
    /\ UNCHANGED <<commits, builds, cached, cacheVars>>

Accepted(h) == run[h].ok /\ policy(run[h].req.ref, run[h].req.prs)

\* A parse error, a wrong entrypoint or the policy.
Reject(h) ==
    /\ At(h, "decide") /\ ~Accepted(h)
    /\ Goto(h, "fail")
    /\ UNCHANGED <<commits, crs, builds, cached, cacheVars, budget>>

\* Bug: the error is reported and the handler goes on.
BugGoesOn(h) ==
    /\ At(h, "fail")
    /\ crs' = [crs EXCEPT ![run[h].cr].status = "failed"]
    /\ run' = [run EXCEPT ![h].pc = "ensure"]
    /\ ens' = [ens EXCEPT ![h] = [pc |-> "ok", vol |-> {}]]
    /\ UNCHANGED <<commits, builds, cached, pvcs, jobs, pods, budget>>

checkRunError(h) ==
    /\ At(h, "fail")
    /\ \/ run[h].up /\ crs' = [crs EXCEPT ![run[h].cr].status = "failed"] /\ UNCHANGED budget
       \/ Lost(h) /\ UNCHANGED crs
    /\ Goto(h, "done")
    /\ UNCHANGED <<commits, builds, cached, cacheVars>>

\* Bug: all builds of the repository are listed.
BugSameRepo(b, req) == Label[b.req.repo] = Label[req.repo]

\* The builds a request cancels: found by labels, and by the ref itself.
SameBranch(b, req) == Label[b.req.repo] = Label[req.repo] /\ b.req.ref = req.ref

\* cancelRunningWorkflows lists what the cache holds ...
ListBuilds(h) ==
    /\ At(h, "decide") /\ Accepted(h)
    /\ run' = [run EXCEPT
          ![h].pc = "sweep",
          ![h].todo = {[build |-> i, ver |-> cached[i]] :
                          i \in {k \in DOMAIN builds :
                                    cached[k] # 0 /\ SameBranch(builds[k], run[h].req)}}]
    /\ UNCHANGED <<commits, crs, builds, cached, cacheVars, budget>>

\* ... and writes each copy back with a zero deadline; errors are dropped.
CancelBuild(h) ==
    /\ At(h, "sweep")
    /\ \E t \in run[h].todo :
          /\ run' = [run EXCEPT ![h].todo = @ \ {t}]
          /\ \/ /\ builds[t.build].ver = t.ver
                /\ builds' = IF builds[t.build].ads THEN builds
                             ELSE [builds EXCEPT ![t.build].ads = TRUE, ![t.build].ver = @ + 1]
                /\ UNCHANGED budget
             \/ builds[t.build].ver # t.ver /\ UNCHANGED <<builds, budget>>
             \/ Spend("fault") /\ UNCHANGED builds
    /\ UNCHANGED <<commits, crs, cached, cacheVars>>

StartEnsure(h) ==
    /\ At(h, "sweep") /\ run[h].todo = {}
    /\ EnsureStart(h, Def(h).scope, run[h].req.repo, run[h].req.ref)
    /\ Goto(h, "ensure")
    /\ UNCHANGED <<commits, crs, builds, cached, budget>>

\* Bug: the handler gives up without a word.
BugEnsureSilent(h) ==
    /\ At(h, "ensure") /\ ens[h].pc = "err"
    /\ Goto(h, "done")
    /\ UNCHANGED <<commits, crs, builds, cached, cacheVars, budget>>

EnsureFailed(h) ==
    /\ At(h, "ensure") /\ ens[h].pc = "err"
    /\ Goto(h, "fail")
    /\ UNCHANGED <<commits, crs, builds, cached, cacheVars, budget>>

\* The workflow is created, with the check run's id; the reply may be lost.
CreateWorkflow(h) ==
    /\ At(h, "ensure") /\ ens[h].pc = "ok"
    /\ LET new == /\ builds' = Append(builds, [req |-> run[h].req, sha |-> run[h].sha,
                                       def |-> run[h].def, cr |-> run[h].cr,
                                       ads |-> FALSE, ended |-> FALSE, ver |-> 1])
                  /\ cached' = Append(cached, 0)
       IN  \/ run[h].up /\ new /\ Goto(h, "done") /\ UNCHANGED budget
           \/ Lost(h) /\ Goto(h, "fail") /\ UNCHANGED <<builds, cached>>
           \/ Spend("fault") /\ run[h].up /\ new /\ Goto(h, "fail")
    /\ UNCHANGED <<commits, crs, cacheVars>>

\* runWorkflow after it has its check run, in the order of the code.
runWorkflow(h) ==
    \/ Reject(h) \/ checkRunError(h)
    \/ ListBuilds(h) \/ CancelBuild(h) \/ StartEnsure(h)
    \/ Ensure(h) /\ UNCHANGED runVars
    \/ EnsureFailed(h) \/ CreateWorkflow(h)

-----------------------------------------------------------------------------
(* What goes on around them.                                               *)

Push ==
    /\ Len(commits) < MaxCommits
    /\ \E p \in Pushes : commits' = Append(commits, p)
    /\ UNCHANGED <<crs, builds, cached, run, cacheVars, budget>>

\* Argo writes the status of a build, or ends it.
Argo(i) ==
    /\ builds[i].ver < MaxVer /\ ~builds[i].ended
    /\ \E ended \in BOOLEAN :
          builds' = [builds EXCEPT ![i].ended = ended, ![i].ver = @ + 1]
    /\ UNCHANGED <<commits, crs, cached, run, cacheVars, budget>>

Observe(i) ==
    /\ cached[i] < builds[i].ver
    /\ cached' = [cached EXCEPT ![i] = builds[i].ver]
    /\ UNCHANGED <<commits, crs, builds, run, cacheVars, budget>>

\* GitHub gives up on a delivery.
Hangup(h) ==
    /\ Spend("hangup")
    /\ ~At(h, "idle") /\ ~At(h, "done")
    /\ run' = [run EXCEPT ![h].up = FALSE]
    /\ UNCHANGED <<commits, crs, builds, cached, cacheVars>>

\* The process dies and starts again: the handlers are gone, the informer lists.
Crash ==
    /\ Spend("crash")
    /\ CrashCalls
    /\ run' = [h \in Callers |-> IF At(h, "idle") THEN run[h] ELSE [run[h] EXCEPT !.pc = "done"]]
    /\ cached' = [i \in DOMAIN builds |-> builds[i].ver]
    /\ UNCHANGED <<commits, crs, builds, pvcs, pods>>

\* A branch or a repository is deleted, or a button clears the cache.  Which
\* claims deletePVC takes away, and how, is the matter of CacheVolumes: here
\* any claim may go, all at once, since ensurePVC does not tell a claim that
\* is being deleted from another.
DeleteCache ==
    /\ \E v \in Volumes : pvcs[v] # "absent" /\ pvcs' = [pvcs EXCEPT ![v] = "absent"]
    /\ UNCHANGED <<runVars, ens, jobs, pods, budget>>

NextRun ==
    \/ \E h \in Callers : Receive(h) \/ getWorkflow(h) \/ CreateCheckRun(h) \/ runWorkflow(h)
    \/ Push \/ DeleteCache \/ Crash
    \/ \E h \in Callers : Hangup(h)
    \/ \E i \in DOMAIN builds : Argo(i) \/ Observe(i)

RunSpec == InitRun /\ [][NextRun]_runAll

-----------------------------------------------------------------------------

\* Requests for what kube-ci takes for one branch: the refs are the same, and
\* the repositories as far as their labels go.
OneBranch(r, s) == Alike(r.repo, s.repo) /\ r.ref = s.ref

Busy(req) == \E h \in Callers : run[h].pc \notin {"idle", "done"} /\ OneBranch(run[h].req, req)

\* When a handler is through, its check run has a workflow that the syncer
\* will report on, or shows why there is none: none is left queued for ever,
\* as long as every call gets through (runWorkflow's error returns).
ReportedOrBuilt ==
    Unharmed => \A h \in Callers : run[h].pc = "done" /\ run[h].cr # 0 =>
        \/ crs[run[h].cr].status = "failed"
        \/ \E i \in DOMAIN builds : builds[i].cr = run[h].cr

\* Builds cancel one another, but not all of them: when the handlers for a
\* branch are through and none of them failed, one build of it was not
\* cancelled, however they and the cache overlapped (a handler cancels
\* before it creates).  A branch is what kube-ci takes for one: a build may well
\* have made way for one of another repository with the same label.
BranchKeepsABuild ==
    Unharmed => \A i \in DOMAIN builds :
        LET req == builds[i].req
        IN  ~Busy(req) =>
               \/ \E k \in DOMAIN builds : OneBranch(builds[k].req, req) /\ ~builds[k].ads
               \/ \E h \in Callers :
                     /\ run[h].pc = "done" /\ run[h].cr # 0 /\ OneBranch(run[h].req, req)
                     /\ crs[run[h].cr].status = "failed"

\* A build has a check run of its own, for the same commit, which setup did
\* not report as failed (unless a reply was lost).
CheckRunOfBuild ==
    \A i \in DOMAIN builds :
        /\ crs[builds[i].cr].sha = builds[i].sha
        /\ \A k \in DOMAIN builds : builds[k].cr = builds[i].cr => k = i
        /\ Unharmed => crs[builds[i].cr].status = "queued"

\* The build policy of the README: no build of a draft or a foreign pull
\* request, of a branch that is not configured, or of a kind of ref the
\* workflow does not want.
BuildsArePermitted ==
    \A i \in DOMAIN builds :
        LET req == builds[i].req
            def == commits[builds[i].def].def
        IN  /\ req.type = "tag" => def.forTag = "true"
            /\ req.type = "branch" => def.forBranch # "false"
            /\ req.prs = {} => req.ref \in BuildBranches
            /\ req.prs # {} => /\ \A pr \in req.prs : pr.local
                               /\ \E pr \in req.prs : pr.base \in BuildBranches
                               /\ BuildDraftPRs \/ \E pr \in req.prs : ~pr.draft
            /\ req.event = "deployment" => req.entry \in def.deploys

\* A build is cancelled only in favour of one of its own branch, of its own
\* repository: "We'll cancel all in-progress checks for this repo/branch"
\* (workflow.go:134-135).
CancelsOwnBranch ==
    [][\A i \in DOMAIN builds : builds'[i].ads # builds[i].ads =>
            \E h \in Callers : /\ run[h].pc = "sweep" /\ Accepted(h)
                               /\ run[h].req.repo = builds[i].req.repo
                               /\ run[h].req.ref = builds[i].req.ref]_builds

\* The branch of a request as kube-ci knows it.
BranchOf(k) == <<Label[commits[crs[k].sha].repo], commits[crs[k].sha].ref>>
BuildsOf(k) == {i \in DOMAIN builds : builds[i].cr = k}

\* The requests that have a check run, and what has become of them.
Requested ==
    [k \in DOMAIN crs |->
        LET made == BuildsOf(k)
            failed == crs[k].status = "failed"
        IN  [branch |-> BranchOf(k),
             answer |-> IF made = {} THEN IF failed THEN "error" ELSE "none"
                        ELSE IF failed THEN "both" ELSE "build",
             cancelled |-> \E i \in made : builds[i].ads]]

Promise == INSTANCE BuildRequests
             WITH Branches <- {Label[r] : r \in Repos} \X Refs, requests <- Requested, mishap <- ~Unharmed

\* A request is answered once, nothing is built after an error was reported,
\* and a build is cancelled only in favour of a request for its branch (by ref
\* and label) that is still open, however handlers, hang-ups and crashes overlap.
ImplementsRequests == Promise!RequestSpec

\* A request whose CI files and entrypoint are right, but that was not built.
Refused(h) ==
    /\ At(h, "done") /\ run[h].cr # 0 /\ run[h].ok /\ ens[h].pc # "err"
    /\ \A i \in DOMAIN builds : builds[i].cr # run[h].cr

\* What is asked for by name is built: a new tag whose workflow has runForTag
\* set to "true" (README.md:46-48), and a pull request on "/kube-ci run", which
\* is what the policy's rejections recommend (README.md:49-51, workflow.go:356).
AskedIsBuilt ==
    Unharmed => \A h \in Callers :
        run[h].req.event \in {"create_tag", "slash_run"} => ~Refused(h)
=============================================================================
