------------------------------- MODULE Webhooks --------------------------------
(***************************************************************************)
(* The round trip between GitHub, its users and kube-ci (webhook.go,       *)
(* slashcmds.go, and what controller.go leaves on GitHub).  Users push,    *)
(* press buttons and write comments; GitHub delivers an event for each of  *)
(* these and for everything kube-ci itself does there - its check runs,    *)
(* deployments, comments and commits - in any order and some of them       *)
(* never; a handler answers a delivery.  Each delivery carries the number  *)
(* of the user's act that led to it, which exists in the model only.       *)
(* runWorkflow and the syncer's report are one step here: RunWorkflow and  *)
(* CheckRunSync take them apart.                                           *)
(***************************************************************************)
EXTENDS ManualSteps, SequencesExt

CONSTANTS
    Tags,       \* the refs that are tags
    PRs,        \* open pull requests: [head, base, local, draft]
    Files,      \* the CI files a user may push: [def, notes]
    Template,   \* the CI files "/kube-ci setup" writes
    Branches,   \* the branches there are at first; the last was just pushed
    Members,    \* the users in the organisation
    Bot,        \* the author of kube-ci's own comments
    Remarks,    \* what may be said where: [by, cmd, prs]
    Deploys,    \* what other tools may deploy: [ref, type, task, run]
    NoRef,      \* stands for the empty branch
    MaxAsks     \* bound: acts of users

VARIABLES
    asks,       \* what users did, oldest first
    commits,    \* by id ("sha"): its branch and its CI files
    head,       \* where each ref points, 0: there is no such ref
    checks,     \* check runs on GitHub, by id
    builds,     \* the workflows
    setups,     \* setup commands between their two calls
    cleared,    \* what deletePVC was called for
    inbox       \* deliveries on their way, a bag

hookVars == <<asks, commits, head, checks, builds, setups, cleared, inbox>>

AllFiles == Files \cup {Template}

\* No command, one that is not understood, one whose arguments cannot be
\* read, and the three that are carried out.
Cmds == {"none", "help", "garbled", "run", "deploy", "setup"}

\* What the payload of a deployment may say of its ref.
PayloadTypes == RefTypes \cup {"none", "other"}

ASSUME HooksAssumption ==
    /\ Tags \subseteq Refs /\ NoRef \notin Refs /\ Bot \notin Members
    /\ DefaultBranch \notin Tags
    /\ \A f \in AllFiles : /\ f.def \in Definitions /\ f.notes \in StepNotes
                           /\ IsFiniteSet(f.def.templates)
    /\ \A pr \in PRs : pr.head \in Refs \ Tags /\ pr.base \in Refs \ Tags
    /\ Branches \in Seq([ref: Refs \ Tags, files: AllFiles]) /\ Branches # <<>>
    /\ \A r \in Remarks : r.cmd \in Cmds /\ r.prs \subseteq PRs
    /\ Deploys \subseteq [ref: Refs, type: PayloadTypes, task: Templates, run: BOOLEAN]
    /\ MaxAsks \in Nat

Buttons == {"run", "skip", "clearCache", "clearCacheBranch"}

Checks ==
    [task: Templates \cup {NoEntry},    \* its name and its ExternalID
     deploy: BOOLEAN,                   \* "(deployment)" in the name
     sha: Nat,
     state: {"queued", "success", "failure", "cancelled", "neutral", "action_required"},
     buttons: SUBSET Buttons]

\* Builds and other effects name the act they go back to: "cause".
TypeOKHooks ==
    /\ \A k \in DOMAIN commits : commits[k].ref \in Refs /\ commits[k].files \in AllFiles
    /\ head \in [Refs -> 0 .. Len(commits)]
    /\ checks \in Seq(Checks)
    /\ builds \in Seq([check: DOMAIN checks, ref: Refs, files: DOMAIN commits,
                       cause: DOMAIN asks, ads: BOOLEAN, running: BOOLEAN])
    /\ setups \subseteq [ref: Refs, seen: AllFiles, cause: DOMAIN asks]
    /\ cleared \subseteq [ref: Refs \cup {NoRef}, cause: DOMAIN asks]
    /\ IsABag(inbox)

-----------------------------------------------------------------------------
(* What users did, and deliveries.                                         *)

Suite(app, action, sha, cause) ==
    [kind |-> "check_suite", app |-> app, action |-> action, sha |-> sha, cause |-> cause]
CheckRun(action, check, button, cause) ==
    [kind |-> "check_run", action |-> action, check |-> check, button |-> button, cause |-> cause]
Deployment(sha, ref, type, task, run, cause) ==
    [kind |-> "deployment", sha |-> sha, ref |-> ref, type |-> type, task |-> task, run |-> run,
     cause |-> cause]
Comment(by, cmd, prs, cause) ==
    [kind |-> "comment", by |-> by, cmd |-> cmd, prs |-> prs, cause |-> cause]
Plain(kind, ref, cause) == [kind |-> kind, ref |-> ref, cause |-> cause]

About(act, sha, task) == [act |-> act, sha |-> sha, task |-> task]
PutRef(ref, sha) == [act |-> "create", ref |-> ref, sha |-> sha]

InitHooks ==
    /\ asks = <<About("push", Len(Branches), NoEntry)>>
    /\ checks = <<>> /\ builds = <<>>
    /\ commits = Branches
    /\ head = [r \in Refs |-> SelectLastInSeq(Branches, LAMBDA b : b.ref = r)]
    /\ setups = {} /\ cleared = {}
    /\ inbox = SetToBag({Suite("own", "requested", Len(Branches), 1)})

Send(out) == inbox' = inbox (+) SetToBag(out)
Answer(d, out) == inbox' = (inbox (-) SetToBag({d})) (+) SetToBag(out)

\* A delivery that is answered without doing anything.
Ignore(d) == Answer(d, {}) /\ UNCHANGED <<asks, commits, head, checks, builds, setups, cleared>>

\* slashComment: the reply is a comment like any other.
Reply(d) ==
    /\ Answer(d, {Comment(Bot, "none", d.prs, d.cause)})
    /\ UNCHANGED <<asks, commits, head, checks, builds, setups, cleared>>

-----------------------------------------------------------------------------
(* runWorkflow, in one step.                                               *)

\* The local pull requests GitHub lists for a branch.
PRsOf(ref) == {pr \in PRs : pr.head = ref /\ pr.local}

Request(event, type, entry, ref, prs, sha) ==
    [event |-> event, type |-> type, entry |-> entry, ref |-> ref, prs |-> prs, sha |-> sha]

\* The build of the branch that runs is cancelled, the new one created.
NewBuild(d, req) ==
    [i \in DOMAIN builds |->
        IF builds[i].ref = req.ref THEN [builds[i] EXCEPT !.ads = TRUE] ELSE builds[i]]
      \o <<[check |-> Len(checks) + 1, ref |-> req.ref, files |-> head[req.ref],
            cause |-> d.cause, ads |-> FALSE, running |-> TRUE]>>

\* Bug: a build without a check run.
BugUnchecked(d, req) ==
    /\ builds' = NewBuild(d, req)
    /\ Answer(d, {})
    /\ UNCHANGED <<asks, commits, head, checks, setups, cleared>>

\* A request the files at its ref are there for: a check run, and a build
\* unless the files, the entrypoint or the policy forbid it.
Report(d, req) ==
    LET def == commits[head[req.ref]].files.def
        named == def.ci = "good" /\ setupEntrypoint(req, def)
        built == named /\ policy(req.ref, req.prs)
    IN  /\ checks' = Append(checks,
              [task |-> IF named THEN Entrypoint(req, def) ELSE NoEntry,
               deploy |-> named /\ req.event = "deployment",
               sha |-> req.sha, state |-> IF built THEN "queued" ELSE "failure",
               buttons |-> {}])
        /\ builds' = IF built THEN NewBuild(d, req) ELSE builds
        /\ Answer(d, {})
        /\ UNCHANGED <<asks, commits, head, setups, cleared>>

Wanted(req) ==
    /\ head[req.ref] # 0
    /\ LET def == commits[head[req.ref]].files.def
       IN  def.ci = "broken" \/ (def.ci = "good" /\ runBranchOrTag(req.type, def))

runWorkflow(d, req) ==
    \/ Wanted(req) /\ Report(d, req)
    \/ ~Wanted(req) /\ Ignore(d)

-----------------------------------------------------------------------------
(* webhookPayload: one action per kind of delivery.                        *)

\* Both kinds of rerun ask for the default template.
RunSuite(d, sha) ==
    LET ref == commits[sha].ref
    IN  runWorkflow(d, Request("check_suite", "branch", NoEntry, ref, PRsOf(ref), sha))

webhookCheckSuite(d) ==
    /\ d.kind = "check_suite"
    /\ \/ /\ d.app = "own" /\ d.action \in {"requested", "rerequested"}
          /\ RunSuite(d, d.sha)
       \/ ~(d.app = "own" /\ d.action \in {"requested", "rerequested"}) /\ Ignore(d)

\* The tag is looked up when the event is handled.
webhookCreate(d) ==
    /\ d.kind = "create"
    /\ \/ /\ d.ref \in Tags /\ head[d.ref] # 0
          /\ runWorkflow(d, Request("create_tag", "tag", NoEntry, d.ref, {}, head[d.ref]))
       \/ ~(d.ref \in Tags /\ head[d.ref] # 0) /\ Ignore(d)

\* Bug: the button runs the default template.
BugRunDefault(d) ==
    /\ d.kind = "check_run" /\ d.button = "run"
    /\ RunSuite(d, checks[d.check].sha)

PressedRun(d) ==
    /\ d.kind = "check_run" /\ d.button = "run"
    /\ LET check == checks[d.check]
           ref == commits[check.sha].ref
       IN  runWorkflow(d, Request("run_action", "branch", check.task, ref, PRsOf(ref), check.sha))

PressedSkip(d) ==
    /\ d.kind = "check_run" /\ d.button = "skip"
    /\ checks' = [checks EXCEPT ![d.check].state = "neutral"]
    /\ Answer(d, {})
    /\ UNCHANGED <<asks, commits, head, builds, setups, cleared>>

Clear(d, ref) ==
    /\ cleared' = cleared \cup {[ref |-> ref, cause |-> d.cause]}
    /\ Answer(d, {})
    /\ UNCHANGED <<asks, commits, head, checks, builds, setups>>

\* Bug: the button for one branch clears them all.
BugClearAll(d) ==
    d.kind = "check_run" /\ d.button \in {"clearCache", "clearCacheBranch"} /\ Clear(d, NoRef)

\* The branch is the one GitHub names for the commit.
PressedClear(d) ==
    /\ d.kind = "check_run"
    /\ \/ d.button = "clearCache" /\ Clear(d, NoRef)
       \/ d.button = "clearCacheBranch" /\ Clear(d, commits[checks[d.check].sha].ref)

webhookCheckRun(d) ==
    \/ PressedRun(d) \/ PressedSkip(d) \/ PressedClear(d)
    \/ d.kind = "check_run" /\ d.action = "rerequested" /\ RunSuite(d, checks[d.check].sha)
    \/ d.kind = "check_run" /\ d.action \in {"created", "completed"} /\ Ignore(d)

\* Only a payload that says so runs anything.  The ref is taken for a branch
\* unless the payload says that it is a tag.
webhookDeployment(d) ==
    /\ d.kind = "deployment"
    /\ LET type == IF d.type = "none" THEN "branch" ELSE d.type
       IN  \/ /\ d.run /\ type \in RefTypes
              /\ runWorkflow(d, Request("deployment", type, d.task, d.ref, {}, d.sha))
           \/ ~(d.run /\ type \in RefTypes) /\ Ignore(d)

\* deployment_status, and an opened issue: with a command in it the handler
\* looks for an installation the event it made up does not have, and panics.
webhookOther(d) == d.kind \in {"deployment_status", "issue"} /\ Ignore(d)

webhookDelete(d) ==
    /\ d.kind = "delete"
    /\ \/ d.ref \notin Tags /\ Clear(d, d.ref)
       \/ d.ref \in Tags /\ Ignore(d)

\* Archived or deleted.
webhookRepository(d) == d.kind = "repository" /\ Clear(d, NoRef)

-----------------------------------------------------------------------------
(* Slash commands.  d.prs holds the pull request that was commented on;    *)
(* it is empty on an issue.                                                *)

slashRun(d) ==
    \/ d.prs = {} /\ Reply(d)
    \/ \E pr \in d.prs :
          \/ /\ head[pr.head] # 0
             /\ runWorkflow(d, Request("slash_run", "branch", NoEntry, pr.head, {pr}, head[pr.head]))
          \/ head[pr.head] = 0 /\ Ignore(d)

\* The branch to work on; other repositories' branches are refused.
issueHead(d) ==
    {ref \in Refs :
        /\ head[ref] # 0
        /\ \/ d.prs = {} /\ ref = DefaultBranch
           \/ \E pr \in d.prs : pr.local /\ ref = pr.head}

\* The deployment has no task of its own and no payload.  GitHub may refuse it.
slashDeploy(d) ==
    \/ Ignore(d)
    \/ \E ref \in issueHead(d) :
          /\ Answer(d, {Deployment(head[ref], ref, "none", NoEntry, FALSE, d.cause)})
          /\ UNCHANGED <<asks, commits, head, checks, builds, setups, cleared>>

\* First call: the listing of the CI directory, which fails without one.
slashSetup(d) ==
    \/ issueHead(d) = {} /\ Reply(d)
    \/ \E ref \in issueHead(d) :
          LET files == commits[head[ref]].files
          IN  \/ files.def.ci = "absent" /\ Ignore(d)
              \/ /\ files.def.ci # "absent"
                 /\ setups' = setups \cup {[ref |-> ref, seen |-> files, cause |-> d.cause]}
                 /\ Answer(d, {})
                 /\ UNCHANGED <<asks, commits, head, checks, builds, cleared>>

NewCommit(ref, files, cause) ==
    /\ commits' = Append(commits, [ref |-> ref, files |-> files])
    /\ head' = [head EXCEPT ![ref] = Len(commits')]
    /\ Send({Suite("own", "requested", Len(commits'), cause)})

\* Second call: GitHub takes the new file if the old one is the one listed.
SetupWrite(s) ==
    /\ s \in setups /\ setups' = setups \ {s}
    /\ \/ /\ head[s.ref] # 0 /\ commits[head[s.ref]].files = s.seen
          /\ NewCommit(s.ref, Template, s.cause)
       \/ /\ ~(head[s.ref] # 0 /\ commits[head[s.ref]].files = s.seen)
          /\ UNCHANGED <<commits, head, inbox>>
    /\ UNCHANGED <<asks, checks, builds, cleared>>

slashCommand(d) ==
    \/ d.by \notin Members /\ Reply(d)
    \/ /\ d.by \in Members
       /\ \/ d.cmd \in {"none", "help"} /\ Reply(d)
          \/ d.cmd = "garbled" /\ Ignore(d)
          \/ d.cmd = "run" /\ slashRun(d)
          \/ d.cmd = "deploy" /\ slashDeploy(d)
          \/ d.cmd = "setup" /\ slashSetup(d)

\* Bug: every comment is taken for a command.
BugAnyComment(d) == d.kind = "comment" /\ slashCommand(d)

webhookIssueComment(d) ==
    /\ d.kind = "comment"
    /\ \/ d.cmd = "none" /\ Ignore(d)
       \/ d.cmd # "none" /\ slashCommand(d)

webhookPayload(d) ==
    \/ webhookCheckSuite(d) \/ webhookCreate(d) \/ webhookCheckRun(d)
    \/ webhookDeployment(d) \/ webhookOther(d) \/ webhookIssueComment(d)
    \/ webhookDelete(d) \/ webhookRepository(d)

\* What GitHub tells of kube-ci's check runs and deployments, and of other apps'
\* check suites.  It does not change what the handlers do when, so that it may
\* come at any time and is not kept in the inbox.
Echoes ==
    {Suite("other", "requested", sha, 0) : sha \in DOMAIN commits}
      \cup {Suite("own", "completed", sha, 0) : sha \in DOMAIN commits}
      \cup {CheckRun("created", i, "none", 0) : i \in DOMAIN checks}
      \cup {CheckRun("completed", i, "none", 0) : i \in DOMAIN checks}
      \cup {Plain("deployment_status", NoRef, 0)}

\* GitHub does not repeat a delivery that failed; nor one whose handler gave up
\* because its call to GitHub did.
Undelivered(d) == Ignore(d)

-----------------------------------------------------------------------------
(* A build ends, and the syncer reports it.                                *)

\* Bug: the deployments of a build ask for another build.
BugPayloadRuns(i, task) ==
    Deployment(checks[builds[i].check].sha, builds[i].ref, "none", task, TRUE, builds[i].cause)

\* createOnDemandDeployment, for a node that ran a deployment template.  (The
\* type of the ref, which it names as well, is not looked at.)
OnDemand(i, task) ==
    Deployment(checks[builds[i].check].sha, builds[i].ref, "none", task, FALSE, builds[i].cause)

StepCheck(task, sha) ==
    [task |-> task, deploy |-> FALSE, sha |-> sha, state |-> StepConclusion(task),
     buttons |-> {"run", "skip"}]

Outcomes(i) == {"success", "failure"} \cup {x \in {"cancelled"} : builds[i].ads}

\* ran: the deployment templates the build came to.
Finish(i, outcome, ran) ==
    LET done == builds[i]
        check == checks[done.check]
        files == commits[done.files].files
        steps == IF outcome = "success"
                 THEN SetToSeq(nextCheckRunsForWorkflow(check.task, done.ref, files.def, files.notes))
                 ELSE <<>>
    IN  /\ done.running
        /\ builds' = [builds EXCEPT ![i].running = FALSE]
        /\ checks' = [checks EXCEPT ![done.check].state = outcome,
                                    ![done.check].buttons = clearCacheAction(files.def)]
                        \o [k \in DOMAIN steps |-> StepCheck(steps[k], check.sha)]
        /\ Send({OnDemand(i, task) : task \in ran})
        /\ UNCHANGED <<asks, commits, head, setups, cleared>>

EndOfBuild ==
    \E i \in DOMAIN builds : \E outcome \in Outcomes(i) :
        LET def == commits[builds[i].files].files.def
        IN  \E ran \in {{}, def.deploys \cap def.takesEnv} : Finish(i, outcome, ran)

-----------------------------------------------------------------------------
(* Users.                                                                  *)

Asked == Len(asks) + 1
Ask(a) == Len(asks) < MaxAsks /\ asks' = Append(asks, a)

Push(ref, files) ==
    /\ Ask(About("push", Len(commits) + 1, NoEntry))
    /\ NewCommit(ref, files, Asked)
    /\ UNCHANGED <<checks, builds, setups, cleared>>

\* A tag or a branch that points at an existing commit.
Create(ref, sha) ==
    /\ head[ref] = 0
    /\ Ask(PutRef(ref, sha))
    /\ head' = [head EXCEPT ![ref] = sha]
    /\ Send({Plain("create", ref, Asked)})
    /\ UNCHANGED <<commits, checks, builds, setups, cleared>>

DeleteRef(ref) ==
    /\ head[ref] # 0
    /\ Ask([act |-> "delete", ref |-> ref])
    /\ head' = [head EXCEPT ![ref] = 0]
    /\ Send({Plain("delete", ref, Asked)})
    /\ UNCHANGED <<commits, checks, builds, setups, cleared>>

\* The acts that only send an event.
Event(a, d) == Ask(a) /\ Send({d}) /\ UNCHANGED <<commits, head, checks, builds, setups, cleared>>

Rerun(i) ==
    \E d \in {Suite("own", "rerequested", checks[i].sha, Asked),
              CheckRun("rerequested", i, "none", Asked)} :
        Event(About("rerun", checks[i].sha, NoEntry), d)

\* The user sees the check run with its commit, on the commit's branch.
Press(i, button) ==
    Event([act |-> button, sha |-> checks[i].sha, ref |-> commits[checks[i].sha].ref,
           task |-> checks[i].task, check |-> i],
          CheckRun("requested_action", i, button, Asked))

Say(r) ==
    Event([act |-> "comment", by |-> r.by, cmd |-> r.cmd], Comment(r.by, r.cmd, r.prs, Asked))

\* Another tool creates a deployment, with or without a payload for kube-ci.
Deploy(dep) ==
    /\ head[dep.ref] # 0
    /\ Event([act |-> "deploy", sha |-> head[dep.ref], task |-> dep.task, run |-> dep.run],
             Deployment(head[dep.ref], dep.ref, dep.type, dep.task, dep.run, Asked))

OpenIssue == Event([act |-> "issue"], Plain("issue", NoRef, Asked))
Archive == Event([act |-> "archive"], Plain("repository", NoRef, Asked))

UserActs ==
    \/ \E ref \in Refs \ Tags, files \in Files : Push(ref, files)
    \/ \E ref \in Refs, sha \in DOMAIN commits : Create(ref, sha)
    \/ \E ref \in Refs : DeleteRef(ref)
    \/ \E i \in DOMAIN checks : Rerun(i)
    \/ \E i \in DOMAIN checks : \E button \in checks[i].buttons : Press(i, button)
    \/ \E r \in Remarks : Say(r)
    \/ \E dep \in Deploys : Deploy(dep)
    \/ OpenIssue \/ Archive

Webhook == \E d \in BagToSet(inbox) : webhookPayload(d)

NextHooks ==
    \/ UserActs
    \/ Webhook
    \/ \E d \in BagToSet(inbox) : Undelivered(d)
    \/ \E d \in Echoes : webhookPayload(d)
    \/ \E s \in setups : SetupWrite(s)
    \/ EndOfBuild

\* Deliveries are answered; builds, setups and users may take for ever.
HookSpec == InitHooks /\ [][NextHooks]_hookVars /\ WF_hookVars(Webhook)

-----------------------------------------------------------------------------

\* The acts that may lead to a build (README, Build Policy; webhookDeployment).
MayBuild(a) ==
    \/ a.act \in {"push", "create", "rerun", "run"}
    \/ a.act = "deploy" /\ a.run
    \/ a.act = "comment" /\ a.by \in Members /\ a.cmd \in {"run", "setup"}

\* The acts that may clear the cache of a branch, or of the whole repository.
MayClear(a, ref) ==
    \/ ref = NoRef /\ a.act \in {"archive", "clearCache"}
    \/ /\ ref # NoRef /\ a.ref = ref
       /\ a.act = "clearCacheBranch" \/ (a.act = "delete" /\ ref \notin Tags)

\* Nothing kube-ci does on GitHub makes it build again: each build goes back
\* to an act of a user who may ask for one, and no two builds to the same
\* act, though check runs, deployments, replies and commits of kube-ci come
\* back to it as events (webhookPayload, createOnDemandDeployment, slashCommand).
NothingUnasked ==
    \A i \in DOMAIN builds :
        /\ builds[i].cause \in DOMAIN asks /\ MayBuild(asks[builds[i].cause])
        /\ \A j \in DOMAIN builds : builds[j].cause = builds[i].cause => j = i

\* A cache is cleared only for an act that asks for it, and for the branch the
\* act was about, whatever happened to branches and check runs before the event
\* was handled: the deleted one, or the one the commit of the check run is on;
\* the whole repository's only for the button or the end of the repository.
\* (That branch is not the build's own when a tag or a deployment was built:
\* the button's "this build", controller.go:902, is more than the code does.)
CachesAsAsked == \A c \in cleared : MayClear(asks[c.cause], c.ref)

\* However late its event is handled, a build is of the commit the user
\* meant, and of the template where one was named (webhookCheckRunRequestAction
\* takes it from the check run, webhookDeployment from the task).  A tag is
\* looked up when its event is handled (webhookCreateTag): if it was moved in
\* between, the build is of a commit it was moved to.
BuildIsAsAsked ==
    \A i \in DOMAIN builds :
        LET c == builds[i].cause
            check == checks[builds[i].check]
        IN  /\ asks[c].act \in {"push", "rerun", "run", "deploy"} => check.sha = asks[c].sha
            /\ asks[c].act = "create" =>
                  \E j \in c .. Len(asks) : asks[j] = PutRef(asks[c].ref, check.sha)
            /\ asks[c].act \in {"run", "deploy"} => check.task = asks[c].task

StepsOf(task, sha) ==
    {k \in DOMAIN checks : checks[k].task = task /\ checks[k].sha = sha /\ ~checks[k].deploy}

\* An essential step only passes by the hand of a user: the latest check run
\* of its name is neutral because somebody skipped it, or a success because
\* somebody ran it - not because it was offered again, or for another step
\* (nextCheckRunsForWorkflow, webhookCheckRunRequestAction).
EssentialNeedsSomebody ==
    \A task \in EssentialTemplates : \A k \in DOMAIN checks :
        /\ k \in StepsOf(task, checks[k].sha)
        /\ \A j \in StepsOf(task, checks[k].sha) : j <= k
        /\ checks[k].state \in {"success", "neutral"}
        => \/ \E j \in DOMAIN asks : asks[j].act = "skip" /\ asks[j].check = k
           \/ \E i \in DOMAIN builds :
                 /\ builds[i].check = k /\ ~builds[i].running
                 /\ \/ asks[builds[i].cause].act = "run"
                    \/ commits[builds[i].files].files.def.main = task

\* kube-ci and GitHub do not keep each other busy: once users are quiet, the
\* deliveries come to an end (webhookIssueComment's prefix, the payload's Run).
EventsDrain == <>[](inbox = EmptyBag)
=============================================================================
