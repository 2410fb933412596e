# TLA+ models of kube-ci

kube-ci is a GitHub app that turns pushes, tags, deployments and comments into
Argo workflows on a Kubernetes cluster and reports what becomes of them as
GitHub check runs and deployments. It keeps no database: its state is on GitHub
(check runs, deployments), in the Kubernetes API server (Workflow objects and
their annotations, volume claims) and, a little behind, in an informer's cache.
Nearly everything that is hard about it comes from that: several writers share
one object, copies are stale when they are used, every call can fail on its own
and the process can die between two of them.

All line numbers refer to the source files in `src/`.

## 1. The system

| Component | Source | State | Operations |
|---|---|---|---|
| Webhook dispatch | `webhook.go` 338-463 | none; one goroutine per delivery | chooses the handler of an event |
| Build requests | `webhook.go` 119-328, `slashcmds.go` 73-110, `workflow.go` 646-790 | the handler's local variables; creates check runs and Workflow objects | read the CI files, decide, cancel older builds, ensure the cache volume, create the workflow |
| Build policy, entrypoint | `workflow.go` 314-509 | none | `policy`, `runBranchOrTag`, `setupEntrypoint` |
| Cache volumes | `pvc.go`, `webhook.go` 70-101, 255-279 | claims and pods in the cluster | `ensurePVC`, `deletePVC` |
| Workflow syncer | `controller.go` 284-1147 | annotations on the Workflow object; check runs, deployments | `process`, `sync`, check run reset, deployments, completion, annotations, manual steps, publish, delete handler |
| Informer and queue | client-go, `controller.go` 284-368 | cache, pending notifications, rate-limited queue | `enqueue`, one worker |
| Starlark loader | `cistarlark/starlark.go` | module cache | load modules from the context or over HTTP |
| Slash commands | `slashcmds.go` | none | run, deploy, setup |
| GitHub client | `ghclient.go`, `github.go` | none | one request per method |
| Labels and names | `controller.go` 248-282, `workflow.go` 49-102, `pvc.go` 34-42 | none | `escape`, `labelSafe`, `wfName`, `hash` |
| Log annotations | `annotations.go` | none | parse logs |
| API, Slack, status, main | `api.go`, `slackcmds.go`, `status.go`, `defmain.go` | a status flag | answer requests; wiring and shutdown |

How they interact. A delivery starts a handler, which calls GitHub (files, check
run) and Kubernetes (list and cancel builds through the informer's cache, volume
claims, create the workflow). From then on handler and syncer share only the
Workflow object: the informer notifies the syncer of each version it sees, the
worker reads the cached copy and writes to GitHub and back to the object. Argo
writes the object's status meanwhile; a handler of a newer build writes its
deadline; a user retries, resubmits or deletes it. The delete handler runs in
the informer's goroutine, not in the worker.

What makes each part correct:

- *Syncer*: a completed check run tells the truth, every finished workflow is
  reported in the end, no write is lost, the published flag (which stops all
  later syncs) is set last and taken back for a new attempt on a new check run,
  deployments show what their node did.
- *Build requests*: nothing is built that the policy forbids; every check run
  gets a build or an error; concurrent handlers never cancel all builds of a
  branch.
- *Cache volumes*: a claim that was promised stays until its cache is cleared on
  request; clearing spares other branches, and repositories with another label;
  a marked claim really goes, whatever the pods do.
- *Starlark loader*: loading through the cache comes to what loading without one
  would; each module is loaded once, after what it needs; a cycle is an error and
  never a wait for ever.
- *Webhooks, commands, manual steps*: kube-ci's own doings on GitHub come back to
  it as events and must not make it build again; each build goes back to one act
  of a user who may ask for it and is of the commit and template that act named;
  a required step does not pass unless somebody ran or skipped it.

## 2. The modules

```
WorkflowStore <--- CheckRunSync <--- MCCheckRunSync
                        |  ^-------- CheckRunSync_proofs
                        |            ^--- CheckRunSafety_proofs <--- CheckRunReports_proofs
                        |            ^--- CheckRunLife_proofs
                        '--implements--> CheckRunLife
BuildPolicy <-- RunWorkflow <------- MCRunWorkflow, RunWorkflow_proofs
                                     (RepoLabels: MCRunWorkflow, MCCacheVolumes)
   ^   CacheVolumes <---|
   |        ^           '--implements--> BuildRequests
   |        '------- MCCacheVolumes, CacheVolumes_proofs
   '-- ManualSteps <--- Webhooks <-- MCWebhooks, Webhooks_proofs
ModuleNames <-- ModuleLoader <------ MCModuleLoader, ModuleLoader_proofs
                        '--implements--> LoadOnce
```

**WorkflowStore**: one Workflow object, as the sequence `log` of its stored
versions; a resourceVersion is an index. `seen` is the version in the informer's
cache, `events` the notifications not yet handled, `queue` the rate limiter and
the queue proper. Argo, a foreign writer, retry and delete are its environment.
All of this but `enqueue` is outside the repository. Workflows do not interact
in the syncer (one worker, one key at a time), so one object is enough.

**CheckRunSync**: the worker is a record `wk` with its program counter, the
version `rv` it works on (the code's `wf` is `log[wk.rv]`) and its local
variables. One action per call that changes state outside the process:

| Action | Code |
|---|---|
| `TakeGone`, `TakeSettled`, `TakeReset`, `TakeSync` | `process`, `sync`, `handleCheckRunResetRun` |
| `ResetCreate`, `ResetPut` | `resetCheckRun`: create on GitHub, then Update of the cached copy |
| `ReadInfo` | `githubInfoFromWorkflow` |
| `DeployKnown`, `DeployCreate`, `RecordGet`, `RecordPut`, `DeployStatus` | `syncDeployments`, `createOnDemandDeployment` and its `updateWorkflow` (Get, Update) |
| `Unreported`, `Status` | the progress update |
| `CollectLogs`, `Offer`, `AddActions`, `PostBatch` | `completeCheckRun`, `nextCheckRunsForWorkflow`, `ghCompleteCheckRun` |
| `PublishGet`, `PublishPut` | the closing `updateWorkflow` |
| `doDelete`, `Cancel`, `Crash` | the informer's delete handler; `cancelRunningWorkflows`; a restart |

An Update succeeds only on the current version, else it conflicts. A call that
fails may have taken effect all the same, its reply being lost: the check run or
deployment is then there and nobody knows it, the object is written and the sync
goes on, or ends, as after a failure. A sync that fails is not put back in the
queue: `process` returns without `AddRateLimited` (`controller.go` 722-727), and
without `Forget`, so that the limiter's delay for the key keeps growing; delays
are arbitrary in the model. Reporting a success on a deployment asks GitHub to
retire the earlier successes in its environment (AutoInactive, 600), unless the
environment is a production one (`CreateDeploymentStatus`, `Env`, `Production`);
deployments of other builds to the same environment are left out, which can only
be retired more often.

**CheckRunLife** is what all this promises, seen from GitHub: a set of facts
(while the workflow was reported on check run c, it deserved view v), the check
runs, and three moves: a check run is created, the workflow moves to one without
a past, GitHub is shown a fact. There is no cache, queue or annotation in it.
CheckRunSync implements it with `current <- Latest.cr`, the facts read off `log`
and the status and conclusion of `crs`.

**BuildPolicy**: the three decisions as operators. A regular expression is the
set of names it matches.

**CacheVolumes**: claims by what their name is made of (scope, repository, ref),
callers of `ensurePVC` and jobs of `deletePVC` with each API call a step, the
pods that mount claims, and the API server, which keeps a marked claim while a
pod is on it. Labels are a given function on repositories, any one at all.

**RepoLabels**: that function as the code computes it, `escape` and `labelSafe`,
on names as sequences of characters. The MC modules use it to label repositories
called foo.bar and Foo-bar, which come out alike; the proofs need nothing of it.

**RunWorkflow**: handlers (`run[h]`), commits, check runs, builds and the
informer's cache of them. `Receive`, `getWorkflow`, `CreateCheckRun`, `Reject`,
`checkRunError`, `ListBuilds`, `CancelBuild`, `StartEnsure`, `Ensure`,
`EnsureFailed` and `CreateWorkflow` follow `runWorkflow` line by line. `sha` is
the commit asked for, `def` the one the CI files came from: the code reads them
at the ref, so they may differ. `Hangup` is GitHub giving up on a delivery,
which fails the calls that use the request's context (GitHub) but not those to
Kubernetes that use a context of their own (cancel, volumes). `DeleteCache`
stands for all of `deletePVC`: here a claim may go at any time.

**BuildRequests** is what all this promises, without handlers, caches, volumes
or policy: a request with a check run gets one answer, a build or an error, and
both only after some call failed (the reply of Create got lost); a build is
cancelled once, and only in favour of another request for its branch that has no
answer yet. RunWorkflow implements it with the requests read off the check runs
and the builds (`Requested`): a request is the check run's, its answer what names
that check run.

**ManualSteps**: what is offered when a build has ended, as operators:
`isInteractiveBranch`, the overriding of settings by annotations (`Listed`),
`nextCheckRunsForWorkflow`, the conclusion an offered step starts with, and the
cache button.

**Webhooks**: the round trip. `inbox` is the bag of deliveries on their way,
`asks` the acts of users; every delivery, build and cleared cache carries the
number of the act it goes back to, which exists in the model only. There is one
action for each kind of event of `webhookPayload` and each slash command;
`slashSetup` and `SetupWrite` are the two Git calls of setup. `runWorkflow` and
the end of a build (syncer, manual steps, deployments) are one step each here,
since RunWorkflow and CheckRunSync take them apart. `Echoes` are the events about
kube-ci's own check runs and deployments. A handler that gives up because its
call to GitHub failed is, to this model, a delivery that was lost.

**ModuleNames**: what `load` and `loadFile` make of a name: resolution against
the current working URL, defaults of organisation and ref, validation, what a URL
stands for. A URL is a record.

**ModuleLoader**: threads that evaluate scripts through one `modCache`. `stack`
is the scripts a thread is in the middle of, `cache` the entries with owner,
`ready` and result, `waits` the waitsFor of the thread's cycleChecker. Each
atomic load or store of `cycleCheck`, `setOwner` and `setWaitsFor` is a step;
`First` and `Found` are what happens under the mutex. `LoadWorkflow` makes a
cache for each script, so that today one thread uses each; the cache is written
to be shared and the model shares it.

**LoadOnce** is what the cache promises: a module begins to load once, is good
only if all it needs was good before, and keeps its result.

Definitions whose name begins with `Bug` are no part of a model. They are
plausible mistakes in the code, and each property is shown to fail when one of
them takes the place of the definition that follows it.

## 3. The runs

| Run | What it shows |
|---|---|
| `sync_core` | The syncer's safety with a lagging cache, a broken watch, a cancellation, a crash and a resubmitted workflow: `TypeOK`, `TruthfulConclusion`, `NoLostWakeup`, `PublishedIsComplete`, `OfferedAfterSuccess`, `NoLostUpdate`, `CompletedStays`, `ResetIsFresh`, and the refinement `ImplementsLife` |
| `sync_faults` | What survives one call that fails, or whose reply is lost, combined with a retry, a deletion, a cancellation or a node that deploys: `TruthfulConclusion`, `NoLostUpdate`, `ResetIsFresh`, `DeploymentTruthful`, `DeploymentStays` |
| `sync_live` | Without failed calls every finished workflow is reported and published and its deployments show how they ended: `EventuallyReported`, `EventuallyPublished`, `DeploymentReported` |
| `cache` | `PromisedVolume`, `OnlyMatchingVolumes`, `MarkedIsRemoved` with two callers, one deletion, a failed call and a crash, in three repositories of which two have the same label |
| `run_safe` | Two handlers, two repositories with the same label, a branch and a tag that share a volume: `ReportedOrBuilt`, `BranchKeepsABuild`, `CheckRunOfBuild`, `BuildsArePermitted`, and the refinement `ImplementsRequests` |
| `load` | Some hundreds of small worlds of scripts: `ResultsAreRight`, `StuckOnlyByCycle`, the refinement `ImplementsLoadOnce`, `LoadsReturn` |
| `events` | A push and two further acts of users with everything that follows from them: `NothingUnasked`, `CachesAsAsked`, `BuildIsAsAsked`, `EssentialNeedsSomebody`, `EventsDrain` |

Five runs end in a violation: they show where the code does not do what its
comments, messages or README say.

| Run | Disagreement |
|---|---|
| `bad_retry_unreported` | The publish write lands on whatever version `updateWorkflow` gets. If a retry came in between, the flag is on an attempt the syncer has not reported; when that attempt fails at once, all its syncs return early and the check run never shows it (`controller.go` 16-18). |
| `bad_delete_reopened` | The delete handler cancels the check run, then the worker, in the middle of a sync of an older copy, sets it back to queued or in progress (`controller.go` 295-296). |
| `bad_deploy_conflict` | Recording a new deployment conflicts with another write in the last sync of a workflow: the deployment exists, the run is published, and it never gets a state (`README.md` 142-144). |
| `bad_asked` | `/kube-ci run`, which a rejection recommends, is rejected for the same reason (`workflow.go` 356, `README.md` 49-51). A tag with runForTag fails the property too: buildBranches is matched against its name (`README.md` 46-48). |
| `bad_labels` | A build of foo.bar's main is cancelled for one of Foo-bar's main: builds are found by escaped labels and the branch, and the repository's own name, an annotation of every build, is not compared (`workflow.go` 134-135). |

Met while modelling, visible in the operators named, and not stated as runs:

- The annotation essentialTemplates takes the place of the manual templates and
  never reaches the setting that makes a step required (`Listed`,
  `StepConclusion`; `controller.go` 956-963, `README.md` 75-77).
- The button "Clear Cache" promises to delete "the cache volume for this build"
  (`controller.go` 902); for a cache of scope "branch" the handler clears
  that of the branch GitHub names for the commit (`webhook.go` 260-263). After the
  build of a tag, or of a deployment of another ref, that is not the volume the
  build used (`PressedClear`); `CachesAsAsked` says which branch it is.
- `deletePVC` finds claims by the same labels as builds are: deleting a branch
  clears the branch of that name in every repository with the label
  (`OnlyMatchingVolumes` says no more).
- A deployment whose payload has no ref_type is taken for one of a branch, also
  when its ref is a tag (`webhookDeployment`; `webhook.go` 137-144).
- Steps are offered after any entrypoint that is not a manual one, and never if
  the default template is one (`nextCheckRunsForWorkflow`). A re-run of a step's
  check run builds the default template (`RunSuite`).
- A tag is looked up when the event of its creation is handled
  (`webhookCreate`; `webhook.go` 182-191). If it was deleted and put elsewhere
  before that, the build is of the new commit, and both events build it.
  `BuildIsAsAsked` says as much as the code does: the commit is one that this tag
  was put at by that act or a later one. The case takes one act more than the run
  `events` allows; it came up in the proof, which has no such bound.
- A command in the text of a new issue looks for an installation the made-up
  event lacks and panics (`webhookOther`); setup fails in a repository without
  the CI directory (`slashSetup`; `GetContents` does not return the error type it
  looks for); deploy creates a deployment that builds nothing (`slashDeploy`).
- `loadFile` of a github URL from a context script drops an explicit ref
  (`Defaulted`); a script of a github host without an organisation makes any
  use of a name panic (`parseModURL`), and so do a request to GitHub that fails
  without a response (`Lose`, which also has the plain error) and, in `load`, a name that is no URL (`resolveModuleName`).
- Two threads with one cache may be refused a load that is not cyclic, because
  the owner read belongs to an earlier moment, or wait for each other when an
  import is cyclic (`CheckOwner`, `CheckWaits`, `Wait`). Nothing shares a cache
  today.

### Bounds

- `Budgets` says how often each environment event may happen: a failed call, a
  crash, a broken watch, a cancellation, a retry, a deletion, a foreign write, a
  resubmission, a hang-up. Once each is enough for the races, which are between
  one such event and the steps of one sync or handler; several at once multiply
  the states without a new kind of overlap. `sync_core` and `sync_faults` split
  the kinds between them, `sync_faults` combines a failed call with each other
  kind and the other kinds with each other, and `sync_live` starts in one of two
  environments (a foreign write, a crash and a cancellation, or a node that
  deploys), to keep them small.
- One Workflow object, up to two phases reached per attempt, one node that
  deploys (one that succeeds in `sync_faults`, also in a workflow that fails,
  where a state taken from the wrong one shows, and twice when the cache hides
  the first record, where GitHub retires a success; the constraint
  `FailsIfDeployed` leaves out its successful workflows, which `sync_live` has;
  one that fails in `sync_live`), one manual step, three annotations in batches of two (a full and a
  partial batch; the code's 50 only scales this).
- `MaxEvents = 1`: a notification is handled before the next version is seen.
  Versions the watch skips or that arrive together look the same to the syncer,
  which reads the cache and not the notification.
- `cache`: two callers suffice for the race of Get and Create, one job for
  Delete against callers and pods, two branches and three repositories, two of
  them with the same label, for a wrong selection. `Wants` and `Clears` list what
  is asked: every scope, both branches, a single branch and a whole repository.
- `run_safe`: two handlers (each other's only competitors; they are symmetric,
  no definition tells them apart), main in two repositories with one label and a
  tag with and without runForTag, two commits (files of a later commit than the
  one asked for), `MaxVer = 2` (a cached build that is behind). `MaxCommits` and
  `MaxVer` are guards of `Push` and `Argo`. `bad_labels` needs nothing to go
  wrong and allows nothing.
- `load`: every graph of three files that import at most two of one another (one
  of them at most one), loaded by one script; pairs of scripts over acyclic
  files, and over two files that import each other; pairs of uses of a library
  with every kind of name, and two scripts that use the same far module. One
  request may fail. Three files suffice for a cycle
  that does not contain its entry, two threads for a wait on a wait.
- `events`: one repository with main, a branch and a tag, two pull requests (own
  and foreign), two templates of which one is a required manual step and
  deploys, CI files with and without, three acts of users (`MaxAsks`, a guard of
  `Ask`), the first of them a push: enough to offer a step, skip or run it and
  build again, or to delete a branch under a late event. The policy builds main
  and the tag. Its safety properties are proved without these bounds.

Deadlock is not checked: a system in which every workflow is finished and every
handler is through has stopped rightly.

### Fairness

`CheckRunSync`: weak fairness of the worker, of the watch, of the event handler
and of the rate limiter. All are loops of the process or of client-go that go on
as long as there is something to do. Nothing makes Argo, a user, a failure or a
crash happen, so liveness is about workflows that did finish. `CacheVolumes`:
weak fairness of a `deletePVC` that has begun (a straight loop in one goroutine)
and of the API server's removal of claims; pods need not ever start or end.
`RunWorkflow` is checked for safety only. `ModuleLoader`: weak fairness of each
thread's step, which is what the Go scheduler gives a goroutine. `Webhooks`: weak
fairness of the handlers, each delivery being answered by a goroutine of its
own; builds need not end, users need not act, setup need not make its second
call, and GitHub may lose any delivery.

## 4. The proofs

`CheckRunSync_proofs`, for every set of deploying nodes, every list of manual
steps, every number of annotations and every budget:

- `Invariance`: `Inv` holds always. `Inv` is `TypeOK` with three facts without
  which types are not inductive: the worker's copy is a stored version, and one
  that completes while it is being completed (`CopyOK`); ids on versions and in
  the worker's hands are those of check runs that exist (`CheckRunIds`);
  recorded deployment ids are those of deployments of the same node
  (`DeploymentIds`). Each action has a lemma; they share a few about a step that
  touches only the worker, one that adds to GitHub and one that adds a version.
- `TypeCorrect`: `TypeOK`.
- `CheckRunTruth`: `TruthfulConclusion`. A check run is completed only with the
  outcome and the id of one copy, that copy is in the history for good, and
  nothing else changes a conclusion. The invariant is restated over intervals
  (`Truth`) and shown to be kept by each of the steps that write to GitHub.
- `WritesAreNotLost`: `NoLostUpdate`. Every write adds a version made from the
  latest one and changes Argo's part or kube-ci's part, not both
  (`WriteOnePart`).

`CheckRunSafety_proofs`, on top of them:

- `NothingForgotten`: `NoLostWakeup`, with two facts about the informer: no version
  follows a deletion, and notifications are of versions the cache has seen, that
  of an unobserved deletion only when the cache knows of it. Without them the
  delete handler could take a notification that was the last to hold the key.
- `DeploymentTruth`: `DeploymentTruthful`. The state written is that of the
  worker's copy, the deployment is one of the same node (`DeploymentIds`); one
  that GitHub retires was a success of its own node.

`CheckRunReports_proofs`, on top of these: what GitHub keeps showing, and what
publishing and offering may rely on. Each theorem supposes that some environment
events do not happen (`Absent(k)`: no budget allows event k) and nothing else;
all other events may happen any number of times in any order.

| Theorem | Property | Supposes | What fails otherwise |
|---|---|---|---|
| `CompletedIsFinal` | `CompletedStays` | no retry, no deletion | a retried workflow goes on under the check run it completed; `bad_delete_reopened` |
| `PublishedMeansComplete` | `PublishedIsComplete` | no retry, no failed call | `bad_retry_unreported`; a failed `StatusUpdate` is logged and the sync goes on to publish |
| `OfferedOnSuccess` | `OfferedAfterSuccess` | no failed call | the same `StatusUpdate` goes unsent and the steps are offered |
| `DeploymentIsFinal` | `DeploymentStays` | no retry | a retried node runs again and its deployment with it |

`CoreBudgets` (`sync_core`) satisfies the first three suppositions, the budgets
of `sync_faults` in which a node deploys the last. The argument:

- Every step that writes the object is one of four kinds (`Writes`): publishing,
  a reset, a retry, or one that leaves flag and check run as they were; and every
  step leaves the worker idle, on the same copy, on the version in the cache, or
  on the one its reset has stored (`WorkerMoves`). The rest is said in these terms.
- Where the worker stands (`Position`): a copy being synced is unpublished and no
  newer than the cache, except the one a reset has just stored. Without this a
  sync after a reset could be taken for one that saw the future.
- What the history looks like without retries (`Settling`): final phases are kept
  (`FinalStays`); the versions of a run from which the workflow was resubmitted
  come first and are published (`OldFirst`); all that is unpublished is on one
  check run, the worker's copy too (`OneRun`); published versions completed
  (`PublishedCompletes`). Then whoever can still write to a completed check run
  of the present run holds a copy that says the run is over (`CompletedIsOver`).
- `Posted` follows the worker from the progress update to publishing: the check run
  of its copy is completed and has the annotations sent so far.
- `Offering`: between the progress update and the offer GitHub shows the success of
  the worker's copy; once a step was offered the success is in the cache, in the
  worker's hands and on GitHub (`SuccessShown`), which survives retries because a
  success is final (`SuccessStays`; Argo only retries what failed).
- `FinalAgrees`: the version in the cache and the worker's copy agree with what
  was reported of every deployment that has ended (`Reported`: an inactive one
  was a success), or are versions a reset has replaced by one that does. So a
  second deployment of the same node can only repeat the outcome, and what GitHub
  retires was and remains a reported success.

`CheckRunLife_proofs`:

- `FreshReset`: `ResetIsFresh`. The check run a reset has in hand is on no
  version yet and still as it was created.
- `Refinement`: `ImplementsLife`. Each action is shown to be a step of
  CheckRunLife or to leave its variables alone: worker steps that only change the
  worker stutter, `ResetCreate` is `Open`, `ResetPut` is `Move`, the updates of
  the check run are `Show`, and every write of a version is `Happen`.

`CacheVolumes_proofs`, for any sets of callers, jobs, repositories and branches:

- `TypeCorrect`: `TypeOK`.
- `PromiseKept`: `PromisedVolume`, and `OthersAreSpared`: `OnlyMatchingVolumes`.
  Nothing is assumed of labels: both say "a repository with this label", which is
  the repository itself where labels differ and all that the code does where
  they do not. The invariant adds that the claims on a job's list are those it
  selects, that a job which has not begun was asked for nothing (so that
  beginning does not forget an earlier request), and that a marked claim was
  asked for.

`RunWorkflow_proofs`, for any handlers, pushes, requests, branches, policy and
budgets:

- `RunTypeCorrect`: `TypeOKRun`.
- `PolicyHolds`: `BuildsArePermitted`, and `BuildHasItsCheckRun`:
  `CheckRunOfBuild`. The base invariant says of a handler at each point what it
  has done so far: the commit it was asked for and the one it read the files
  from exist (`AskedFor`, `Chosen`), the policy let it pass (`Passed`), its check
  run exists and is for its commit (`HasCheckRun`), the builds it still has to
  cancel are of its branch (`Sweeps`). `OwnCheckRuns` adds that no two handlers or
  builds have the same check run, without which one could report on another's.
- `NothingIsForgotten`: `ReportedOrBuilt`. While no call has failed (`Unharmed`),
  a check run stays queued as long as its handler or its build needs it, one that
  is being failed has no build, and a handler that is through left a build or a
  failed check run (`Smooth`).
- `OneBuildGoesOn`: `BranchKeepsABuild`. If a branch was built, then a build of it
  goes on or a handler for it is still on its way to a build or an error
  (`BranchesLive`): builds are only cancelled by a handler for their branch,
  which has yet to create its own. A branch is a ref and a label (`OneBranch`),
  as the code has it: with repositories whose labels collide, the build that goes
  on may be another repository's. That it need not be its own is `bad_labels`.
- `RequestsAnswered`: `ImplementsRequests`, with branches in the same sense.
  `CreateCheckRun` is
  `Ask`; `CreateWorkflow` is `Answer`; `checkRunError` is `Answer` for a check run
  without a build, and `Contradict` for one whose build was created by a call that
  failed; `CancelBuild` is `Cancel`, or nothing if the build had been cancelled.
  What a lost reply does to Create counts as the build and the failed call at once.
  The handler that cancels is the open request which `Cancel` asks for: its own
  check run is queued and has no build (`StillQueued`), it is of the branch that is
  swept (`OfItsBranch`, which ties check runs to commits), and nobody else's build
  has it (`OwnCheckRuns`).

`ModuleLoader_proofs`, for any threads that share a cache, any scripts and any
failing requests:

- `LoaderTypeCorrect`: `TypeOK`.
- `LoadedOnce`: `ImplementsLoadOnce`. `First` is `Begin`, `Close` is `Finish`, all
  other steps change nothing that LoadOnce sees. That everything a module needs
  is good when the module is needs an invariant about stacks: the modules on them
  have an entry that is not ready (`Loading`) and are on one stack, once
  (`Apart`); each script that asked for another is still at that very load
  (`Asked`, `Asking`); and whatever a script that may end well needs is loaded and
  good or still on its list (`Progress`), so that a script with an empty list has
  all of it. The induction is over steps; nothing is said of how deep the imports
  go.
- `ResultsRight`: `ResultsAreRight`. What loading without a cache comes to is not
  defined by recursion over imports but by sets: a module is `Sound` if it is in
  every set that has each module that runs on others of the set, `Broken` if some
  set has it of which no member runs without the set. No module is both
  (`SoundOrBroken`), and both stay as they are while the cache grows. That what
  loaded is sound needs that a script is past only imports that are fine
  (`ScriptOK`): what is left on its list may be anything, what is off it is done.
  That a thread on its own fails only what is broken needs that all entries not
  ready are on its stack (`SoleOK`), so that a refusal by `cycleCheck` means a
  cycle, and that what it failed is broken already (`Refused`); one step up the
  stack at a time, a script that asked for a broken module is itself broken.
- `StuckByCycle`: `StuckOnlyByCycle`. Somebody has every entry that is not ready on
  the stack (`Taken`). If threads wait only for one another, the modules on their
  stacks are each at a load of one of them, the topmost of the module its thread
  waits for: a `Circular` set. This is the safety part of `LoadsReturn`: what can
  keep a thread from going on at all.

`Webhooks_proofs`, for any refs, pull requests, CI files, remarks, deployments,
settings and any number of acts, with deliveries lost and handled in any order:

- `ActsAccountedFor`: the inductive invariant `Inv`. A delivery says what the act
  was that it goes back to: its commit, check run, button, ref, or the user and
  command of a comment (`Deliveries`). An act is in one place at a time: one
  delivery that may lead to a build, or a setup between its two calls, or one
  build (`InOnePlace`); deliveries that can never lead to a build, comments of
  kube-ci and deployments of its own, are `Inert` and may be many. A tag whose
  creation is on its way points to where an act not older put it (`TagsArePut`).
  A check run of a required step that has passed was skipped by an act or is that
  of an ended build by hand or of an entrypoint of that name (`EssentialByHand`).
- `CachesClearedAsAsked`: `CachesAsAsked`. Part of `Inv`: a delivery of a deleted
  ref names the ref its act deleted, one of a button the check run that was
  pressed, and the branch of a commit never changes.
- `NothingIsUnasked`: `NothingUnasked`, `BuildsAreAsAsked`: `BuildIsAsAsked`,
  `EssentialStepsNeedSomebody`: `EssentialNeedsSomebody`, `HooksTypeCorrect`:
  `TypeOKHooks`. Without `InOnePlace` that no act is built twice is not inductive:
  nothing would keep two deliveries of one act from being answered one after the
  other. Each handler has a lemma; nearly all come down to three: a delivery is
  dropped, it is answered by a build, a check run is updated.

The only assumptions are those named in the modules (`BudgetAssumption`,
`ConstantsAssumption`, `CacheAssumption`, `PolicyAssumption`, `RunAssumption`,
`LoaderAssumption`, `StepsAssumption`, `HooksAssumption`), which the runs evaluate,
and the one hypothesis named above (`Absent`).

Every invariant that a run checks is proved, and every action property and
refinement. Only model-checked are the liveness properties: `EventuallyReported`,
`EventuallyPublished`, `DeploymentReported`, `MarkedIsRemoved`, `LoadsReturn` and
`EventsDrain` (fairness and ENABLED are out of the prover's reach).

What the proofs found wrong was in the model, not in the code. `ResultsAreRight`
was once stated with a recursion whose depth was the number of files; a proof
could not be had, because it does not hold: references are dropped from names of
the context but kept by names resolved against them (starlark.go:356-367), so that
one file stands for several URLs and imports can be sound and deeper than there
are files. Stating it by sets needs no depth. `LoadsReturn`
excepts cycles between threads and panics, and no more: `get` has no `defer`, so
that the entry of a thread that panicked is never ready, and whoever shares the
cache waits for it.

## 5. Not modelled

- The Starlark interpreter, the conversions between JSON and Starlark values,
  HTTP, rendering, formatting, log parsing: libraries or data. Of the logs, the
  number of annotations is kept.
- `wfName`, `hash`: string functions. Names are taken as distinct; labels are not
  (`RepoLabels`).
- Deployments of other builds, or of other tools, to the same environment, which
  AutoInactive retires as well.
- The parameters `decorateWorkflow` adds, apart from what later code reads back.
- The cacheName annotation, with which a claim has a name chosen by its users.
- Slack (a stub that answers with a text), the HTTP API, status, configuration,
  main: no state or a fixed sequence of calls. A shutdown that takes longer than
  it may is a crash.
- Several replicas of kube-ci: the code elects no leader and expects to be alone.

## 6. What is left

1. A refinement that joins BuildRequests and CheckRunLife with Webhooks' one-step
   `runWorkflow` and `Finish`.
2. The CI files a build is made from may be of a later commit than the one it
   builds: a property that says when they are not.
