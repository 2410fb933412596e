----------------------------- MODULE BuildPolicy ------------------------------
(***************************************************************************)
(* The decisions runWorkflow takes before it builds a commit               *)
(* (workflow.go:314-509): whether the kind of ref is built, whether the    *)
(* branch or its pull requests are, and whether the template to start with *)
(* exists.  Regular expressions are the sets of names they match; which of *)
(* several reasons a rejection names is left out.                          *)
(***************************************************************************)

CONSTANTS
    BuildBranches,      \* the ref names config.buildBranches matches
    BuildDraftPRs,      \* config.buildDraftPRs
    Templates,          \* names of workflow templates
    NoEntry             \* stands for the empty entrypoint

ASSUME PolicyAssumption == BuildDraftPRs \in BOOLEAN /\ NoEntry \notin Templates

\* Values of the annotations runForBranch and runForTag.
Flags == {"absent", "true", "false", "junk"}
Scopes == {"none", "branch", "project", "bad"}
RefTypes == {"branch", "tag"}
EventKinds == {"check_suite", "create_tag", "deployment", "run_action", "slash_run"}

\* The CI files at one commit.
Definitions ==
    [ci: {"absent", "broken", "good"},
     forBranch: Flags,
     forTag: Flags,
     main: Templates,                   \* spec.entrypoint
     templates: SUBSET Templates,
     deploys: SUBSET Templates,         \* those the deployTemplates regexp matches
     takesEnv: SUBSET Templates,        \* those with an environment parameter
     scope: Scopes]                     \* cacheScope; "bad": unusable settings

\* strconv.ParseBool; a value it does not know is ignored.
Parsed(flag, default) ==
    CASE flag = "true" -> TRUE
      [] flag = "false" -> FALSE
      [] OTHER -> default

runBranchOrTag(type, def) ==
    CASE type = "branch" -> Parsed(def.forBranch, TRUE)
      [] type = "tag" -> Parsed(def.forTag, FALSE)
      [] OTHER -> FALSE

\* Bug: the drafts are not looked at.
BugDraftsBuilt(head, prs) ==
    IF prs = {} THEN head \in BuildBranches
    ELSE /\ \A pr \in prs : pr.local
         /\ \E pr \in prs : pr.base \in BuildBranches

\* TRUE when the policy lets head be built for these pull requests.
policy(head, prs) ==
    IF prs = {} THEN head \in BuildBranches
    ELSE /\ \A pr \in prs : pr.local
         /\ \E pr \in prs : pr.base \in BuildBranches
         /\ BuildDraftPRs \/ \E pr \in prs : ~pr.draft

\* The template a request starts with.
Entrypoint(req, def) == IF req.entry = NoEntry THEN def.main ELSE req.entry

\* TRUE when setupEntrypoint finds no error.
setupEntrypoint(req, def) ==
    /\ Entrypoint(req, def) \in def.templates
    /\ req.event = "deployment" =>
          /\ req.entry \in def.deploys
          /\ Entrypoint(req, def) \in def.takesEnv
=============================================================================
