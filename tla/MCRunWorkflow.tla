---------------------------- MODULE MCRunWorkflow ----------------------------
(* Constants for model-checking RunWorkflow.                               *)
EXTENDS RunWorkflow, RepoLabels, TLC

CONSTANTS dotted, dashed, main, topic, v1, build, deploy

\* Two names that get the same label.
NameOf(r) ==
    IF r = dotted THEN <<"f", "o", "o", ".", "b", "a", "r">>
                  ELSE <<"F", "o", "o", "-", "b", "a", "r">>

\* (TLC computes a definition once, but what replaces a constant every time.)
SafeLabel == [r \in Repos |-> labelSafe(NameOf(r))]
SafeLabels == SafeLabel

\* No definition tells one handler from another.
Handlers == Permutations(Callers)

Quiet == [k \in BudgetKeys |-> 0]
OneOfEach == [k \in BudgetKeys |-> 1]

Good == [ci |-> "good", forBranch |-> "absent", forTag |-> "absent", main |-> build,
         templates |-> {build, deploy}, deploys |-> {deploy}, takesEnv |-> {deploy},
         scope |-> "none"]

Pushed(repo, ref, type, def) == [repo |-> repo, ref |-> ref, type |-> type, def |-> def]
Shared == [Good EXCEPT !.scope = "project"]

Asked(event, repo, ref, type, prs, entry) ==
    [event |-> event, repo |-> repo, ref |-> ref, type |-> type, prs |-> prs, entry |-> entry]

Draft == [local |-> TRUE, base |-> main, draft |-> TRUE]
Open == [Draft EXCEPT !.draft = FALSE]

\* A branch and a tag of a repository share its cache volume, the same branch
\* of another repository gets the same labels; one commit is broken.
AllPushes ==
    {Pushed(dotted, main, "branch", Shared),
     Pushed(dotted, main, "branch", [Good EXCEPT !.ci = "broken"]),
     Pushed(dashed, main, "branch", Shared),
     Pushed(dotted, v1, "tag", [Shared EXCEPT !.forTag = "true"]),
     Pushed(dotted, v1, "tag", Good)}

AllRequests ==
    {Asked("check_suite", dashed, main, "branch", {Draft}, NoEntry),
     Asked("slash_run", dashed, main, "branch", {Open}, NoEntry),
     Asked("deployment", dotted, main, "branch", {}, deploy),
     Asked("create_tag", dotted, v1, "tag", {}, NoEntry)}

\* A tag, and the command on a draft.
NamedPushes ==
    {Pushed(dotted, topic, "branch", Shared),
     Pushed(dotted, v1, "tag", [Good EXCEPT !.forTag = "true"])}
NamedRequests ==
    {Asked("slash_run", dotted, topic, "branch", {Draft}, NoEntry),
     Asked("create_tag", dotted, v1, "tag", {}, NoEntry)}

\* The same branch of two repositories with the same label.
AlikePushes ==
    {Pushed(dotted, main, "branch", Shared), Pushed(dashed, main, "branch", Shared)}
AlikeRequests ==
    {Asked("slash_run", r, main, "branch", {Open}, NoEntry) : r \in Repos}
=============================================================================
