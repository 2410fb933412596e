------------------------------ MODULE MCWebhooks -------------------------------
(* Constants for model-checking Webhooks.                                  *)
EXTENDS Webhooks

CONSTANTS main, topic, v1, build, release, member, stranger

Open == [head |-> topic, base |-> main, local |-> TRUE, draft |-> FALSE]
Foreign == [Open EXCEPT !.local = FALSE]

\* "release" is a manual and essential step, and deploys.
Good == [ci |-> "good", forBranch |-> "absent", forTag |-> "true", main |-> build,
         templates |-> {build, release}, deploys |-> {release}, takesEnv |-> {release},
         scope |-> "branch"]
NoNotes == [manual |-> NotGiven, essential |-> NotGiven, quiet |-> NotGiven]
Notes == [NoNotes EXCEPT !.manual = Given({release})]
BadNotes == [NoNotes EXCEPT !.essential = [kind |-> "bad", names |-> {}]]

\* The branch has a cache; "setup" writes files with one for the project.
Plainly == [def |-> Good, notes |-> Notes]
ProjectCache == [def |-> [Good EXCEPT !.scope = "project"], notes |-> BadNotes]
Absent == [def |-> [Good EXCEPT !.ci = "absent"], notes |-> NoNotes]
PushedFiles == {Plainly, Absent}

TwoBranches == <<[ref |-> main, files |-> Absent], [ref |-> topic, files |-> Plainly]>>

TwoPRs == {Open, Foreign}
Remark(by, cmd, prs) == [by |-> by, cmd |-> cmd, prs |-> prs]
SomeRemarks ==
    {Remark(member, cmd, {Open}) : cmd \in {"run", "deploy", "setup"}}
      \cup {Remark(member, cmd, {}) : cmd \in Cmds}
      \cup {Remark(member, cmd, {Foreign}) : cmd \in {"run", "setup"}}
      \cup {Remark(stranger, cmd, {Open}) : cmd \in {"run", "setup"}}

Deployed(ref, type, task, run) == [ref |-> ref, type |-> type, task |-> task, run |-> run]
SomeDeploys ==
    {Deployed(topic, "branch", release, TRUE), Deployed(topic, "other", release, TRUE),
     Deployed(topic, "branch", release, FALSE), Deployed(main, "none", build, TRUE),
     Deployed(v1, "none", build, TRUE), Deployed(v1, "tag", release, TRUE)}
=============================================================================
