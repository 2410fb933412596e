--------------------------- MODULE MCCheckRunSync ---------------------------
(* Constants for model-checking CheckRunSync: which environment events a   *)
(* run allows, and how often.                                              *)
EXTENDS CheckRunSync

CONSTANT t1

\* The manual steps that follow the workflow.
OneTask == <<t1>>
NoTask == <<>>

\* All nodes deploy to one environment.
OneEnv == [n \in DeployNodes |-> "staging"]

Only(keys) == {[k \in BudgetKeys |-> IF k \in keys THEN 1 ELSE 0]}

\* A broken watch, a cancellation, a crash and a resubmitted workflow.
CoreBudgets == Only({"relist", "cancel", "crash", "resubmit"})

\* A failed call with a retry, a deletion, a cancellation or a node that
\* deploys; or the first three of these without one.
FaultBudgets ==
    UNION {Only({"fault", k}) : k \in {"retry", "delete", "cancel", "deploy"}}
      \cup Only({"retry", "delete", "cancel"})

\* Bound: a workflow whose node deploys fails, or does not end, so that what the
\* node came to and what the workflow came to are told apart.
FailsIfDeployed ==
    Latest.phase = "Succeeded" => \A n \in DeployNodes : Latest.node[n] = "none"

\* Either a foreign write, a crash and a cancellation, or a node that deploys.
LiveBudgets == Only({"touch", "crash", "cancel"}) \cup Only({"deploy"})

\* A node that deploys, and a foreign write.
DeployTouch == Only({"deploy", "touch"})

RetryOnly == Only({"retry"})
DeleteOnly == Only({"delete"})
=============================================================================
