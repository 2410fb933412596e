SPECIFICATION Spec
CHECK_DEADLOCK FALSE
CONSTRAINT FailsIfDeployed
CONSTANTS
    t1 = t1
    DeployNodes = {n1}
    Tasks <- NoTask
    NAnn = 0
    BatchSize = 2
    Env <- OneEnv
    Production = {}
    Budgets <- FaultBudgets
    Outcomes = {"Succeeded", "Failed"}
    NodeOutcomes = {"Succeeded"}
    MaxEvents = 1
INVARIANTS
    TruthfulConclusion
    NoLostUpdate
    DeploymentTruthful
PROPERTIES
    ResetIsFresh
    DeploymentStays
