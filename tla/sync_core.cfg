SPECIFICATION Spec
CHECK_DEADLOCK FALSE
CONSTANTS
    t1 = t1
    DeployNodes = {}
    Tasks <- OneTask
    NAnn = 3
    BatchSize = 2
    Env <- OneEnv
    Production = {}
    Budgets <- CoreBudgets
    Outcomes = {"Succeeded", "Failed", "Error"}
    NodeOutcomes = {}
    MaxEvents = 1
INVARIANTS
    TypeOK
    TruthfulConclusion
    NoLostWakeup
    PublishedIsComplete
    OfferedAfterSuccess
    NoLostUpdate
PROPERTIES
    CompletedStays
    ResetIsFresh
    ImplementsLife
