SPECIFICATION LiveSpec
CHECK_DEADLOCK FALSE
CONSTANTS
    t1 = t1
    DeployNodes = {n1}
    Tasks <- NoTask
    NAnn = 1
    BatchSize = 2
    Env <- OneEnv
    Production = {}
    Budgets <- LiveBudgets
    Outcomes = {"Succeeded", "Failed"}
    NodeOutcomes = {"Failed"}
    MaxEvents = 1
PROPERTIES
    EventuallyReported
    EventuallyPublished
    DeploymentReported
