SPECIFICATION LiveSpec
CHECK_DEADLOCK FALSE
CONSTANTS
    t1 = t1
    DeployNodes = {}
    Tasks <- NoTask
    NAnn = 1
    BatchSize = 2
    Env <- OneEnv
    Production = {}
    Budgets <- RetryOnly
    Outcomes = {"Succeeded", "Failed", "Error"}
    NodeOutcomes = {}
    MaxEvents = 1
PROPERTIES
    EventuallyReported
