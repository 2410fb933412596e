SPECIFICATION LiveSpec
CHECK_DEADLOCK FALSE
CONSTANTS
    t1 = t1
    DeployNodes = {n1}
    Tasks <- NoTask
    NAnn = 0
    BatchSize = 2
    Env <- OneEnv
    Production = {}
    Budgets <- DeployTouch
    Outcomes = {"Succeeded", "Failed"}
    NodeOutcomes = {"Succeeded", "Failed"}
    MaxEvents = 1
PROPERTIES
    DeploymentReported
