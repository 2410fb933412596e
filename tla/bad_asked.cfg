SPECIFICATION RunSpec
CHECK_DEADLOCK FALSE
CONSTANTS
    dotted = dotted
    dashed = dashed
    main = main
    topic = topic
    v1 = v1
    build = build
    deploy = deploy
    BuildBranches = {main}
    BuildDraftPRs = FALSE
    Templates = {build, deploy}
    NoEntry = NoEntry
    Callers = {h1}
    Jobs = {}
    Repos = {dotted, dashed}
    Refs = {main, topic, v1}
    NoRef = NoRef
    Label <- SafeLabels
    Wants = {}
    Clears = {}
    Budget <- Quiet
    Pushes <- NamedPushes
    Requests <- NamedRequests
    MaxCommits = 2
    MaxVer = 2
INVARIANTS
    AskedIsBuilt
