SPECIFICATION RunSpec
CHECK_DEADLOCK FALSE
SYMMETRY Handlers
CONSTANTS
    dotted = dotted
    dashed = dashed
    main = main
    topic = topic
    v1 = v1
    build = build
    deploy = deploy
    BuildBranches = {main, v1}
    BuildDraftPRs = FALSE
    Templates = {build, deploy}
    NoEntry = NoEntry
    Callers = {h1, h2}
    Jobs = {}
    Repos = {dotted, dashed}
    Refs = {main, v1}
    NoRef = NoRef
    Label <- SafeLabels
    Wants = {}
    Clears = {}
    Budget <- OneOfEach
    Pushes <- AllPushes
    Requests <- AllRequests
    MaxCommits = 2
    MaxVer = 2
INVARIANTS
    TypeOKRun
    ReportedOrBuilt
    BranchKeepsABuild
    CheckRunOfBuild
    BuildsArePermitted
PROPERTIES
    ImplementsRequests
