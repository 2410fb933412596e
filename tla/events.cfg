SPECIFICATION HookSpec
CHECK_DEADLOCK FALSE
CONSTANTS
    main = main
    topic = topic
    v1 = v1
    build = build
    release = release
    BuildBranches = {main, v1}
    BuildDraftPRs = FALSE
    Templates = {build, release}
    NoEntry = NoEntry
    Refs = {main, topic, v1}
    DefaultBranch = main
    ManualTemplates = {}
    EssentialTemplates = {release}
    QuietBranches = {}
    LongNames = {}
    Tags = {v1}
    PRs <- TwoPRs
    Files <- PushedFiles
    Template <- ProjectCache
    Branches <- TwoBranches
    member = member
    stranger = stranger
    Members = {member}
    Bot = Bot
    Remarks <- SomeRemarks
    Deploys <- SomeDeploys
    NoRef = NoRef
    MaxAsks = 3
INVARIANTS
    TypeOKHooks
    NothingUnasked
    
    BuildIsAsAsked
    EssentialNeedsSomebody
PROPERTIES
    EventsDrain
