SPECIFICATION LiveSpec
CHECK_DEADLOCK FALSE
CONSTANTS
    main = main
    topic = topic
    dotted = dotted
    dashed = dashed
    other = other
    Callers = {c1, c2}
    Jobs = {j1}
    Repos = {dotted, dashed, other}
    Refs = {main, topic}
    NoRef = NoRef
    Label <- SafeLabels
    Wants <- SomeWants
    Clears <- SomeClears
    Budget <- OneMishap
INVARIANTS
    TypeOK
    PromisedVolume
PROPERTIES
    OnlyMatchingVolumes
    MarkedIsRemoved
