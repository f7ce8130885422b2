SPECIFICATION FairSpec
CONSTANTS
    Owners = {"o1", "o2"}
    Requests = {"reader", "resumed", "fresh", "command"}
    Input <- ExclusionInput
    GitRoots <- MCGitRoots
    Threads = {"t1"}
    None = None
    QueueCapacity = 3
    MayStop = {"o1", "o2"}
CHECK_DEADLOCK FALSE
INVARIANTS
    MutualExclusion
    WithinLimits
PROPERTIES
    ImplementsSourceClaims
    TicketsSettle
