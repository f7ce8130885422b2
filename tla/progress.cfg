SPECIFICATION AllSpec
CONSTANTS
    Owners = {"o1", "o2"}
    Requests = {"reader", "second", "writer", "command"}
    Input <- QueueInput
    GitRoots <- MCGitRoots
    Threads = {"t1"}
    None = None
    QueueCapacity = 4
    MayStop = {}
    Parts = {"queue", "recovery", "acp", "worker"}
CHECK_DEADLOCK FALSE
PROPERTIES
    NoStarvation
    StaleLockRemoved
    ChildrenSettle
