SPECIFICATION FairSpec
CONSTANTS
    Runs = {"new", "again"}
    Keys = {"k"}
    Key <- OneKey
    Sessions = {"s"}
    Session <- MCSession
    Resumed = {"again"}
    MayDie = {"new", "again"}
    None = None
CHECK_DEADLOCK FALSE
INVARIANTS
    PoolConsistent
    CleanupSparesTurns
    ShutdownCovers
PROPERTIES
    EverythingSettles
