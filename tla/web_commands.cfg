SPECIFICATION FairSpec
CONSTANTS
    Processes = {"p1", "p2"}
    Calls = {"first", "again", "changed", "other"}
    Keys = {"k", "j"}
    Key <- MCKey
    Inputs = {"x", "y"}
    Input <- MCInput
    Limit = 1
    Sent <- MCSent
    MayCrash = {"p1"}
    None = None
CHECK_DEADLOCK FALSE
INVARIANTS
    AtMostOnce
    ReportsTrue
PROPERTIES
    EverythingSettles
