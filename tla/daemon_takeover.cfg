SPECIFICATION Spec
CONSTANTS
    Daemons = {d1, d2, d3, d4}
    None = None
    Attempts = 2
    MayCrash = {}
    MayFail = {}
    Stale = d1
CHECK_DEADLOCK FALSE
INVARIANTS
    OneDaemon
