SPECIFICATION Spec
CONSTANTS
    Daemons = {d1, d2, d3, d4}
    None = None
    Attempts = 2
    MayCrash = {}
    MayFail = {d1}
    Stale = None
CHECK_DEADLOCK FALSE
PROPERTIES
    SocketOnlyRecovered
