SPECIFICATION FairSpec
CONSTANTS
    Starts = {"first", "second"}
    Continues = {"continue"}
    Commands = {"command"}
    Target <- MCTarget
    Context <- MCContext
    Exclusive <- OneCheckout
    NoOne = NoOne
    MaxSessions = 2
    MaxCrashes = 1
CHECK_DEADLOCK FALSE
INVARIANTS
    NoReplay
    ProvidersExclude
    PendingHasTurn
    InterruptedKeepsClaim
PROPERTIES
    PendingSettles
