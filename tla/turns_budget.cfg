SPECIFICATION Spec
CONSTANTS
    Starts = {"first", "second"}
    Continues = {"continue"}
    Commands = {"command"}
    Target <- MCTarget
    Context <- MCContext
    Exclusive <- OneCheckout
    NoOne = NoOne
    MaxSessions = 1
    MaxCrashes = 0
CHECK_DEADLOCK FALSE
INVARIANTS
    SessionBudget
