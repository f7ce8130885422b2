SPECIFICATION AllSpec
CONSTANTS
    Daemons = {d1, d2, d3, d4}
    None = None
    Attempts = 2
    MayCrash = {}
    MayFail = {}
    Stale = None
    Parts = {"codex"}
    Clients = {"p", "q"}
    Version <- MCVersion
    Calls = {"c", "d"}
    Caller <- MCCaller
    Candidates = {"old", "d1", "d2"}
    Older = "old"
    OlderVersion = 1
    OlderTurns = {"t"}
    Sessions = {"s"}
    Want <- MCWant
    Override = {"d"}
    Grok = TRUE
    Resume = TRUE
    MaxUpdates = 1
    QueueLimit = 2
    MemoryLimit = 1
    Threads = {"t"}
    Thread <- MCThread
    MaxEvents = 1
    PendingLimit = 1
    Session <- MCWant
    Page = 2
    Prompts = {"c", "d", "e"}
    Mode <- MCMode
    Tools <- MCTools
    Resumes = TRUE
    MaxMessages = 3
    Sandboxed = {"s", "z"}
    Workspace <- MCWorkspace
    Commands = {"c", "d"}
    Of <- MCOf
    KillFails = TRUE
    Executions = {1, 2}
    LedgerRuns = {"r", "s"}
    RunOf <- MCRunOf
    MaxTokens = 3
    MaxCrashes = 1
    MaxExternal = 1
CHECK_DEADLOCK FALSE
INVARIANTS
    RejectionsHandled
