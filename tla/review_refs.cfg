SPECIFICATION Spec
CONSTANTS
    Parts = {"reviews"}
    None = None
    Processes = {"p", "q"}
    Grants = {"g"}
    TokenCalls = {"c", "d", "e", "f"}
    TokenScopes = {"r", "w"}
    Consent <- MCConsent
    Client <- MCClient
    MaxExpired = 1
    Downloaders = {"c", "d", "e"}
    Length <- MCLength
    Declared <- MCDeclared
    MaxBytes = 1
    MayCrash = {"c"}
    User = "user"
    CommandStarts = {"s", "t"}
    CommandPolls = {"p"}
    Mutations = {"m"}
    Of <- MCOf
    Terminals = {"t"}
    BufferLimit = 1
    ReadLimit = 1
    MaxOutput = 1
    WorkspaceOpens = {"a", "b", "w"}
    Scope <- MCScope
    Worktrees = {"w"}
    Creating = {"b"}
    MaxCached = 1
    ReviewOpens = {"o"}
    Reviews = {"r", "s"}
    Since <- MCSince
    Marking = {"r", "s"}
    Reopens = {"b"}
    Ref <- MCRef
    MaxEdits = 1
    MaxRestarts = 0
    Threads = {"t"}
    Batches = {"a", "b", "r"}
    Mode <- MCMode
    MaxTurns = 2
    MaxCrashes = 1
    FileNames = {"a", "b"}
    Operations <- MCOperations
    MaxFiles = 3
    Migrators = {"p", "q"}
    Callers = {"c", "d"}
    Process <- MCProcess
    Cwd <- MCCwd
    Projects = {"x", "y"}
    MaxMoves = 1
    Loaders = {"p"}
    Editors = {"e", "f"}
    RenameFails = TRUE
    Recorded = "r"
    Others = {"a", "b"}
    Paths = {"a", "A", "l/a", "b", "c", "C"}
    Files = {"a", "b", "c"}
    FileAt <- MCFile
    Folded <- MCFolded
    Normal <- MCNormal
    Inputs <- MCInputs
    Windows = TRUE
    Unstaged = Unstaged
    Adapters = {"other"}
    RedirectLimit = 3
CHECK_DEADLOCK FALSE
INVARIANTS
    RefsSurvive
