------------------------------ MODULE PiSandbox ------------------------------
(***************************************************************************)
(* local-agent-pi-sandbox.ts: the sessions of one daemon share a sandbox   *)
(* manager, which the first of them sets up and the last takes down, and   *)
(* commands run in it.  On Windows whatever touches the manager goes       *)
(* through a queue, because its policy is that of one workspace; elsewhere *)
(* the policy travels with the command.                                    *)
(*                                                                         *)
(* The manager is external: it is on, off, or on the way to either.  A     *)
(* session may close while a command of it runs.                           *)
(***************************************************************************)
EXTENDS Naturals, Sequences, FiniteSets

CONSTANTS
    Sessions,
    Workspace,     \* Workspace[s]: where the commands of a session run
    Commands,
    Of,            \* Of[c]: the session of a command
    None,
    MaxUpdates     \* bound of the model: later turns, of all the sessions

SandboxAssumption ==
    IsFiniteSet(Sessions) /\ IsFiniteSet(Commands) /\ Of \in [Commands -> Sessions]

VARIABLES
    windows,       \* the platform; it does not change
    manager,       \* SandboxManager: "off", "starting", "on", "stopping"
    initialized,   \* sandboxInitialization: "none", "pending" or "done"
    policy,        \* windowsSandboxWorkspace
    sessions,      \* sandboxSessionCount
    commands,      \* sandboxCommandCount
    state, acquired,   \* where a session is; those that are counted
    command,       \* where a command is
    queue,         \* windowsSandboxQueue: operations <<what, for>>, the first one begun
    updates,
    late           \* commands that have begun while a release took the sandbox down

vars == <<windows, manager, initialized, policy, sessions, commands, state, acquired,
          command, queue, updates, late>>
sandbox == <<manager, initialized, policy>>

Init ==
    /\ windows \in BOOLEAN
    /\ manager = "off" /\ initialized = "none" /\ policy = None
    /\ sessions = 0 /\ commands = 0 /\ updates = 0 /\ queue = <<>> /\ late = {}
    /\ state = [s \in Sessions |-> "new"] /\ acquired = {}
    /\ command = [c \in Commands |-> "idle"]

State(s, to) == state' = [state EXCEPT ![s] = to]
Join(what, who) == queue' = IF windows THEN Append(queue, <<what, who>>) ELSE queue
Turn(what, who) == windows => queue # <<>> /\ Head(queue) = <<what, who>>
Leave == queue' = IF windows THEN Tail(queue) ELSE queue

\* Whose ensureSandboxInitialized or ensureWindowsSandbox has its turn.
Acquirers == {s \in Sessions : state[s] = "acquiring" /\ Turn("acquire", s)}
Entering == {c \in Commands : command[c] = "entering" /\ Turn("command", c)}
Needs == Acquirers \union {Of[c] : c \in Entering}
\* What is set up serves as it is, but on Windows only for its own workspace.
Serves(s) == initialized = "done" /\ (windows => policy = Workspace[s])

(***************************************************************************)
(* The sandbox is set up, or on Windows taken down and set up again.       *)
(***************************************************************************)
Initialize ==
    /\ initialized = "none" /\ Needs # {}
    /\ initialized' = "pending" /\ manager' = "starting"
    /\ UNCHANGED <<windows, policy, sessions, commands, state, acquired, command, queue, updates, late>>

Prepared ==
    /\ initialized = "pending" /\ initialized' = "done" /\ manager' = "on"
    /\ policy' = IF windows THEN Workspace[CHOOSE s \in Needs : TRUE] ELSE None
    /\ UNCHANGED <<windows, sessions, commands, state, acquired, command, queue, updates, late>>

\* A setup that fails fails for all that wait for it.
Refused ==
    /\ initialized = "pending" /\ initialized' = "none" /\ manager' = "off"
    /\ state' = [s \in Sessions |-> IF s \in Acquirers THEN "ready" ELSE state[s]]
    /\ acquired' = acquired \ Acquirers /\ sessions' = sessions - Cardinality(Acquirers)
    /\ command' = [c \in Commands |-> IF c \in Entering THEN "over" ELSE command[c]]
    /\ commands' = commands - Cardinality(Entering)
    /\ Leave /\ UNCHANGED <<windows, policy, updates, late>>

Replace ==
    /\ windows /\ initialized = "done" /\ \E s \in Needs : ~Serves(s)
    /\ IF manager = "on" THEN manager' = "stopping" /\ UNCHANGED <<initialized, policy>>
       ELSE manager' = "off" /\ initialized' = "none" /\ policy' = None
    /\ UNCHANGED <<windows, sessions, commands, state, acquired, command, queue, updates, late>>

(***************************************************************************)
(* Sessions and their commands.                                            *)
(***************************************************************************)
\* registerPiSandboxSession and, for the turns that follow, updatePiSandboxSession;
\* a session with full access acquires nothing, and gives nothing back.
Begin(s) ==
    /\ \/ state[s] = "new" /\ UNCHANGED updates
       \/ state[s] = "ready" /\ updates < MaxUpdates /\ updates' = updates + 1
    /\ \/ /\ s \notin acquired /\ acquired' = acquired \union {s} /\ sessions' = sessions + 1
          /\ State(s, "acquiring") /\ Join("acquire", s)
       \/ State(s, "ready") /\ UNCHANGED <<acquired, sessions, queue>>
    /\ UNCHANGED <<windows, sandbox, commands, command, late>>

Acquired(s) ==
    /\ s \in Acquirers /\ Serves(s) /\ State(s, "ready") /\ Leave
    /\ UNCHANGED <<windows, sandbox, sessions, commands, acquired, command, updates, late>>

\* withSandboxCommand: counted from before the sandbox is ensured until it is over.  A
\* session is disposed of, and begins no more commands, only when its release is over.
Exec(c) ==
    /\ command[c] = "idle"
    /\ \/ state[Of[c]] = "ready" /\ Of[c] \in acquired
       \/ state[Of[c]] \in {"waiting", "queued", "stopping"}
    /\ command' = [command EXCEPT ![c] = "entering"] /\ commands' = commands + 1
    /\ Join("command", c)
    /\ UNCHANGED <<windows, sandbox, sessions, state, acquired, updates, late>>

Runs(c) ==
    /\ c \in Entering /\ Serves(Of[c])
    /\ command' = [command EXCEPT ![c] = "running"]
    /\ late' = IF \E s \in Sessions : state[s] = "stopping" THEN late \union {c} ELSE late
    /\ UNCHANGED <<windows, sandbox, sessions, commands, state, acquired, queue, updates>>

\* It ends, is aborted or times out.
Over(c) ==
    /\ command[c] = "running" /\ command' = [command EXCEPT ![c] = "over"]
    /\ commands' = commands - 1 /\ Leave
    /\ UNCHANGED <<windows, sandbox, sessions, state, acquired, updates, late>>

\* releasePiSandboxSession.
Release(s) ==
    /\ state[s] = "ready" /\ acquired' = acquired \ {s}
    /\ sessions' = IF s \in acquired THEN sessions - 1 ELSE sessions
    /\ State(s, IF s \in acquired /\ sessions = 1 THEN "waiting" ELSE "closed")
    /\ UNCHANGED <<windows, sandbox, commands, command, queue, updates, late>>

\* The last session waits for the commands, looks again, and takes the sandbox down.
TakesDown(s) ==
    IF sessions # 0 THEN State(s, "closed") /\ UNCHANGED <<queue, manager>>
    ELSE /\ State(s, IF windows THEN "queued" ELSE "stopping") /\ Join("reset", s)
         /\ manager' = IF windows THEN manager ELSE "stopping"
LooksOnce(s) ==   \* a fault: commands are not waited for
    /\ state[s] = "waiting" /\ TakesDown(s)
    /\ UNCHANGED <<windows, initialized, policy, sessions, commands, acquired, command, updates, late>>
LooksAgain(s) ==
    /\ state[s] = "waiting" /\ commands = 0 /\ TakesDown(s)
    /\ UNCHANGED <<windows, initialized, policy, sessions, commands, acquired, command, updates, late>>

Reset(s) ==
    /\ state[s] = "queued" /\ Turn("reset", s)
    /\ manager' = "stopping" /\ State(s, "stopping")
    /\ UNCHANGED <<windows, initialized, policy, sessions, commands, acquired, command, queue, updates, late>>

ResetDone(s) ==
    /\ state[s] = "stopping"
    /\ manager' = "off" /\ initialized' = "none" /\ policy' = None /\ State(s, "closed") /\ Leave
    /\ UNCHANGED <<windows, sessions, commands, acquired, command, updates, late>>

Next ==
    \/ Initialize \/ Prepared \/ Refused \/ Replace
    \/ \E s \in Sessions : Begin(s) \/ Acquired(s) \/ Release(s) \/ LooksAgain(s) \/ Reset(s) \/ ResetDone(s)
    \/ \E c \in Commands : Exec(c) \/ Runs(c) \/ Over(c)
Spec == Init /\ [][Next]_vars

-----------------------------------------------------------------------------
TypeOK ==
    /\ windows \in BOOLEAN /\ manager \in {"off", "starting", "on", "stopping"}
    /\ initialized \in {"none", "pending", "done"}
    /\ policy \in {Workspace[s] : s \in Sessions} \union {None}
    /\ {sessions, commands, updates} \subseteq Nat
    /\ state \in [Sessions -> {"new", "acquiring", "ready", "waiting", "queued", "stopping", "closed"}]
    /\ acquired \subseteq Sessions /\ late \subseteq Commands
    /\ command \in [Commands -> {"idle", "entering", "running", "over"}]
    /\ queue \in Seq(({"acquire", "reset"} \X Sessions) \union ({"command"} \X Commands))

\* A command runs in a sandbox that is set up, on Windows for its workspace, and no
\* session that comes, fails or leaves takes it away while the command runs; but
\* elsewhere than on Windows a command may begin while the last release is taking
\* the sandbox down (releasePiSandboxSession, ensureSandboxInitialized).
SandboxHeld ==
    /\ sessions = Cardinality(acquired)
    /\ windows => late = {}
    /\ \A c \in Commands \ late : command[c] = "running" =>
          manager = "on" /\ (windows => policy = Workspace[Of[c]])

-----------------------------------------------------------------------------
(* SandboxHeld strengthened to an inductive invariant. *)

Busy == {c \in Commands : command[c] \in {"entering", "running"}}

\* The counters count.
Counted ==
    /\ sessions = Cardinality(acquired) /\ commands = Cardinality(Busy)
    /\ \A s \in Sessions : state[s] = "acquiring" => s \in acquired

\* On Windows who has begun is the first of the queue; what is set up for the first of the
\* queue is set up for its workspace, or about to be replaced.
Queued ==
    /\ \A s \in Sessions : state[s] = "stopping" => Turn("reset", s)
    /\ \A c \in Commands : command[c] = "running" => Turn("command", c)
    /\ windows =>
         /\ late = {}
         /\ initialized = "pending" => Needs # {}
         /\ initialized = "done" /\ manager # "on" =>
              /\ queue # <<>>
              /\ \/ \E s \in Sessions : state[s] = "stopping"
                 \/ \E s \in Sessions : Head(queue) = <<"acquire", s>> /\ policy # Workspace[s]
                 \/ \E c \in Commands : Head(queue) = <<"command", c>> /\ command[c] = "entering"
                                                                  /\ policy # Workspace[Of[c]]

\* What runs and is not late has the sandbox, and nobody takes it down.
Held ==
    /\ ~windows => \A s \in Sessions : state[s] # "queued"
    /\ ~windows /\ initialized = "done" /\ manager # "on" => \E s \in Sessions : state[s] = "stopping"
    /\ \A c \in Commands \ late : command[c] = "running" =>
         /\ initialized = "done" /\ manager = "on" /\ (windows => policy = Workspace[Of[c]])
         /\ \A s \in Sessions : state[s] # "stopping"

IInv == TypeOK /\ Counted /\ Queued /\ Held

=============================================================================
