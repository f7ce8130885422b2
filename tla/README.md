# Formal models of DevSpace

DevSpace (`src/`) exposes a local coding workspace to an MCP host. The host reads and edits files,
runs commands, and starts turns of provider agents (Codex, Claude, OpenCode, Pi, Grok and others)
that a background daemon manages. Several processes share one state directory with a SQLite database:
MCP servers, one agent daemon, CLI calls. This directory holds TLA+ models of the parts whose
correctness depends on the order of steps of several actors, with their TLC runs and TLAPS proofs.

Run from this directory: `tlc -workers 2 -config turns.cfg MCAgentTurns.tla`,
`tlapm AgentTurnsProofs.tla`. `PROJECT.json` lists components, runs, mutants, the map of definitions
to source lines, findings, hazards and theorems.

## Inventory

| Component (src/src) | State | Operations | What is hard | What makes it correct |
|---|---|---|---|---|
| `execution-coordinator.ts` | tables `execution_claims`, `execution_waiters` shared by all processes | acquire, enqueue, tryAcquire, cancel, bindThread, release, close | processes interleave; tickets expire; owners die; limits differ per process | no two conflicting claims; limits; queue order; no starvation; nothing is stolen |
| `local-agent-manager.ts` | turns in memory (`activeTurns`), accepting flag | start, continue, cancelQueued, close, the turn itself | awaits between check and use; death between two transactions; resent requests; close beside late starts | one provider call per request; excluded turns apart; nothing pending for ever |
| `local-agent-store.ts` | agent records, task keys, continuation keys | createTask, reserveContinue, update, reconcileActiveRuns | keys and budget are checked in one transaction, records change later | keys are unique; budget; a restart settles what was pending |
| `work-ledger.ts`, `agent-usage.ts` | work runs, executions, threads, usage | begin/endExecution, attachThread, recordUsage, finish, reconcile | late and cumulative usage reports; restart; one thread used by many executions and by other applications | executions tell what the provider did; usage is counted once |
| `local-agent-daemon*.ts` | lock, pid and socket files; runtimes in use | acquire, release, start, close, serve, prepare an upgrade | several processes start at once; stale locks; failed starts; an upgrade while turns run | one daemon; a serving daemon is reachable |
| `local-agent-runtime-pool.ts` | runtimes, sessions, leases | run, evictIdle, releaseSession, close | opening in flight, eviction beside acquisition, abort | one runtime per key; nothing closed in use |
| `local-agent-client.ts` | the shared start of a daemon | connect, spawn, upgrade, request with retry | a daemon that starts, stops or is replaced meanwhile; lost answers | a client is told the truth; nothing runs twice |
| `local-agent-acp.ts`, `-grok.ts`, `-codex.ts`, `-opencode.ts`, `-claude.ts`, `-pi.ts` | a provider's process or connection, queues of updates, pending requests, turns | start, run, release, close | messages that are late, early, repeated, missing or of another turn; a process that dies or hangs | a turn returns its own result under its own mode; close ends everything |
| `local-agent-pi-sandbox.ts`, `sandbox-command.ts` | a sandbox shared by sessions; a worker process per command | acquire, release, run; stop, force, settle | last release beside a new command; kill, exit and messages in any order | no sandbox is taken away in use; an answer means that all is gone |
| `process-sessions.ts` | running commands, output buffers, claims | start, write, read, terminate, shutdown | exit beside read, buffer limits, shutdown beside starts | a claim lasts as long as its command; output is accounted for |
| `tool-surfaces/web-commands.ts`, `command-receipts.ts` | sessions in memory, receipts by request key in the shared database | start, status, stop, shutdown | resent commands in several processes, awaits between check and reservation, failed cleanups and saves, death while running | one execution per key; a status is true; a clean exit has saved every result |
| `project-archive.ts`, `codex-thread-control.ts` | batches, entries, archive state of threads | plan, execute, reconcile | answers of an external side effect that are lost or late; agents that begin turns meanwhile | the recorded state is the provider's; no turn on an archived thread |
| `oauth-provider.ts`, `oauth-store.ts` | codes in memory, token pairs in the database | authorize, exchange, refresh, verify, revoke | concurrent refreshes, restart, expiry | a code is used once; rotation leaves one pair; consent is never exceeded |
| `workspaces.ts`, `workspace-store.ts`, `git-worktrees.ts` | sessions and bindings in the database, a cache | open, restore, create a worktree | overlapping opens of one conversation; a directory that is missing; restart half-way | a conversation keeps its workspace |
| `review-checkpoints.ts` | two hidden git refs per workspace | initialize, review, mark, reopen | several git commands per operation, overlapping reviews, restart | the baseline descends from the open checkpoint; reviews can be reopened |
| `incoming-artifacts.ts`, `artifact-tools.ts` | partial files and the destination | recognize, request and follow redirects, download, publish, clean up | failures on every step; a destination that appears meanwhile; old partial files of others | whole files only; nothing replaced; no response left open |
| `apply-patch.ts`, `filesystem-operations.ts` | the workspace's files | stage and write a patch; create, replace, move, delete | two names of one file; failures half-way; other programs | a patch means its actions; no text is lost |
| `codex-projects.ts`, `codex-desktop-open.ts`, `codex-desktop-catalog.ts` | the pending links of a process | ensureDesktopProject | the user and other registrations move threads and projects meanwhile | no thread is taken from a user's project |
| `user-config.ts`, `config-migration.ts` | configuration, backup and auth files | load with migration, set | processes that start or edit while another migrates | an upgrade keeps the settings |
| `db/client.ts`, `db/migrations.ts`, `db/schema.ts` | the schema of the shared database | open, 13 migrations | several processes migrate one older database; earlier builds did parts by other means | whoever has it open finds the schema it queries |
| `emulator-session-recovery.ts` | - | prove, inspect, stop, report | process numbers and serials are used again while adb runs | only the recorded emulator is stopped |
| tool surfaces, HTTP, console views, CLI, skills and profiles, UI | little or none | translation, routing, rendering | - | tested by example; not modelled |

Interactions: a tool surface calls the client, which talks to the daemon over its socket; the daemon
calls the manager; the manager writes the store and the ledger, takes claims from the coordinator and
runs turns in the pool, whose runtimes are the drivers; commands (`process-sessions.ts`) and file
mutations take claims from coordinators of other processes on the same tables. Archive batches take
such claims too and read what the ledger says of threads.

## Modules

| Module | Models | Relation to others |
|---|---|---|
| `SourceClaims` | what the coordinator promises: activities that exclude each other do not overlap, and may name the provider thread they work on later | abstract |
| `ExecutionCoordinator` | `execution-coordinator.ts`, every operation | implements `SourceClaims` |
| `AgentTurns` | `local-agent-manager.ts` with the records of `local-agent-store.ts` and the executions of `work-ledger.ts` | runs on `SourceClaims` |
| `RuntimePool` | `local-agent-runtime-pool.ts` | the provider stages of `AgentTurns` in detail |
| `AcpRuntime`, `CodexRuntime`, `OpencodeRuntime`, `ClaudeRuntime`, `PiRuntime` | the drivers | a runtime of `RuntimePool` each |
| `PiSandbox`, `SandboxWorker` | `local-agent-pi-sandbox.ts`; `sandbox-command.ts` | the tools of `PiRuntime`; the running command of `WebCommands` |
| `UsageLedger` | `work-ledger.ts`, what executions are charged | the ledger's part that `AgentTurns` leaves out |
| `DaemonLock`, `AgentClient` | ownership of the state directory; client and serving daemon | the lock file of one is a variable of the other |
| `WebCommands`, `ProcessSessions` | the two kinds of commands | `AgentTurns` has their claims |
| `OAuthTokens`, `Workspaces`, `ReviewCheckpoints`, `ProjectArchive`, `IncomingFiles`, `Downloads`, `ApplyPatch`, `FileOperations`, `DesktopProjects`, `ConfigFiles`, `Migrations`, `EmulatorRecovery` | the files of the same names above | `Downloads` reads the source that `IncomingFiles` opens |
| `Agents`, `Services` | the components of the daemon and of the server that share no state, side by side | one `INSTANCE` per component |
| `MCExecutionCoordinator`, `MCAgentTurns`, `MCRuntimePool`, `MCWebCommands`, `MCAgents`, `MCServices` | instances for TLC | extend one module each |
| `MCProgress` | the components whose progress is checked | one `INSTANCE` per component |
| `ExecutionCoordinatorProofs`, `AgentTurnsProofs`, `RuntimePoolProofs`, `WebCommandsProofs`, `ProcessSessionsProofs` | theorems | extend one module each |
| `DriverProofs`, `AgentProofs` | theorems about the parts of `Agents`: the five drivers; the lock, client, ledger, sandboxes and the whole | `AgentProofs` extends `DriverProofs` |
| `ServiceProofs` | theorems about parts of `Services` | extends `Services`; cites `ProcessSessionsProofs` |

Besides its definitions a module holds *faults*: operators with the parameters of an action or a
helper that differ from it as a plausible bug of the code would. They stand before the definition they
vary and nothing uses them in a normal run; substituting one for its original must make a run fail.
`PROJECT.json` lists one for each property of each run. A property that is a conjunction has further
faults in the modules, each of which violates another conjunct: `StoppedAlone` and `LinkOver`; `Whole`,
`CompletedAnyTurn`, `ConfigureLater` and `StartsAtOnce` (one per driver); `ProbeEndpoint`;
`ForceQuietly` and `CloseWaits`; `FinishOnly` and `PublishByRename`; `ExchangeThenDelete` and
`LookAtConsent`; `AppendUncounted`, `ConsumeWithoutDrain` and `ShutdownClosing`; `RolledBack`;
`IsSameName`; `OpensAnyway`; `BindAgain`; `BeginEarly`; `FinishUnchecked`, `EnterUncounted` and
`EnterAtOnce`; `InsertOrRepeat`.

### ExecutionCoordinator

Each method is one immediate transaction (or one statement), so each method is one action; processes
interleave by their calls. `claims` and `waiters` are the rows of the two tables, `thread` the
`thread_key` column, `handle` what the caller in memory believes it has, `open` the coordinators that
are neither closed nor dead. The autoincremented sequence is kept as the order it induces (`ahead`),
the clock as the set of waiters whose row has expired. Paths are sequences of names, `GitRoots` the
directories with a `.git` entry, so that `canonicalExecutionRoot` is computed and nested repositories
and worktrees differ as they do in the code. A refused call throws and rolls back: it is the absence
of a step. A poll that is refused is a step (`StayQueued`), because it commits the deletion of
expired rows.

Close deletes the owner's waiters and leaves its claims, a crash leaves both. Nothing in the code
removes the claims of a dead owner; `NeverStolen` states that, and `TicketsSettle` that waiters do
not hang on them.

### DaemonLock

An action is one system call on a shared file, since processes interleave between those. (`release`
reads the lock's pid and then unlinks; the two are one action here.) A file is represented by the
process that wrote it. A pid is never used again for another process: what a reused pid would do is
outside the model. `Attempts` is 2 as in the code.

### AgentTurns

The daemon's code runs on one thread. Each database transaction is one action, since the process can
die after any of them; `busy` names the request whose code occupies the thread between two awaits, so
that nothing else of the same process interleaves there. Stage by stage: `arriving` (accepted, its
profiles are being read) -> `accounting` -> `admitting` -> `recording` (begin; or `refusing`) ->
`waiting` for a ticket -> `dispatching` -> `preparing` -> `provider` -> `ending` -> `releasing`.
Crash empties everything in memory and keeps `durable` and `claims`; Boot, ReconcileLedger and
ReconcileStore are the three steps of the next start.

The claims are `SourceClaims`: the start of an activity is allowed when nothing that is held excludes
it, and may be refused or delayed for any other reason (the queue, the limits), so what holds here
holds for every policy of the coordinator. Other processes' commands take and release conflicting
claims at any time.

Left out: errors of SQLite itself; profiles, models and text; the content of answers. A provider is
assumed to return or fail, which the pool's interruption on close guarantees.

### RuntimePool

The pool lives in the daemon's single thread, so an action is what a call does between two awaits.
Continuations of promises that have settled run before the event loop takes another event: `Quiet`
says that none is ready, and the actions of the outside world (a new call, a provider's report or
result, a timer, a death) require it. Where the code awaits promises that are already resolved, the
steps belong to one action. A runtime is named by the call and the attempt that creates it, as a call
creates at most one in each of the two attempts of `run`.

`current` is the map of entries, `closing` and `cleanup` the reason and the progress of an entry's
`closePromise`, `activeRuns` and `users` the counters the code keeps, against which
`CountersTellCalls` holds the calls themselves. Time is left out: an entry or a session that nobody
uses may be found idle whenever `evictIdle` runs. A session may fail to be released, a runtime to be
created or closed, and a runtime may die at any time.

`close` awaits the entries in its map. A runtime that an eviction or a crash has removed before is
still closing when it returns; `ShutdownCovers` states what is guaranteed.

### WebCommands

Several server processes share the table of receipts; each has one `WebCommands` with its own map of
sessions. `start` awaits twice before it reserves: a call is `opening` until its root is known (`Look`
at the table), then `checking` until paths and git metadata are known (`Recheck`), and then runs to
the end without an await. That last part is still two actions, because another process can commit
between the second look at the table and the insertion; `Busy` keeps other code of the same process
out. A lost insertion starts again (`Begin`). The execution of a session is `preparing` (metadata
again), `running` in the sandbox, `settling` (its result is about to be saved, also cut from what
precedes it because a crash or another process can come between), and `over`.

A key stands for workspace and request key together; a session is named by the call that reserved it;
`receipt` and `completed` are the rows, `snapshot` the one field `running` of the snapshot, in memory
and in a completed row (a row that is not completed is reported as `unknown`, whatever it holds).
`stray` records commands that may run although nobody controls them: after a failed cleanup or a
crash. `ran` is the history of commands that have been run. `mutate` may refuse a session because of a
conflicting claim; that is the choice in `Open` to settle at once.

Left out: the text of commands and output, the retention of the latest 128 outputs, errors of SQLite
other than a failed save of the result. `command_status` only reads; it is the operator `Report`.

### AgentClient

Clients probe the daemon, start one when none answers, ask an older one to shut down, and send a
request on a connection of its own. `wire` holds the requests that are sent and not yet served: the
sender may have given up (a timeout) while its request is still served. `daemon` and `speaks` are the
processes and the versions of their protocol, `lock` the owner of the lock file, which an older daemon
keeps while its runtimes close. `ran` is the history of what each call has run in which daemon.
`RunsTold` states what each answer means; `UpgradeNotRefused` that the daemon spawned by an upgrade does
not end on the lock of the one that it replaces.

### The drivers

Each module has what a provider writes as a queue or a history, the provider's own steps (it is
external: any message that its protocol allows, in any order that it allows, or its death), and the
steps of the turns between two awaits. Each states that a turn returns what belongs to its own prompt.
The code leaves exceptions, and the properties name them:

- `AcpRuntime` (ACP agents and Grok): updates go to the one queue of a session, which has one turn at a
  time since the turn's claim names the thread (`InFlight`); a turn ends by its
  response or, for Grok, by a private completion. A turn that was given up after a timeout, or settled
  by a completion that does not name its prompt, may leave messages to the next one: its session is
  `spoiled`. `TakenDown` states that close ends the process (SIGTERM, then SIGKILL) and every turn.
- `CodexRuntime`: events of a turn may precede the answer to `turn/start` and are `held` until it
  comes. When `turn/start` times out the server may run the turn nevertheless: the thread is `spoiled`.
  Lines are read after the connection has failed too: late usage may still reach its turn, nothing else does.
- `OpencodeRuntime`: a turn polls history and active sessions, one after the other, until the turn
  `IsOver` or it is given up. A turn given up
  before spoils its session; a turn whose own message is an error may return an earlier text.
- `ClaudeRuntime`: the authority of the one warm query is changed between turns; a turn that is refused
  in the middle may leave its prompt to the query (`spoiled`).
- `PiRuntime`: messages are counted before a prompt, and compaction shortens them meanwhile. When the
  pool shuts down under a run, `close` forgets the session's sandbox state, and
  `updatePiSandboxSession` of a turn that has not yet set its mode returns early
  (`local-agent-pi-sandbox.ts:160`): that turn would use tools in the mode of the one before it. The
  clause about modes excepts a runtime that is closing or closed.

`RejectionsHandled` of `CodexRuntime` is violated, see below.

### PiSandbox and SandboxWorker

`PiSandbox`: sessions share one sandbox manager; `queue` is the chain of operations through which
everything goes on Windows. Off Windows a command may begin while the last release takes the manager
down; those commands are in `late`, the exception of `SandboxHeld`.

`SandboxWorker`: the parent, its worker and the command are three actors with a FIFO channel each way;
the parent's steps are its event handlers (message, exit, close) and its two timers (stop, force). The
command may leave background jobs and `KillFails` lets a kill have no effect. `AnswersAreClean` says
what an answer other than `SandboxCleanupError` promises.

### UsageLedger

One thread, whose provider counts tokens cumulatively (`spent`); `told` are the notifications under way.
`row` holds an execution's baseline, last total and charge. An execution is begun, attached to the
thread, told counts, ended; a late count reaches an ended execution; a crash leaves executions to
reconcile. `MaxExternal` turns of other applications use the thread in between.

### ProcessSessions

`sessions` is the map, `process` and `running` the child and the manager's view of it, `buffer` the
limited output (head, tail and the characters dropped between), `got` what polls have returned,
`claims` the coordinator's claims. Characters are numbered as they are written, so that `OutputAccounted`
can say that nothing is repeated, reordered or silently missing; with the claims, which last as long as
their command, this is `CommandsAccounted`.

### The other services

- `OAuthTokens`: codes live in the process that issued them (`home`), tokens in shared rows (`access`,
  `refresh`). A call looks at the row, and consumes it in a later transaction; others commit in between.
- `Workspaces`: `sessions` and `binding` are durable, `cache` and `pending` are not. An open passes
  through stages between its awaits; opens of one conversation may join the pending one. `gone` are the
  workspaces whose directory has been missing, which alone may lose their conversation.
- `ReviewCheckpoints`: an action is one git command. `open` and `baseline` are the refs, `commits` the
  parents; `openKnown`, `baselineKnown` what the process believes.
- `ProjectArchive`: an execute call claims the checkout, inspects, acts, verifies; `asked` and `sent`
  are requests that may take effect after their answer was given up. Agents (`agent`) begin turns on
  the thread: the admission of `AgentTurns`, before which a step sees nothing of the turn; the work run is
  the thread's (`open`) from `attachThread` on.
- `IncomingFiles` and `Downloads`: the first ends with a source or with every body closed; the second
  writes a partial file, checks the declared size and the limit, syncs, links it to the destination and
  removes it. A call may die at any point and another cleans up what is old (`aged`).
- `ApplyPatch`: the staging in memory, then writes, then deletions; any call may fail, those included
  that put a backup back or remove it and the temporary file. `File` maps paths to files, so several
  paths may name one file, where the file system ignores case (`Folded`) or through a link to a
  directory. The reference is the history variable `meant`: each action as it is staged also acts on the
  files themselves (`Act`), and `Follow` keeps where every text has gone. `MeansItsActions` compares it
  with what is written, `NothingLost` looks for each text that was not to be removed, but for one that
  moves away while another takes its place. The code compares files only within a move
  (`apply-patch.ts:385`) and stages by path, so a patch whose actions use one file under two names stages
  two texts of it, of which the last one written, or a deletion, wins: a text is lost. Such patches are in the run
  and in the theorem; their files (`meant.twice`, with the destinations of moves from them) are the exception
  of both properties, which still hold for every other file of the patch. A move that only respells the
  name of an existing file is no such use (`Respells`). Left out are links from file to file.
- `FileOperations`: one operation at a time under its claim, beside another program that replaces or
  deletes files (`disturbed`, the exception of `NothingOverwritten`) or creates them.
- `DesktopProjects`: registrations beside a user who moves threads and edits projects.
- `ConfigFiles`: calls of the file system by a process that starts and by editors. A migration that is
  undone after its backup failed (`undone`) is the exception of `UpgradeKeepsSettings`.
- `Migrations`: a database as any earlier build left it (`After1` to `After13` and their variants), its
  columns a set; every migration is an operator on it, creating a table that exists fails. Processes take the write lock one at a time.
- `EmulatorRecovery`: the machine lets process numbers and serials name other emulators; a serial that
  changes hands after the second inspection (`replaced`) is the exception.

## Runs

Three runs check several components at once. Components that share no state would only multiply each
other's states, so a behaviour of `Agents`, `Services` or `MCProgress` is one of a single component,
which the variable `part` names; the others keep their initial state, of which one is fixed. A property
speaks of its component's part.

| Run | Checks | Bounds, and why they are enough |
|---|---|---|
| `coordinator_claims` | `MutualExclusion`, `WithinLimits`, `ImplementsSourceClaims`, `TicketsSettle` | Two processes, four requests: a reader inside a checkout, a resumed agent in a worktree with a thread and a device, a new agent that may report the same thread, a command in a nested repository with the same device. Every kind of conflict occurs between two of them; both owners may close or crash; the queue holds three, limits differ per process |
| `turns` | `NoReplay`, `ProvidersExclude`, `PendingHasTurn`, `InterruptedKeepsClaim`, `PendingSettles` | Two starts in one context, a continuation of the first, one foreign command, all in conflict; requests are sent again without bound; one crash between any two transactions, closes and restarts without bound |
| `pool` | `PoolConsistent`, `CleanupSparesTurns`, `ShutdownCovers`, `EverythingSettles` | Two calls with two attempts each for one runtime and one session, so up to four runtimes, any of which may die by itself. The call that creates, one that joins or resumes the session, evictions and a shutdown meet |
| `web_commands` | `AtMostOnce`, `ReportsTrue`, `EverythingSettles` | Four calls: a request, the same sent to another process, its key with other inputs, and another request. Limit 1, so it is met. One of two processes may crash, cleanups and saves may fail, both may shut down at any time |
| `agents` | `TypesOK`, `OneDaemon`, `CallsTold`, `TurnsApart`, `SandboxesSound`, `BilledOnce`, `NothingTakenAway` | Four processes of the daemon whose starts may fail, no death; two clients with a call each, an older daemon with a turn, two newer daemons; two turns of one session per driver (three for Claude, so that a writing turn lies between two reading ones); two Pi sessions in two workspaces; one sandboxed command; two executions, three tokens, one crash, one foreign turn. An ACP prompt has one update, in a queue of one (a queue that overflows is left to the proof, which is for every length of the queue and every number of updates); a Pi turn with full access comes before one in the workspace. About 1.2 million states |
| `services` | `TypesOK`, `TokensRotate`, `WholeFiles`, `NothingHangs`, `CommandsAccounted`, `BaselineDescends`, `ArchiveTrue`, `PatchesMean`, `OpenIsMigrated`, `ThreadsStay`, `UpgradeKeepsSettings`, `StopsTheRecorded`, `BindingsKept`, `NothingOverwritten` | For each component the two or three calls that meet, with one restart or crash where it can have one: one grant with three calls of its client and one of another in two processes; three downloads to one name; two commands, a poll and a mutation with a buffer of one character; two opens of a conversation and a worktree; an open, two reviews of which one marks, a reopening; two archiving batches and a restoring one; all patches of one or two actions over three files, one of which has another spelling and a path through a link, and one another spelling; four file operations; two migrating processes; two registrations and two projects; a loader and two editors; three emulators. About 784 000 states |
| `progress` | `NoStarvation`, `StaleLockRemoved`, `ChildrenSettle` | Two readers, a writer and a command of one checkout that come again and again, no expiry; four processes of the daemon, one of which dies at any point; two prompts of an agent that may hang or die; one sandboxed command that may hang |
| `daemon_takeover` | `OneDaemon` is violated | A dead process's lock is there at first |
| `daemon_cleanup` | `SocketOnlyRecovered` is violated | One start fails |
| `turns_budget` | `SessionBudget` is violated | Budget 1, no crash |
| `review_refs` | `RefsSurvive` is violated | Both reviews mark, no restart |
| `codex_rejections` | `RejectionsHandled` is violated | Two turns of one thread, an app-server that may die |

Deadlock is not checked: all requests may have been answered, or all processes gone.

Fairness. `coordinator_claims` assumes that tickets are polled, that time passes and that a poll on an
expired ticket ends it; owners may die with their claims. `turns` assumes that the event loop takes
every event that stays ready, a ticket has a deadline, a provider returns or fails, and that a down
daemon is started again; it does not assume that any claim becomes free. `pool` assumes that creations,
releases and closes of runtimes settle and that a run in a dead runtime ends; a turn of a living
runtime may be stuck for ever. `web_commands` assumes that what a call awaits settles and that a
command ends, by its timeout at the latest; it assumes no shutdown, stop or successful save.
`progress` assumes for the queue that the manager polls its tickets (every 100 ms) and that turns that
have started end; for the lock that a living process takes its next call; for the driver and the
sandbox that the timers of the parent fire and its events are handled, and nothing of providers,
commands and workers. `NoStarvation` is about conflicts: a waiter that is only over a limit of agents
or readers can be passed by newcomers for ever, since `blocker` counts the active claims and not the
waiters before it, and no document promises otherwise.

### Where code and documents disagree

- `daemon_takeover`: `removeStaleLock` renames by path. Three contenders find the lock of a dead
  process; the first renames it away and links its own, the second, which had inspected the old lock,
  renames the new one away and links its own. Both own the directory, although
  `docs/local-agent-daemon.md` says a second daemon cannot start.
- `daemon_cleanup`: the failure path of `start` releases the lock and afterwards removes pid and socket
  files, which may by then belong to the next daemon; the document says they are recovered only when
  the recorded process is no longer alive.
- `turns_budget`: the budget of new provider sessions counts records that are not stopped or have a
  session. A refused or cancelled start leaves a stopped record without one; continuing it later opens
  a session beyond the budget the documents state.
- `review_refs`: two reviews of one workspace that are marked at once both put their commit on the old
  baseline; the later `update-ref` drops the earlier commit, and `reviewByRef` refuses the reference
  that the first review returned, although a test's name says that historical review refs survive later
  reviews.
- `codex_rejections`: when the app-server dies while `turn/start` is unanswered, `fail` rejects both the
  request and the turn's completion, on which nobody waits yet. An unhandled rejection ends the daemon,
  where the document says that expected failures cross its boundary as structured error codes.

## Proofs

TLAPS proves the following for every value of the constants (any number of processes, requests,
threads, agents, crashes), from the named assumptions in the modules. Where a property is no longer
listed for a run, the theorem is the stronger statement: `RowsMatchHandles`, `NeverStolen`,
`LedgerTellsCalls`, `ExecutionsFinal`, `SameInputs`, `OwnerCanTell`, `CleanExitTells`,
`NothingBeginsLate`, `Capacity` and the `TypeOK` of four modules.

Each invariant is proved from one that is inductive, `IInv` of its module (or the named parts in a
proof module), which TLC has checked as an invariant of the same instance before. What an `INSTANCE`
needs of its constants is the named assumption of the module it instantiates; `AgentsAssumption` and
`ServicesAssumption` collect them, and TLC evaluates them in the runs. A theorem about a component is
about its own specification, for instance `Acp!Spec => []Acp!AnswersOwn`; `EachItsOwn` says that a step
of the whole is a step or a stutter of every component, from which the properties of the runs follow.

**ExecutionCoordinatorProofs.** Type correctness; `RowsMatchHandles`; `MutualExclusion`; `AgentLimit`,
`ReaderLimit` and with them `WithinLimits`; `QueueOrder` (no two tickets wait for each other);
`NeverStolen`; and the refinement of `SourceClaims`.
Exclusion is inductive once stated for every pair of claims with the threads they are bound to now:
admission checks the newcomer against all rows, and `bindThread` is the only step that changes a row.
The limits are properties of *groups* of claims because processes may be configured with different
ones: the last admitted member of a group has checked its own limit against all the others. The order
of the queue needs that the waiters ahead of a row are rows themselves and are closed downwards, which
expiry and deletion keep because they remove a row from every row's predecessors.

**AgentTurnsProofs.** Type correctness, `NoReplay`, `LedgerTellsCalls`, `ExecutionsFinal`,
`InterruptedKeepsClaim`, `ProvidersExclude` and `PendingHasTurn`, in three layers. *Flow* ties the
stage of a request to its key, execution and number of provider calls: a request enters `accounting`
only without a key, and gets one in the same transaction. *Owning* says that at most one request per
agent has a turn, and that the thread belongs to the request in a transaction stage. *Charge* ties a
claim handle to the held claim and the status of the record to the turn. An interrupted call keeps its
claim because only the turn that took it releases it and no later turn of the same agent can be
admitted while it is held.

**WebCommandsProofs.** All its safety properties: type correctness, `AtMostOnce`, `SameInputs`,
`Capacity`, `ReportsTrue`, `OwnerCanTell`, `CleanExitTells` and `NothingBeginsLate`. *Rows* says that
whatever belongs to a session belongs to the row of its key, *Places* that code runs in living
processes, *OneBusy* that one call per process is between two awaits, *Records* what the progress of an
execution says of its snapshot and of where it can be found, *Closings* that a closed service has
aborted all its sessions. `AtMostOnce` then holds because only the session named by a row is ever run
and a row is never replaced. `Capacity` needs *Rooms* in addition: a call that is about to reserve has
found room, and nothing of its process can take it before; its proof counts the sessions before and
after each step.

**RuntimePoolProofs.** `PoolConsistent`, `CleanupSparesTurns`, `ShutdownCovers`, for any calls, keys
and sessions. *Places* says which entry a call of each stage is at, *Fresh* that an entry is created once
by the call and attempt that names it, *Mapped* that the map holds the open runtimes, *Closings* why and
how far an entry closes, *Awaited* what a shutdown waits for, *Kept* that a reserved session is kept while
its entry is open. The counters are the cardinalities of the sets of calls in use, so that eviction, which
looks at the counters only, is shown to look at the calls.

**ProcessSessionsProofs.** `CommandsAccounted`, for limits of any size. *Begun*: a process begins when its
start leaves the import, so that its claim is there before. *Told* with *Buffered*: the answers tell what
came before the buffer, which has the first and the last of what came since. The text of an answer is a
concatenation of a head, a mark and a tail of such pieces; the lemmas from `JoinSays` to `AnswerTells`
say which characters it says, in which order, without computing it.

**DriverProofs.** `TurnsApart` of the five drivers, for any number of turns, threads, messages and for
any limits.
- Pi: one turn at a time (*Alone*); from the mark on, the session says what is of its prompt or a summary
  (*OwnSince*); the tools have its mode (*Moded*).
- Claude: there is one prompt, in the queue, with the query, or over with a result that is last in the
  stream (*Whereabouts*, *Under*), or none (*Quiet*); until then nobody changes the authority.
- Codex: the app-server says of a turn what it has to say before it says that it has completed (*Sent*);
  while there is more to be read of a turn it is the current one of its thread (*Followed*), and once the
  connection has failed no thread has one (*Cleared*); what a turn has gathered is its own (*Gathered*).
- OpenCode: the history of a session ends with the prompt of its turn and at most one message after it
  (*InOrder*), so that what a page shows as completed is that turn's (*Told*). A page is the end of a
  history of any length; `LastPlace` picks the last text in it.
- ACP: a session has one turn in flight (*Exclusive*); no update follows the response or completion of its
  prompt (*Ordered*); the queue of a prompting turn has the last updates of its own that fit, in number the
  lesser of the limit and of what was written and read (*Queued*); the turns before it are silent
  (*Silent*). That an answer is complete needs the count of the unread updates on the wire.

**AgentProofs.** All the invariants of the run `agents`, and its action property.
- The lock: `OneDaemon` and `OwnerHasLock`, and that a serving daemon keeps its socket, under
  `NothingStale`: there is no stale lock and nobody dies. Whoever has published a lock and not yet released
  it has its own lock in place, and nobody is about to rename. Without the hypothesis the run
  `daemon_takeover` shows `OneDaemon` false, so it is not weaker than it must be.
- The ledger: `BilledOnce`. *Phased* has one turn at a time, *Divided* puts the counts of an execution,
  also those that come late, below the counts of its successors when it has a baseline, *Linked* makes the
  baseline the last count of the execution before it; *Charges* says what a charge rests on.
- The sandboxed command: `AnswersAreClean` and `ResetAfterCommand`, over FIFO channels of any length.
  *Confirmed*: the last message of the worker says that the runtime has been reset. *Killed*: the group is
  told before its end is and killed before the worker cleans up.
- Pi's sandbox: `SandboxHeld`. *Counted* ties the counters to sets, *Queued* what is set up to the first of
  the queue on Windows, *Held* says that what runs in time has the sandbox and that nobody takes it down.
- The client: `UpgradeNotRefused` and `RunsTold`. *Replaced*: the older daemon never starts again; *Asked*:
  a call has one request on the wire or none; *Ran*: it has run in one daemon or none.
- `TypesAreRight`, `TurnsAreApart`, `CallsAreTold`, `TokensAreBilledOnce`, `SandboxesAreSound` and
  `NothingIsTakenAway` put them together.

**ServiceProofs.** All the properties of the run `services`. `TokensRotate`: *Lineage* says that a pair
in the tables was granted from a code that is used or from a token that is gone; the history variable
`grant` names the approval from which it descends. `ArchiveTrue`: *Open* (while the outcome of an entry is
open, its thread is neither active nor archived in the ledger and no other batch has it open), *Asked*
(requests without effect so far are of such entries), *Stepping* (what a step found is still so after each
await, because it holds the checkout), *Excluded* (no agent begins there meanwhile). `ThreadsStay`: *Seen*
and *InPlace*, what a call has read is still so unless somebody moved it since. `StopsTheRecorded`: *Named*
and *Stopping*, the serial is the recorded emulator's own from the second inspection until it changes hands.
`CommandsAccounted` instantiates the theorem of `ProcessSessionsProofs`.
`WholeFiles`: *Completed*, a partial file is whole from its synchronization on, and only then linked.
`NothingHangs`: *Progress* says which body is open at each step and that a conflict between source and
reference has been looked for, *Agrees* what that has shown. `UpgradeKeepsSettings`: *Migrated*, once the old
settings are published there is a file with them, and whoever is past the steps that publish it holds them.
`NothingOverwritten`: *UnderWay*, an operation that acts has opened the very version that its caller named,
and the name still has it unless somebody disturbed it; *Numbered* keeps the identities of files apart.
`BaselineDescends`: *OneInitializes* (one call initializes, and nobody reviews meanwhile) and *Reviewing* (a
review goes on from a descendant of the open checkpoint). `IsAncestor` is stated by the sets of commits that
are closed under parents, so that its transitivity and its stability under new commits can be proved without
induction. `BindingsKept`: *Records* (what a conversation is bound to has a session), *OneOpens* (one open
per conversation is between its first and last await; the others wait for it) and *Remembered* (the binding that
an open found missing is gone and not the one it answers with).
`OpenIsMigrated`: *Sound* says of a database, committed or in a transaction, that the migrations it records
have left what each has *Promised*, that the tables which a later migration creates without looking are
not there yet, and under which name the level is. One lemma per migration shows that it keeps *Sound*,
and one that every earlier build left a sound database. *Opening*: who migrates holds the lock, and its
transaction records what it found and what it has passed. `PatchesMean`: while a patch is staged, what is
staged of a file is the text the actions so far give it, and no two entries are of one file, unless the
actions use it under two names (*Staged*, *Meaning*); then *Wrote* says for each phase what the file of each entry holds, whatever the order of the
entries. `TypesOK`: the types of all the components, each a part of its invariant, three with a
conjunct of their own: *Cached* (no more workspaces than the limit are cached), *Bounded* (no commit is of a later
tree than the present one) and *Streams* (there is a source only while it is checked and when it is opened).

The proofs have corrected the models. `AcpRuntime` let two turns share a session, which the claims forbid
and which one update per prompt did not show; `PiRuntime` had not the turn that a shutdown meets, with its
exception; several helpers chose among overlapping cases. Assumptions on constants that nobody had
written, for instance that a limit is not zero, are stated where the proofs needed them.

Every invariant and action property of every passing run is the statement of a theorem. Only model-checked
are the liveness properties under fairness (`NoStarvation`, `TicketsSettle`, `StaleLockRemoved`,
`PendingSettles`, `EverythingSettles`, `ChildrenSettle`), which are out of the prover's reach. What a hunk
makes of a text (`ApplyHunks`, a fold) stands on both sides of `MeansItsActions`; the theorem holds whatever
it is, so it says nothing of how hunks are matched.

## Not modelled

Parts of modelled components that are left out: the close of one agent's session and the retention
sweep of the manager; the registration of OAuth clients; instruction files, skills and profiles of a
workspace; path containment (`roots.ts`) and git metadata; the syntax of patches; schemas and
environment of the configuration; errors of SQLite itself.

Left out for good: tool surfaces, HTTP routing and transport, console views, progress and test
receipts, the command line, skills, profiles and catalogs of providers, and the user interface, which
translate or render and keep no state that several actors change.
