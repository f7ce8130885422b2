------------------------------- MODULE Agents --------------------------------
(***************************************************************************)
(* The parts of the agent daemon that share no state, each in an instance  *)
(* of its own: the ownership of the state directory, the client, the       *)
(* drivers of the providers, the sandboxes of their commands and the count *)
(* of the tokens that their turns spend.  A behaviour is one of a single   *)
(* component, which `part` names; the others stay as they begin.  MCAgents *)
(* gives the constants their values.                                       *)
(***************************************************************************)
EXTENDS DaemonLock, Naturals, Sequences, FiniteSets

CONSTANTS
    Parts    \* the components that run

-----------------------------------------------------------------------------
\* Clients that find, replace and call daemons (local-agent-client.ts).
CONSTANTS Clients, Version, Calls, Caller, Candidates, Older, OlderVersion, OlderTurns
VARIABLES client_daemon, client_speaks, client_lock, client_turns, client_wire, client_startup,
          client_spawned, client_upgraded, client_refused, client_call, client_ran
clientVars == <<client_daemon, client_speaks, client_lock, client_turns, client_wire,
                client_startup, client_spawned, client_upgraded, client_refused, client_call,
                client_ran>>
Client == INSTANCE AgentClient WITH
    Client <- Caller, Daemons <- Candidates, daemon <- client_daemon, speaks <- client_speaks,
    lock <- client_lock, turns <- client_turns, wire <- client_wire, startup <- client_startup,
    spawned <- client_spawned, upgraded <- client_upgraded, refused <- client_refused,
    call <- client_call, ran <- client_ran

-----------------------------------------------------------------------------
\* The driver of ACP providers (local-agent-acp.ts).
CONSTANTS Sessions, Want, Override, Grok, Resume, MaxUpdates, QueueLimit, MemoryLimit
VARIABLES acp_boot, acp_child, acp_alive, acp_closed, acp_connected, acp_live, acp_metadata,
          acp_routed, acp_queue, acp_active, acp_pending, acp_completed, acp_stage,
          acp_session, acp_answer, acp_spoiled, acp_wire, acp_written
acpVars == <<acp_boot, acp_child, acp_alive, acp_closed, acp_connected, acp_live, acp_metadata,
             acp_routed, acp_queue, acp_active, acp_pending, acp_completed, acp_stage,
             acp_session, acp_answer, acp_spoiled, acp_wire, acp_written>>
Acp == INSTANCE AcpRuntime WITH
    boot <- acp_boot, child <- acp_child, alive <- acp_alive, closed <- acp_closed,
    connected <- acp_connected, live <- acp_live, metadata <- acp_metadata, routed <- acp_routed,
    queue <- acp_queue, active <- acp_active, pending <- acp_pending, completed <- acp_completed,
    stage <- acp_stage, session <- acp_session, answer <- acp_answer, spoiled <- acp_spoiled,
    wire <- acp_wire, written <- acp_written

-----------------------------------------------------------------------------
\* The driver of Codex (local-agent-codex.ts).
CONSTANTS Threads, Thread, MaxEvents, PendingLimit
VARIABLES codex_child, codex_alive, codex_fatal, codex_phase, codex_current, codex_known,
          codex_items, codex_held, codex_ended, codex_snapshot, codex_recent, codex_answer,
          codex_usage, codex_wire, codex_server, codex_spoiled, codex_unhandled
codexVars == <<codex_child, codex_alive, codex_fatal, codex_phase, codex_current, codex_known,
               codex_items, codex_held, codex_ended, codex_snapshot, codex_recent,
               codex_answer, codex_usage, codex_wire, codex_server, codex_spoiled,
               codex_unhandled>>
Codex == INSTANCE CodexRuntime WITH
    child <- codex_child, alive <- codex_alive, fatal <- codex_fatal, phase <- codex_phase,
    current <- codex_current, known <- codex_known, items <- codex_items, held <- codex_held,
    ended <- codex_ended, snapshot <- codex_snapshot, recent <- codex_recent, answer <- codex_answer,
    usage <- codex_usage, wire <- codex_wire, server <- codex_server, spoiled <- codex_spoiled,
    unhandled <- codex_unhandled

-----------------------------------------------------------------------------
\* The driver of OpenCode (local-agent-opencode.ts).
CONSTANTS Session, Page
VARIABLES opencode_alive, opencode_closed, opencode_healthy, opencode_named, opencode_history,
          opencode_active, opencode_stage, opencode_read, opencode_observed, opencode_answer,
          opencode_spoiled
opencodeVars == <<opencode_alive, opencode_closed, opencode_healthy, opencode_named,
                  opencode_history, opencode_active, opencode_stage, opencode_read,
                  opencode_observed, opencode_answer, opencode_spoiled>>
Opencode == INSTANCE OpencodeRuntime WITH
    alive <- opencode_alive, closed <- opencode_closed, healthy <- opencode_healthy,
    named <- opencode_named, history <- opencode_history, active <- opencode_active,
    stage <- opencode_stage, read <- opencode_read, observed <- opencode_observed,
    answer <- opencode_answer, spoiled <- opencode_spoiled

-----------------------------------------------------------------------------
\* The driver of Claude (local-agent-claude.ts).
CONSTANTS Prompts, Mode
VARIABLES claude_alive, claude_closed, claude_input, claude_inputClosed,
          claude_authority, claude_working, claude_stream, claude_stage, claude_answer,
          claude_worked, claude_spoiled
claudeVars == <<claude_alive, claude_closed, claude_input, claude_inputClosed,
                claude_authority, claude_working, claude_stream, claude_stage, claude_answer,
                claude_worked, claude_spoiled>>
Claude == INSTANCE ClaudeRuntime WITH
    Calls <- Prompts, alive <- claude_alive, closed <- claude_closed,
    input <- claude_input, inputClosed <- claude_inputClosed, authority <- claude_authority,
    working <- claude_working, stream <- claude_stream, stage <- claude_stage, answer <- claude_answer,
    worked <- claude_worked, spoiled <- claude_spoiled

-----------------------------------------------------------------------------
\* The driver of Pi (local-agent-pi.ts).
CONSTANTS Tools, Resumes, MaxMessages
VARIABLES pi_runtime, pi_session, pi_held, pi_modeRef, pi_tools, pi_messages, pi_events,
          pi_collecting, pi_start, pi_stage, pi_answer, pi_prompting, pi_used
piVars == <<pi_runtime, pi_session, pi_held, pi_modeRef, pi_tools, pi_messages, pi_events,
            pi_collecting, pi_start, pi_stage, pi_answer, pi_prompting, pi_used>>
Pi == INSTANCE PiRuntime WITH
    Mode <- Tools, runtime <- pi_runtime, session <- pi_session, held <- pi_held, modeRef <- pi_modeRef,
    tools <- pi_tools, messages <- pi_messages, events <- pi_events, collecting <- pi_collecting,
    start <- pi_start, stage <- pi_stage, answer <- pi_answer, prompting <- pi_prompting, used <- pi_used

-----------------------------------------------------------------------------
\* The sandbox of Pi's commands (local-agent-pi-sandbox.ts).
CONSTANTS Sandboxed, Workspace, Commands, Of
VARIABLES sandbox_windows, sandbox_manager, sandbox_initialized, sandbox_policy,
          sandbox_sessions, sandbox_commands, sandbox_state, sandbox_acquired, sandbox_command,
          sandbox_queue, sandbox_updates, sandbox_late
sandboxVars == <<sandbox_windows, sandbox_manager, sandbox_initialized, sandbox_policy,
                 sandbox_sessions, sandbox_commands, sandbox_state, sandbox_acquired,
                 sandbox_command, sandbox_queue, sandbox_updates, sandbox_late>>
Sandbox == INSTANCE PiSandbox WITH
    Sessions <- Sandboxed, windows <- sandbox_windows, manager <- sandbox_manager,
    initialized <- sandbox_initialized, policy <- sandbox_policy, sessions <- sandbox_sessions,
    commands <- sandbox_commands, state <- sandbox_state, acquired <- sandbox_acquired,
    command <- sandbox_command, queue <- sandbox_queue, updates <- sandbox_updates, late <- sandbox_late

-----------------------------------------------------------------------------
\* A sandboxed command and its worker (sandbox-command.ts).
CONSTANT KillFails
VARIABLES worker_worker, worker_command, worker_clean, worker_toWorker, worker_toParent,
          worker_stopped, worker_finalize, worker_pid, worker_commandKilled, worker_stopping,
          worker_force, worker_exited, worker_reported, worker_error, worker_failed,
          worker_confirmed, worker_outcome
workerVars == <<worker_worker, worker_command, worker_clean, worker_toWorker, worker_toParent,
                worker_stopped, worker_finalize, worker_pid, worker_commandKilled,
                worker_stopping, worker_force, worker_exited, worker_reported, worker_error,
                worker_failed, worker_confirmed, worker_outcome>>
Worker == INSTANCE SandboxWorker WITH
    worker <- worker_worker, command <- worker_command, clean <- worker_clean,
    toWorker <- worker_toWorker, toParent <- worker_toParent, stopped <- worker_stopped,
    finalize <- worker_finalize, pid <- worker_pid, commandKilled <- worker_commandKilled,
    stopping <- worker_stopping, force <- worker_force, exited <- worker_exited,
    reported <- worker_reported, error <- worker_error, failed <- worker_failed,
    confirmed <- worker_confirmed, outcome <- worker_outcome

-----------------------------------------------------------------------------
\* The ledger of tokens (work-ledger.ts).
CONSTANTS Executions, LedgerRuns, RunOf, MaxTokens, MaxCrashes, MaxExternal
VARIABLES usage_run, usage_row, usage_thread, usage_phase, usage_spent, usage_history,
          usage_turning, usage_told, usage_reached, usage_crashes, usage_external
usageVars == <<usage_run, usage_row, usage_thread, usage_phase, usage_spent, usage_history,
               usage_turning, usage_told, usage_reached, usage_crashes, usage_external>>
Usage == INSTANCE UsageLedger WITH
    Runs <- LedgerRuns,
    run <- usage_run, row <- usage_row, thread <- usage_thread, phase <- usage_phase, spent <- usage_spent,
    history <- usage_history, turning <- usage_turning, told <- usage_told, reached <- usage_reached,
    crashes <- usage_crashes, external <- usage_external

-----------------------------------------------------------------------------
ASSUME AgentsAssumption ==
    /\ Client!ClientAssumption /\ Sandbox!SandboxAssumption /\ Worker!WorkerAssumption
    /\ Usage!LedgerAssumption /\ Codex!CodexAssumption /\ Claude!ClaudeAssumption
    /\ Pi!PiAssumption /\ Opencode!OpencodeAssumption /\ Acp!AcpAssumption

VARIABLE part    \* the component that runs; it does not change

allVars == <<part, vars, clientVars, acpVars, codexVars, opencodeVars, claudeVars, piVars,
               sandboxVars, workerVars, usageVars>>

\* The other components stay as they begin; where they may begin in several ways, in one.
AllInit ==
    /\ part \in Parts
    /\ Init
    /\ Client!Init
    /\ Acp!Init
    /\ Codex!Init
    /\ Opencode!Init /\ (part = "opencode" \/ opencode_named)
    /\ Claude!Init
    /\ Pi!Init
    /\ Sandbox!Init /\ (part = "sandbox" \/ sandbox_windows)
    /\ Worker!Init
    /\ Usage!Init

Only(p) ==
    /\ part = p /\ UNCHANGED part
    /\ p = "owning" \/ UNCHANGED vars
    /\ p = "client" \/ UNCHANGED clientVars
    /\ p = "acp" \/ UNCHANGED acpVars
    /\ p = "codex" \/ UNCHANGED codexVars
    /\ p = "opencode" \/ UNCHANGED opencodeVars
    /\ p = "claude" \/ UNCHANGED claudeVars
    /\ p = "pi" \/ UNCHANGED piVars
    /\ p = "sandbox" \/ UNCHANGED sandboxVars
    /\ p = "worker" \/ UNCHANGED workerVars
    /\ p = "usage" \/ UNCHANGED usageVars

AllNext ==
    \/ part = "owning" /\ Next /\ Only("owning")
    \/ part = "client" /\ Client!Next /\ Only("client")
    \/ part = "acp" /\ Acp!Next /\ Only("acp")
    \/ part = "codex" /\ Codex!Next /\ Only("codex")
    \/ part = "opencode" /\ Opencode!Next /\ Only("opencode")
    \/ part = "claude" /\ Claude!Next /\ Only("claude")
    \/ part = "pi" /\ Pi!Next /\ Only("pi")
    \/ part = "sandbox" /\ Sandbox!Next /\ Only("sandbox")
    \/ part = "worker" /\ Worker!Next /\ Only("worker")
    \/ part = "usage" /\ Usage!Next /\ Only("usage")

AllSpec == AllInit /\ [][AllNext]_allVars

-----------------------------------------------------------------------------
TypesOK ==
    /\ part = "owning" => TypeOK
    /\ part = "client" => Client!TypeOK
    /\ part = "acp" => Acp!TypeOK
    /\ part = "codex" => Codex!TypeOK
    /\ part = "opencode" => Opencode!TypeOK
    /\ part = "claude" => Claude!TypeOK
    /\ part = "pi" => Pi!TypeOK
    /\ part = "sandbox" => Sandbox!TypeOK
    /\ part = "worker" => Worker!TypeOK
    /\ part = "usage" => Usage!TypeOK

\* A client that replaces an older daemon does not spawn the new one into the lock of the
\* one that is still closing; and a call that is told to have run has run once, in a daemon
\* of its version, one that is told to have failed has not (ensureReady, request).
CallsTold ==
    /\ part = "client" => Client!UpgradeNotRefused
    /\ part = "client" => Client!RunsTold

\* Whatever a provider sends late, twice or unasked, a turn returns what belongs to its own
\* prompt, counts its own usage and works in its own write mode; the exceptions that the
\* drivers leave are named where each component states it (run of the five drivers).
TurnsApart ==
    /\ part = "acp" => Acp!AnswersOwn
    /\ part = "codex" => Codex!TurnsApart
    /\ part = "opencode" => Opencode!AnswersOwn
    /\ part = "claude" => Claude!TurnsApart
    /\ part = "pi" => Pi!TurnsApart

\* A command of a Pi session runs in a sandbox that no other session takes down or turns
\* to another workspace; and whoever was killed, late or silent, an answer about a sandboxed
\* command other than a cleanup error means that the command, its jobs and the worker are
\* gone (ensureSandboxInitialized, releasePiSandboxSession; sandbox-command.ts).
SandboxesSound ==
    /\ part = "sandbox" => Sandbox!SandboxHeld
    /\ part = "worker" => Worker!AnswersAreClean

\* No token is charged to two executions or to one that did not spend it, however late a
\* count arrives (work-ledger.ts).
BilledOnce == part = "usage" => Usage!BilledOnce

\* What is in use is not taken away: the socket of a daemon that serves (but by the cleanup
\* of a start that fails) and the sandbox of a command and its jobs (start, close;
\* sandbox-command.ts).
NothingTakenAway == ServingKeepsSocket /\ Worker!ResetAfterCommand

\* "Expected subagent failures cross the daemon boundary as structured error codes"
\* (docs/local-agent-daemon.md:29): a provider that dies leaves no rejection that nobody
\* handles, which would end the daemon (CodexAppServerClient.fail).
RejectionsHandled == part = "codex" => Codex!RejectionsHandled
=============================================================================
