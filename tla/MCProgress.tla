---------------------------- MODULE MCProgress ------------------------------
(***************************************************************************)
(* What must come to an end: the queue of the coordinator, the recovery of *)
(* a stale lock, the shutdown of a provider's process and the command of a *)
(* sandbox, which share no state.  A behaviour is one of a single          *)
(* component, which `part` names; the others stay as they begin.           *)
(***************************************************************************)
EXTENDS MCExecutionCoordinator

CONSTANTS
    Parts    \* the components that are checked

Daemons  == {"d", "e", "f", "g"}
AcpCalls == {"c", "d"}

-----------------------------------------------------------------------------
\* Four processes of the daemon, one of which may die.
VARIABLES recovery_lock, recovery_pidFile, recovery_socket, recovery_stage, recovery_attempt
recoveryVars == <<recovery_lock, recovery_pidFile, recovery_socket, recovery_stage,
                  recovery_attempt>>
Recovery == INSTANCE DaemonLock WITH
    Daemons <- Daemons, Attempts <- 2, MayCrash <- {"d"}, MayFail <- {}, Stale <- None,
    None <- None, lock <- recovery_lock, pidFile <- recovery_pidFile,
    socket <- recovery_socket, stage <- recovery_stage, attempt <- recovery_attempt

-----------------------------------------------------------------------------
\* Two prompts; the first opens a session, the other resumes one.
VARIABLES acp_boot, acp_child, acp_alive, acp_closed, acp_connected, acp_live, acp_metadata,
          acp_routed, acp_queue, acp_active, acp_pending, acp_completed, acp_stage,
          acp_session, acp_answer, acp_spoiled, acp_wire, acp_written
acpVars == <<acp_boot, acp_child, acp_alive, acp_closed, acp_connected, acp_live, acp_metadata,
             acp_routed, acp_queue, acp_active, acp_pending, acp_completed, acp_stage,
             acp_session, acp_answer, acp_spoiled, acp_wire, acp_written>>
Acp == INSTANCE AcpRuntime WITH
    Calls <- AcpCalls, Sessions <- {"s", "n"},
    Want <- [c \in AcpCalls |-> IF c = "c" THEN None ELSE "s"], Override <- {}, Grok <- FALSE,
    Resume <- TRUE, MaxUpdates <- 1, QueueLimit <- 1, MemoryLimit <- 1, None <- None,
    boot <- acp_boot, child <- acp_child, alive <- acp_alive, closed <- acp_closed,
    connected <- acp_connected, live <- acp_live, metadata <- acp_metadata,
    routed <- acp_routed, queue <- acp_queue, active <- acp_active, pending <- acp_pending,
    completed <- acp_completed, stage <- acp_stage, session <- acp_session,
    answer <- acp_answer, spoiled <- acp_spoiled, wire <- acp_wire, written <- acp_written

-----------------------------------------------------------------------------
\* One command; killing it may fail.
VARIABLES worker_worker, worker_command, worker_clean, worker_toWorker, worker_toParent,
          worker_stopped, worker_finalize, worker_pid, worker_commandKilled, worker_stopping,
          worker_force, worker_exited, worker_reported, worker_error, worker_failed,
          worker_confirmed, worker_outcome
workerVars == <<worker_worker, worker_command, worker_clean, worker_toWorker, worker_toParent,
                worker_stopped, worker_finalize, worker_pid, worker_commandKilled,
                worker_stopping, worker_force, worker_exited, worker_reported, worker_error,
                worker_failed, worker_confirmed, worker_outcome>>
Worker == INSTANCE SandboxWorker WITH
    KillFails <- TRUE, worker <- worker_worker, command <- worker_command,
    clean <- worker_clean, toWorker <- worker_toWorker, toParent <- worker_toParent,
    stopped <- worker_stopped, finalize <- worker_finalize, pid <- worker_pid,
    commandKilled <- worker_commandKilled, stopping <- worker_stopping, force <- worker_force,
    exited <- worker_exited, reported <- worker_reported, error <- worker_error,
    failed <- worker_failed, confirmed <- worker_confirmed, outcome <- worker_outcome

-----------------------------------------------------------------------------
VARIABLE part    \* the component that runs; it does not change

allVars == <<part, vars, recoveryVars, acpVars, workerVars>>

\* The other components stay as they begin; where they may begin in several ways, in one.
AllInit ==
    /\ part \in Parts
    /\ Init
    /\ Recovery!Init
    /\ Acp!Init
    /\ Worker!Init

Only(p) ==
    /\ part = p /\ UNCHANGED part
    /\ p = "queue" \/ UNCHANGED vars
    /\ p = "recovery" \/ UNCHANGED recoveryVars
    /\ p = "acp" \/ UNCHANGED acpVars
    /\ p = "worker" \/ UNCHANGED workerVars

AllNext ==
    \/ part = "queue" /\ Next /\ Only("queue")
    \/ part = "recovery" /\ Recovery!Next /\ Only("recovery")
    \/ part = "acp" /\ Acp!Next /\ Only("acp")
    \/ part = "worker" /\ Worker!Next /\ Only("worker")

\* Tickets are polled and turns end; each contender for the lock makes its next step;
\* the timers of a driver and of a sandbox's parent fire and their events are handled.
\* Of the providers, the commands and the workers nothing is assumed.
AllSpec ==
    /\ AllInit /\ [][AllNext]_allVars
    /\ \A r \in Requests :
          WF_vars(part = "queue" /\ TryAcquire(r)) /\ WF_vars(part = "queue" /\ Release(r))
    /\ \A d \in Daemons : WF_recoveryVars(part = "recovery" /\ Recovery!Step(d))
    /\ WF_acpVars(part = "acp" /\ Acp!Stopped)
    /\ \A c \in AcpCalls :
          WF_acpVars(part = "acp" /\ Acp!Yield(c)) /\ WF_acpVars(part = "acp" /\ Acp!Take(c))
    /\ WF_workerVars(part = "worker" /\ Worker!Stop) /\ WF_workerVars(part = "worker" /\ Worker!Force)
    /\ WF_workerVars(part = "worker" /\ Worker!Handle) /\ WF_workerVars(part = "worker" /\ Worker!Exit)
    /\ WF_workerVars(part = "worker" /\ Worker!Close)

-----------------------------------------------------------------------------
\* A lock left behind by a dead process does not keep the state directory closed, although
\* the contenders that find it remove it and link against one another (acquire).
StaleLockRemoved == Recovery!StaleLockRecovers

\* Whatever hangs in a child, its parent comes to an end: a driver that is taken down ends
\* its process and settles its turns, and a sandboxed command is answered.
ChildrenSettle ==
    /\ Acp!TakenDown
    /\ (part = "worker" /\ worker_outcome = "pending") ~> (worker_outcome # "pending")
=============================================================================
