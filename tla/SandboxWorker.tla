---------------------------- MODULE SandboxWorker ----------------------------
(***************************************************************************)
(* runSandboxCommand and its worker, src/sandbox-command.ts: the server    *)
(* (the parent) has a worker process set up the sandbox runtime and run    *)
(* one command in it, and must know, before it answers, that the command   *)
(* and everything it left in the background are gone and that the runtime  *)
(* has been cleaned up.                                                    *)
(*                                                                         *)
(* The two exchange messages over a channel that keeps their order.  An    *)
(* action is an event handler of the parent or a step of the worker; kill  *)
(* is SIGKILL to a process group.  The policy, the environment, the output *)
(* and the identification of a group that has died are left out.           *)
(***************************************************************************)
EXTENDS Naturals, Sequences

CONSTANTS
    KillFails    \* bound of the model: killing the command's group may fail

WorkerAssumption == KillFails \in BOOLEAN

VARIABLES
    worker,      \* where the script is; "dead" when its process has ended
    command,     \* the command's group: "none", "alive", "jobs" (the command has
                 \* ended, its background jobs have not) or "dead"
    clean,       \* the sandbox runtime has been reset, or never set up
    toWorker, toParent,
    stopped, finalize,            \* the worker's flags
    pid, commandKilled, stopping, \* the parent's: the group it knows, and so on
    force,       \* forceTimer: "unset", "set" or "fired"
    exited,      \* the exit of the worker has been handled
    reported, error, failed, confirmed,   \* the result and SandboxErrorState
    outcome

parent == <<pid, commandKilled, stopping, force, exited, reported, error, failed, confirmed>>
vars == <<worker, command, clean, toWorker, toParent, stopped, finalize, parent, outcome>>

Init ==
    /\ worker = "starting" /\ command = "none" /\ clean = TRUE
    /\ toWorker = <<>> /\ toParent = <<>> /\ stopped = FALSE /\ finalize = FALSE
    /\ pid = FALSE /\ commandKilled = FALSE /\ stopping = FALSE /\ force = "unset"
    /\ exited = FALSE /\ reported = FALSE /\ error = FALSE /\ failed = FALSE /\ confirmed = FALSE
    /\ outcome = "pending"

(***************************************************************************)
(* The worker.                                                             *)
(***************************************************************************)
Keeps == UNCHANGED <<toWorker, stopped, finalize, parent, outcome>>

Sends(m) == toParent' = Append(toParent, m)

\* A message of the parent is handled whenever the script waits for something.
WorkerReads ==
    /\ worker # "dead" /\ toWorker # <<>>
    /\ stopped'  = (stopped \/ Head(toWorker) = "stop")
    /\ finalize' = (finalize \/ (Head(toWorker) = "finalize" /\ worker = "finished"))
    /\ toWorker' = Tail(toWorker)
    /\ UNCHANGED <<worker, command, clean, toParent, parent, outcome>>

\* The runtime is set up, completely or until something is refused.
Initialize ==
    /\ worker = "starting"
    /\ clean' = FALSE
    /\ worker' \in {"ready", "failing"}
    /\ UNCHANGED <<command, toParent>> /\ Keeps

\* A stop that has come before the command begins ends it there.
Spawn ==
    /\ worker = "ready"
    /\ \/ stopped /\ worker' = "cleaning" /\ UNCHANGED command
       \/ ~stopped /\ worker' = "spawned" /\ command' = "alive"
       \/ ~stopped /\ worker' = "unspawned" /\ UNCHANGED command
    /\ UNCHANGED <<clean, toParent>> /\ Keeps

\* The group is told to the parent; of a command that could not be spawned, nothing.
TellPid ==
    /\ worker \in {"spawned", "unspawned"}
    /\ IF worker = "spawned" THEN worker' = "running" /\ Sends("commandPid")
       ELSE worker' = "failing" /\ Sends("invalid")
    /\ UNCHANGED <<command, clean>> /\ Keeps

CommandExits ==
    /\ command = "alive"
    /\ command' \in {"jobs", "dead"}
    /\ UNCHANGED <<worker, clean, toParent>> /\ Keeps

\* Fault: the worker cleans up without waiting for the parent's answer.
FinishedAtOnce ==
    /\ worker = "running" /\ command # "alive"
    /\ worker' = "cleaning"
    /\ UNCHANGED <<command, clean, toParent>> /\ Keeps

Finished ==
    /\ worker = "running" /\ command # "alive"
    /\ worker' = "finished" /\ Sends("finished")
    /\ UNCHANGED <<command, clean>> /\ Keeps

Finalize ==
    /\ worker = "finished" /\ finalize
    /\ worker' = "cleaning"
    /\ UNCHANGED <<command, clean, toParent>> /\ Keeps

\* cleanupAfterCommand and reset, and the result; a failure goes to the catch.
CleanUp ==
    /\ worker = "cleaning"
    /\ \/ clean' = TRUE /\ worker' = "sent" /\ Sends("result")
       \/ worker' = "failingClean" /\ UNCHANGED <<clean, toParent>>
    /\ UNCHANGED command /\ Keeps

\* The catch resets once more and says whether the cleanup has failed.
Catch ==
    /\ worker \in {"failing", "failingClean"}
    /\ worker' = "sent"
    /\ \/ clean' = TRUE /\ Sends(IF worker = "failing" THEN "error" ELSE "cleanupFailed")
       \/ Sends("cleanupFailed") /\ UNCHANGED clean
    /\ UNCHANGED command /\ Keeps

\* The worker's process ends by itself.
WorkerDies ==
    /\ worker # "dead" /\ worker' = "dead"
    /\ UNCHANGED <<command, clean, toParent>> /\ Keeps

(***************************************************************************)
(* The parent.                                                             *)
(***************************************************************************)
\* killCommand: once, and only a group that the parent knows; what cannot be
\* killed is a cleanup that has failed.
Kills(known) == known /\ ~commandKilled

KillCommand(known, fails) ==
    /\ commandKilled' = (commandKilled \/ known)
    /\ command' = IF Kills(known) /\ ~fails THEN "dead" ELSE command

KillWorker == worker' = "dead"

Tells(m) == toWorker' = IF worker = "dead" THEN toWorker ELSE Append(toWorker, m)

\* stop, by the owner's abort, the timeout or a callback that throws on some
\* output: the group is killed, the worker asked to stop and given two seconds.
Stop ==
    /\ outcome = "pending" /\ ~stopping
    /\ stopping' = TRUE /\ force' = "set"
    /\ \E fails \in {FALSE, KillFails} :
          /\ KillCommand(pid, fails)
          /\ failed' = (failed \/ (Kills(pid) /\ fails))
    /\ error' \in {error, TRUE}
    /\ Tells("stop")
    /\ UNCHANGED <<worker, clean, toParent, stopped, finalize, pid, exited, reported, confirmed, outcome>>

\* The input of the worker breaks.
InputBreaks ==
    /\ outcome = "pending" /\ worker = "starting"
    /\ KillWorker /\ error' = TRUE
    /\ UNCHANGED <<command, clean, toWorker, toParent, stopped, finalize, pid, commandKilled, stopping, force,
                   exited, reported, failed, confirmed, outcome>>

\* Fault: a forced teardown is no failure of the cleanup.
ForceQuietly ==
    /\ force = "set" /\ outcome = "pending"
    /\ force' = "fired" /\ KillCommand(pid, FALSE) /\ KillWorker
    /\ confirmed' = TRUE
    /\ UNCHANGED <<clean, toWorker, toParent, stopped, finalize, pid, stopping, exited, reported, error, failed, outcome>>

\* forceTimer: all is killed and the pipes are no longer waited for.
Force ==
    /\ force = "set" /\ outcome = "pending"
    /\ force' = "fired" /\ failed' = TRUE
    /\ \E fails \in {FALSE, KillFails} : KillCommand(pid, fails)
    /\ KillWorker
    /\ UNCHANGED <<clean, toWorker, toParent, stopped, finalize, pid, stopping, exited, reported, error,
                   confirmed, outcome>>

\* The groups that a message makes the parent kill.
KnownAt(m) == (m = "commandPid" /\ stopping) \/ (m # "commandPid" /\ pid)

\* The handler of messages: all but the first two end the worker.
Handle ==
    LET m == Head(toParent)
    IN  /\ toParent # <<>> /\ toParent' = Tail(toParent)
        /\ pid' = (pid \/ m = "commandPid")
        /\ \E fails \in {FALSE, KillFails} :
              /\ KillCommand(KnownAt(m), fails)
              /\ failed' = (failed \/ (Kills(KnownAt(m)) /\ fails) \/ m = "cleanupFailed")
        /\ IF m = "finished" THEN Tells("finalize") ELSE UNCHANGED toWorker
        /\ IF m \in {"commandPid", "finished"} THEN UNCHANGED worker ELSE KillWorker
        /\ reported'  = (reported \/ m = "result")
        /\ confirmed' = (confirmed \/ m \in {"result", "error"})
        /\ error'     = (error \/ m \in {"error", "invalid"})
        /\ UNCHANGED <<clean, stopped, finalize, stopping, force, exited, outcome>>

\* The worker's process has ended: kill.
Exit ==
    /\ worker = "dead" /\ ~exited
    /\ exited' = TRUE
    /\ \E fails \in {FALSE, KillFails} :
          /\ KillCommand(pid, fails)
          /\ failed' = (failed \/ (Kills(pid) /\ fails))
    /\ UNCHANGED <<worker, clean, toWorker, toParent, stopped, finalize, pid, stopping, force, reported, error,
                   confirmed, outcome>>

\* Fault: the pipes are waited for although the force timer has fired.
CloseWaits ==
    /\ outcome = "pending" /\ exited /\ toParent = <<>>
    /\ command \in {"none", "dead"}
    /\ outcome' = "cleanupError"
    /\ UNCHANGED <<worker, command, clean, toWorker, toParent, stopped, finalize, parent>>

\* close: the channel is at its end, and nobody holds the pipes or they have been
\* given up.  The scratch directory is removed, or that fails.
Close ==
    /\ outcome = "pending" /\ exited /\ toParent = <<>>
    /\ command \in {"none", "dead"} \/ force = "fired"
    /\ outcome' \in {"cleanupError", IF failed \/ ~confirmed THEN "cleanupError"
                                    ELSE IF error \/ ~reported THEN "error" ELSE "result"}
    /\ UNCHANGED <<worker, command, clean, toWorker, toParent, stopped, finalize, parent>>

WorkerStep ==
    \/ WorkerReads \/ Initialize \/ Spawn \/ TellPid \/ Finished \/ Finalize
    \/ CleanUp \/ Catch \/ WorkerDies

Next ==
    \/ WorkerStep \/ CommandExits
    \/ Stop \/ InputBreaks \/ Force \/ Handle \/ Exit \/ Close

Spec == Init /\ [][Next]_vars

-----------------------------------------------------------------------------
TypeOK ==
    /\ worker \in {"starting", "ready", "spawned", "unspawned", "running", "finished", "cleaning", "failing",
                   "failingClean", "sent", "dead"}
    /\ command \in {"none", "alive", "jobs", "dead"} /\ force \in {"unset", "set", "fired"}
    /\ toWorker \in Seq({"stop", "finalize"})
    /\ toParent \in Seq({"commandPid", "invalid", "finished", "result", "error", "cleanupFailed"})
    /\ {clean, stopped, finalize, pid, commandKilled, stopping, exited, reported, error, failed, confirmed}
           \subseteq BOOLEAN
    /\ outcome \in {"pending", "result", "error", "cleanupError"}

\* An answer other than SandboxCleanupError is a promise: the command's group with
\* its background jobs is dead, the worker too, and the runtime has been reset,
\* whoever was killed, late or silent on the way.
AnswersAreClean ==
    outcome \in {"result", "error"} => command \in {"none", "dead"} /\ worker = "dead" /\ clean

\* The runtime is never torn down under a command or its background jobs unless
\* they could not be killed, and then the answer says so.
ResetAfterCommand == [][clean' /\ ~clean => command \in {"none", "dead"} \/ failed]_vars

-----------------------------------------------------------------------------
(* Both, strengthened to an inductive invariant. *)

Sent(m) == \E i \in 1..Len(toParent) : toParent[i] = m

\* The worker's last message says that the runtime has been reset; a teardown that was
\* forced is a failure.
Confirmed ==
    /\ exited => worker = "dead"
    /\ force = "fired" => failed
    /\ confirmed \/ Sent("result") \/ Sent("error") => clean /\ worker \in {"sent", "dead"}

\* The command's group is told before its end is, and killed before the worker cleans up.
Killed ==
    /\ worker \in {"starting", "ready", "unspawned", "failing"} => command = "none"
    /\ worker \in {"starting", "ready", "unspawned", "failing"} =>
           ~pid /\ ~commandKilled /\ ~Sent("commandPid")
    /\ commandKilled => command = "dead" \/ failed
    /\ worker = "running" => pid \/ Sent("commandPid")
    /\ \A i \in 1..Len(toParent) : toParent[i] = "finished" =>
           pid \/ \E j \in 1..Len(toParent) : j < i /\ toParent[j] = "commandPid"
    /\ finalize \/ (\E i \in 1..Len(toWorker) : toWorker[i] = "finalize") => commandKilled
    /\ worker \in {"cleaning", "failingClean"} => command = "none" \/ commandKilled

IInv == TypeOK /\ Confirmed /\ Killed /\ AnswersAreClean

=============================================================================
