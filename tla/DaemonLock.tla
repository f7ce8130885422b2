----------------------------- MODULE DaemonLock -----------------------------
(***************************************************************************)
(* Ownership of a state directory by one agent daemon:                     *)
(* src/local-agent-daemon-lifecycle.ts with start and close of             *)
(* src/local-agent-daemon.ts.                                              *)
(*                                                                         *)
(* Several processes may be spawned for one state directory at the same    *)
(* time.  A process makes its system calls one after the other; the calls  *)
(* of different processes interleave, so an action here is one call on a   *)
(* shared file (a check of the content and the removal that follows it in  *)
(* release are one).  A file is represented by the process that wrote or   *)
(* bound it: the lock file is linked into place complete, with the pid in  *)
(* it, so its content never differs from its owner.                        *)
(***************************************************************************)
EXTENDS Naturals, FiniteSets

CONSTANTS
    Daemons,    \* the processes that may be spawned, each with a pid of its own
    None,       \* no file
    Attempts,   \* the rounds of acquire (2 in the code)
    MayCrash,   \* the processes that may die at any point
    MayFail,    \* the processes whose start may fail once they own the lock
    Stale       \* the owner of the lock, pid and socket files found at first, or None

ASSUME NoneAssumption     == None \notin Daemons
ASSUME AttemptsAssumption == Attempts \in Nat \ {0}
ASSUME StaleAssumption    == Stale \in Daemons \union {None}

VARIABLES
    lock,       \* agentd.lock
    pidFile,    \* agentd.pid
    socket,     \* agentd.sock
    stage,      \* what each process does next
    attempt     \* the rounds of acquire a process has begun

vars == <<lock, pidFile, socket, stage, attempt>>

Stages == {"off", "linking", "inspecting", "renaming", "publishing", "starting", "binding",
           "serving", "stopping", "releasing", "failing", "unlocking", "cleaning", "gone"}

Alive(d) == stage[d] \notin {"off", "gone"}

\* acquire has returned and release has not begun (ownsLock).
Owns(d) == stage[d] \in {"starting", "binding", "serving", "stopping", "releasing", "failing"}

Goes(d, to) == stage' = [stage EXCEPT ![d] = to]

Init ==
    /\ lock = Stale /\ pidFile = Stale /\ socket = Stale
    /\ stage = [d \in Daemons |-> IF d = Stale THEN "gone" ELSE "off"]
    /\ attempt = [d \in Daemons |-> 0]

\* A client that reaches no daemon spawns one.
Spawn(d) ==
    /\ stage[d] = "off"
    /\ Goes(d, "linking")
    /\ attempt' = [attempt EXCEPT ![d] = 1]
    /\ UNCHANGED <<lock, pidFile, socket>>

\* Faults: the lock is renamed over an existing one; an existing lock is tried
\* again without a bound.
LinkOver(d) ==
    /\ stage[d] = "linking"
    /\ lock' = d /\ Goes(d, "publishing")
    /\ UNCHANGED <<pidFile, socket, attempt>>

LinkAgain(d) ==
    /\ stage[d] = "linking"
    /\ IF lock = None THEN lock' = d /\ Goes(d, "publishing") /\ UNCHANGED attempt
                      ELSE attempt' = [attempt EXCEPT ![d] = @ + 1] /\ UNCHANGED <<stage, lock>>
    /\ UNCHANGED <<pidFile, socket>>

\* linkSync of the complete owner record: atomic, fails when the lock exists.
Link(d) ==
    /\ stage[d] = "linking"
    /\ IF lock = None THEN lock' = d /\ Goes(d, "publishing")
                      ELSE Goes(d, "inspecting") /\ UNCHANGED lock
    /\ UNCHANGED <<pidFile, socket, attempt>>

\* The pid marker is written; any later failure takes the published lock back.
Publish(d) ==
    /\ stage[d] = "publishing"
    /\ \/ pidFile' = d /\ Goes(d, "starting") /\ UNCHANGED lock
       \/ /\ d \in MayFail
          /\ lock' = IF lock = d THEN None ELSE lock
          /\ Goes(d, "gone") /\ UNCHANGED pidFile
    /\ UNCHANGED <<socket, attempt>>

\* Fault: every lock that is in the way counts as stale.
InspectNoPid(d) ==
    /\ stage[d] = "inspecting"
    /\ Goes(d, IF lock # None THEN "renaming" ELSE "gone")
    /\ UNCHANGED <<lock, pidFile, socket, attempt>>

\* readDaemonPid and isProcessAlive: only the lock of a dead process is stale; a
\* lock that is alive, or that has just gone, means AlreadyRunning.
Inspect(d) ==
    /\ stage[d] = "inspecting"
    /\ Goes(d, IF lock # None /\ ~Alive(lock) THEN "renaming" ELSE "gone")
    /\ UNCHANGED <<lock, pidFile, socket, attempt>>

\* Fault: one round too few.
RenameInLastRound(d) ==
    /\ stage[d] = "renaming"
    /\ lock' = None
    /\ IF attempt[d] + 1 < Attempts
       THEN Goes(d, "linking") /\ attempt' = [attempt EXCEPT ![d] = @ + 1]
       ELSE Goes(d, "gone") /\ UNCHANGED attempt
    /\ UNCHANGED <<pidFile, socket>>

\* removeStaleLock: the rename takes whatever file is at the path by then; with
\* or without it (ENOENT) the next round follows, or AlreadyRunning after the last.
RenameStale(d) ==
    /\ stage[d] = "renaming"
    /\ lock' = None
    /\ IF attempt[d] < Attempts
       THEN Goes(d, "linking") /\ attempt' = [attempt EXCEPT ![d] = @ + 1]
       ELSE Goes(d, "gone") /\ UNCHANGED attempt
    /\ UNCHANGED <<pidFile, socket>>

\* The secret is there, onLockAcquired has reconciled the records and the old
\* socket file is removed; or one of them throws.
Prepare(d) ==
    /\ stage[d] = "starting"
    /\ \/ socket' = None /\ Goes(d, "binding")
       \/ d \in MayFail /\ Goes(d, "failing") /\ UNCHANGED socket
    /\ UNCHANGED <<lock, pidFile, attempt>>

\* listen: binding fails on a socket file that is there.
Listen(d) ==
    /\ stage[d] = "binding"
    /\ IF socket = None THEN socket' = d /\ Goes(d, "serving")
                        ELSE Goes(d, "failing") /\ UNCHANGED socket
    /\ UNCHANGED <<lock, pidFile, attempt>>

\* start's catch releases the lock (pid marker first) and then removes the
\* daemon's files: removeLocalAgentDaemonFiles does not look whose they are.
FailedRelease(d) ==
    /\ stage[d] = "failing"
    /\ pidFile' = IF pidFile = d THEN None ELSE pidFile
    /\ Goes(d, "unlocking")
    /\ UNCHANGED <<lock, socket, attempt>>

FailedUnlock(d) ==
    /\ stage[d] = "unlocking"
    /\ lock' = IF lock = d THEN None ELSE lock
    /\ Goes(d, "cleaning")
    /\ UNCHANGED <<pidFile, socket, attempt>>

FailedCleanup(d) ==
    /\ stage[d] = "cleaning"
    /\ pidFile' = None /\ socket' = None
    /\ Goes(d, "gone")
    /\ UNCHANGED <<lock, attempt>>

\* close: after daemon.stop, a signal or the idle timeout; the server and the
\* manager close (or time out) before the files go.
Stop(d) ==
    /\ stage[d] = "serving"
    /\ Goes(d, "stopping")
    /\ UNCHANGED <<lock, pidFile, socket, attempt>>

CloseCleanup(d) ==
    /\ stage[d] = "stopping"
    /\ pidFile' = None /\ socket' = None
    /\ Goes(d, "releasing")
    /\ UNCHANGED <<lock, attempt>>

CloseRelease(d) ==
    /\ stage[d] = "releasing"
    /\ pidFile' = IF pidFile = d THEN None ELSE pidFile
    /\ lock' = IF lock = d THEN None ELSE lock
    /\ Goes(d, "gone")
    /\ UNCHANGED <<socket, attempt>>

\* The process dies: by a signal, or by the forced exit of the shutdown timer.
Crash(d) ==
    /\ d \in MayCrash /\ Alive(d)
    /\ Goes(d, "gone")
    /\ UNCHANGED <<lock, pidFile, socket, attempt>>

\* What a process does by itself once it runs.
Step(d) ==
    \/ Link(d) \/ Publish(d) \/ Inspect(d) \/ RenameStale(d) \/ Prepare(d) \/ Listen(d)
    \/ FailedRelease(d) \/ FailedUnlock(d) \/ FailedCleanup(d)
    \/ CloseCleanup(d) \/ CloseRelease(d)

Next == \E d \in Daemons : Spawn(d) \/ Step(d) \/ Stop(d) \/ Crash(d)

Spec     == Init /\ [][Next]_vars
FairSpec == Spec /\ \A d \in Daemons : WF_vars(Step(d))

-----------------------------------------------------------------------------
TypeOK ==
    /\ lock    \in Daemons \union {None}
    /\ pidFile \in Daemons \union {None}
    /\ socket  \in Daemons \union {None}
    /\ stage   \in [Daemons -> Stages]
    /\ attempt \in [Daemons -> 0..Attempts]

\* "A second client cannot start another daemon for the same state directory":
\* at most one live process owns the directory (docs/local-agent-daemon.md:46).
OneDaemon == \A d, e \in Daemons : Owns(d) /\ Owns(e) => d = e

\* A live owner's lock file is in place, so that no newcomer can link its own
\* (acquire, release and the failure paths of start).
OwnerHasLock == \A d \in Daemons : Owns(d) => lock = d

\* A serving daemon loses its socket to no other process's start or close, but for
\* the cleanup of a failed start (removeLocalAgentDaemonFiles, rmSync before listen).
ServingKeepsSocket ==
    [][\A d \in Daemons :
          stage[d] = "serving" /\ socket' # socket =>
              stage'[d] # "serving" \/ \E e \in Daemons : stage[e] = "cleaning" /\ stage'[e] = "gone"]_vars

\* "Stale lock and socket files are recovered only after the recorded PID is no
\* longer alive" (docs/local-agent-daemon.md:47): a live daemon's socket file
\* is removed by nobody but itself.
SocketOnlyRecovered ==
    [][\A d \in Daemons : socket = d /\ socket' # d => ~Alive(d) \/ stage'[d] # stage[d]]_vars

\* A lock left behind by a dead process does not keep the directory closed: once
\* a process tries to link against it, some process comes to serve, whichever
\* contenders see the same stale lock (the second round of acquire).
StaleLockRecovers ==
    (\E d \in Daemons : stage[d] = "linking" /\ lock # None /\ ~Alive(lock))
        ~> (\E d \in Daemons : stage[d] = "serving")
=============================================================================
