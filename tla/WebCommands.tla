----------------------------- MODULE WebCommands -----------------------------
(***************************************************************************)
(* Commands of the web surface and their durable receipts:                 *)
(* src/tool-surfaces/web-commands.ts, src/command-receipts.ts, and of      *)
(* src/process-sessions.ts what they use (mutate, shutdown, background     *)
(* tasks).                                                                 *)
(*                                                                         *)
(* Several server processes share the table of receipts.  An action is     *)
(* what a call does between two awaits, cut where another process can      *)
(* commit to the table or the process can die: between the last look at    *)
(* the table and the insertion, and before the result is saved.  Nothing   *)
(* else of the same process runs there (Busy).                             *)
(*                                                                         *)
(* A key stands for the workspace and the request key together, and a      *)
(* session for the call that reserved it.  Output, its retention, paths    *)
(* and git metadata are left out; what can go wrong with them is a refusal *)
(* or an error.                                                            *)
(***************************************************************************)
EXTENDS Naturals, FiniteSets

CONSTANTS
    Processes,  \* server processes, one after another or side by side
    Calls,      \* calls of command_start
    Keys,       \* request keys
    Key,        \* Key[c]: the request key of the call
    Inputs,     \* fingerprints
    Input,      \* Input[c]: the fingerprint of the call
    Limit,      \* concurrent commands of a process (128 in the code)
    Sent,       \* bound of the model: the processes that each call may be sent to
    MayCrash,   \* bound of the model: the processes that may die
    None        \* no process, no call

ASSUME CallsAssumption ==
    /\ Key \in [Calls -> Keys]
    /\ Input \in [Calls -> Inputs]
    /\ Sent \in [Calls -> SUBSET Processes]
    /\ IsFiniteSet(Calls)
    /\ None \notin Calls /\ None \notin Processes

ASSUME LimitAssumption == Limit \in Nat \ {0}

VARIABLES
    receipt,    \* the row of each key: the call that reserved it, or None
    completed,  \* the calls whose row has completed = 1
    exit,       \* up, or how each process has ended
    closed,     \* the processes whose command service is closed
    closing,    \* those whose server awaits its background tasks to exit
    failures,   \* those that have recorded a background failure
    sessions,   \* the calls in the session map of their process
    aborted,    \* the sessions whose abort signal is set
    snapshot,   \* `running` of each session's snapshot
    proc,       \* the process that received each call
    stage,      \* where each call of start is
    work,       \* where the execution of each session is
    ran,        \* history: the calls whose command has been run
    stray       \* the calls whose command may run although nobody controls it

table    == <<receipt, completed>>
services == <<exit, closed, closing, failures>>
live     == <<sessions, aborted, snapshot>>
calls    == <<proc, stage>>
effects  == <<ran, stray>>
vars     == <<receipt, completed, exit, closed, closing, failures, sessions, aborted,
              snapshot, proc, stage, work, ran, stray>>

Reserved == {c \in Calls : receipt[Key[c]] = c}
Active   == {"preparing", "running", "settling"}
InFlight == {"opening", "checking", "reserving"}

Goes(c, to) == stage' = [stage EXCEPT ![c] = to]
Up(p)       == exit[p] = "up"

\* Code that runs without an await, apart from what other processes commit.
Busy(p) == \E c \in Calls : proc[c] = p /\ (stage[c] = "reserving" \/ work[c] = "settling")

Full(p) == Cardinality({c \in sessions : proc[c] = p}) >= Limit

\* What command_status, or a repeated start, says of a session to a caller of p.
Report(p, c) ==
    IF (c \in sessions /\ proc[c] = p) \/ c \in completed THEN snapshot[c] ELSE "unknown"

Init ==
    /\ receipt = [k \in Keys |-> None] /\ completed = {}
    /\ exit = [p \in Processes |-> "up"] /\ closed = {} /\ closing = {} /\ failures = {}
    /\ sessions = {} /\ aborted = {} /\ snapshot = [c \in Calls |-> "none"]
    /\ proc = [c \in Calls |-> None] /\ stage = [c \in Calls |-> "idle"]
    /\ work = [c \in Calls |-> "none"] /\ ran = {} /\ stray = {}

-----------------------------------------------------------------------------
(* start *)

Begin(c, p) == Goes(c, IF p \in closed THEN "refused" ELSE "opening")

Start(c, p) ==
    /\ stage[c] = "idle" /\ p \in Sent[c] /\ Up(p) /\ ~Busy(p)
    /\ proc' = [proc EXCEPT ![c] = p]
    /\ Begin(c, p)
    /\ UNCHANGED <<table, services, live, work, effects>>

\* The root is known, or opening the workspace failed: an existing receipt answers.
Look(c) ==
    LET owner == receipt[Key[c]]
    IN  /\ stage[c] = "opening" /\ ~Busy(proc[c])
        /\ \/ owner # None /\ Goes(c, IF Input[owner] = Input[c] THEN "answered" ELSE "conflict")
           \/ owner = None /\ Goes(c, IF Full(proc[c]) THEN "refused" ELSE "checking")
           \/ Goes(c, "refused")
        /\ UNCHANGED <<table, services, live, proc, work, effects>>

\* The paths and the git metadata are known, or wrong.
Recheck(c) ==
    LET p == proc[c]
    IN  /\ stage[c] = "checking" /\ ~Busy(p)
        /\ \/ receipt[Key[c]] # None /\ Begin(c, p)
           \/ receipt[Key[c]] = None /\ Goes(c, IF p \in closed \/ Full(p) THEN "refused" ELSE "reserving")
           \/ Goes(c, "refused")
        /\ UNCHANGED <<table, services, live, proc, work, effects>>

\* The session is in the map; mutate refuses it (a conflicting claim), or the
\* operation begins by looking at the git metadata once more.
Open(c) ==
    /\ receipt'  = [receipt EXCEPT ![Key[c]] = c]
    /\ sessions' = sessions \union {c}
    /\ snapshot' = [snapshot EXCEPT ![c] = "running"]
    /\ Goes(c, "answered")
    /\ \E first \in {"preparing", "settling"} : work' = [work EXCEPT ![c] = first]

\* Faults: the row is replaced; a lost insertion is tried again.
InsertOrReplace(c) ==
    /\ stage[c] = "reserving" /\ Open(c)
    /\ UNCHANGED <<completed, services, aborted, proc, effects>>

InsertOrRepeat(c) ==
    /\ stage[c] = "reserving"
    /\ receipt[Key[c]] = None /\ Open(c)
    /\ UNCHANGED <<completed, services, aborted, proc, effects>>

\* reserve: insert or ignore; who comes second starts again.
Insert(c) ==
    /\ stage[c] = "reserving"
    /\ \/ receipt[Key[c]] = None /\ Open(c)
       \/ receipt[Key[c]] # None /\ Begin(c, proc[c]) /\ UNCHANGED <<receipt, sessions, snapshot, work>>
    /\ UNCHANGED <<completed, services, aborted, proc, effects>>

-----------------------------------------------------------------------------
(* The execution of a session *)

\* Fault: a session that is aborted by now is forgotten.
PreparedUnlessAborted(c) ==
    /\ work[c] = "preparing" /\ ~Busy(proc[c])
    /\ c \notin aborted
    /\ \/ work' = [work EXCEPT ![c] = "running"] /\ ran' = ran \union {c}
       \/ work' = [work EXCEPT ![c] = "settling"] /\ UNCHANGED ran
    /\ UNCHANGED <<table, services, live, calls, stray>>

\* The metadata is there: an aborted session ends, others run unless the metadata
\* has changed.
Prepared(c) ==
    /\ work[c] = "preparing" /\ ~Busy(proc[c])
    /\ \/ c \notin aborted /\ work' = [work EXCEPT ![c] = "running"] /\ ran' = ran \union {c}
       \/ work' = [work EXCEPT ![c] = "settling"] /\ UNCHANGED ran
    /\ UNCHANGED <<table, services, live, calls, stray>>

\* shutdown of the process's manager: its callback closes the service and aborts
\* every session.
CloseService(p) ==
    /\ closed'  = closed \union {p}
    /\ aborted' = aborted \union {c \in sessions : proc[c] = p}

\* The sandbox returns: the command has ended, by itself, by its timeout or by the
\* signal.
End(c) ==
    /\ work[c] = "running" /\ ~Busy(proc[c])
    /\ work' = [work EXCEPT ![c] = "settling"]
    /\ UNCHANGED <<table, services, live, calls, effects>>

\* SandboxCleanupError: nobody knows whether the command still runs.
CleanupFails(c) ==
    /\ work[c] = "running" /\ ~Busy(proc[c])
    /\ work'     = [work EXCEPT ![c] = "settling"]
    /\ snapshot' = [snapshot EXCEPT ![c] = "unknown"]
    /\ stray'    = stray \union {c}
    /\ failures' = failures \union {proc[c]}
    /\ CloseService(proc[c])
    /\ UNCHANGED <<table, exit, closing, sessions, calls, ran>>

\* `running` becomes false unless it is unknown.
Ended(c) == snapshot' = [snapshot EXCEPT ![c] = IF @ = "unknown" THEN @ ELSE "ended"]

\* Fault: the snapshot says that the command has ended whatever has happened.
SaveAsEnded(c) ==
    /\ work[c] = "settling"
    /\ work'      = [work EXCEPT ![c] = "over"]
    /\ snapshot'  = [snapshot EXCEPT ![c] = "ended"]
    /\ completed' = completed \union {c}
    /\ sessions'  = sessions \ {c}
    /\ UNCHANGED <<receipt, services, aborted, calls, effects>>

\* finish: the result is saved and the session leaves the map.
Save(c) ==
    /\ work[c] = "settling"
    /\ work'      = [work EXCEPT ![c] = "over"]
    /\ Ended(c)
    /\ completed' = completed \union {c}
    /\ sessions'  = sessions \ {c}
    /\ UNCHANGED <<receipt, services, aborted, calls, effects>>

\* The result cannot be saved: the session stays, the service closes.
SaveFails(c) ==
    /\ work[c] = "settling"
    /\ work' = [work EXCEPT ![c] = "over"]
    /\ Ended(c)
    /\ failures' = failures \union {proc[c]}
    /\ CloseService(proc[c])
    /\ UNCHANGED <<table, exit, closing, sessions, calls, effects>>

\* command_stop, in the process that has the session.
Stop(c) ==
    /\ c \in sessions \ aborted /\ ~Busy(proc[c])
    /\ aborted' = aborted \union {c}
    /\ UNCHANGED <<table, services, sessions, snapshot, calls, work, effects>>

-----------------------------------------------------------------------------
(* Processes *)

\* close of the server, once no tool call is in flight.
Shutdown(p) ==
    /\ Up(p) /\ p \notin closing /\ ~Busy(p)
    /\ \A c \in Calls : proc[c] = p => stage[c] \notin InFlight
    /\ closing' = closing \union {p}
    /\ CloseService(p)
    /\ UNCHANGED <<table, exit, failures, sessions, snapshot, calls, work, effects>>

\* Calls of a process that has gone, and commands it cannot stop any more.
Gone(p, how) ==
    /\ exit'     = [exit EXCEPT ![p] = how]
    /\ stage'    = [c \in Calls |-> IF proc[c] = p /\ stage[c] \in InFlight THEN "lost" ELSE stage[c]]
    /\ sessions' = {c \in sessions : proc[c] # p}
    /\ work'     = [c \in Calls |-> IF proc[c] = p /\ work[c] \in Active THEN "lost" ELSE work[c]]
    /\ stray'    = stray \union {c \in Calls : proc[c] = p /\ work[c] = "running"}

\* waitForBackground: every execution has settled; a failure is reported.
Exit(p) ==
    /\ Up(p) /\ p \in closing
    /\ \A c \in Calls : proc[c] = p => work[c] \notin Active
    /\ Gone(p, IF p \in failures THEN "failed" ELSE "clean")
    /\ UNCHANGED <<table, closed, closing, failures, aborted, snapshot, proc, ran>>

Crash(p) ==
    /\ Up(p) /\ p \in MayCrash
    /\ Gone(p, "crashed")
    /\ UNCHANGED <<table, closed, closing, failures, aborted, snapshot, proc, ran>>

-----------------------------------------------------------------------------
Proceed(c) == Look(c) \/ Recheck(c) \/ Insert(c)
Execute(c) == Prepared(c) \/ End(c) \/ CleanupFails(c) \/ Save(c) \/ SaveFails(c)

Next ==
    \/ \E c \in Calls : (\E p \in Processes : Start(c, p)) \/ Proceed(c) \/ Execute(c) \/ Stop(c)
    \/ \E p \in Processes : Shutdown(p) \/ Exit(p) \/ Crash(p)

Spec == Init /\ [][Next]_vars

\* Calls are continued when what they await has settled, and a command ends, by its
\* timeout at the latest.
FairSpec == Spec /\ \A c \in Calls : WF_vars(Proceed(c)) /\ WF_vars(Execute(c))

-----------------------------------------------------------------------------
TypeOK ==
    /\ receipt   \in [Keys -> Calls \union {None}]
    /\ completed \subseteq Calls
    /\ exit      \in [Processes -> {"up", "clean", "failed", "crashed"}]
    /\ closed \subseteq Processes /\ closing \subseteq Processes /\ failures \subseteq Processes
    /\ sessions \subseteq Calls /\ aborted \subseteq Calls
    /\ snapshot  \in [Calls -> {"none", "running", "ended", "unknown"}]
    /\ proc      \in [Calls -> Processes \union {None}]
    /\ stage     \in [Calls -> {"idle"} \union InFlight \union {"answered", "conflict", "refused", "lost"}]
    /\ work      \in [Calls -> {"none"} \union Active \union {"over", "lost"}]
    /\ ran \subseteq Calls /\ stray \subseteq Calls

\* "An old request is not executed again after output recycling or restart"
\* (docs/localworks-web.md): whatever the host sends again, to whichever process,
\* after whatever crash, at most one command of a request key is run.
AtMostOnce == \A c, d \in ran : Key[c] = Key[d] => c = d

\* "Changing inputs under that key fails": a call is answered with a session only
\* if the session's inputs are its own, also when it has lost the race to reserve.
SameInputs ==
    \A c \in Calls : stage[c] = "answered" =>
        receipt[Key[c]] # None /\ Input[receipt[Key[c]]] = Input[c]

\* "Only active sessions occupy memory (at most 128 concurrently)", although the
\* limit is checked before and after awaits in which other calls reserve.
Capacity == \A p \in Processes : Cardinality({c \in sessions : proc[c] = p}) <= Limit

\* "Never infer completion": "running" is said only by the process that executes
\* the command, and "ended" only of a command that does not run any more and never
\* will, in whatever process, after crashes and failed cleanups.
ReportsTrue ==
    \A c \in Reserved, p \in Processes : Up(p) =>
        /\ Report(p, c) = "running" => proc[c] = p /\ work[c] \in Active
        /\ Report(p, c) = "ended"   => work[c] = "over" /\ c \notin stray

\* The process that executes a command can always tell of it, without a gap
\* between its memory and the table: "unknown" means a failed cleanup.
OwnerCanTell ==
    \A c \in Reserved : Up(proc[c]) /\ Report(proc[c], c) = "unknown" => c \in stray

\* A shutdown that reports no failure leaves a saved result of every command of
\* the process and none running ("causes shutdown to report failure").
CleanExitTells ==
    \A c \in Reserved : exit[proc[c]] = "clean" => c \in completed /\ snapshot[c] = "ended" /\ c \notin stray

\* No command begins in a process whose service has closed, nor after it has been
\* stopped ("A cleanup failure stops further managed execution").
NothingBeginsLate ==
    [][\A c \in Calls : c \in ran' \ ran => proc[c] \notin closed /\ c \notin aborted]_vars

\* A call is answered, however often it has to start again.
CallsAnswered == \A c \in Calls : (stage[c] \in InFlight) ~> (stage[c] \notin InFlight)

\* The session of an accepted command settles, also when its result cannot be saved.
CommandsSettle == \A c \in Calls : (work[c] \in Active) ~> (work[c] \notin Active)
=============================================================================
