----------------------------- MODULE AgentTurns -----------------------------
(***************************************************************************)
(* Turns of managed agents: src/local-agent-manager.ts over the records of *)
(* src/local-agent-store.ts, the executions of src/work-ledger.ts and the  *)
(* claims of ExecutionCoordinator (used through what it implements,        *)
(* SourceClaims).                                                          *)
(*                                                                         *)
(* One daemon process at a time runs the manager.  Its code runs on one    *)
(* thread, between two awaits without interruption by other requests; but  *)
(* every database transaction is durable by itself and the process may die *)
(* after any of them.  So each transaction is an action, and `busy` names  *)
(* the request whose code occupies the thread meanwhile.  The promise      *)
(* callbacks that follow an await at once (the start of a turn after       *)
(* begin, its unwinding after an abort) run before any other event and are *)
(* part of that occupation.                                                *)
(*                                                                         *)
(* A start or a continuation is a request with a key of its own; clients   *)
(* may send the same request again at any time.  Text, models, profiles    *)
(* and the fields that only describe a turn are left out.                  *)
(***************************************************************************)
EXTENDS Naturals, FiniteSets

CONSTANTS
    Starts,         \* agent.start requests (task keys); a start may create the agent of its name
    Continues,      \* agent.continue requests (request keys)
    Target,         \* Target[q]: the agent a continuation addresses
    Context,        \* Context[q]: the context key of a start, or NoOne
    Commands,       \* claims that other processes of the state directory take
    Exclusive,      \* the pairs of agents and commands whose claims conflict
    NoOne,          \* no request, agent, thread or context
    MaxSessions,    \* maxNewSessionsPerWorkItem; all starts belong to one work item
    MaxCrashes      \* bound of the model: how often the process may die

Requests  == Starts \union Continues
Agents    == Starts
Claimants == Agents \union Commands

ASSUME RequestsAssumption ==
    /\ Starts \intersect Continues = {}
    /\ Starts \intersect Commands = {}
    /\ NoOne \notin Requests \union Commands
    /\ Target \in [Continues -> Agents]
    /\ IsFiniteSet(Starts)
ASSUME ExclusiveAssumption ==
    /\ Exclusive \subseteq Claimants \X Claimants
    /\ \A c, d \in Claimants : <<c, d>> \in Exclusive => <<d, c>> \in Exclusive
ASSUME BoundsAssumption == MaxSessions \in Nat /\ MaxCrashes \in Nat

VARIABLES
    \* durable
    status,     \* the status of each agent's record
    session,    \* the agents whose record has a provider session
    agentOf,    \* the task and continuation keys: the agent each accepted request got
    exec,       \* the ledger's execution of each request
    held, key,  \* the execution claims (SourceClaims)
    \* the process
    daemon,     \* its phase
    arriving,   \* requests accepted by start/continue that await their profiles
    stage,      \* where the turn of each request is
    claimed,    \* requests whose turn holds a claim handle
    busy,       \* the request that occupies the thread
    \* history
    calls,      \* how often the provider was invoked for each request
    crashes

durable == <<status, session, agentOf, exec>>
claims  == <<held, key>>
process == <<daemon, arriving, stage, claimed, busy>>
vars    == <<status, session, agentOf, exec, held, key,
             daemon, arriving, stage, claimed, busy, calls, crashes>>

Claims == INSTANCE SourceClaims WITH
    Requests <- Claimants, Threads <- {}, None <- NoOne,
    InitialThread <- [c \in Claimants |-> NoOne]

Pending   == {"starting", "queued", "running"}
Statuses  == {"absent", "idle", "error", "stopped"} \union Pending
ExecKinds == {"none", "active", "completed", "failed", "cancelled", "reconciliation_required"}
Phases    == {"down", "reconcile_ledger", "reconcile_store", "up", "closing"}
\* accounting to dispatching, ending and releasing occupy the thread.
Stages    == {"none", "accounting", "admitting", "recording", "refusing", "waiting",
              "dispatching", "preparing", "provider", "ending", "releasing"}

Agent(q)     == agentOf[q]
Suspended(q) == stage[q] \in {"waiting", "preparing", "provider"}
\* activeTurns has an entry for the agent.
HasTurn(a)   == \E q \in Requests : agentOf[q] = a /\ Suspended(q)

Free       == busy = NoOne /\ daemon \in {"up", "closing"}
Moves(q, s) == stage' = [stage EXCEPT ![q] = s]
\* q keeps or takes the thread for its next transaction; or gives it up.
Holds(q, s)  == Moves(q, s) /\ busy' = q
Yields(q, s) == Moves(q, s) /\ busy' = NoOne
SetStatus(a, s) == status' = [status EXCEPT ![a] = s]

Init ==
    /\ status  = [a \in Agents |-> "absent"]
    /\ session = {}
    /\ agentOf = [q \in Requests |-> NoOne]
    /\ exec    = [q \in Requests |-> "none"]
    /\ Claims!Init
    /\ daemon = "up" /\ arriving = {} /\ claimed = {} /\ busy = NoOne
    /\ stage  = [q \in Requests |-> "none"]
    /\ calls  = [q \in Requests |-> 0]
    /\ crashes = 0

-----------------------------------------------------------------------------
(* start and continue, up to their first await and after it. *)

\* The manager is accepting; a continuation's agent exists.
Arrive(q) ==
    /\ busy = NoOne /\ daemon = "up"
    /\ q \in Continues => status[Target[q]] # "absent"
    /\ arriving' = arriving \union {q}
    /\ UNCHANGED <<durable, claims, daemon, stage, claimed, busy, calls, crashes>>

\* The key is known: the record is returned, no provider is invoked.  Or the
\* reservation below is refused, and its transaction rolled back.
Answered(q) == arriving' = arriving \ {q} /\ UNCHANGED <<durable, stage, busy>>

Reserve(q, a) ==
    /\ arriving' = arriving \ {q}
    /\ SetStatus(a, "starting")
    /\ agentOf' = [agentOf EXCEPT ![q] = a]
    /\ Holds(q, "accounting")
    /\ UNCHANGED <<session, exec>>

\* createTaskResult: the sessions of the same context that are not over.
SameContext(q) ==
    {a \in Agents : /\ Context[q] # NoOne /\ Context[a] = Context[q]
                    /\ status[a] \in Pending \union {"idle"}}

SessionsUsed == Cardinality({a \in Agents : status[a] \notin {"absent", "stopped"} \/ a \in session})

CreateTask(q) ==
    /\ status[q] = "absent"
    /\ IF SessionsUsed >= MaxSessions THEN Answered(q) ELSE Reserve(q, q)

CommitStart(q) ==
    \/ SameContext(q) = {} /\ CreateTask(q)
    \/ \E a \in SameContext(q) :    \* the latest of them
          \/ status[a] # "idle" /\ Answered(q)
          \/ status[a] = "idle" /\ a \in session /\ Reserve(q, a)
          \/ status[a] = "idle" /\ a \notin session /\ CreateTask(q)

\* reserveContinueResult
CommitContinue(q) ==
    IF status[Target[q]] \in Pending THEN Answered(q) ELSE Reserve(q, Target[q])

\* Fault: the key of a continuation is not looked up.
CommitWithoutKey(q) ==
    /\ Free /\ q \in arriving
    /\ \/ q \in Starts /\ agentOf[q] # NoOne /\ Answered(q)
       \/ q \in Starts /\ agentOf[q] = NoOne /\ CommitStart(q)
       \/ q \in Continues /\ CommitContinue(q)
    /\ UNCHANGED <<claims, daemon, claimed, calls, crashes>>

\* The rest of start or continue: nothing checks again whether the manager is
\* accepting.
Commit(q) ==
    /\ Free /\ q \in arriving
    /\ \/ agentOf[q] # NoOne /\ Answered(q)
       \/ agentOf[q] = NoOne /\ q \in Starts /\ CommitStart(q)
       \/ agentOf[q] = NoOne /\ q \in Continues /\ CommitContinue(q)
    /\ UNCHANGED <<claims, daemon, claimed, calls, crashes>>

-----------------------------------------------------------------------------
(* begin *)

\* activeTurns is checked, then beginExecution; it may refuse (closed work run,
\* archived thread).
Account(q) ==
    /\ busy = q /\ stage[q] = "accounting"
    /\ \/ /\ ~HasTurn(Agent(q))
          /\ exec' = [exec EXCEPT ![q] = "active"]
          /\ Holds(q, "admitting")
       \/ Holds(q, "refusing") /\ UNCHANGED exec
    /\ UNCHANGED <<status, session, agentOf, claims, daemon, arriving, claimed, calls, crashes>>

\* acquire; or enqueue when anything blocks (a claim, an earlier waiter or a
\* limit); or neither, and the execution ends without a turn.
Admit(q) ==
    /\ busy = q /\ stage[q] = "admitting"
    /\ \/ /\ Claims!Start(Agent(q))
          /\ claimed' = claimed \union {q}
          /\ Holds(q, "recording") /\ UNCHANGED exec
       \/ /\ Holds(q, "recording") /\ UNCHANGED <<claims, claimed, exec>>
       \/ /\ exec' = [exec EXCEPT ![q] = "failed"]
          /\ Holds(q, "refusing") /\ UNCHANGED <<claims, claimed>>
    /\ UNCHANGED <<status, session, agentOf, daemon, arriving, calls, crashes>>

\* Fault: the reserved record is left starting.
RefuseSilently(q) ==
    /\ busy = q /\ stage[q] = "refusing"
    /\ Yields(q, "none")
    /\ UNCHANGED <<durable, claims, daemon, arriving, claimed, calls, crashes>>

\* begin failed: start and continue persist a terminal status.
Refuse(q) ==
    /\ busy = q /\ stage[q] = "refusing"
    /\ SetStatus(Agent(q), "stopped")
    /\ Yields(q, "none")
    /\ UNCHANGED <<session, agentOf, exec, claims, daemon, arriving, claimed, calls, crashes>>

\* Fault: a queued turn does not wait.
RecordWithoutQueue(q) ==
    /\ busy = q /\ stage[q] = "recording"
    /\ SetStatus(Agent(q), "running") /\ Holds(q, "dispatching")
    /\ UNCHANGED <<session, agentOf, exec, claims, daemon, arriving, claimed, calls, crashes>>

\* The record is queued or running, and the turn starts: with a claim, or when the
\* manager has stopped accepting, it goes on at once; else it waits for its ticket.
Record(q) ==
    /\ busy = q /\ stage[q] = "recording"
    /\ SetStatus(Agent(q), IF q \in claimed THEN "running" ELSE "queued")
    /\ IF q \in claimed \/ daemon = "closing" THEN Holds(q, "dispatching") ELSE Yields(q, "waiting")
    /\ UNCHANGED <<session, agentOf, exec, claims, daemon, arriving, claimed, calls, crashes>>

-----------------------------------------------------------------------------
(* The turn *)

\* The catch clauses of a turn persist a terminal status before it unwinds.
Settle(q, s) == SetStatus(Agent(q), s) /\ Holds(q, "ending")

\* tryAcquire succeeds.
Poll(q) ==
    /\ busy = NoOne /\ daemon = "up" /\ stage[q] = "waiting"
    /\ Claims!Start(Agent(q))
    /\ claimed' = claimed \union {q}
    /\ Holds(q, "dispatching")
    /\ UNCHANGED <<durable, daemon, arriving, calls, crashes>>

\* The record becomes running and the turn prepares its run; after close it fails.
Dispatch(q) ==
    /\ busy = q /\ stage[q] = "dispatching"
    /\ IF daemon = "closing" THEN Settle(q, "error")
                             ELSE SetStatus(Agent(q), "running") /\ Yields(q, "preparing")
    /\ UNCHANGED <<session, agentOf, exec, claims, daemon, arriving, claimed, calls, crashes>>

\* tryAcquire throws on an expired ticket.
ExpireTicket(q) ==
    /\ Free /\ stage[q] = "waiting"
    /\ Settle(q, "error")
    /\ UNCHANGED <<session, agentOf, exec, claims, daemon, arriving, claimed, calls, crashes>>

\* cancelQueued, or the abort of queued turns by close.
CancelQueued(q) ==
    /\ Free /\ stage[q] = "waiting"
    /\ Settle(q, "stopped")
    /\ UNCHANGED <<session, agentOf, exec, claims, daemon, arriving, claimed, calls, crashes>>

\* runTurn: the profile, the host context or the driver is no longer valid, or
\* the pool is closed.
PrepareFails(q) ==
    /\ Free /\ stage[q] = "preparing"
    /\ Settle(q, "error")
    /\ UNCHANGED <<session, agentOf, exec, claims, daemon, arriving, claimed, calls, crashes>>

\* pool.run enters the provider.
Invoke(q) ==
    /\ busy = NoOne /\ daemon = "up" /\ stage[q] = "preparing"
    /\ Moves(q, "provider")
    /\ calls' = [calls EXCEPT ![q] = @ + 1]
    /\ UNCHANGED <<durable, claims, daemon, arriving, claimed, busy, crashes>>

\* onSessionId
ReportSession(q) ==
    /\ Free /\ stage[q] = "provider" /\ Agent(q) \notin session
    /\ session' = session \union {Agent(q)}
    /\ UNCHANGED <<status, agentOf, exec, claims, process, calls, crashes>>

\* The run returns (with the session it used) or fails; closing the pool
\* interrupts it.
ProviderReturns(q) ==
    /\ Free /\ stage[q] = "provider"
    /\ \/ Settle(q, "idle") /\ session' = session \union {Agent(q)}
       \/ Settle(q, "error") /\ UNCHANGED session
    /\ UNCHANGED <<agentOf, exec, claims, daemon, arriving, claimed, calls, crashes>>

\* finally: the execution ends as the record says, then the ticket and the claim
\* go and the turn leaves activeTurns.
EndExecution(q) ==
    /\ busy = q /\ stage[q] = "ending"
    /\ exec' = [exec EXCEPT ![q] = CASE status[Agent(q)] = "idle"    -> "completed"
                                     [] status[Agent(q)] = "stopped" -> "cancelled"
                                     [] OTHER                        -> "failed"]
    /\ Holds(q, "releasing")
    /\ UNCHANGED <<status, session, agentOf, claims, daemon, arriving, claimed, calls, crashes>>

ReleaseClaim(q) ==
    /\ busy = q /\ stage[q] = "releasing"
    /\ IF q \in claimed THEN Claims!End(Agent(q)) ELSE UNCHANGED claims
    /\ claimed' = claimed \ {q}
    /\ Yields(q, "none")
    /\ UNCHANGED <<durable, daemon, arriving, calls, crashes>>

-----------------------------------------------------------------------------
(* The process and the other processes *)

\* close stops accepting and closes the pool; it ends when the turns have settled.
Close ==
    /\ busy = NoOne /\ daemon = "up"
    /\ daemon' = "closing"
    /\ UNCHANGED <<durable, claims, arriving, stage, claimed, busy, calls, crashes>>

Closed ==
    /\ busy = NoOne /\ daemon = "closing" /\ \A q \in Requests : ~Suspended(q)
    /\ daemon' = "down" /\ arriving' = {}
    /\ UNCHANGED <<durable, claims, stage, claimed, busy, calls, crashes>>

\* The process dies, or is forced to exit while turns are still active.
Crash ==
    /\ daemon # "down" /\ crashes < MaxCrashes
    /\ daemon' = "down" /\ arriving' = {} /\ claimed' = {} /\ busy' = NoOne
    /\ stage' = [q \in Requests |-> "none"]
    /\ crashes' = crashes + 1
    /\ UNCHANGED <<durable, claims, calls>>

Boot ==
    /\ daemon = "down"
    /\ daemon' = "reconcile_ledger"
    /\ UNCHANGED <<durable, claims, arriving, stage, claimed, busy, calls, crashes>>

\* Fault: the claims of the dead process are freed.
ReconcileAndFree ==
    /\ daemon = "reconcile_ledger"
    /\ exec' = [q \in Requests |-> IF exec[q] = "active" THEN "reconciliation_required" ELSE exec[q]]
    /\ held' = held \intersect Commands
    /\ daemon' = "reconcile_store"
    /\ UNCHANGED <<status, session, agentOf, key, arriving, stage, claimed, busy, calls, crashes>>

\* reconcileInterruptedExecutions
ReconcileLedger ==
    /\ daemon = "reconcile_ledger"
    /\ exec' = [q \in Requests |-> IF exec[q] = "active" THEN "reconciliation_required" ELSE exec[q]]
    /\ daemon' = "reconcile_store"
    /\ UNCHANGED <<status, session, agentOf, claims, arriving, stage, claimed, busy, calls, crashes>>

\* Fault: queued records are forgotten.
ReconcileRunning ==
    /\ daemon = "reconcile_store"
    /\ status' = [a \in Agents |-> IF status[a] \in {"starting", "running"} THEN "error" ELSE status[a]]
    /\ daemon' = "up"
    /\ UNCHANGED <<session, agentOf, exec, claims, arriving, stage, claimed, busy, calls, crashes>>

\* reconcileActiveRuns of the store; then the daemon listens.
ReconcileStore ==
    /\ daemon = "reconcile_store"
    /\ status' = [a \in Agents |-> IF status[a] \in Pending THEN "error" ELSE status[a]]
    /\ daemon' = "up"
    /\ UNCHANGED <<session, agentOf, exec, claims, arriving, stage, claimed, busy, calls, crashes>>

CommandTurn(c) ==
    /\ Claims!Start(c) \/ Claims!End(c)
    /\ UNCHANGED <<durable, process, calls, crashes>>

\* The code that occupies the thread.
RunThread(q) ==
    \/ Account(q) \/ Admit(q) \/ Refuse(q) \/ Record(q) \/ Dispatch(q)
    \/ EndExecution(q) \/ ReleaseClaim(q)

\* A queued turn gets its claim, or its ticket expires, or it is cancelled.
LeaveQueue(q) == Poll(q) \/ ExpireTicket(q) \/ CancelQueued(q)

LeavePreparation(q) == Invoke(q) \/ PrepareFails(q)

Recover == Boot \/ ReconcileLedger \/ ReconcileStore

Next ==
    \/ \E q \in Requests :
          \/ Arrive(q) \/ Commit(q) \/ RunThread(q) \/ LeaveQueue(q) \/ LeavePreparation(q)
          \/ ReportSession(q) \/ ProviderReturns(q)
    \/ Close \/ Closed \/ Crash \/ Recover
    \/ \E c \in Commands : CommandTurn(c)

Spec == Init /\ [][Next]_vars

\* The event loop takes every event that stays ready, tickets have a deadline,
\* providers return or fail, and a client that needs the daemon boots it again.
\* Claims need not become free.
FairSpec ==
    /\ Spec
    /\ \A q \in Requests : /\ WF_vars(Commit(q)) /\ WF_vars(RunThread(q))
                           /\ WF_vars(LeaveQueue(q)) /\ WF_vars(LeavePreparation(q))
                           /\ WF_vars(ProviderReturns(q))
    /\ WF_vars(Recover)

-----------------------------------------------------------------------------
TypeOK ==
    /\ status   \in [Agents -> Statuses]
    /\ session  \subseteq Agents
    /\ agentOf  \in [Requests -> Agents \union {NoOne}]
    /\ exec     \in [Requests -> ExecKinds]
    /\ held     \subseteq Claimants
    /\ key      \in [Claimants -> {NoOne}]
    /\ daemon   \in Phases
    /\ arriving \subseteq Requests
    /\ stage    \in [Requests -> Stages]
    /\ claimed  \subseteq Requests
    /\ busy     \in Requests \union {NoOne}
    /\ calls    \in [Requests -> Nat]
    /\ crashes  \in 0..MaxCrashes

\* However often a request is sent again, before or after a crash, a close or a
\* restart, its provider is invoked at most once ("Replaying that key does not
\* invoke a model twice"; createTaskResult, reserveContinueResult).
NoReplay == \A q \in Requests : calls[q] <= 1

\* Two turns that exclude each other are never with their providers at the same
\* time, and neither works while a conflicting command of another process runs
\* (begin chooses the claim, the turn keeps it until its provider is done).
ProvidersExclude ==
    \A q \in Requests : stage[q] = "provider" =>
        /\ Agent(q) \in held
        /\ \A c \in held \ {Agent(q)} : <<Agent(q), c>> \notin Exclusive
        /\ \A p \in Requests : p # q /\ stage[p] = "provider" => Agent(p) # Agent(q)

\* Whenever the thread is free, an agent's record is pending exactly while a turn
\* will settle it, and an execution is active exactly while its turn exists: no
\* session stays permanently starting, none is idle under a running turn.
PendingHasTurn ==
    Free =>
        /\ \A a \in Agents : status[a] \in Pending <=> HasTurn(a)
        /\ \A q \in Requests : exec[q] = "active" <=> Suspended(q)

\* The ledger tells the truth about provider calls: a cancelled execution never
\* reached its provider, a completed one did, and no call goes unaccounted
\* (endExecution, cancelQueued, reconcileInterruptedExecutions).
LedgerTellsCalls ==
    \A q \in Requests :
        /\ exec[q] \in {"none", "cancelled"} => calls[q] = 0
        /\ exec[q] = "completed" => calls[q] = 1

\* An execution that was interrupted while its provider worked keeps its agent's
\* claim: the checkout stays closed until someone reconciles it, whatever is
\* started, continued, queued or released afterwards ("never stolen").
InterruptedKeepsClaim ==
    \A q \in Requests :
        exec[q] = "reconciliation_required" /\ calls[q] > 0 => Agent(q) \in held

\* Docs: the budget of new provider sessions per work item is MaxSessions
\* (docs/host-first-readonly-workflows.md:74, createTaskResult).
SessionBudget == Cardinality(session) <= MaxSessions

\* An execution that has ended, or that needs reconciliation, is never rewritten
\* by a later turn, restart or resent request.
ExecutionsFinal ==
    [][\A q \in Requests : exec[q] \notin {"none", "active"} => exec'[q] = exec[q]]_vars

\* Every pending record settles: through its turn, through close, or after a
\* crash through reconciliation, even when its claim never becomes free.
PendingSettles == \A a \in Agents : (status[a] \in Pending) ~> (status[a] \notin Pending)
=============================================================================
