-------------------------- MODULE AgentTurnsProofs --------------------------
(***************************************************************************)
(* Proofs about AgentTurns, for any number of requests, agents, commands,  *)
(* conflicts and crashes.  The inductive invariant has three layers above  *)
(* the types: what each stage of a turn says of its execution and of its   *)
(* provider call (Flow), which turns and interrupted executions own which  *)
(* claims (Owning), and which turn is responsible for a pending record     *)
(* (Charge).                                                               *)
(***************************************************************************)
EXTENDS AgentTurns, TLAPS

\* A request beyond the replay check has its agent.
Assigned == \A q \in Requests : stage[q] # "none" => agentOf[q] \in Agents

LEMMA TypeInit == Init => TypeOK /\ Assigned
  BY RequestsAssumption, BoundsAssumption
  DEF Init, Claims!Init, TypeOK, Assigned, Statuses, Pending, ExecKinds, Phases, Stages, Agents

LEMMA ClaimTypes ==
    ASSUME TypeOK, NEW c \in Claimants, Claims!Start(c) \/ Claims!End(c)
    PROVE  held' \subseteq Claimants /\ key' \in [Claimants -> {NoOne}]
  BY DEF TypeOK, Claims!Start, Claims!End

LEMMA CommitCases ==
    ASSUME TypeOK, NEW q \in Requests, Commit(q)
    PROVE  /\ Free /\ UNCHANGED <<claims, daemon, claimed, calls, crashes>>
           /\ arriving' = arriving \ {q}
           /\ \/ UNCHANGED <<durable, stage, busy>>
              \/ /\ agentOf[q] = NoOne
                 /\ \E a \in Agents : Reserve(q, a) /\ status[a] \notin Pending
  <1> USE RequestsAssumption DEF Reserve, Answered, Agents
  <1>1. CASE agentOf[q] # NoOne /\ Answered(q)
    BY <1>1 DEF Commit
  <1>2. CASE agentOf[q] = NoOne /\ q \in Starts /\ CommitStart(q)
    BY <1>2 DEF Commit, CommitStart, CreateTask, SameContext, Pending
  <1>3. CASE agentOf[q] = NoOne /\ q \in Continues /\ CommitContinue(q)
    BY <1>3 DEF Commit, CommitContinue
  <1> QED
    BY <1>1, <1>2, <1>3 DEF Commit

LEMMA TypeStep == TypeOK /\ Assigned /\ [Next]_vars => TypeOK' /\ Assigned'
  <1> SUFFICES ASSUME TypeOK, Assigned, [Next]_vars PROVE TypeOK' /\ Assigned'
    OBVIOUS
  <1> USE RequestsAssumption, BoundsAssumption
      DEF Assigned, Agent, Holds, Yields, Moves, SetStatus, Settle, Statuses, Pending, ExecKinds,
          Phases, Stages, Claimants, Agents, durable, claims, process
  <1>1. CASE UNCHANGED vars
    BY <1>1 DEF vars, TypeOK
  <1>2. ASSUME NEW q \in Requests, Arrive(q) PROVE TypeOK' /\ Assigned'
    BY <1>2 DEF Arrive, TypeOK
  <1>3. ASSUME NEW q \in Requests, Commit(q) PROVE TypeOK' /\ Assigned'
    BY <1>3, CommitCases DEF Reserve, TypeOK
  <1>4. ASSUME NEW q \in Requests, RunThread(q) PROVE TypeOK' /\ Assigned'
    <2>1. agentOf[q] \in Agents
      BY <1>4 DEF RunThread, Account, Admit, Refuse, Record, Dispatch, EndExecution, ReleaseClaim
    <2>2. CASE Account(q) \/ Refuse(q) \/ Record(q) \/ Dispatch(q)
      BY <2>1, <2>2 DEF Account, Refuse, Record, Dispatch, TypeOK
    <2>3. CASE Admit(q)
      BY <2>1, <2>3, ClaimTypes DEF Admit, TypeOK
    <2>4. CASE EndExecution(q)
      BY <2>1, <2>4 DEF EndExecution, TypeOK
    <2>5. CASE ReleaseClaim(q)
      BY <2>1, <2>5, ClaimTypes DEF ReleaseClaim, TypeOK
    <2> QED
      BY <1>4, <2>2, <2>3, <2>4, <2>5 DEF RunThread
  <1>5. ASSUME NEW q \in Requests, LeaveQueue(q) PROVE TypeOK' /\ Assigned'
    <2>1. agentOf[q] \in Agents
      BY <1>5 DEF LeaveQueue, Poll, ExpireTicket, CancelQueued
    <2>2. CASE Poll(q)
      BY <2>1, <2>2, ClaimTypes DEF Poll, TypeOK
    <2>3. CASE ExpireTicket(q) \/ CancelQueued(q)
      BY <2>1, <2>3 DEF ExpireTicket, CancelQueued, TypeOK
    <2> QED
      BY <1>5, <2>2, <2>3 DEF LeaveQueue
  <1>6. ASSUME NEW q \in Requests,
               LeavePreparation(q) \/ ReportSession(q) \/ ProviderReturns(q)
        PROVE  TypeOK' /\ Assigned'
    BY <1>6 DEF LeavePreparation, Invoke, PrepareFails, ReportSession, ProviderReturns, TypeOK
  <1>7. CASE Close \/ Closed \/ Crash \/ Recover
    BY <1>7 DEF Close, Closed, Crash, Recover, Boot, ReconcileLedger, ReconcileStore, TypeOK
  <1>8. ASSUME NEW c \in Commands, CommandTurn(c) PROVE TypeOK' /\ Assigned'
    BY <1>8, ClaimTypes DEF CommandTurn, TypeOK
  <1> QED
    BY <1>1, <1>2, <1>3, <1>4, <1>5, <1>6, <1>7, <1>8 DEF Next

\* Records, executions, claims and turns keep their types.
THEOREM TypeCorrect == Spec => []TypeOK
  BY TypeInit, TypeStep, PTL DEF Spec

-----------------------------------------------------------------------------
(* Stages, executions and provider calls. *)

\* The code between these stages and the next await occupies the thread.
ThreadStages == {"accounting", "admitting", "recording", "refusing", "dispatching", "ending", "releasing"}
\* The execution of a turn in these stages is active.
ActiveStages == {"admitting", "recording", "waiting", "dispatching", "preparing", "provider", "ending"}
\* The provider has not been invoked.
EarlyStages  == {"accounting", "admitting", "recording", "refusing", "waiting", "dispatching", "preparing"}

\* A turn holds its claim in these stages only.
ClaimStages  == {"recording", "dispatching", "preparing", "provider", "ending", "releasing"}

\* What the stage of a request says of the thread, of its execution and of its calls.
StageTells(q) ==
    /\ agentOf[q] = NoOne => stage[q] = "none" /\ exec[q] = "none" /\ calls[q] = 0
    /\ busy = q <=> stage[q] \in ThreadStages
    /\ q \in claimed => stage[q] \in ClaimStages
    /\ stage[q] \in EarlyStages => calls[q] = 0
    /\ stage[q] = "provider" => calls[q] = 1
    /\ calls[q] <= 1
    /\ stage[q] \in ActiveStages => exec[q] = "active"
    /\ stage[q] = "accounting" => exec[q] = "none"
    /\ stage[q] = "refusing" => exec[q] \in {"none", "failed"}
    /\ stage[q] = "releasing" => exec[q] \in {"completed", "failed", "cancelled"}

\* What an execution says of its turn and of its calls.
ExecTells(q) ==
    /\ exec[q] = "active" /\ daemon \notin {"down", "reconcile_ledger"} => stage[q] \in ActiveStages
    /\ exec[q] \in {"none", "cancelled"} => calls[q] = 0
    /\ exec[q] = "completed" => calls[q] = 1
    /\ stage[q] = "ending" =>
          /\ status[agentOf[q]] = "stopped" => calls[q] = 0
          /\ status[agentOf[q]] = "idle" => calls[q] = 1

\* A process that is not up has no turns.
NoTurns(q) == daemon \notin {"up", "closing"} => stage[q] = "none" /\ q \notin claimed \union arriving

Flow == \A q \in Requests : StageTells(q) /\ ExecTells(q) /\ NoTurns(q)

LEMMA FlowInit == Init => Flow
  BY RequestsAssumption
  DEF Init, Flow, StageTells, ExecTells, NoTurns, ThreadStages, ActiveStages, EarlyStages, ClaimStages

\* An action of q moves q alone.
LEMMA FlowStep == TypeOK /\ Assigned /\ Flow /\ [Next]_vars => Flow'
  <1> SUFFICES ASSUME TypeOK, Assigned, Flow, [Next]_vars, NEW r \in Requests
               PROVE  StageTells(r)' /\ ExecTells(r)' /\ NoTurns(r)'
    BY DEF Flow
  <1>0. StageTells(r) /\ ExecTells(r) /\ NoTurns(r)
    BY DEF Flow
  <1> USE <1>0, RequestsAssumption
      DEF TypeOK, Assigned, Agent, Free, Holds, Yields, Moves, SetStatus, Settle, durable, claims, process,
          StageTells, ExecTells, NoTurns, ThreadStages, ActiveStages, EarlyStages,
          ClaimStages, ExecKinds, Stages, Agents
  <1>1. CASE UNCHANGED vars
    BY <1>1 DEF vars
  <1>2. ASSUME NEW q \in Requests, Arrive(q) PROVE StageTells(r)' /\ ExecTells(r)' /\ NoTurns(r)'
    BY <1>2 DEF Arrive
  <1>3. ASSUME NEW q \in Requests, Commit(q) PROVE StageTells(r)' /\ ExecTells(r)' /\ NoTurns(r)'
    <2>1. StageTells(q) /\ ExecTells(q)
      BY DEF Flow
    <2>2. Free /\ UNCHANGED <<claims, daemon, claimed, calls, crashes>> /\ arriving' = arriving \ {q}
      BY <1>3, CommitCases
    <2>3. CASE UNCHANGED <<durable, stage, busy>>
      BY <2>2, <2>3
    <2>4. ASSUME NEW a \in Agents, agentOf[q] = NoOne, Reserve(q, a)
          PROVE  StageTells(r)' /\ ExecTells(r)' /\ NoTurns(r)'
      <3>1. stage[r] # "ending"
        BY <2>2
      <3>2. CASE r = q
        <4>1. stage[q] = "none" /\ exec[q] = "none" /\ calls[q] = 0 /\ q \notin claimed
          BY <2>1, <2>4
        <4>2. stage'[q] = "accounting" /\ busy' = q /\ agentOf'[q] = a /\ a # NoOne
          BY <2>4 DEF Reserve, Requests
        <4>3. exec'[q] = "none" /\ calls'[q] = 0 /\ q \notin claimed' /\ daemon' \in {"up", "closing"}
          BY <2>2, <2>4, <4>1 DEF Reserve
        <4> QED
          BY <3>2, <4>2, <4>3
      <3>3. CASE r # q
        BY <2>2, <2>4, <3>1, <3>3 DEF Reserve
      <3> QED
        BY <3>2, <3>3
    <2> QED
      BY <1>3, <2>3, <2>4, CommitCases
  <1>4. ASSUME NEW q \in Requests, RunThread(q) PROVE StageTells(r)' /\ ExecTells(r)' /\ NoTurns(r)'
    <2>0. StageTells(q) /\ ExecTells(q) /\ NoTurns(q) /\ agentOf[q] \in Agents
      BY <1>4 DEF Flow, RunThread, Account, Admit, Refuse, Record, Dispatch, EndExecution, ReleaseClaim
    <2>1. CASE Account(q) \/ Admit(q) \/ Refuse(q)
      BY <2>0, <2>1 DEF Account, Admit, Refuse
    <2>2. CASE Record(q) \/ Dispatch(q)
      BY <2>0, <2>2 DEF Record, Dispatch
    <2>3. CASE EndExecution(q) \/ ReleaseClaim(q)
      BY <2>0, <2>3 DEF EndExecution, ReleaseClaim
    <2> QED
      BY <1>4, <2>1, <2>2, <2>3 DEF RunThread
  <1>5. ASSUME NEW q \in Requests, LeaveQueue(q) PROVE StageTells(r)' /\ ExecTells(r)' /\ NoTurns(r)'
    <2>0. StageTells(q) /\ ExecTells(q) /\ NoTurns(q) /\ agentOf[q] \in Agents
      BY <1>5 DEF Flow, LeaveQueue, Poll, ExpireTicket, CancelQueued
    <2> QED
      BY <1>5, <2>0 DEF LeaveQueue, Poll, ExpireTicket, CancelQueued
  <1>6. ASSUME NEW q \in Requests,
               LeavePreparation(q) \/ ReportSession(q) \/ ProviderReturns(q)
        PROVE  StageTells(r)' /\ ExecTells(r)' /\ NoTurns(r)'
    <2>0. StageTells(q) /\ ExecTells(q) /\ NoTurns(q) /\ agentOf[q] \in Agents
      BY <1>6 DEF Flow, LeavePreparation, Invoke, PrepareFails, ReportSession, ProviderReturns
    <2> QED
      BY <1>6, <2>0 DEF LeavePreparation, Invoke, PrepareFails, ReportSession, ProviderReturns
  <1>7. CASE Close \/ Closed \/ Crash
    BY <1>7 DEF Close, Closed, Crash, Suspended
  <1>8. CASE Recover
    BY <1>8 DEF Recover, Boot, ReconcileLedger, ReconcileStore
  <1>9. ASSUME NEW c \in Commands, CommandTurn(c) PROVE StageTells(r)' /\ ExecTells(r)' /\ NoTurns(r)'
    BY <1>9 DEF CommandTurn
  <1> QED
    BY <1>1, <1>2, <1>3, <1>4, <1>5, <1>6, <1>7, <1>8, <1>9 DEF Next

LEMMA FlowCorrect == Spec => [](TypeOK /\ Assigned /\ Flow)
  BY TypeInit, TypeStep, FlowInit, FlowStep, PTL DEF Spec

\* However often a start or a continuation is sent again, across crashes and
\* restarts, its provider is invoked at most once.
THEOREM NeverReplayed == Spec => []NoReplay
  <1>1. Flow => NoReplay
    BY DEF Flow, StageTells, NoReplay
  <1> QED
    BY <1>1, FlowCorrect, PTL

\* The ledger never calls an execution cancelled, or has none, when the provider was
\* invoked, and never calls one completed when it was not.
THEOREM LedgerTruthful == Spec => []LedgerTellsCalls
  <1>1. Flow => LedgerTellsCalls
    BY DEF Flow, ExecTells, LedgerTellsCalls
  <1> QED
    BY <1>1, FlowCorrect, PTL

\* An execution that has ended, or needs reconciliation, is never rewritten.
THEOREM ExecutionsNeverRewritten == Spec => ExecutionsFinal
  <1>1. TypeOK /\ Flow /\ [Next]_vars =>
          [\A q \in Requests : exec[q] \notin {"none", "active"} => exec'[q] = exec[q]]_vars
    <2> SUFFICES ASSUME TypeOK, Flow, Next, NEW r \in Requests, exec[r] \notin {"none", "active"}
                 PROVE  exec'[r] = exec[r]
      BY DEF vars
    <2> USE DEF TypeOK, Flow, StageTells, ActiveStages, durable
    <2>1. ASSUME NEW q \in Requests, Arrive(q) \/ LeaveQueue(q) \/ LeavePreparation(q)
                                     \/ ReportSession(q) \/ ProviderReturns(q)
          PROVE  exec'[r] = exec[r]
      BY <2>1 DEF Arrive, LeaveQueue, Poll, ExpireTicket, CancelQueued, LeavePreparation, Invoke,
                  PrepareFails, ReportSession, ProviderReturns
    <2>2. ASSUME NEW q \in Requests, Commit(q) PROVE exec'[r] = exec[r]
      BY <2>2, CommitCases DEF Reserve
    <2>3. ASSUME NEW q \in Requests, RunThread(q) PROVE exec'[r] = exec[r]
      BY <2>3 DEF RunThread, Account, Admit, Refuse, Record, Dispatch, EndExecution, ReleaseClaim
    <2>4. CASE Close \/ Closed \/ Crash \/ Recover
      BY <2>4 DEF Close, Closed, Crash, Recover, Boot, ReconcileLedger, ReconcileStore
    <2>5. ASSUME NEW c \in Commands, CommandTurn(c) PROVE exec'[r] = exec[r]
      BY <2>5 DEF CommandTurn
    <2> QED
      BY <2>1, <2>2, <2>3, <2>4, <2>5 DEF Next
  <1> QED
    BY <1>1, FlowCorrect, PTL DEF Spec, ExecutionsFinal

-----------------------------------------------------------------------------
(* Turns, interrupted executions and claims. *)

\* An execution that owes its agent's claim: its provider was invoked, and it has
\* not ended, or ended because the process died.
Owes(q) == exec[q] \in {"active", "reconciliation_required"} /\ calls[q] > 0

\* Claims that run together do not exclude each other, every turn beyond admission
\* owns its agent's claim alone, and so does every execution that owes one.
Owning ==
    /\ \A c, d \in held : c # d => <<c, d>> \notin Exclusive
    /\ \A q \in claimed : agentOf[q] \in held
    /\ \A p, q \in claimed : agentOf[p] = agentOf[q] => p = q
    /\ \A q \in Requests : stage[q] \in {"preparing", "provider"} => q \in claimed
    /\ \A q \in Requests : stage[q] = "dispatching" /\ daemon = "up" => q \in claimed
    /\ \A q \in Requests : Owes(q) => agentOf[q] \in held
    /\ \A q \in Requests, p \in claimed : Owes(q) /\ p # q => agentOf[p] # agentOf[q]

LEMMA OwningInit == Init => Owning
  BY DEF Init, Claims!Init, Owning, Owes

LEMMA ClaimStart ==
    ASSUME Owning, NEW c \in Claimants, Claims!Start(c)
    PROVE  /\ c \notin held /\ held' = held \union {c}
           /\ \A b, d \in held' : b # d => <<b, d>> \notin Exclusive
  BY ExclusiveAssumption DEF Owning, Claims!Start

LEMMA OwningStep == TypeOK /\ Assigned /\ Flow /\ Owning /\ [Next]_vars => Owning'
  <1> SUFFICES ASSUME TypeOK, Assigned, Flow, Owning, [Next]_vars PROVE Owning'
    OBVIOUS
  <1>0. \A q \in Requests : StageTells(q) /\ ExecTells(q) /\ NoTurns(q)
    BY DEF Flow
  <1> USE RequestsAssumption
      DEF TypeOK, Assigned, Agent, Holds, Yields, Moves, SetStatus, Settle, durable, claims, process
  <1>1. CASE UNCHANGED vars
    BY <1>1 DEF vars, Owning, Owes
  <1>2. ASSUME NEW q \in Requests, Arrive(q) PROVE Owning'
    BY <1>2 DEF Arrive, Owning, Owes
  <1>3. ASSUME NEW q \in Requests, Commit(q) PROVE Owning'
    <2>1. CASE UNCHANGED <<durable, stage, busy>>
      BY <1>3, <2>1, CommitCases DEF Owning, Owes
    <2>2. ASSUME NEW a \in Agents, agentOf[q] = NoOne, Reserve(q, a) PROVE Owning'
      <3>1. UNCHANGED <<claims, daemon, claimed, calls, exec>>
        BY <1>3, <2>2, CommitCases DEF Reserve
      <3>2. calls[q] = 0 /\ q \notin claimed
        BY <1>0, <2>2 DEF StageTells, ClaimStages
      <3> QED
        BY <2>2, <3>1, <3>2 DEF Owning, Owes, Reserve
    <2> QED
      BY <1>3, <2>1, <2>2, CommitCases
  <1>4. ASSUME NEW q \in Requests, RunThread(q) PROVE Owning'
    <2>0. agentOf[q] \in Agents
      BY <1>4 DEF RunThread, Account, Admit, Refuse, Record, Dispatch, EndExecution, ReleaseClaim
    <2>1. CASE Account(q)
      <3>1. calls[q] = 0
        BY <1>0, <2>1 DEF Account, StageTells, EarlyStages
      <3> QED
        BY <2>1, <3>1 DEF Account, Owning, Owes
    <2>2. CASE Admit(q)
      <3>1. calls[q] = 0
        BY <1>0, <2>2 DEF Admit, StageTells, EarlyStages
      <3>2. CASE Claims!Start(agentOf[q])
        <4>1. /\ agentOf[q] \notin held /\ held' = held \union {agentOf[q]}
              /\ \A b, d \in held' : b # d => <<b, d>> \notin Exclusive
          BY <2>0, <3>2, ClaimStart DEF Claimants
        <4> QED
          BY <2>2, <3>1, <4>1 DEF Admit, Owning, Owes
      <3> QED
        BY <2>2, <3>1, <3>2 DEF Admit, Owning, Owes
    <2>3. CASE Refuse(q) \/ Record(q)
      BY <2>3 DEF Refuse, Record, Owning, Owes
    <2>4. CASE Dispatch(q)
      <3>1. daemon \in {"up", "closing"}
        BY <1>0, <2>4 DEF Dispatch, NoTurns
      <3> QED
        BY <2>4, <3>1 DEF Dispatch, Owning, Owes
    <2>5. CASE EndExecution(q)
      BY <2>5 DEF EndExecution, Owning, Owes
    <2>6. CASE ReleaseClaim(q)
      <3>1. ~Owes(q)
        BY <1>0, <2>6 DEF ReleaseClaim, Owes, StageTells, ExecTells, NoTurns, ActiveStages
      <3> QED
        BY <2>0, <2>6, <3>1 DEF ReleaseClaim, Owning, Owes, Claims!End
    <2> QED
      BY <1>4, <2>1, <2>2, <2>3, <2>4, <2>5, <2>6 DEF RunThread
  <1>5. ASSUME NEW q \in Requests, LeaveQueue(q) PROVE Owning'
    <2>1. CASE Poll(q)
      <3>1. calls[q] = 0 /\ agentOf[q] \in Agents
        BY <1>0, <2>1 DEF Poll, StageTells, EarlyStages
      <3>2. /\ agentOf[q] \notin held /\ held' = held \union {agentOf[q]}
            /\ \A b, d \in held' : b # d => <<b, d>> \notin Exclusive
        BY <2>1, <3>1, ClaimStart DEF Poll, Claimants
      <3> QED
        BY <2>1, <3>1, <3>2 DEF Poll, Owning, Owes
    <2>2. CASE ExpireTicket(q) \/ CancelQueued(q)
      BY <2>2 DEF ExpireTicket, CancelQueued, Owning, Owes
    <2> QED
      BY <1>5, <2>1, <2>2 DEF LeaveQueue
  <1>6. ASSUME NEW q \in Requests, Invoke(q) PROVE Owning'
    BY <1>6 DEF Invoke, Owning, Owes
  <1>7. ASSUME NEW q \in Requests, PrepareFails(q) \/ ReportSession(q) \/ ProviderReturns(q)
        PROVE  Owning'
    BY <1>7 DEF PrepareFails, ReportSession, ProviderReturns, Owning, Owes
  <1>8. CASE Close
    <2>1. \A q \in Requests : stage[q] # "dispatching"
      BY <1>0, <1>8 DEF Close, StageTells, ThreadStages
    <2> QED
      BY <1>8, <2>1 DEF Close, Owning, Owes
  <1>9. CASE Closed \/ Crash
    BY <1>9 DEF Closed, Crash, Owning, Owes
  <1>10. CASE Recover
    <2>1. \A q \in Requests : stage[q] = "none"
      BY <1>0, <1>10 DEF Recover, Boot, ReconcileLedger, ReconcileStore, NoTurns
    <2> QED
      BY <1>10, <2>1 DEF Recover, Boot, ReconcileLedger, ReconcileStore, Owning, Owes
  <1>11. ASSUME NEW c \in Commands, CommandTurn(c) PROVE Owning'
    <2>1. CASE Claims!Start(c)
      BY <1>11, <2>1, ClaimStart DEF CommandTurn, Owning, Owes, Claimants
    <2>2. CASE Claims!End(c)
      <3>1. \A q \in Requests : agentOf[q] # c
        BY DEF Agents, Requests
      <3> QED
        BY <1>11, <2>2, <3>1 DEF CommandTurn, Owning, Owes, Claims!End
    <2> QED
      BY <1>11, <2>1, <2>2 DEF CommandTurn
  <1> QED
    BY <1>1, <1>2, <1>3, <1>4, <1>5, <1>6, <1>7, <1>8, <1>9, <1>10, <1>11 DEF Next, LeavePreparation

LEMMA OwningCorrect == Spec => [](TypeOK /\ Assigned /\ Flow /\ Owning)
  BY TypeInit, TypeStep, FlowInit, FlowStep, OwningInit, OwningStep, PTL DEF Spec

\* An execution that died with its provider at work keeps its agent's claim.
THEOREM InterruptionsKeepClaims == Spec => []InterruptedKeepsClaim
  <1>1. Owning => InterruptedKeepsClaim
    BY DEF Owning, Owes, InterruptedKeepsClaim, Agent
  <1> QED
    BY <1>1, OwningCorrect, PTL

\* Turns that exclude each other are never with their providers together, and no
\* provider works beside a conflicting command.
THEOREM ProvidersApart == Spec => []ProvidersExclude
  <1>1. Owning => ProvidersExclude
    BY DEF Owning, ProvidersExclude, Agent
  <1> QED
    BY <1>1, OwningCorrect, PTL

-----------------------------------------------------------------------------
(* Turns and pending records. *)

\* In these stages a turn is responsible for its agent's record.
ChargeStages == EarlyStages \union {"provider"}

Answers(q, a) == agentOf[q] = a /\ stage[q] \in ChargeStages

\* While the process is up, a record is pending exactly while one turn, and only
\* one, is responsible for it.
Charge == daemon \in {"up", "closing"} =>
    /\ \A a \in Agents : status[a] \in Pending <=> \E q \in Requests : Answers(q, a)
    /\ \A p, q \in Requests, a \in Agents : Answers(p, a) /\ Answers(q, a) => p = q

LEMMA ChargeInit == Init => Charge
  BY DEF Init, Charge, Answers, Pending, ChargeStages, EarlyStages

\* A turn that goes on keeps its record pending.
LEMMA GoesOn ==
    ASSUME TypeOK, Charge, NEW q \in Requests, agentOf[q] \in Agents, stage[q] \in ChargeStages,
           NEW s \in ChargeStages, Moves(q, s),
           status' \in {status} \union {[status EXCEPT ![agentOf[q]] = t] : t \in Pending},
           agentOf' = agentOf, daemon' = daemon
    PROVE  Charge'
  <1> USE DEF TypeOK, Moves
  <1>1. \A p \in Requests, a \in Agents : Answers(p, a)' <=> Answers(p, a)
    BY DEF Answers
  <1>2. daemon \in {"up", "closing"} =>
          \A a \in Agents : status'[a] \in Pending <=> status[a] \in Pending
    BY DEF Charge, Answers
  <1> QED
    BY <1>1, <1>2 DEF Charge

\* A turn that settles its record, or is refused, is responsible no more.
LEMMA Settles ==
    ASSUME TypeOK, Charge, NEW q \in Requests, agentOf[q] \in Agents, stage[q] \in ChargeStages,
           NEW s, s \notin ChargeStages, Moves(q, s),
           NEW t, t \notin Pending, SetStatus(agentOf[q], t),
           agentOf' = agentOf, daemon' = daemon
    PROVE  Charge'
  <1> USE DEF TypeOK, Moves, SetStatus
  <1>1. \A p \in Requests, a \in Agents : Answers(p, a)' <=> Answers(p, a) /\ p # q
    BY DEF Answers
  <1>2. \A a \in Agents : status'[a] = IF a = agentOf[q] THEN t ELSE status[a]
    OBVIOUS
  <1>3. Answers(q, agentOf[q])
    BY DEF Answers
  <1> QED
    BY <1>1, <1>2, <1>3 DEF Charge, Answers

LEMMA ChargeStep == TypeOK /\ Assigned /\ Flow /\ Charge /\ [Next]_vars => Charge'
  <1> SUFFICES ASSUME TypeOK, Assigned, Flow, Charge, [Next]_vars PROVE Charge'
    OBVIOUS
  <1>0. \A q \in Requests : StageTells(q) /\ NoTurns(q)
    BY DEF Flow
  <1> USE DEF TypeOK, Assigned, Agent, Holds, Yields, Settle, durable, claims, process
  <1>1. CASE UNCHANGED vars
    BY <1>1 DEF vars, Charge, Answers
  <1>2. ASSUME NEW q \in Requests, Arrive(q) PROVE Charge'
    BY <1>2 DEF Arrive, Charge, Answers
  <1>3. ASSUME NEW q \in Requests, Commit(q) PROVE Charge'
    <2>1. CASE UNCHANGED <<durable, stage, busy>>
      BY <1>3, <2>1, CommitCases DEF Charge, Answers
    <2>2. ASSUME NEW a \in Agents, agentOf[q] = NoOne, status[a] \notin Pending, Reserve(q, a)
          PROVE  Charge'
      <3>1. daemon' = daemon /\ daemon \in {"up", "closing"}
        BY <1>3, CommitCases DEF Free
      <3>2. \A p \in Requests, b \in Agents : Answers(p, b)' <=> Answers(p, b) \/ (p = q /\ b = a)
        <4>1. stage[q] = "none"
          BY <1>0, <2>2 DEF StageTells
        <4> QED
          BY <2>2, <4>1 DEF Reserve, Moves, Answers, ChargeStages, EarlyStages
      <3>3. \A b \in Agents : status'[b] = IF b = a THEN "starting" ELSE status[b]
        BY <2>2 DEF Reserve, SetStatus
      <3> QED
        BY <2>2, <3>1, <3>2, <3>3 DEF Charge, Pending
    <2> QED
      BY <1>3, <2>1, <2>2, CommitCases
  <1>4. ASSUME NEW q \in Requests, RunThread(q) PROVE Charge'
    <2>0. agentOf[q] \in Agents
      BY <1>4 DEF RunThread, Account, Admit, Refuse, Record, Dispatch, EndExecution, ReleaseClaim
    <2>1. CASE Account(q) \/ Admit(q)
      BY <2>0, <2>1, GoesOn DEF Account, Admit, ChargeStages, EarlyStages
    <2>2. CASE Refuse(q)
      BY <2>0, <2>2, Settles DEF Refuse, ChargeStages, EarlyStages, Pending
    <2>3. CASE Record(q)
      BY <2>0, <2>3, GoesOn DEF Record, SetStatus, ChargeStages, EarlyStages, Pending
    <2>4. CASE Dispatch(q) /\ daemon = "closing"
      BY <2>0, <2>4, Settles DEF Dispatch, ChargeStages, EarlyStages, Pending
    <2>5. CASE Dispatch(q) /\ daemon # "closing"
      BY <2>0, <2>5, GoesOn DEF Dispatch, SetStatus, ChargeStages, EarlyStages, Pending
    <2>6. CASE EndExecution(q) \/ ReleaseClaim(q)
      BY <2>6 DEF EndExecution, ReleaseClaim, Moves, Charge, Answers, ChargeStages, EarlyStages
    <2> QED
      BY <1>4, <2>1, <2>2, <2>3, <2>4, <2>5, <2>6 DEF RunThread
  <1>5. ASSUME NEW q \in Requests, Poll(q) \/ Invoke(q) PROVE Charge'
    BY <1>5, GoesOn DEF Poll, Invoke, ChargeStages, EarlyStages
  <1>6. ASSUME NEW q \in Requests, ExpireTicket(q) \/ CancelQueued(q) \/ PrepareFails(q) \/ ProviderReturns(q)
        PROVE  Charge'
    BY <1>6, Settles
    DEF ExpireTicket, CancelQueued, PrepareFails, ProviderReturns, ChargeStages, EarlyStages, Pending
  <1>7. ASSUME NEW q \in Requests, ReportSession(q) PROVE Charge'
    BY <1>7 DEF ReportSession, Charge, Answers
  <1>8. CASE Close \/ Closed \/ Crash \/ Boot \/ ReconcileLedger
    BY <1>8 DEF Close, Closed, Crash, Boot, ReconcileLedger, Charge, Answers
  <1>9. CASE ReconcileStore
    <2>1. \A q \in Requests : stage[q] = "none"
      BY <1>0, <1>9 DEF ReconcileStore, NoTurns
    <2>2. \A a \in Agents : status'[a] \notin Pending
      BY <1>9 DEF ReconcileStore, Pending
    <2> QED
      BY <1>9, <2>1, <2>2 DEF ReconcileStore, Charge, Answers, ChargeStages, EarlyStages
  <1>10. ASSUME NEW c \in Commands, CommandTurn(c) PROVE Charge'
    BY <1>10 DEF CommandTurn, Charge, Answers
  <1> QED
    BY <1>1, <1>2, <1>3, <1>4, <1>5, <1>6, <1>7, <1>8, <1>9, <1>10
    DEF Next, LeaveQueue, LeavePreparation, Recover

\* Whenever the thread is free, a record is pending exactly while a turn will settle
\* it, and an execution is active exactly while its turn exists.
THEOREM PendingRecordsHaveTurns == Spec => []PendingHasTurn
  <1>1. TypeOK /\ Flow /\ Charge => PendingHasTurn
    <2> SUFFICES ASSUME TypeOK, Flow, Charge, Free PROVE PendingHasTurn
      BY DEF PendingHasTurn
    <2>1. \A q \in Requests : stage[q] \in {"none", "waiting", "preparing", "provider"}
      BY RequestsAssumption DEF TypeOK, Flow, StageTells, ThreadStages, Free, Stages, Requests
    <2>2. \A q \in Requests : stage[q] \in ChargeStages <=> Suspended(q)
      BY <2>1 DEF ChargeStages, EarlyStages, Suspended
    <2>3. \A q \in Requests : exec[q] = "active" <=> Suspended(q)
      BY <2>1 DEF Flow, StageTells, ExecTells, ActiveStages, Suspended, Free
    <2> QED
      BY <2>2, <2>3 DEF Charge, Answers, HasTurn, PendingHasTurn, Free
  <1> QED
    BY <1>1, TypeInit, TypeStep, FlowInit, FlowStep, ChargeInit, ChargeStep, PTL DEF Spec
=============================================================================
