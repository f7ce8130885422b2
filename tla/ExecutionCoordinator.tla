------------------------ MODULE ExecutionCoordinator ------------------------
(***************************************************************************)
(* Cross-process admission to a checkout: src/execution-coordinator.ts.    *)
(*                                                                         *)
(* All the coordinators of one state directory share two SQLite tables,    *)
(* execution_claims and execution_waiters.  Every method of the class is   *)
(* one immediate transaction (or one statement), so every method is one    *)
(* action here; the interleaving is that of the processes' calls.          *)
(*                                                                         *)
(* A request stands for one ExecutionClaimInput a caller keeps presenting: *)
(* when its claim or its ticket is gone the same request may be presented  *)
(* again, as a turn of the same agent is.  Row ids (random UUIDs) are the  *)
(* requests themselves, the autoincremented "sequence" is kept as the      *)
(* order it induces, and the clock as the moment a waiter's row expires.   *)
(***************************************************************************)
EXTENDS Naturals, Sequences, FiniteSets

CONSTANTS
    Owners,         \* the coordinators (one ownerId each) on one state directory
    Requests,       \* the claim inputs callers present
    Input,          \* Input[r]: the fields of the request
    GitRoots,       \* the directories that hold a .git entry
    Threads,        \* the provider threads that claims may be bound to
    None,           \* an absent agentId or threadKey
    QueueCapacity,  \* the limit of enqueue (64 in the code)
    MayStop         \* the owners that may close or crash

\* Access and kinds of src/execution-coordinator.ts:7-19; reported are the
\* threads whose id a provider may report while the request's claim is held.
RequestType ==
    [ owner                : Owners,
      workspaceRoot        : Seq(STRING),
      kind                 : {"agent", "command", "mutation", "read"},
      access               : {"read", "write"},
      agentId              : STRING \union {None},
      threadKey            : Threads \union {None},
      reported             : SUBSET Threads,
      resources            : SUBSET STRING,
      maxConcurrentAgents  : Nat \ {0},
      maxConcurrentReaders : Nat \ {0} ]

ASSUME InputAssumption    == Input \in [Requests -> RequestType]
ASSUME NoneAssumption     == None \notin Threads
ASSUME FiniteAssumption   == IsFiniteSet(Requests)
ASSUME CapacityAssumption == QueueCapacity \in Nat

VARIABLES
    claims,     \* the rows of execution_claims
    thread,     \* the thread_key column of the claims
    waiters,    \* the rows of execution_waiters
    ahead,      \* ahead[r]: the waiters whose sequence is smaller than r's
    expired,    \* the waiters whose expires_at_ms has passed
    handle,     \* what the caller of r holds: nothing, a ticket or a claim
    open        \* the coordinators neither closed nor dead

vars == <<claims, thread, waiters, ahead, expired, handle, open>>

-----------------------------------------------------------------------------
(* The conflict relation of two rows. *)

\* canonicalExecutionRoot: the nearest directory upwards with a .git entry,
\* the path itself when there is none.
Ancestors(path) == {SubSeq(path, 1, n) : n \in 0..Len(path)}

CanonicalRoot(path) ==
    LET checkouts == Ancestors(path) \intersect GitRoots
    IN  IF checkouts = {} THEN path
        ELSE CHOOSE root \in checkouts : \A c \in checkouts : Len(c) <= Len(root)

Root(r) == CanonicalRoot(Input[r].workspaceRoot)

Within(parent, child) == parent \in Ancestors(child)

Overlaps(r, s) == Within(Root(r), Root(s)) \/ Within(Root(s), Root(r))

\* exclusiveConflict: t and u are the thread_key columns of the rows of r and s.
ExclusiveConflict(r, t, s, u) ==
    \/ Input[r].agentId # None /\ Input[r].agentId = Input[s].agentId
    \/ t # None /\ t = u
    \/ Input[r].resources \intersect Input[s].resources # {}
    \/ Overlaps(r, s) /\ ~(Input[r].access = "read" /\ Input[s].access = "read")

\* Fault: a claim is compared by the thread it was admitted with.
ConflictsWithFirstThread(r, c) == ExclusiveConflict(r, Input[r].threadKey, c, Input[c].threadKey)

ConflictsWithClaim(r, c)  == ExclusiveConflict(r, Input[r].threadKey, c, thread[c])
ConflictsWithWaiter(r, w) == ExclusiveConflict(r, Input[r].threadKey, w, Input[w].threadKey)

IsAgent(r)     == Input[r].kind = "agent"
AgentClaims    == {c \in claims : IsAgent(c)}
ReaderClaims   == {c \in AgentClaims : Input[c].access = "read"}
ReadersNear(r) == {c \in ReaderClaims : Overlaps(c, r)}

\* Faults: the waiters are not asked; the limit is passed by one.
BlockedByClaims(r, prior) ==
    \/ \E c \in claims : ConflictsWithClaim(r, c)
    \/ IsAgent(r) /\ Cardinality(AgentClaims) >= Input[r].maxConcurrentAgents

BlockedAboveLimit(r, prior) ==
    \/ \E c \in claims : ConflictsWithClaim(r, c)
    \/ \E w \in prior : ConflictsWithWaiter(r, w)
    \/ IsAgent(r) /\ Cardinality(AgentClaims) > Input[r].maxConcurrentAgents

\* blocker, for a row with the unexpired waiters `prior` before it.
Blocked(r, prior) ==
    \/ \E c \in claims : ConflictsWithClaim(r, c)
    \/ \E w \in prior : ConflictsWithWaiter(r, w)
    \/ /\ IsAgent(r)
       /\ \/ Cardinality(AgentClaims) >= Input[r].maxConcurrentAgents
          \/ /\ Input[r].access = "read"
             /\ Cardinality(ReadersNear(r)) >= Input[r].maxConcurrentReaders

-----------------------------------------------------------------------------
(* What the transactions are made of. *)

IsOpen(r) == Input[r].owner \in open

Live == waiters \ expired

RemoveWaiters(rows) ==
    /\ waiters' = waiters \ rows
    /\ expired' = expired \ rows
    /\ ahead'   = [r \in Requests |-> IF r \in rows THEN {} ELSE ahead[r] \ rows]

Insert(r) ==
    /\ claims' = claims \union {r}
    /\ thread' = [thread EXCEPT ![r] = Input[r].threadKey]
    /\ handle' = [handle EXCEPT ![r] = "claim"]

Init ==
    /\ claims  = {}
    /\ thread  = [r \in Requests |-> None]
    /\ waiters = {}
    /\ ahead   = [r \in Requests |-> {}]
    /\ expired = {}
    /\ handle  = [r \in Requests |-> "none"]
    /\ open    = Owners

\* acquire, when nothing blocks.  A refusal throws: the transaction rolls back,
\* its deletion of expired waiters included, and nothing changes.
Acquire(r) ==
    /\ IsOpen(r) /\ handle[r] = "none"
    /\ ~Blocked(r, Live)
    /\ Insert(r)
    /\ RemoveWaiters(expired)
    /\ UNCHANGED open

\* enqueue, below the queue's capacity.
Enqueue(r) ==
    /\ IsOpen(r) /\ handle[r] = "none"
    /\ Cardinality(Live) < QueueCapacity
    /\ waiters' = Live \union {r}
    /\ expired' = {}
    /\ ahead'   = [s \in Requests |-> IF s = r THEN Live
                                      ELSE IF s \in expired THEN {} ELSE ahead[s] \ expired]
    /\ handle'  = [handle EXCEPT ![r] = "ticket"]
    /\ UNCHANGED <<claims, thread, open>>

Polls(r) == IsOpen(r) /\ handle[r] = "ticket" /\ r \in Live

\* tryAcquire that finds no blocker.
TryAcquire(r) ==
    /\ Polls(r)
    /\ ~Blocked(r, ahead[r] \ expired)
    /\ Insert(r)
    /\ RemoveWaiters(expired \union {r})
    /\ UNCHANGED open

\* tryAcquire that returns undefined still commits the deletion of expired rows.
StayQueued(r) ==
    /\ Polls(r)
    /\ Blocked(r, ahead[r] \ expired)
    /\ RemoveWaiters(expired)
    /\ UNCHANGED <<claims, thread, handle, open>>

\* Fault: a ticket whose row is gone is kept.
CancelLiveRow(r) ==
    /\ IsOpen(r) /\ handle[r] = "ticket" /\ r \in Live
    /\ RemoveWaiters({r})
    /\ handle' = [handle EXCEPT ![r] = "none"]
    /\ UNCHANGED <<claims, thread, open>>

\* cancel of the ticket: by the caller's wish, or because tryAcquire threw on a
\* row that has expired or that another process's transaction has removed.
Cancel(r) ==
    /\ IsOpen(r) /\ handle[r] = "ticket"
    /\ RemoveWaiters({r})
    /\ handle' = [handle EXCEPT ![r] = "none"]
    /\ UNCHANGED <<claims, thread, open>>

GiveUp(r) == r \notin Live /\ Cancel(r)

\* Fault: the other claims are not asked.
BindAnyThread(r, t) ==
    /\ IsOpen(r) /\ handle[r] = "claim"
    /\ t \in Input[r].reported
    /\ thread' = [thread EXCEPT ![r] = t]
    /\ UNCHANGED <<claims, waiters, ahead, expired, handle, open>>

\* bindThread: the provider reports its thread while the claim is held; it
\* throws, and binds nothing, when another claim has that thread.
BindThread(r, t) ==
    /\ IsOpen(r) /\ handle[r] = "claim"
    /\ t \in Input[r].reported
    /\ \A c \in claims \ {r} : thread[c] # t
    /\ thread' = [thread EXCEPT ![r] = t]
    /\ UNCHANGED <<claims, waiters, ahead, expired, handle, open>>

\* release of a claim; after close it does nothing.
Release(r) ==
    /\ IsOpen(r) /\ handle[r] = "claim"
    /\ claims' = claims \ {r}
    /\ thread' = [thread EXCEPT ![r] = None]
    /\ handle' = [handle EXCEPT ![r] = "none"]
    /\ UNCHANGED <<waiters, ahead, expired, open>>

\* The clock reaches expires_at_ms of a waiter's row.
Expire(r) ==
    /\ r \in Live
    /\ expired' = expired \union {r}
    /\ UNCHANGED <<claims, thread, waiters, ahead, handle, open>>

\* close: the owner's waiting intents disappear, its claims stay.
Close(o) ==
    /\ o \in open \intersect MayStop
    /\ RemoveWaiters({r \in waiters : Input[r].owner = o})
    /\ open' = open \ {o}
    /\ UNCHANGED <<claims, thread, handle>>

\* The process dies: both tables keep its rows.
Crash(o) ==
    /\ o \in open \intersect MayStop
    /\ open' = open \ {o}
    /\ UNCHANGED <<claims, thread, waiters, ahead, expired, handle>>

Next ==
    \/ \E r \in Requests :
          \/ Acquire(r) \/ Enqueue(r) \/ TryAcquire(r) \/ StayQueued(r)
          \/ Cancel(r) \/ Release(r) \/ Expire(r)
          \/ \E t \in Threads : BindThread(r, t)
    \/ \E o \in Owners : Close(o) \/ Crash(o)

Spec == Init /\ [][Next]_vars

\* The manager polls a ticket every 100 ms until it is granted or throws, and a
\* turn that runs ends; time passes only in FairSpec, not in PollingSpec.
Polling     == \A r \in Requests : WF_vars(TryAcquire(r)) /\ WF_vars(Release(r))
PollingSpec == Spec /\ Polling
FairSpec    == PollingSpec /\ \A r \in Requests : WF_vars(Expire(r)) /\ WF_vars(GiveUp(r))

-----------------------------------------------------------------------------
TypeOK ==
    /\ claims  \subseteq Requests
    /\ thread  \in [Requests -> Threads \union {None}]
    /\ waiters \subseteq Requests
    /\ ahead   \in [Requests -> SUBSET Requests]
    /\ expired \subseteq waiters
    /\ handle  \in [Requests -> {"none", "ticket", "claim"}]
    /\ open    \subseteq Owners

\* No two active claims conflict: not the same agent, not the same provider
\* thread (bound at admission or later, by bindThread), no shared resource, and
\* overlapping checkouts only between readers, whatever processes own them and
\* whichever of them have crashed (exclusiveConflict, bindThread).
MutualExclusion ==
    \A c, d \in claims : c # d => ~ExclusiveConflict(c, thread[c], d, thread[d])

\* Any group of active agents contains one whose own limit allows the whole
\* group (maxConcurrentAgents of blocker), however claims come and go and
\* even when the processes' configured limits differ.
AgentLimit ==
    \A S \in SUBSET AgentClaims :
        S # {} => \E c \in S : Cardinality(S) <= Input[c].maxConcurrentAgents

\* The same of readers of one checkout (maxConcurrentReaders of blocker): it
\* bounds every group of readers whose checkouts pairwise overlap.
ReaderLimit ==
    \A S \in SUBSET ReaderClaims :
        (S # {} /\ \A c, d \in S : Overlaps(c, d))
            => \E c \in S : Cardinality(S) <= Input[c].maxConcurrentReaders

\* No process passes its own limits, whatever the others are configured with
\* (blocker).
WithinLimits == AgentLimit /\ ReaderLimit

\* A row exists only for the caller that holds its handle, and a caller that
\* holds a claim has its row: no expiry, close, crash or other process's
\* transaction takes a claim from under running work (close, release, cancel).
RowsMatchHandles ==
    /\ \A r \in Requests : r \in claims <=> handle[r] = "claim"
    /\ \A r \in waiters  : handle[r] = "ticket"

\* The waiters' order is a strict order of the rows that are there, so that no
\* two tickets wait for each other (autoincremented sequence of execution_waiters).
QueueOrder ==
    /\ \A r \in waiters : ahead[r] \subseteq waiters \ {r}
    /\ \A r, s \in waiters : r # s => (r \in ahead[s] <=> s \notin ahead[r])
    /\ \A r, s \in waiters : r \in ahead[s] => ahead[r] \subseteq ahead[s]

\* "Active claims are never stolen": a claim goes only when its own, still open,
\* owner releases it; those of a closed or dead owner stay for reconciliation.
NeverStolen ==
    [][\A r \in Requests : r \in claims /\ r \notin claims' =>
          Input[r].owner \in open /\ Input[r].owner \in open' /\ handle'[r] = "none"]_vars

\* A request that waits in the queue for conflicting claims is served, without its
\* row's expiry to help it: neither readers that keep coming, nor new claims that
\* never queue, nor later waiters overtake it for ever ("An earlier writer blocks
\* later readers").  Of a request over a limit the code promises no such thing.
NoStarvation == \A r \in Requests : (r \in Live) ~> (r \notin Live)

\* A ticket settles although the claims that block it belong to a dead process
\* and are never released (tryAcquire on an expired row).
TicketsSettle ==
    \A r \in Requests : (handle[r] = "ticket") ~> (handle[r] # "ticket" \/ ~IsOpen(r))

\* Requests that conflict whatever their provider threads are.
StaticConflicts ==
    {pair \in Requests \X Requests : ExclusiveConflict(pair[1], None, pair[2], None)}

\* The coordinator, with its queue, limits, expiry, closes and crashes, starts
\* and ends activities exactly as SourceClaims allows.
Promise == INSTANCE SourceClaims WITH
    held <- claims, key <- thread, Exclusive <- StaticConflicts,
    InitialThread <- [r \in Requests |-> Input[r].threadKey]

ImplementsSourceClaims == Promise!Spec
=============================================================================
