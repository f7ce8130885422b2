---------------------- MODULE ExecutionCoordinatorProofs ----------------------
(***************************************************************************)
(* Proofs about ExecutionCoordinator, for every set of processes, every    *)
(* finite set of requests and every configuration of limits.               *)
(***************************************************************************)
EXTENDS ExecutionCoordinator, FiniteSetTheorems, TLAPS

USE DEF IsOpen

(***************************************************************************)
(* The conflict relation.                                                  *)
(***************************************************************************)

\* Conflict does not depend on which of the two rows is the candidate.
LEMMA ConflictSymmetric ==
    ASSUME NEW r, NEW t, NEW s, NEW u
    PROVE  ExclusiveConflict(r, t, s, u) <=> ExclusiveConflict(s, u, r, t)
  BY DEF ExclusiveConflict, Overlaps

\* Every request's input has the fields of RequestType.
LEMMA InputType ==
    ASSUME NEW r \in Requests
    PROVE  /\ Input[r].threadKey \in Threads \union {None}
           /\ Input[r].reported \subseteq Threads
           /\ Input[r].maxConcurrentAgents \in Nat \ {0}
           /\ Input[r].maxConcurrentReaders \in Nat \ {0}
  BY InputAssumption DEF RequestType

(***************************************************************************)
(* Type correctness.                                                       *)
(***************************************************************************)

LEMMA TypeInit == Init => TypeOK
  BY DEF Init, TypeOK

LEMMA TypeStep == TypeOK /\ [Next]_vars => TypeOK'
  <1> SUFFICES ASSUME TypeOK, [Next]_vars PROVE TypeOK'
    OBVIOUS
  <1> USE DEF TypeOK
  <1>1. CASE UNCHANGED vars
    BY <1>1 DEF vars
  <1>2. ASSUME NEW r \in Requests, Acquire(r) PROVE TypeOK'
    BY <1>2, InputType DEF Acquire, Insert, RemoveWaiters
  <1>3. ASSUME NEW r \in Requests, Enqueue(r) PROVE TypeOK'
    <2>1. ahead' \in [Requests -> SUBSET Requests]
      BY <1>3 DEF Enqueue, Live
    <2> QED
      BY <1>3, <2>1 DEF Enqueue, Live
  <1>4. ASSUME NEW r \in Requests, TryAcquire(r) PROVE TypeOK'
    BY <1>4, InputType DEF TryAcquire, Polls, Insert, RemoveWaiters
  <1>5. ASSUME NEW r \in Requests, StayQueued(r) PROVE TypeOK'
    BY <1>5 DEF StayQueued, RemoveWaiters
  <1>6. ASSUME NEW r \in Requests, Cancel(r) PROVE TypeOK'
    BY <1>6 DEF Cancel, RemoveWaiters
  <1>7. ASSUME NEW r \in Requests, Release(r) PROVE TypeOK'
    BY <1>7 DEF Release
  <1>8. ASSUME NEW r \in Requests, Expire(r) PROVE TypeOK'
    BY <1>8 DEF Expire, Live
  <1>9. ASSUME NEW r \in Requests, NEW t \in Threads, BindThread(r, t) PROVE TypeOK'
    BY <1>9 DEF BindThread
  <1>10. ASSUME NEW o \in Owners, Close(o) PROVE TypeOK'
    BY <1>10 DEF Close, RemoveWaiters
  <1>11. ASSUME NEW o \in Owners, Crash(o) PROVE TypeOK'
    BY <1>11 DEF Crash
  <1> QED
    BY <1>1, <1>2, <1>3, <1>4, <1>5, <1>6, <1>7, <1>8, <1>9, <1>10, <1>11 DEF Next

\* The tables and the callers' handles keep their types.
THEOREM TypeCorrect == Spec => []TypeOK
  BY TypeInit, TypeStep, PTL DEF Spec

(***************************************************************************)
(* Every step leaves the claims and their threads alone, admits one        *)
(* unblocked request, binds a thread, or is a release by the open owner.   *)
(***************************************************************************)

Admits(r)  == r \in Requests /\ (\E prior \in SUBSET Requests : ~Blocked(r, prior)) /\ Insert(r)
Binds(r)   == r \in Requests /\ \E t \in Threads : BindThread(r, t)
Releases(r) == r \in Requests /\ Release(r)

LEMMA ClaimSteps ==
    ASSUME TypeOK, [Next]_vars
    PROVE  \/ UNCHANGED <<claims, thread>>
           \/ \E r \in Requests : Admits(r) \/ Binds(r) \/ Releases(r)
  <1>1. ASSUME NEW r \in Requests, Acquire(r) PROVE Admits(r)
    BY <1>1 DEF Acquire, Admits, Live, TypeOK
  <1>2. ASSUME NEW r \in Requests, TryAcquire(r) PROVE Admits(r)
    <2>1. ahead[r] \ expired \in SUBSET Requests
      BY DEF TypeOK
    <2> QED
      BY <1>2, <2>1 DEF TryAcquire, Admits
  <1> QED
    BY <1>1, <1>2 DEF Next, vars, Enqueue, StayQueued, Cancel, Expire, Close, Crash, Binds, Releases

(***************************************************************************)
(* Rows and handles.                                                       *)
(***************************************************************************)

HandlesInv == TypeOK /\ RowsMatchHandles

LEMMA HandlesStep == HandlesInv /\ [Next]_vars => RowsMatchHandles'
  <1> SUFFICES ASSUME HandlesInv, [Next]_vars PROVE RowsMatchHandles'
    OBVIOUS
  <1> USE DEF HandlesInv, TypeOK, RowsMatchHandles
  <1>1. CASE UNCHANGED vars
    BY <1>1 DEF vars
  <1>2. ASSUME NEW r \in Requests, Acquire(r) PROVE RowsMatchHandles'
    BY <1>2 DEF Acquire, Insert, RemoveWaiters
  <1>3. ASSUME NEW r \in Requests, Enqueue(r) PROVE RowsMatchHandles'
    BY <1>3 DEF Enqueue, Live
  <1>4. ASSUME NEW r \in Requests, TryAcquire(r) PROVE RowsMatchHandles'
    BY <1>4 DEF TryAcquire, Polls, Insert, RemoveWaiters
  <1>5. ASSUME NEW r \in Requests, StayQueued(r) PROVE RowsMatchHandles'
    BY <1>5 DEF StayQueued, RemoveWaiters
  <1>6. ASSUME NEW r \in Requests, Cancel(r) PROVE RowsMatchHandles'
    BY <1>6 DEF Cancel, RemoveWaiters
  <1>7. ASSUME NEW r \in Requests, Release(r) PROVE RowsMatchHandles'
    BY <1>7 DEF Release
  <1>8. ASSUME NEW r \in Requests, Expire(r) PROVE RowsMatchHandles'
    BY <1>8 DEF Expire
  <1>9. ASSUME NEW r \in Requests, NEW t \in Threads, BindThread(r, t) PROVE RowsMatchHandles'
    BY <1>9 DEF BindThread
  <1>10. ASSUME NEW o \in Owners, Close(o) PROVE RowsMatchHandles'
    BY <1>10 DEF Close, RemoveWaiters
  <1>11. ASSUME NEW o \in Owners, Crash(o) PROVE RowsMatchHandles'
    BY <1>11 DEF Crash
  <1> QED
    BY <1>1, <1>2, <1>3, <1>4, <1>5, <1>6, <1>7, <1>8, <1>9, <1>10, <1>11 DEF Next

\* The rows in the tables are exactly those the callers' handles stand for:
\* no expiry, close, crash or foreign transaction takes a claim away.
THEOREM HandlesCorrect == Spec => []RowsMatchHandles
  <1>1. Init => RowsMatchHandles
    BY DEF Init, RowsMatchHandles
  <1> QED
    BY <1>1, TypeInit, TypeStep, HandlesStep, PTL DEF Spec, HandlesInv

(***************************************************************************)
(* Mutual exclusion.                                                       *)
(***************************************************************************)

\* Rows of requests whose threads do not change keep their relation.
LEMMA ExclusionStep == TypeOK /\ MutualExclusion /\ [Next]_vars => MutualExclusion'
  <1> SUFFICES ASSUME TypeOK, MutualExclusion, [Next]_vars,
                      NEW c \in claims', NEW d \in claims', c # d
               PROVE  ~ExclusiveConflict(c, thread'[c], d, thread'[d])
    BY DEF MutualExclusion, ExclusiveConflict, Overlaps, Root, Within
  <1>1. CASE UNCHANGED <<claims, thread>>
    BY <1>1 DEF MutualExclusion
  <1>2. ASSUME NEW r \in Requests, Admits(r)
        PROVE  ~ExclusiveConflict(c, thread'[c], d, thread'[d])
    <2>1. \A e \in claims : ~ExclusiveConflict(r, Input[r].threadKey, e, thread[e])
      BY <1>2 DEF Admits, Blocked, ConflictsWithClaim
    <2>2. thread'[r] = Input[r].threadKey /\ \A e \in claims \ {r} : thread'[e] = thread[e]
      BY <1>2 DEF Admits, Insert, TypeOK
    <2>3. claims' = claims \union {r}
      BY <1>2 DEF Admits, Insert
    <2>4. CASE c = r
      BY <2>1, <2>2, <2>3, <2>4
    <2>5. CASE d = r
      BY <2>1, <2>2, <2>3, <2>5, ConflictSymmetric
    <2>6. CASE c # r /\ d # r
      BY <2>2, <2>3, <2>6 DEF MutualExclusion
    <2> QED
      BY <2>4, <2>5, <2>6
  <1>3. ASSUME NEW r \in Requests, Binds(r)
        PROVE  ~ExclusiveConflict(c, thread'[c], d, thread'[d])
    <2>1. PICK t \in Threads : BindThread(r, t)
      BY <1>3 DEF Binds
    <2>2. /\ claims' = claims
          /\ thread' = [thread EXCEPT ![r] = t]
          /\ \A e \in claims \ {r} : thread[e] # t
      BY <2>1 DEF BindThread
    <2>3. /\ ~ExclusiveConflict(c, thread[c], d, thread[d])
          /\ thread'[c] # thread'[d] \/ thread'[c] = None \/ thread[c] = thread[d]
      BY <2>2 DEF MutualExclusion, TypeOK
    <2>4. thread'[c] = None \/ thread'[c] # thread'[d]
      BY <2>2, <2>3 DEF ExclusiveConflict, TypeOK
    <2> QED
      BY <2>3, <2>4 DEF ExclusiveConflict
  <1>4. ASSUME NEW r \in Requests, Releases(r)
        PROVE  ~ExclusiveConflict(c, thread'[c], d, thread'[d])
    BY <1>4 DEF Releases, Release, MutualExclusion, TypeOK
  <1> QED
    BY <1>1, <1>2, <1>3, <1>4, ClaimSteps

\* No two active claims conflict, in any interleaving of any number of
\* processes and through any crash (exclusiveConflict, blocker, bindThread).
THEOREM Exclusion == Spec => []MutualExclusion
  <1>1. Init => MutualExclusion
    BY DEF Init, MutualExclusion
  <1> QED
    BY <1>1, TypeInit, TypeStep, ExclusionStep, PTL DEF Spec
(***************************************************************************)
(* Concurrency limits.                                                     *)
(***************************************************************************)

LEMMA ClaimsFinite ==
    ASSUME TypeOK
    PROVE  /\ IsFiniteSet(claims)
           /\ \A S \in SUBSET claims : IsFiniteSet(S) /\ Cardinality(S) \in Nat
  BY FiniteAssumption, FS_Subset, FS_CardinalityType DEF TypeOK

\* A group that a candidate joins is at most one larger than what it counted.
LEMMA JoinsGroup ==
    ASSUME NEW S, IsFiniteSet(S), NEW r \in S, NEW T, IsFiniteSet(T), S \ {r} \subseteq T,
           NEW limit \in Nat, ~(Cardinality(T) >= limit)
    PROVE  Cardinality(S) <= limit
  <1>1. IsFiniteSet(S \ {r}) /\ Cardinality(S \ {r}) = Cardinality(S) - 1
    BY FS_RemoveElement
  <1>2. Cardinality(S \ {r}) <= Cardinality(T)
    BY <1>1, FS_Subset
  <1>3. Cardinality(S) \in Nat /\ Cardinality(T) \in Nat
    BY FS_CardinalityType
  <1> QED
    BY <1>1, <1>2, <1>3

LEMMA AgentLimitStep == TypeOK /\ AgentLimit /\ [Next]_vars => AgentLimit'
  <1> SUFFICES ASSUME TypeOK, AgentLimit, [Next]_vars,
                      NEW S \in SUBSET AgentClaims', S # {}
               PROVE  \E c \in S : Cardinality(S) <= Input[c].maxConcurrentAgents
    BY DEF AgentLimit
  <1>1. CASE S \subseteq AgentClaims
    BY <1>1 DEF AgentLimit
  <1>2. ASSUME NEW r \in Requests, Admits(r), r \in S
        PROVE  \E c \in S : Cardinality(S) <= Input[c].maxConcurrentAgents
    <2>1. S \ {r} \subseteq AgentClaims /\ IsAgent(r)
      BY <1>2 DEF Admits, Insert, AgentClaims, IsAgent
    <2>2. ~(Cardinality(AgentClaims) >= Input[r].maxConcurrentAgents)
      BY <1>2, <2>1 DEF Admits, Blocked
    <2>3. IsFiniteSet(AgentClaims) /\ IsFiniteSet(S \ {r})
      BY <2>1, ClaimsFinite DEF AgentClaims
    <2>4. IsFiniteSet(S)
      <3>1. S = (S \ {r}) \union {r}
        BY <1>2
      <3> QED
        BY <2>3, <3>1, FS_AddElement
    <2>5. Cardinality(S) <= Input[r].maxConcurrentAgents
      BY <2>1, <2>2, <2>3, <2>4, <1>2, InputType, JoinsGroup
    <2> QED
      BY <1>2, <2>5
  <1>3. CASE \A r \in Requests : Admits(r) => r \notin S
    <2>1. S \subseteq AgentClaims
      BY <1>3, ClaimSteps DEF Admits, Insert, Binds, BindThread, Releases, Release, AgentClaims, IsAgent
    <2> QED
      BY <1>1, <2>1
  <1> QED
    BY <1>2, <1>3

\* However claims come and go, every group of active agents has a member whose
\* own limit allows it (maxConcurrentAgents in blocker).
THEOREM AgentsLimited == Spec => []AgentLimit
  <1>1. Init => AgentLimit
    BY DEF Init, AgentLimit, AgentClaims
  <1> QED
    BY <1>1, TypeInit, TypeStep, AgentLimitStep, PTL DEF Spec

LEMMA ReaderLimitStep == TypeOK /\ ReaderLimit /\ [Next]_vars => ReaderLimit'
  <1> SUFFICES ASSUME TypeOK, ReaderLimit, [Next]_vars,
                      NEW S \in SUBSET ReaderClaims', S # {},
                      \A c, d \in S : Overlaps(c, d)
               PROVE  \E c \in S : Cardinality(S) <= Input[c].maxConcurrentReaders
    BY DEF ReaderLimit, Overlaps, Root, Within
  <1>1. CASE S \subseteq ReaderClaims
    BY <1>1 DEF ReaderLimit
  <1>2. ASSUME NEW r \in Requests, Admits(r), r \in S
        PROVE  \E c \in S : Cardinality(S) <= Input[c].maxConcurrentReaders
    <2>1. /\ S \ {r} \subseteq ReadersNear(r)
          /\ IsAgent(r) /\ Input[r].access = "read"
      BY <1>2 DEF Admits, Insert, ReadersNear, ReaderClaims, AgentClaims, IsAgent
    <2>2. ~(Cardinality(ReadersNear(r)) >= Input[r].maxConcurrentReaders)
      BY <1>2, <2>1 DEF Admits, Blocked
    <2>3. IsFiniteSet(ReadersNear(r)) /\ IsFiniteSet(S \ {r})
      BY <2>1, ClaimsFinite DEF ReadersNear, ReaderClaims, AgentClaims
    <2>4. IsFiniteSet(S)
      <3>1. S = (S \ {r}) \union {r}
        BY <1>2
      <3> QED
        BY <2>3, <3>1, FS_AddElement
    <2>5. Cardinality(S) <= Input[r].maxConcurrentReaders
      BY <2>1, <2>2, <2>3, <2>4, <1>2, InputType, JoinsGroup
    <2> QED
      BY <1>2, <2>5
  <1>3. CASE \A r \in Requests : Admits(r) => r \notin S
    <2>1. S \subseteq ReaderClaims
      BY <1>3, ClaimSteps DEF Admits, Insert, Binds, BindThread, Releases, Release,
                              ReaderClaims, AgentClaims, IsAgent
    <2> QED
      BY <1>1, <2>1
  <1> QED
    BY <1>2, <1>3

\* The same of readers of overlapping checkouts (maxConcurrentReaders in blocker).
THEOREM ReadersLimited == Spec => []ReaderLimit
  <1>1. Init => ReaderLimit
    BY DEF Init, ReaderLimit, ReaderClaims, AgentClaims
  <1> QED
    BY <1>1, TypeInit, TypeStep, ReaderLimitStep, PTL DEF Spec

\* Whatever limits the processes are configured with, each keeps to its own.
THEOREM LimitsHold == Spec => []WithinLimits
  <1>1. AgentLimit /\ ReaderLimit => WithinLimits
    BY DEF WithinLimits
  <1> QED
    BY <1>1, AgentsLimited, ReadersLimited, PTL

(***************************************************************************)
(* Claims are never stolen.                                                *)
(***************************************************************************)

\* A claim leaves the table only by its open owner's release.
THEOREM ClaimsNeverStolen == Spec => NeverStolen
  <1>1. ASSUME TypeOK, [Next]_vars, NEW r \in Requests, r \in claims, r \notin claims'
        PROVE  /\ Input[r].owner \in open /\ Input[r].owner \in open'
               /\ handle'[r] = "none"
    <2>1. Release(r)
      <3>1. ASSUME NEW s \in Requests, Admits(s) \/ Binds(s) PROVE r \in claims'
        BY <1>1, <3>1 DEF Admits, Insert, Binds, BindThread
      <3>2. ASSUME NEW s \in Requests, Releases(s) PROVE s = r
        BY <1>1, <3>2 DEF Releases, Release
      <3> QED
        BY <1>1, <3>1, <3>2, ClaimSteps DEF Releases
    <2> QED
      BY <1>1, <2>1 DEF Release, TypeOK
  <1>2. TypeOK /\ [Next]_vars =>
          [\A r \in Requests : r \in claims /\ r \notin claims' =>
             Input[r].owner \in open /\ Input[r].owner \in open' /\ handle'[r] = "none"]_vars
    BY <1>1
  <1> QED
    BY <1>2, TypeInit, TypeStep, PTL DEF Spec, NeverStolen

(***************************************************************************)
(* The order of the queue.                                                 *)
(***************************************************************************)

QueueInv == TypeOK /\ RowsMatchHandles /\ QueueOrder

LEMMA RemovalKeepsOrder ==
    ASSUME TypeOK, QueueOrder, NEW rows, RemoveWaiters(rows)
    PROVE  QueueOrder'
  BY DEF TypeOK, QueueOrder, RemoveWaiters

LEMMA QueueStep == QueueInv /\ [Next]_vars => QueueOrder'
  <1> SUFFICES ASSUME QueueInv, [Next]_vars PROVE QueueOrder'
    OBVIOUS
  <1>1. CASE UNCHANGED <<waiters, ahead>>
    BY <1>1 DEF QueueInv, QueueOrder
  <1>2. ASSUME NEW rows, RemoveWaiters(rows) PROVE QueueOrder'
    BY <1>2, RemovalKeepsOrder DEF QueueInv
  <1>3. ASSUME NEW r \in Requests, Enqueue(r) PROVE QueueOrder'
    <2>1. r \notin waiters
      BY <1>3 DEF Enqueue, QueueInv, RowsMatchHandles
    <2>2. /\ waiters' = Live \union {r}
          /\ ahead'[r] = Live
          /\ \A s \in Live : s # r /\ ahead'[s] = ahead[s] \ expired
      BY <1>3, <2>1 DEF Enqueue, QueueInv, TypeOK, Live
    <2>3. /\ \A s \in Live : ahead'[s] \subseteq Live \ {s}
          /\ \A s, t \in Live : s # t => (s \in ahead'[t] <=> t \notin ahead'[s])
          /\ \A s, t \in Live : s \in ahead'[t] => ahead'[s] \subseteq ahead'[t]
      BY <2>2 DEF QueueInv, QueueOrder, Live
    <2> QED
      BY <2>1, <2>2, <2>3 DEF QueueOrder, Live
  <1> QED
    BY <1>1, <1>2, <1>3 DEF Next, vars, Acquire, TryAcquire, StayQueued, Cancel, Release,
                            Expire, BindThread, Close, Crash

\* The waiters are at all times strictly ordered, so waiting is never circular.
THEOREM QueueOrdered == Spec => []QueueOrder
  <1>1. Init => RowsMatchHandles /\ QueueOrder
    BY DEF Init, RowsMatchHandles, QueueOrder
  <1> QED
    BY <1>1, TypeInit, TypeStep, HandlesStep, QueueStep, PTL DEF Spec, QueueInv, HandlesInv

(***************************************************************************)
(* Refinement of SourceClaims.                                             *)
(***************************************************************************)

LEMMA RefinementStep ==
    TypeOK /\ RowsMatchHandles /\ [Next]_vars => [Promise!Next]_(Promise!vars)
  <1> SUFFICES ASSUME TypeOK, RowsMatchHandles, [Next]_vars
               PROVE  [Promise!Next]_(Promise!vars)
    OBVIOUS
  <1>1. CASE UNCHANGED <<claims, thread>>
    BY <1>1 DEF Promise!vars
  <1>2. ASSUME NEW r \in Requests, Acquire(r) \/ TryAcquire(r) PROVE Promise!Start(r)
    <2>1. r \notin claims
      BY <1>2 DEF Acquire, TryAcquire, Polls, RowsMatchHandles
    <2>2. \A h \in claims : ~ExclusiveConflict(r, Input[r].threadKey, h, thread[h])
      BY <1>2 DEF Acquire, TryAcquire, Blocked, ConflictsWithClaim
    <2>3. \A h \in claims : <<r, h>> \notin StaticConflicts
      BY <2>2 DEF StaticConflicts, ExclusiveConflict
    <2>4. \A h \in claims : Input[r].threadKey = None \/ Input[r].threadKey # thread[h]
      BY <2>2 DEF ExclusiveConflict
    <2> QED
      BY <1>2, <2>1, <2>3, <2>4 DEF Acquire, TryAcquire, Insert, Promise!Start
  <1>3. ASSUME NEW r \in Requests, NEW t \in Threads, BindThread(r, t) PROVE Promise!Bind(r, t)
    BY <1>3 DEF BindThread, RowsMatchHandles, Promise!Bind
  <1>4. ASSUME NEW r \in Requests, Release(r) PROVE Promise!End(r)
    BY <1>4 DEF Release, RowsMatchHandles, Promise!End
  <1> QED
    BY <1>1, <1>2, <1>3, <1>4 DEF Next, vars, Enqueue, StayQueued, Cancel, Expire, Close, Crash,
                                  Promise!Next, Promise!vars

\* The coordinator implements SourceClaims: whoever relies on a claim may
\* forget the queue, the limits, the owners and the clock.
THEOREM Refinement == Spec => ImplementsSourceClaims
  <1>1. Init => Promise!Init
    BY DEF Init, Promise!Init
  <1>2. Init => RowsMatchHandles
    BY DEF Init, RowsMatchHandles
  <1> QED
    BY <1>1, <1>2, TypeInit, TypeStep, HandlesStep, RefinementStep, PTL
       DEF Spec, HandlesInv, ImplementsSourceClaims, Promise!Spec
=============================================================================
