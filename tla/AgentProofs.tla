----------------------------- MODULE AgentProofs -----------------------------
(***************************************************************************)
(* Theorems about the parts of the agent daemon that share no state: each  *)
(* by its own specification first, then as parts of Agents, of which TLC   *)
(* checks small instances.                                                 *)
(***************************************************************************)
EXTENDS DriverProofs

-----------------------------------------------------------------------------
(* The lock of the state directory *)

\* Nobody has crashed.  With a stale lock the directory need not have one daemon (the daemon_takeover run),
\* so this is the weakest assumption that will do.
NothingStale == MayCrash = {} /\ Stale = None

LEMMA TypeInit == Init => TypeOK
  BY NoneAssumption, StaleAssumption, AttemptsAssumption DEF Init, TypeOK, Stages

LEMMA TypeStep == TypeOK /\ [Next]_vars => TypeOK'
  <1> SUFFICES ASSUME TypeOK, [Next]_vars PROVE TypeOK'
    OBVIOUS
  <1> USE AttemptsAssumption DEF TypeOK, Goes, Stages
  <1>1. CASE UNCHANGED vars
    BY <1>1 DEF vars
  <1>2. ASSUME NEW d \in Daemons, Spawn(d) PROVE TypeOK'
    BY <1>2 DEF Spawn
  <1>3. ASSUME NEW d \in Daemons, Link(d) \/ Publish(d) \/ Inspect(d) PROVE TypeOK'
    BY <1>3 DEF Link, Publish, Inspect
  <1>4. ASSUME NEW d \in Daemons, RenameStale(d) PROVE TypeOK'
    BY <1>4 DEF RenameStale
  <1>5. ASSUME NEW d \in Daemons, Prepare(d) \/ Listen(d) PROVE TypeOK'
    BY <1>5 DEF Prepare, Listen
  <1>6. ASSUME NEW d \in Daemons, FailedRelease(d) \/ FailedUnlock(d) \/ FailedCleanup(d)
        PROVE  TypeOK'
    BY <1>6 DEF FailedRelease, FailedUnlock, FailedCleanup
  <1>7. ASSUME NEW d \in Daemons, Stop(d) \/ CloseCleanup(d) \/ CloseRelease(d) \/ Crash(d)
        PROVE  TypeOK'
    BY <1>7 DEF Stop, CloseCleanup, CloseRelease, Crash
  <1> QED
    BY <1>1, <1>2, <1>3, <1>4, <1>5, <1>6, <1>7 DEF Next, Step

\* The files and the processes' stages keep their types.
THEOREM TypeCorrect == Spec => []TypeOK
  BY TypeInit, TypeStep, PTL DEF Spec

\* The stages between linking the lock and unlinking it.
Linked(d) == Owns(d) \/ stage[d] \in {"publishing", "unlocking"}

\* The lock file and a process between its link and its unlink imply each other,
\* so that a lock's owner is always alive and no process finds it stale.
LockInv ==
    /\ \A d \in Daemons : Linked(d) => lock = d
    /\ lock # None => lock \in Daemons /\ Linked(lock)
    /\ \A d \in Daemons : stage[d] # "renaming"

LEMMA LockInit == NothingStale /\ Init => LockInv
  BY DEF NothingStale, Init, LockInv, Linked, Owns

LEMMA LockStep == NothingStale /\ TypeOK /\ LockInv /\ [Next]_vars => LockInv'
  <1> SUFFICES ASSUME NothingStale, TypeOK, LockInv, [Next]_vars PROVE LockInv'
    OBVIOUS
  <1> USE NoneAssumption DEF TypeOK, LockInv, Linked, Owns, Goes
  <1>1. CASE UNCHANGED vars
    BY <1>1 DEF vars
  <1>2. ASSUME NEW d \in Daemons, Spawn(d) PROVE LockInv'
    BY <1>2 DEF Spawn
  <1>3. ASSUME NEW d \in Daemons, Link(d) PROVE LockInv'
    <2>1. CASE lock = None
      BY <1>3, <2>1 DEF Link
    <2>2. CASE lock # None
      BY <1>3, <2>2 DEF Link
    <2> QED
      BY <2>1, <2>2
  <1>4. ASSUME NEW d \in Daemons, Publish(d) PROVE LockInv'
    BY <1>4 DEF Publish
  <1>5. ASSUME NEW d \in Daemons, Inspect(d) PROVE LockInv'
    \* The lock's owner is linked, hence alive: nothing is ever found stale.
    <2>1. lock # None => Alive(lock)
      BY DEF Alive
    <2>2. Goes(d, "gone") /\ UNCHANGED lock
      BY <1>5, <2>1 DEF Inspect
    <2> QED
      BY <1>5, <2>2 DEF Inspect
  <1>6. ASSUME NEW d \in Daemons, RenameStale(d) PROVE FALSE
    BY <1>6 DEF RenameStale
  <1>7. ASSUME NEW d \in Daemons, Prepare(d) PROVE LockInv'
    BY <1>7 DEF Prepare
  <1>8. ASSUME NEW d \in Daemons, Listen(d) PROVE LockInv'
    BY <1>8 DEF Listen
  <1>9. ASSUME NEW d \in Daemons, FailedRelease(d) \/ FailedCleanup(d) PROVE LockInv'
    BY <1>9 DEF FailedRelease, FailedCleanup
  <1>10. ASSUME NEW d \in Daemons, FailedUnlock(d) PROVE LockInv'
    BY <1>10 DEF FailedUnlock
  <1>11. ASSUME NEW d \in Daemons, Stop(d) \/ CloseCleanup(d) PROVE LockInv'
    BY <1>11 DEF Stop, CloseCleanup
  <1>12. ASSUME NEW d \in Daemons, CloseRelease(d) PROVE LockInv'
    BY <1>12 DEF CloseRelease
  <1>13. ASSUME NEW d \in Daemons, Crash(d) PROVE FALSE
    BY <1>13 DEF Crash, NothingStale
  <1> QED
    BY <1>1, <1>2, <1>3, <1>4, <1>5, <1>6, <1>7, <1>8, <1>9, <1>10, <1>11, <1>12, <1>13
       DEF Next, Step

\* Without a stale lock a state directory has at most one daemon, and its lock
\* is in place as long as it owns the directory.
THEOREM OneDaemonWithoutStaleLock ==
    ASSUME NothingStale PROVE Spec => [](OneDaemon /\ OwnerHasLock)
  <1>1. Init => TypeOK /\ LockInv
    BY TypeInit, LockInit, NothingStale
  <1>2. TypeOK /\ LockInv /\ [Next]_vars => TypeOK' /\ LockInv'
    BY TypeStep, LockStep, NothingStale
  <1>3. LockInv => OneDaemon /\ OwnerHasLock
    BY DEF LockInv, Linked, OneDaemon, OwnerHasLock
  <1> QED
    BY <1>1, <1>2, <1>3, PTL DEF Spec

\* Without a stale lock a daemon that serves keeps its socket until it stops, whoever starts, fails or
\* closes, but for the cleanup of a start that has failed (removeLocalAgentDaemonFiles).
THEOREM SocketKeptWithoutStaleLock ==
    ASSUME NothingStale PROVE Spec => ServingKeepsSocket
  <1> DEFINE Keeps == \A d \in Daemons :
          stage[d] = "serving" /\ socket' # socket =>
              stage'[d] # "serving" \/ \E e \in Daemons : stage[e] = "cleaning" /\ stage'[e] = "gone"
  <1>1. Init => TypeOK /\ LockInv
    BY TypeInit, LockInit, NothingStale
  <1>2. TypeOK /\ LockInv /\ [Next]_vars => TypeOK' /\ LockInv'
    BY TypeStep, LockStep, NothingStale
  <1>3. TypeOK /\ LockInv /\ [Next]_vars => [Keeps]_vars
    <2> SUFFICES ASSUME TypeOK, LockInv, Next, NEW d \in Daemons, stage[d] = "serving", socket' # socket
                 PROVE  stage'[d] # "serving" \/ \E e \in Daemons : stage[e] = "cleaning" /\ stage'[e] = "gone"
      OBVIOUS
    <2>1. PICK e \in Daemons : Prepare(e) \/ Listen(e) \/ FailedCleanup(e) \/ CloseCleanup(e)
      BY DEF Next, Spawn, Step, Link, Publish, Inspect, RenameStale, FailedRelease, FailedUnlock, Stop,
         CloseRelease, Crash
    \* Who touches the socket and has not failed owns the directory, as the daemon that serves does.
    <2>2. CASE FailedCleanup(e)
      BY <2>2 DEF FailedCleanup, Goes, TypeOK
    <2>3. CASE Prepare(e) \/ Listen(e) \/ CloseCleanup(e)
      <3>1. stage[e] \in {"starting", "binding", "stopping"}
        BY <2>3 DEF Prepare, Listen, CloseCleanup
      <3>2. e = d
        BY <3>1 DEF LockInv, Linked, Owns
      <3> QED
        BY <3>1, <3>2
    <2> QED
      BY <2>1, <2>2, <2>3
  <1> QED
    BY <1>1, <1>2, <1>3, PTL DEF Spec, ServingKeepsSocket

-----------------------------------------------------------------------------
(* The ledger of tokens *)

LEMMA LedgerBegins == Usage!LedgerAssumption /\ Usage!Init => Usage!IInv
PROOF
<1>. SUFFICES ASSUME Usage!LedgerAssumption, Usage!Init
              PROVE  Usage!IInv
  OBVIOUS
<1>1. /\ usage_row = [e \in Executions |-> Usage!Absent]
      /\ \A e \in Executions : usage_told[e] = <<>> /\ usage_phase[e] = "none"
      /\ usage_turning = {} /\ usage_history = {} /\ usage_spent = 0
  BY DEF Usage!Init
<1>2. Usage!TypeOK
  BY DEF Usage!LedgerAssumption, Usage!Init, Usage!TypeOK, Usage!Rows, Usage!Tokens, Usage!Absent
<1>3. \A e \in Executions : Usage!Counts(e) = {}
  BY <1>1 DEF Usage!Counts, Usage!Absent
<1>4. Usage!Phased /\ Usage!Divided /\ Usage!Linked /\ Usage!Charges
  BY <1>1, <1>3 DEF Usage!Phased, Usage!Divided, Usage!Linked, Usage!Charges, Usage!Absent
<1>. QED  BY <1>2, <1>4 DEF Usage!IInv

\* What a row holds.
LEMMA RowTyped ==
    ASSUME Usage!TypeOK, NEW e \in Executions
    PROVE  /\ usage_row[e] \in Usage!Rows
           /\ usage_row[e].base \in Usage!Tokens \union {None}
           /\ usage_row[e].total \in Usage!Tokens \union {None}
           /\ usage_row[e].delta \in Usage!Tokens \union {None}
BY DEF Usage!TypeOK, Usage!Rows

\* The steps that keep the books of a turn and touch no count.
BooksKept ==
    /\ UNCHANGED <<usage_thread, usage_spent, usage_history, usage_turning, usage_told, usage_reached>>
    /\ \A f \in Executions : /\ usage_row'[f].attached = usage_row[f].attached
                             /\ usage_row'[f].base = usage_row[f].base
                             /\ usage_row'[f].total = usage_row[f].total
                             /\ usage_row'[f].delta = usage_row[f].delta
                             /\ usage_row[f].attached => usage_row'[f].reason = usage_row[f].reason

LEMMA BooksDivide ==
    ASSUME BooksKept, Usage!Phased, Usage!Divided, Usage!Linked
    PROVE  Usage!Divided' /\ Usage!Linked'
PROOF
<1>1. \A e \in Executions : Usage!Counts(e)' = Usage!Counts(e)
  BY DEF BooksKept, Usage!Counts
<1>2. Usage!Divided'
  BY <1>1 DEF BooksKept, Usage!Divided
<1>3. \A l, d \in Executions : Usage!Precedes(l, d) => Usage!Precedes(l, d)'
  BY DEF BooksKept, Usage!Precedes
<1>4. Usage!Linked'
  BY <1>3 DEF BooksKept, Usage!Linked, Usage!Phased
<1>. QED  BY <1>2, <1>4

\* A turn is begun, told to the provider, asked for, known, finished and over.
LEMMA BooksStep ==
    ASSUME Usage!LedgerAssumption, Usage!IInv, NEW e \in Executions,
           \/ Usage!BeginExecution(e) \/ Usage!ProviderDispatchStarted(e) \/ Usage!RequestStarted(e)
           \/ Usage!TurnStarted(e) \/ Usage!ProviderFinished(e) \/ Usage!EndExecution(e)
    PROVE  Usage!IInv'
PROOF
<1>. USE DEF Usage!IInv
<1>. DEFINE Became(r) == r \in Usage!Rows /\ usage_row' = [usage_row EXCEPT ![e] = r]
                         /\ r.attached = usage_row[e].attached /\ r.base = usage_row[e].base
                         /\ r.total = usage_row[e].total /\ r.delta = usage_row[e].delta
                         /\ (usage_row[e].attached => r.reason = usage_row[e].reason)
                         /\ (r.quality = "complete" => usage_row[e].quality = "complete" \/ r.delta # None)
<1>1. usage_row[e] \in Usage!Rows
  BY RowTyped
<1>2. \E r : Became(r)
  <2>1. CASE Usage!BeginExecution(e)
    <3>1. Became([usage_row[e] EXCEPT !.status = "queued"])
      BY <1>1, <2>1 DEF Usage!BeginExecution, Usage!Rows
    <3>. QED  BY <3>1
  <2>2. CASE Usage!ProviderDispatchStarted(e)
    <3>1. ~usage_row[e].attached
      BY <2>2 DEF Usage!ProviderDispatchStarted, Usage!Moves, Usage!Phased
    <3>2. Became([usage_row[e] EXCEPT !.quality = "unavailable", !.reason = "provider_dispatch_unconfirmed"])
      BY <1>1, <2>2, <3>1 DEF Usage!ProviderDispatchStarted, Usage!Rows
    <3>. QED  BY <3>2
  <2>3. CASE Usage!RequestStarted(e)
    <3>1. Became([usage_row[e] EXCEPT !.requested = TRUE, !.status = "running", !.quality = "unavailable"])
      BY <1>1, <2>3 DEF Usage!RequestStarted, Usage!Rows
    <3>. QED  BY <3>1
  <2>4. CASE Usage!TurnStarted(e)
    <3>1. Became([usage_row[e] EXCEPT !.turn = TRUE, !.requested = TRUE])
      BY <1>1, <2>4 DEF Usage!TurnStarted, Usage!Rows
    <3>. QED  BY <3>1
  <2>5. CASE Usage!ProviderFinished(e)
    <3>1. Became([usage_row[e] EXCEPT !.finished = TRUE,
                    !.quality = IF usage_row[e].delta # None THEN "complete" ELSE usage_row[e].quality])
      BY <1>1, <2>5 DEF Usage!ProviderFinished, Usage!Rows
    <3>. QED  BY <3>1
  <2>6. CASE Usage!EndExecution(e)
    <3>1. PICK how \in {"completed", "failed"} : usage_row' = [usage_row EXCEPT ![e].status = how]
      BY <2>6 DEF Usage!EndExecution
    <3>2. Became([usage_row[e] EXCEPT !.status = how])
      BY <1>1, <3>1 DEF Usage!Rows
    <3>. QED  BY <3>2
  <2>. QED  BY <2>1, <2>2, <2>3, <2>4, <2>5, <2>6
<1>3. PICK r : Became(r)
  BY <1>2
<1>4. /\ UNCHANGED <<usage_run, usage_thread, usage_spent, usage_history, usage_turning, usage_external,
                     usage_told, usage_reached, usage_crashes>>
      /\ \E to \in {"begun", "dispatched", "asking", "turn", "finished", "over"} :
            /\ usage_phase' = [usage_phase EXCEPT ![e] = to]
            /\ usage_phase[e] # "none" \/ to = "begun"
            /\ usage_phase[e] # "over"
            /\ to = "begun" => \A d \in Executions : IF d < e THEN usage_phase[d] = "over" ELSE usage_phase[d] = "none"
            /\ to = "dispatched" => usage_phase[e] = "begun"
            /\ to \in {"asking", "turn", "finished"} => usage_phase[e] \in {"attached", "asking", "turn"}
  BY DEF Usage!BeginExecution, Usage!ProviderDispatchStarted, Usage!RequestStarted,
     Usage!TurnStarted,
     Usage!ProviderFinished, Usage!EndExecution, Usage!Moves, Usage!provider
<1>5. BooksKept
  BY <1>3, <1>4 DEF BooksKept, Usage!TypeOK
<1>6. Usage!TypeOK'
  BY <1>3, <1>4 DEF Usage!TypeOK
<1>7. Usage!Phased'
  <2>1. PICK to \in {"begun", "dispatched", "asking", "turn", "finished", "over"} :
            /\ usage_phase' = [usage_phase EXCEPT ![e] = to]
            /\ usage_phase[e] # "none" \/ to = "begun"
            /\ usage_phase[e] # "over"
            /\ to = "begun" => \A d \in Executions : IF d < e THEN usage_phase[d] = "over" ELSE usage_phase[d] = "none"
            /\ to = "dispatched" => usage_phase[e] = "begun"
            /\ to \in {"asking", "turn", "finished"} => usage_phase[e] \in {"attached", "asking", "turn"}
    BY <1>4
  <2>2. \A f \in Executions : usage_phase'[f] = IF f = e THEN to ELSE usage_phase[f]
    BY <2>1 DEF Usage!TypeOK
  <2>3. \A d, f \in Executions : d < f /\ usage_phase'[f] # "none" => usage_phase'[d] = "over"
    BY <2>1, <2>2 DEF Usage!Phased, Usage!LedgerAssumption
  <2>4. ASSUME NEW f \in Executions
        PROVE  /\ usage_phase'[f] \in {"attached", "asking", "turn", "finished"} => usage_row'[f].attached
               /\ usage_row'[f].attached => usage_thread' # "none" /\ usage_phase'[f] \notin {"none", "begun", "dispatched"}
    <3>1. usage_row[f].attached => usage_phase[f] \notin {"none", "begun", "dispatched"}
      BY DEF Usage!Phased
    <3>2. CASE f = e
      BY <1>5, <2>1, <2>2, <3>1, <3>2 DEF Usage!Phased, BooksKept
    <3>3. CASE f # e
      BY <1>5, <2>2, <3>3 DEF Usage!Phased, BooksKept
    <3>. QED  BY <3>2, <3>3
  <2>. QED  BY <1>5, <2>3, <2>4 DEF Usage!Phased, BooksKept
<1>8. Usage!Charges'
  <2>1. \A f \in Executions : usage_row'[f] = IF f = e THEN r ELSE usage_row[f]
    BY <1>3 DEF Usage!TypeOK
  <2>. QED  BY <1>3, <2>1 DEF Usage!Charges
<1>. QED  BY <1>5, <1>6, <1>7, <1>8, BooksDivide

\* The receipt of a run and the end of the daemon: what is on its way is lost.
LEMMA RestartStep ==
    ASSUME Usage!LedgerAssumption, Usage!IInv,
           Usage!Restart \/ \E r \in LedgerRuns : Usage!Finish(r)
    PROVE  Usage!IInv'
PROOF
<1>. USE DEF Usage!IInv
<1>1. CASE \E r \in LedgerRuns : Usage!Finish(r)
  <2>1. UNCHANGED <<usage_row, usage_thread, usage_phase, usage_spent, usage_history, usage_turning,
                    usage_external, usage_told, usage_reached, usage_crashes>>
    BY <1>1 DEF Usage!Finish, Usage!provider
  <2>2. Usage!TypeOK'
    BY <1>1, <2>1 DEF Usage!Finish, Usage!TypeOK
  <2>3. BooksKept
    BY <2>1 DEF BooksKept
  <2>. QED
    BY <2>1, <2>2, <2>3, BooksDivide DEF Usage!Phased, Usage!Charges
<1>2. CASE Usage!Restart
  <2>1. /\ \A f \in Executions :
             /\ usage_row'[f] = usage_row[f]
                   \/ usage_row'[f] = [usage_row[f] EXCEPT !.status = "reconciliation_required"]
             /\ usage_told'[f] = <<>>
             /\ usage_phase'[f] = IF usage_phase[f] = "none" THEN "none" ELSE "over"
        /\ UNCHANGED <<usage_thread, usage_spent, usage_history, usage_turning, usage_external, usage_reached>>
    BY <1>2 DEF Usage!Restart, Usage!provider
  <2>2. ASSUME NEW f \in Executions
        PROVE  /\ usage_row'[f] \in Usage!Rows /\ usage_row'[f].attached = usage_row[f].attached
               /\ usage_row'[f].base = usage_row[f].base /\ usage_row'[f].total = usage_row[f].total
               /\ usage_row'[f].delta = usage_row[f].delta /\ usage_row'[f].reason = usage_row[f].reason
               /\ usage_row'[f].quality = usage_row[f].quality
    <3>1. usage_row[f] \in Usage!Rows
      BY RowTyped
    <3>. QED  BY <2>1, <3>1 DEF Usage!Rows
  <2>3. Usage!TypeOK'
    <3>1. usage_row' \in [Executions -> Usage!Rows]
      BY <1>2, <2>2 DEF Usage!Restart
    <3>2. usage_told' \in [Executions -> Seq(Usage!Tokens)]
      <4>1. <<>> \in Seq(Usage!Tokens)
        OBVIOUS
      <4>. QED  BY <1>2, <4>1 DEF Usage!Restart
    <3>. QED  BY <1>2, <2>1, <3>1, <3>2 DEF Usage!Restart, Usage!TypeOK, Usage!LedgerAssumption
  <2>4. Usage!Phased'
    BY <2>1, <2>2 DEF Usage!Phased
  <2>5. \A f \in Executions : Usage!Counts(f)' \subseteq Usage!Counts(f)
    <3>. SUFFICES ASSUME NEW f \in Executions, NEW x \in Usage!Counts(f)'
                  PROVE  x \in Usage!Counts(f)
      OBVIOUS
    <3>1. x = usage_row'[f].total /\ x # None
      <4>1. Len(usage_told'[f]) = 0
        <5>1. usage_told'[f] = <<>>
          BY <2>1
        <5>. QED  BY <5>1
      <4>2. x \in ({usage_told'[f][i] : i \in 1..Len(usage_told'[f])} \union {usage_row'[f].total}) \ {None}
        BY DEF Usage!Counts
      <4>3. 1..0 = {}
        OBVIOUS
      <4>. QED  BY <4>1, <4>2, <4>3
    <3>. QED  BY <2>2, <3>1 DEF Usage!Counts
  <2>6. Usage!Divided'
    BY <2>1, <2>2, <2>5 DEF Usage!Divided
  <2>7. \A l, d \in Executions : Usage!Precedes(l, d) => Usage!Precedes(l, d)'
    BY <2>2 DEF Usage!Precedes
  <2>8. Usage!Linked'
    BY <2>1, <2>2, <2>7 DEF Usage!Linked
  <2>9. Usage!Charges'
    BY <2>2 DEF Usage!Charges
  <2>. QED  BY <2>3, <2>4, <2>6, <2>8, <2>9
<1>. QED  BY <1>1, <1>2

\* A thread is created, or resumed and read.
LEMMA AttachStep ==
    ASSUME Usage!LedgerAssumption, Usage!IInv, NEW e \in Executions, Usage!AttachThread(e)
    PROVE  Usage!IInv'
PROOF
<1>. USE DEF Usage!IInv
<1>1. PICK ids \in IF usage_thread = "none" THEN {{}} ELSE {usage_history, None} :
        /\ usage_phase[e] = "dispatched" /\ usage_phase' = [usage_phase EXCEPT ![e] = "attached"]
        /\ \E why \in {"new_managed_thread", "continuous_managed_history", "unmapped_external_turns",
                       "unverified_history_boundary"} :
             /\ usage_row' = [usage_row EXCEPT ![e].attached = TRUE, ![e].base = Usage!Baseline(e, ids),
                                               ![e].reason = why]
             /\ usage_thread = "none" => why = "new_managed_thread"
             /\ usage_thread # "none" /\ Usage!Continued(e, ids) # {} => why = "continuous_managed_history"
        /\ usage_thread' \in {"active", "external"}
        /\ usage_reached' = [usage_reached EXCEPT ![e] = IF 0 \in usage_history THEN usage_spent ELSE 0]
        /\ UNCHANGED <<usage_run, usage_spent, usage_history, usage_turning, usage_external, usage_told, usage_crashes>>
  BY DEF Usage!AttachThread, Usage!Moves, Usage!provider
<1>2. PICK why \in {"new_managed_thread", "continuous_managed_history", "unmapped_external_turns",
                       "unverified_history_boundary"} :
             /\ usage_row' = [usage_row EXCEPT ![e].attached = TRUE, ![e].base = Usage!Baseline(e, ids),
                                               ![e].reason = why]
             /\ usage_thread = "none" => why = "new_managed_thread"
             /\ usage_thread # "none" /\ Usage!Continued(e, ids) # {} => why = "continuous_managed_history"
  BY <1>1
<1>3. /\ ~usage_row[e].attached /\ usage_row[e].base = None /\ usage_row[e].total = None
      /\ usage_told[e] = <<>> /\ e \notin usage_history
      /\ \A f \in Executions : e < f => usage_phase[f] = "none" /\ ~usage_row[f].attached
  BY <1>1 DEF Usage!Phased
\* The execution that is continued comes just before.
<1>4. ASSUME NEW l \in Usage!Continued(e, ids)
      PROVE  /\ l \in Executions /\ l < e /\ usage_row[l].attached /\ usage_row[l].total # None
             /\ usage_row[l].base # None /\ Usage!Continued(e, ids) = {l}
             /\ \A f \in Executions : f < e /\ usage_row[f].attached => f <= l
             /\ usage_turning = {} /\ 0 \notin usage_history
  <2>1. /\ l \in Executions \ {e} /\ usage_row[l].attached /\ usage_row[l].total # None
        /\ usage_row[l].quality = "complete"
        /\ \A f \in Usage!Prior(e) : f <= l
        /\ ids # None /\ usage_turning = {} /\ ids = Usage!KnownTurns(e)
    BY DEF Usage!Continued, Usage!Prior, Usage!CleanHistory
  <2>2. l < e
    BY <1>3, <2>1 DEF Usage!LedgerAssumption
  <2>3. usage_row[l].base # None
    BY <2>1 DEF Usage!Charges
  <2>4. \A f \in Executions : f < e /\ usage_row[f].attached => f <= l
    BY <2>1 DEF Usage!Prior, Usage!LedgerAssumption
  <2>5. \A m \in Usage!Continued(e, ids) : m = l
    <3>. SUFFICES ASSUME NEW m \in Usage!Continued(e, ids)
                  PROVE  m = l
      OBVIOUS
    <3>1. m \in Usage!Prior(e) /\ l \in Usage!Prior(e) /\ m <= l /\ l <= m
      BY DEF Usage!Continued
    <3>2. m \in Nat /\ l \in Nat
      BY <3>1 DEF Usage!Prior, Usage!LedgerAssumption
    <3>. QED  BY <3>1, <3>2
  <2>6. 0 \notin usage_history
    BY <1>1, <2>1 DEF Usage!KnownTurns, Usage!Prior, Usage!LedgerAssumption, Usage!Phased
  <2>. QED  BY <2>1, <2>2, <2>3, <2>4, <2>5, <2>6
<1>5. /\ usage_thread = "none" => Usage!Baseline(e, ids) = 0
      /\ usage_thread # "none" /\ Usage!Continued(e, ids) = {} => Usage!Baseline(e, ids) = None
      /\ usage_thread # "none" =>
           \A l \in Usage!Continued(e, ids) : Usage!Baseline(e, ids) = usage_row[l].total
  BY <1>4 DEF Usage!Baseline
<1>6. Usage!Baseline(e, ids) \in Usage!Tokens \union {None}
  <2>1. CASE usage_thread = "none"
    BY <1>5, <2>1 DEF Usage!LedgerAssumption, Usage!Tokens
  <2>2. ASSUME usage_thread # "none", NEW l \in Usage!Continued(e, ids)
        PROVE  Usage!Baseline(e, ids) \in Usage!Tokens \union {None}
    <3>1. l \in Executions /\ Usage!Baseline(e, ids) = usage_row[l].total
      BY <1>4, <1>5, <2>2
    <3>2. usage_row[l].total \in Usage!Tokens \union {None}
      BY <3>1, RowTyped
    <3>. QED  BY <3>1, <3>2
  <2>. QED  BY <1>5, <2>1, <2>2
<1>7. /\ usage_row' \in [Executions -> Usage!Rows]
      /\ \A f \in Executions :
           IF f = e THEN /\ usage_row'[f].attached /\ usage_row'[f].base = Usage!Baseline(e, ids)
                         /\ usage_row'[f].reason = why /\ usage_row'[f].total = None
                         /\ usage_row'[f].delta = usage_row[f].delta /\ usage_row'[f].quality = usage_row[f].quality
           ELSE usage_row'[f] = usage_row[f]
  <2>1. usage_row[e] \in Usage!Rows
    BY RowTyped
  <2>2. usage_row' = [usage_row EXCEPT ![e] = [usage_row[e] EXCEPT !.attached = TRUE, !.base = Usage!Baseline(e, ids),
                                               !.reason = why]]
    BY <1>2 DEF Usage!TypeOK
  <2>. HIDE DEF Usage!Baseline
  <2>3. [usage_row[e] EXCEPT !.attached = TRUE, !.base = Usage!Baseline(e, ids), !.reason = why] \in Usage!Rows
    BY <1>6, <2>1 DEF Usage!Rows
  <2>. QED  BY <1>3, <2>1, <2>2, <2>3 DEF Usage!TypeOK, Usage!Rows
<1>8. Usage!TypeOK'
  BY <1>1, <1>7 DEF Usage!TypeOK, Usage!LedgerAssumption, Usage!Tokens
<1>9. Usage!Phased'
  BY <1>1, <1>3, <1>7 DEF Usage!Phased, Usage!TypeOK, Usage!LedgerAssumption
<1>10. /\ \A f \in Executions : Usage!Counts(f)' = Usage!Counts(f)
       /\ Usage!Counts(e) = {}
       /\ \A f \in Executions : e < f => Usage!Counts(f) = {}
  <2>1. \A f \in Executions : usage_told'[f] = usage_told[f] /\ usage_row'[f].total = usage_row[f].total
    BY <1>1, <1>3, <1>7
  <2>2. ASSUME NEW f \in Executions, usage_row[f].total = None, usage_told[f] = <<>>
        PROVE  Usage!Counts(f) = {}
    <3>1. Len(usage_told[f]) = 0 /\ 1..0 = {}
      BY <2>2
    <3>2. {usage_told[f][i] : i \in 1..Len(usage_told[f])} = {}
      BY <3>1
    <3>. QED  BY <2>2, <3>2 DEF Usage!Counts
  <2>3. \A f \in Executions : e < f => usage_row[f].total = None /\ usage_told[f] = <<>>
    BY <1>3 DEF Usage!Phased
  <2>. QED  BY <1>3, <2>1, <2>2, <2>3 DEF Usage!Counts
<1>11. Usage!Baseline(e, ids) # None => usage_turning = {} /\ 0 \notin usage_history
  BY <1>4, <1>5 DEF Usage!Phased, Usage!TypeOK
<1>12. Usage!Divided'
  <2>1. \A f \in Executions : \A x \in Usage!Counts(f)' : x <= usage_spent'
    BY <1>1, <1>10 DEF Usage!Divided
  <2>2. ASSUME NEW d \in Executions, usage_row'[d].base # None, NEW f \in Executions, f < d
        PROVE  /\ f \notin usage_turning'
               /\ \A g \in Executions : d <= g => \A x \in Usage!Counts(f)', y \in Usage!Counts(g)' : x < y
    <3>1. CASE d = e
      <4>1. f \notin usage_turning'
        BY <1>1, <1>7, <1>11, <2>2, <3>1
      <4>2. \A g \in Executions : d <= g => Usage!Counts(g)' = {}
        BY <1>10, <3>1 DEF Usage!LedgerAssumption
      <4>. QED  BY <4>1, <4>2
    <3>2. CASE d # e
      BY <1>1, <1>7, <1>10, <2>2, <3>2 DEF Usage!Divided
    <3>. QED  BY <3>1, <3>2
  <2>. QED  BY <2>1, <2>2 DEF Usage!Divided
<1>13. Usage!Linked'
  <2>. SUFFICES ASSUME NEW d \in Executions, usage_row'[d].base # None
                PROVE  /\ usage_reached'[d] = 0
                       /\ \/ usage_row'[d].base = 0 /\ usage_row'[d].reason = "new_managed_thread"
                             /\ \A f \in Executions : f < d => ~usage_row'[f].attached
                          \/ usage_row'[d].reason = "continuous_managed_history" /\ \E l \in Executions : Usage!Precedes(l, d)'
    BY DEF Usage!Linked
  <2>1. CASE d = e
    <3>1. usage_reached'[d] = 0
      BY <1>1, <1>7, <1>11, <2>1 DEF Usage!TypeOK
    <3>2. CASE usage_thread = "none"
      <4>1. \A f \in Executions : ~usage_row[f].attached
        BY <3>2 DEF Usage!Phased
      <4>. QED
        BY <1>2, <1>5, <1>7, <2>1, <3>1, <3>2, <4>1 DEF Usage!LedgerAssumption
    <3>3. CASE usage_thread # "none"
      <4>1. PICK l \in Usage!Continued(e, ids) : TRUE
        BY <1>5, <1>7, <2>1, <3>3
      <4>2. usage_row'[l] = usage_row[l] /\ l \in Executions /\ l # e
        BY <1>4, <1>7, <4>1 DEF Usage!LedgerAssumption
      <4>3. \A f \in Executions : f < e => usage_row'[f] = usage_row[f]
        BY <1>7 DEF Usage!LedgerAssumption
      <4>4. Usage!Precedes(l, e)'
        BY <1>4, <1>5, <1>7, <3>3, <4>1, <4>2, <4>3 DEF Usage!Precedes
      <4>. QED  BY <1>2, <1>7, <2>1, <3>1, <3>3, <4>1, <4>2, <4>4
    <3>. QED  BY <3>2, <3>3
  <2>2. CASE d # e
    <3>1. usage_row'[d] = usage_row[d] /\ usage_reached'[d] = usage_reached[d] /\ usage_row[d].base # None
      BY <1>1, <1>7, <2>2 DEF Usage!TypeOK
    <3>2. d < e
      <4>1. usage_row[d].attached
        BY <3>1 DEF Usage!Phased
      <4>. QED  BY <1>3, <2>2, <4>1 DEF Usage!LedgerAssumption
    <3>3. \A f \in Executions : f < d => usage_row'[f] = usage_row[f]
      BY <1>7, <3>2 DEF Usage!LedgerAssumption
    <3>4. \A l \in Executions : Usage!Precedes(l, d) => Usage!Precedes(l, d)'
      BY <3>1, <3>3 DEF Usage!Precedes
    <3>. QED  BY <3>1, <3>3, <3>4 DEF Usage!Linked
  <2>. QED  BY <2>1, <2>2
<1>14. Usage!Charges'
  BY <1>3, <1>7 DEF Usage!Charges
<1>. QED  BY <1>8, <1>9, <1>12, <1>13, <1>14

\* The provider begins and ends turns, and others take theirs.
LEMMA TurnStep ==
    ASSUME Usage!LedgerAssumption, Usage!IInv,
           \/ \E e \in Executions : Usage!TurnBegins(e) \/ Usage!TurnEnds(e)
           \/ Usage!ExternalTurn
    PROVE  Usage!IInv'
PROOF
<1>. USE DEF Usage!IInv
<1>1. /\ UNCHANGED <<usage_row, usage_thread, usage_phase, usage_told, usage_reached, usage_run, usage_crashes>>
      /\ usage_spent' \in Usage!Tokens /\ usage_spent <= usage_spent'
      /\ usage_external' \in 0 .. MaxExternal
      /\ usage_thread = "none" => usage_history' = {} /\ usage_turning' \subseteq usage_turning
      /\ usage_history \subseteq usage_history' /\ usage_history' \subseteq Executions \union {0}
      /\ usage_turning' \subseteq usage_history' \intersect Executions
      /\ \A e \in Executions : /\ e \in usage_history' => usage_row[e].attached
                               /\ e \in usage_turning' => e \in usage_turning \/ usage_phase[e] = "asking"
  <2>1. ASSUME NEW e \in Executions, Usage!TurnBegins(e)
        PROVE  usage_row[e].attached /\ usage_thread # "none"
    BY <2>1 DEF Usage!TurnBegins, Usage!Phased
  <2>2. CASE \E e \in Executions : Usage!TurnBegins(e)
    BY <2>1, <2>2 DEF Usage!TurnBegins, Usage!TypeOK, Usage!Tokens, Usage!Phased,
       Usage!LedgerAssumption
  <2>3. CASE \E e \in Executions : Usage!TurnEnds(e)
    BY <2>3 DEF Usage!TurnEnds, Usage!TypeOK, Usage!Tokens, Usage!Phased, Usage!LedgerAssumption
  <2>4. CASE Usage!ExternalTurn
    BY <2>4 DEF Usage!ExternalTurn, Usage!TypeOK, Usage!Tokens, Usage!Phased,
       Usage!LedgerAssumption
  <2>. QED  BY <2>2, <2>3, <2>4
<1>2. Usage!TypeOK'
  BY <1>1 DEF Usage!TypeOK
<1>3. Usage!Phased'
  <2>1. /\ UNCHANGED <<usage_row, usage_thread, usage_phase, usage_told>>
        /\ usage_thread = "none" => usage_history' = {}
        /\ usage_history \subseteq usage_history'
        /\ \A e \in Executions : e \in usage_history' => usage_row[e].attached
    BY <1>1
  <2>. QED  BY <2>1 DEF Usage!Phased
<1>4. \A e \in Executions : Usage!Counts(e)' = Usage!Counts(e) /\ Usage!Counts(e) \subseteq Nat
  <2>1. ASSUME NEW e \in Executions, NEW x \in Usage!Counts(e)
        PROVE  x \in Nat
    <3>1. usage_told[e] \in Seq(Usage!Tokens)
      BY DEF Usage!TypeOK
    <3>2. usage_row[e].total \in Usage!Tokens \union {None}
      BY RowTyped
    <3>3. \A i \in 1..Len(usage_told[e]) : usage_told[e][i] \in Usage!Tokens
      BY <3>1
    <3>. QED  BY <3>2, <3>3 DEF Usage!Counts, Usage!Tokens
  <2>. QED  BY <1>1, <2>1 DEF Usage!Counts
<1>5. Usage!Divided'
  <2>1. usage_spent \in Nat /\ usage_spent' \in Nat
    BY <1>1 DEF Usage!TypeOK, Usage!Tokens
  <2>2. \A e \in Executions : \A x \in Usage!Counts(e)' : x <= usage_spent'
    <3>. SUFFICES ASSUME NEW e \in Executions, NEW x \in Usage!Counts(e)
                  PROVE  x <= usage_spent'
      BY <1>4
    <3>. QED  BY <1>1, <1>4, <2>1 DEF Usage!Divided
  <2>3. ASSUME NEW d \in Executions, usage_row[d].base # None, NEW f \in Executions, f < d
        PROVE  f \notin usage_turning'
    <3>1. f \notin usage_turning
      BY <2>3 DEF Usage!Divided
    <3>2. usage_phase[d] # "none"
      BY <2>3 DEF Usage!Phased
    <3>3. usage_phase[f] = "over"
      BY <2>3, <3>2 DEF Usage!Phased
    <3>4. f \in usage_turning' => f \in usage_turning \/ usage_phase[f] = "asking"
      BY <1>1
    <3>. QED  BY <3>1, <3>3, <3>4
  <2>. QED  BY <1>1, <1>4, <2>2, <2>3 DEF Usage!Divided
<1>6. Usage!Linked' /\ Usage!Charges'
  BY <1>1 DEF Usage!Linked, Usage!Precedes, Usage!Charges
<1>. QED  BY <1>2, <1>3, <1>5, <1>6

\* The provider counts a token of a turn that runs, and tells it or does not.
LEMMA SpendStep ==
    ASSUME Usage!LedgerAssumption, Usage!IInv, NEW e \in Executions, Usage!TurnSpends(e)
    PROVE  Usage!IInv'
PROOF
<1>. USE DEF Usage!IInv
<1>1. /\ e \in usage_turning /\ usage_spent < MaxTokens /\ usage_spent' = usage_spent + 1
      /\ usage_told' \in {usage_told, [usage_told EXCEPT ![e] = Append(usage_told[e], usage_spent + 1)]}
      /\ UNCHANGED <<usage_run, usage_row, usage_thread, usage_phase, usage_history, usage_turning,
                     usage_external, usage_reached, usage_crashes>>
  BY DEF Usage!TurnSpends
<1>2. /\ usage_spent \in Nat /\ usage_spent' \in Usage!Tokens
      /\ usage_told[e] \in Seq(Usage!Tokens)
      /\ e \in usage_history
  BY <1>1 DEF Usage!TypeOK, Usage!Tokens, Usage!LedgerAssumption
<1>3. Append(usage_told[e], usage_spent + 1) \in Seq(Usage!Tokens)
  BY <1>1, <1>2
<1>4. Usage!TypeOK'
  BY <1>1, <1>2, <1>3 DEF Usage!TypeOK
<1>5. \A f \in Executions : f # e => usage_told'[f] = usage_told[f]
  BY <1>1 DEF Usage!TypeOK
<1>6. Usage!Phased'
  BY <1>1, <1>2, <1>5 DEF Usage!Phased
<1>7. /\ \A f \in Executions : f # e => Usage!Counts(f)' = Usage!Counts(f)
      /\ \A x \in Usage!Counts(e)' : x \in Usage!Counts(e) \/ x = usage_spent + 1
  <2>1. \A f \in Executions : f # e => Usage!Counts(f)' = Usage!Counts(f)
    BY <1>1, <1>5 DEF Usage!Counts
  <2>2. CASE usage_told' = usage_told
    BY <1>1, <2>1, <2>2 DEF Usage!Counts
  <2>3. CASE usage_told' = [usage_told EXCEPT ![e] = Append(usage_told[e], usage_spent + 1)]
    <3>1. usage_told'[e] = Append(usage_told[e], usage_spent + 1)
      BY <2>3 DEF Usage!TypeOK
    <3>2. \A i \in 1..Len(usage_told'[e]) :
            usage_told'[e][i] = usage_spent + 1 \/ (i \in 1..Len(usage_told[e]) /\ usage_told'[e][i] = usage_told[e][i])
      BY <1>2, <3>1
    <3>3. \A x \in Usage!Counts(e)' : x \in Usage!Counts(e) \/ x = usage_spent + 1
      BY <1>1, <3>2 DEF Usage!Counts
    <3>. QED  BY <2>1, <3>3
  <2>. QED  BY <1>1, <2>2, <2>3
<1>8. \A f \in Executions : \A x \in Usage!Counts(f) : x \in Nat /\ x <= usage_spent
  <2>. SUFFICES ASSUME NEW f \in Executions, NEW x \in Usage!Counts(f)
                PROVE  x \in Nat
    BY DEF Usage!Divided
  <2>1. usage_told[f] \in Seq(Usage!Tokens)
    BY DEF Usage!TypeOK
  <2>2. usage_row[f].total \in Usage!Tokens \union {None}
    BY RowTyped
  <2>3. \A i \in 1..Len(usage_told[f]) : usage_told[f][i] \in Usage!Tokens
    BY <2>1
  <2>. QED  BY <2>2, <2>3 DEF Usage!Counts, Usage!Tokens
<1>9. Usage!Divided'
  <2>1. \A f \in Executions : \A x \in Usage!Counts(f)' : x <= usage_spent'
    BY <1>1, <1>2, <1>7, <1>8
  <2>2. ASSUME NEW d \in Executions, usage_row[d].base # None, NEW f \in Executions, f < d
        PROVE  /\ f \notin usage_turning /\ f # e
               /\ \A g \in Executions : d <= g => \A x \in Usage!Counts(f)', y \in Usage!Counts(g)' : x < y
    <3>1. f \notin usage_turning
      BY <2>2 DEF Usage!Divided
    <3>2. f # e /\ Usage!Counts(f)' = Usage!Counts(f)
      BY <1>1, <1>7, <3>1
    <3>3. ASSUME NEW g \in Executions, d <= g, NEW x \in Usage!Counts(f), NEW y \in Usage!Counts(g)'
          PROVE  x < y
      <4>1. CASE y \in Usage!Counts(g)
        BY <2>2, <3>3, <4>1 DEF Usage!Divided
      <4>2. CASE y = usage_spent + 1
        BY <1>2, <1>8, <4>2
      <4>. QED  BY <1>7, <3>3, <4>1, <4>2
    <3>. QED  BY <3>1, <3>2, <3>3
  <2>. QED  BY <1>1, <2>1, <2>2 DEF Usage!Divided
<1>10. Usage!Linked' /\ Usage!Charges'
  BY <1>1 DEF Usage!Linked, Usage!Precedes, Usage!Charges
<1>. QED  BY <1>4, <1>6, <1>9, <1>10

\* A count arrives: what the execution was charged, and what its successor began with, are
\* corrected.
LEMMA UsageStep ==
    ASSUME Usage!LedgerAssumption, Usage!IInv, NEW e \in Executions, Usage!Usage(e)
    PROVE  Usage!IInv'
PROOF
<1>. USE DEF Usage!IInv
<1>1. /\ usage_told[e] # <<>> /\ usage_told' = [usage_told EXCEPT ![e] = Tail(usage_told[e])]
      /\ UNCHANGED <<usage_run, usage_thread, usage_phase, usage_spent, usage_history, usage_turning,
                     usage_external, usage_reached, usage_crashes>>
      /\ \/ UNCHANGED usage_row
         \/ /\ usage_row[e].attached
            /\ Usage!Charge(e, Head(usage_told[e]))
  BY DEF Usage!Usage, Usage!provider
<1>2. /\ usage_told[e] \in Seq(Usage!Tokens) /\ Len(usage_told[e]) > 0
      /\ Tail(usage_told[e]) \in Seq(Usage!Tokens)
      /\ Head(usage_told[e]) = usage_told[e][1]
      /\ Len(Tail(usage_told[e])) = Len(usage_told[e]) - 1
      /\ \A i \in 1..Len(Tail(usage_told[e])) : Tail(usage_told[e])[i] = usage_told[e][i + 1]
  BY <1>1 DEF Usage!TypeOK
<1>. DEFINE n == Head(usage_told[e])
<1>3. n \in Usage!Tokens /\ n \in Nat /\ n # None /\ n \in Usage!Counts(e)
  <2>1. n \in Usage!Tokens
    BY <1>2
  <2>2. n \in Nat /\ n # None
    BY <2>1 DEF Usage!Tokens, Usage!LedgerAssumption
  <2>. QED  BY <1>2, <2>1, <2>2 DEF Usage!Counts
\* What becomes of the rows.
<1>4. ASSUME NEW f \in Executions
      PROVE  /\ usage_row'[f] \in Usage!Rows /\ usage_row'[f].attached = usage_row[f].attached
             /\ usage_row'[f].reason = usage_row[f].reason
             /\ \/ usage_row'[f] = usage_row[f]
                \/ /\ f = e /\ usage_row[e].attached /\ usage_row'[f].base = usage_row[f].base /\ usage_row'[f].total = n
                \/ /\ Usage!Follows(f, e) /\ usage_row'[f].base = n /\ usage_row'[f].total = usage_row[f].total
                   /\ usage_row'[e].total = n
             /\ usage_row'[f].delta # None => usage_row'[f].base # None /\ usage_row'[f].total # None
             /\ usage_row'[f].quality = "complete" => usage_row'[f].delta # None
  <2>1. /\ usage_row[f] \in Usage!Rows /\ usage_row[f].base \in Usage!Tokens \union {None}
        /\ usage_row[f].total \in Usage!Tokens \union {None}
        /\ usage_row[f].delta # None => usage_row[f].base # None /\ usage_row[f].total # None
        /\ usage_row[f].quality = "complete" => usage_row[f].delta # None
    BY RowTyped DEF Usage!Charges
  <2>2. CASE usage_row'[f] = usage_row[f]
    BY <2>1, <2>2
  <2>3. ASSUME NEW t \in Usage!Tokens \union {None}, NEW b \in Usage!Tokens \union {None}
        PROVE  /\ Usage!Minus(t, b) \in Usage!Tokens \union {None}
               /\ Usage!Minus(t, b) # None => t # None /\ b # None
    BY DEF Usage!Minus, Usage!Tokens, Usage!LedgerAssumption
  <2>4. ASSUME NEW x \in Usage!Tokens \union {None}
        PROVE  /\ Usage!Quality(f, x) \in {"unavailable", "partial", "complete"}
               /\ Usage!Quality(f, x) = "complete" => x # None
    BY DEF Usage!Quality
  <2>5. CASE f = e /\ usage_row[e].attached /\ usage_row'[f] = Usage!Charged(e, n)
    <3>1. PICK x \in Usage!Tokens \union {None} : x = Usage!Minus(n, usage_row[f].base)
      BY <1>3, <2>1, <2>3
    <3>2. PICK q \in {"unavailable", "partial", "complete"} : q = Usage!Quality(f, x)
      BY <2>4
    <3>3. usage_row'[f] = [usage_row[f] EXCEPT !.total = n, !.delta = x, !.quality = q]
      BY <2>5, <3>1, <3>2 DEF Usage!Charged
    <3>4. x # None => usage_row[f].base # None
      BY <1>3, <2>1, <2>3, <3>1
    <3>5. q = "complete" => x # None
      BY <2>4, <3>2
    <3>6. /\ usage_row'[f] \in Usage!Rows /\ usage_row'[f].attached = usage_row[f].attached
          /\ usage_row'[f].reason = usage_row[f].reason /\ usage_row'[f].base = usage_row[f].base
          /\ usage_row'[f].total = n /\ usage_row'[f].delta = x /\ usage_row'[f].quality = q
      BY <1>3, <2>1, <3>3 DEF Usage!Rows
    <3>. QED  BY <1>3, <2>1, <2>5, <3>4, <3>5, <3>6
  <2>6. CASE f # e /\ Usage!Follows(f, e) /\ usage_row'[f] = Usage!Corrected(f, n) /\ usage_row'[e].total = n
    <3>1. PICK x \in Usage!Tokens \union {None} : x = Usage!Minus(usage_row[f].total, n)
      BY <1>3, <2>1, <2>3
    <3>2. PICK q \in {"unavailable", "partial", "complete"} : q = Usage!Quality(f, x)
      BY <2>4
    <3>3. usage_row'[f] = [usage_row[f] EXCEPT !.base = n, !.delta = x, !.quality = q]
      BY <2>6, <3>1, <3>2 DEF Usage!Corrected
    <3>4. x # None => usage_row[f].total # None
      BY <1>3, <2>1, <2>3, <3>1
    <3>5. q = "complete" => x # None
      BY <2>4, <3>2
    <3>. QED  BY <1>3, <2>1, <2>6, <3>3, <3>4, <3>5 DEF Usage!Rows
  <2>7. CASE Usage!Charge(e, n) /\ usage_row[e].attached
    <3>1. usage_row[e] \in Usage!Rows
      BY RowTyped
    <3>2. usage_row'[e] = Usage!Charged(e, n)
      BY <2>7 DEF Usage!Charge
    <3>3. usage_row'[e].total = n
      BY <3>1, <3>2 DEF Usage!Charged, Usage!Rows
    <3>4. usage_row'[f] = IF f = e THEN Usage!Charged(e, n)
                          ELSE IF Usage!Follows(f, e) THEN Usage!Corrected(f, n) ELSE usage_row[f]
      BY <2>7 DEF Usage!Charge
    <3>. QED  BY <2>2, <2>5, <2>6, <2>7, <3>3, <3>4
  <2>. QED  BY <1>1, <2>2, <2>7
<1>5. Usage!TypeOK'
  <2>1. usage_row' \in [Executions -> Usage!Rows]
    <3>1. CASE Usage!Charge(e, n)
      <4>1. usage_row' = [f \in Executions |-> usage_row'[f]]
        BY <3>1 DEF Usage!Charge
      <4>. QED  BY <1>4, <4>1
    <3>. QED  BY <1>1, <3>1 DEF Usage!TypeOK
  <2>. QED  BY <1>1, <1>2, <2>1 DEF Usage!TypeOK
<1>6. \A f \in Executions : f # e => usage_told'[f] = usage_told[f]
  BY <1>1
<1>7. Usage!Phased'
  <2>1. \A f \in Executions : /\ usage_row'[f].attached = usage_row[f].attached
                              /\ ~usage_row[f].attached => usage_row'[f] = usage_row[f]
    BY <1>4 DEF Usage!Follows
  <2>2. e \in usage_history
    BY <1>1 DEF Usage!Phased
  <2>3. UNCHANGED <<usage_thread, usage_phase, usage_history>>
    BY <1>1
  <2>4. \A f \in Executions : f \notin usage_history' => usage_told'[f] = <<>>
    BY <1>6, <2>2, <2>3 DEF Usage!Phased
  <2>. QED  BY <2>1, <2>3, <2>4 DEF Usage!Phased
<1>8. ASSUME NEW f \in Executions, NEW x \in Usage!Counts(f)'
      PROVE  x \in Usage!Counts(f)
  <2>1. CASE f # e
    <3>1. usage_row'[f].total = usage_row[f].total
      BY <1>4, <2>1
    <3>. QED  BY <1>6, <2>1, <3>1 DEF Usage!Counts
  <2>2. CASE f = e
    <3>1. usage_row'[e].total = usage_row[e].total \/ usage_row'[e].total = n
      BY <1>4
    <3>2. usage_told'[e] = Tail(usage_told[e])
      BY <1>1 DEF Usage!TypeOK
    <3>3. ASSUME NEW i \in 1..Len(usage_told'[e]), x = usage_told'[e][i], x # None
          PROVE  x \in Usage!Counts(e)
      <4>1. i + 1 \in 1..Len(usage_told[e]) /\ x = usage_told[e][i + 1]
        BY <1>2, <3>2, <3>3
      <4>. QED  BY <3>3, <4>1 DEF Usage!Counts
    <3>4. ASSUME x = usage_row'[e].total, x # None
          PROVE  x \in Usage!Counts(e)
      BY <1>3, <3>1, <3>4 DEF Usage!Counts
    <3>5. x # None /\ (x = usage_row'[e].total \/ \E i \in 1..Len(usage_told'[e]) : x = usage_told'[e][i])
      BY <2>2 DEF Usage!Counts
    <3>. QED  BY <2>2, <3>3, <3>4, <3>5
  <2>. QED  BY <2>1, <2>2
<1>9. \A f \in Executions : usage_row'[f].base # None => usage_row[f].base # None
  BY <1>4 DEF Usage!Follows
<1>10. Usage!Divided'
  <2>1. \A f \in Executions : \A x \in Usage!Counts(f)' : x <= usage_spent'
    BY <1>1, <1>8 DEF Usage!Divided
  <2>2. ASSUME NEW d \in Executions, usage_row'[d].base # None, NEW f \in Executions, f < d
        PROVE  /\ f \notin usage_turning'
               /\ \A g \in Executions : d <= g => \A x \in Usage!Counts(f)', y \in Usage!Counts(g)' : x < y
    BY <1>1, <1>8, <1>9, <2>2 DEF Usage!Divided
  <2>. QED  BY <2>1, <2>2 DEF Usage!Divided
\* Totals grow from one execution with a baseline to the next.
<1>11. ASSUME NEW d \in Executions, usage_row[d].base # None, NEW f \in Executions, f < d,
              NEW g \in Executions, d <= g, usage_row[f].total # None, usage_row[g].total # None
       PROVE  usage_row[f].total # usage_row[g].total
  <2>1. usage_row[f].total \in Usage!Counts(f) /\ usage_row[g].total \in Usage!Counts(g)
    BY <1>11 DEF Usage!Counts
  <2>2. usage_row[f].total < usage_row[g].total
    BY <1>11, <2>1 DEF Usage!Divided
  <2>3. usage_row[f].total \in Nat
    BY <1>11, RowTyped DEF Usage!Tokens
  <2>. QED  BY <2>2, <2>3
<1>12. Usage!Linked'
  <2>. SUFFICES ASSUME NEW d \in Executions, usage_row'[d].base # None
                PROVE  /\ usage_reached'[d] = 0
                       /\ \/ /\ usage_row'[d].base = 0 /\ usage_row'[d].reason = "new_managed_thread"
                             /\ \A f \in Executions : f < d => ~usage_row'[f].attached
                          \/ /\ usage_row'[d].reason = "continuous_managed_history"
                             /\ \E l \in Executions : Usage!Precedes(l, d)'
    BY DEF Usage!Linked
  <2>1. usage_row[d].base # None /\ usage_reached'[d] = 0 /\ usage_row'[d].reason = usage_row[d].reason
    BY <1>1, <1>4, <1>9 DEF Usage!Linked
  <2>2. CASE /\ usage_row[d].base = 0 /\ usage_row[d].reason = "new_managed_thread"
             /\ \A f \in Executions : f < d => ~usage_row[f].attached
    <3>1. usage_row'[d].base = usage_row[d].base
      BY <1>4, <2>2 DEF Usage!Follows
    <3>. QED  BY <1>4, <2>1, <2>2, <3>1
  <2>3. ASSUME usage_row[d].reason = "continuous_managed_history", NEW l \in Executions, Usage!Precedes(l, d)
        PROVE  Usage!Precedes(l, d)'
    <3>1. /\ l < d /\ usage_row[l].attached /\ usage_row[l].base # None
          /\ usage_row[l].total # None /\ usage_row[d].base = usage_row[l].total
          /\ \A f \in Executions : f < d /\ usage_row[f].attached => f <= l
      BY <2>3 DEF Usage!Precedes
    <3>2. l # d /\ l \in Nat /\ d \in Nat /\ e \in Nat
      BY <3>1 DEF Usage!LedgerAssumption
    <3>3. /\ usage_row'[l].attached
          /\ \A f \in Executions : f < d /\ usage_row'[f].attached => f <= l
      BY <1>4, <3>1
    <3>4. usage_row'[l].base # None /\ usage_row'[l].total # None
      BY <1>3, <1>4, <3>1
    <3>5. usage_row'[d].base = usage_row'[l].total
      <4>1. CASE usage_row' = usage_row
        BY <3>1, <4>1
      <4>2. CASE usage_row' # usage_row /\ l = e
        <5>1. Usage!Charge(e, n) /\ usage_row[e].attached
          BY <1>1, <4>2
        <5>2. d # e /\ usage_row[d].attached
          BY <2>1, <3>2, <4>2 DEF Usage!Phased
        <5>3. Usage!Follows(d, e)
          BY <2>3, <3>1, <4>2, <5>2 DEF Usage!Follows
        <5>4. usage_row[d] \in Usage!Rows /\ usage_row[e] \in Usage!Rows
          BY RowTyped
        <5>5. usage_row'[d] = Usage!Corrected(d, n) /\ usage_row'[e] = Usage!Charged(e, n)
          BY <5>1, <5>2, <5>3 DEF Usage!Charge
        <5>. QED  BY <4>2, <5>4, <5>5 DEF Usage!Corrected, Usage!Charged, Usage!Rows
      <4>3. CASE usage_row' # usage_row /\ l # e
        \* The count of another execution is not the baseline of d.
        <5>1. usage_row[e].attached
          BY <1>1, <4>3
        <5>2. ~Usage!Follows(d, e)
          <6>1. SUFFICES ASSUME Usage!Follows(d, e) PROVE FALSE
            OBVIOUS
          <6>2. e # d /\ usage_row[e].total # None /\ usage_row[e].total = usage_row[l].total
            BY <3>1, <6>1 DEF Usage!Follows
          <6>3. CASE d < e
            BY <1>11, <2>1, <3>1, <3>2, <6>2, <6>3
          <6>4. CASE e < d
            <7>1. e < l
              BY <3>1, <3>2, <4>3, <5>1, <6>4
            <7>. QED  BY <1>11, <3>1, <3>2, <6>2, <7>1
          <6>. QED  BY <3>2, <6>2, <6>3, <6>4
        <5>3. usage_row'[d].base = usage_row[d].base /\ usage_row'[l].total = usage_row[l].total
          BY <1>4, <4>3, <5>2
        <5>. QED  BY <3>1, <5>3
      <4>. QED  BY <4>1, <4>2, <4>3
    <3>. QED  BY <3>1, <3>3, <3>4, <3>5 DEF Usage!Precedes
  <2>. QED  BY <2>1, <2>2, <2>3 DEF Usage!Linked
<1>13. Usage!Charges'
  BY <1>4 DEF Usage!Charges
<1>. QED  BY <1>5, <1>7, <1>10, <1>12, <1>13

LEMMA LedgerStep == Usage!LedgerAssumption /\ Usage!IInv /\ [Usage!Next]_(Usage!vars) => Usage!IInv'
PROOF
<1>. SUFFICES ASSUME Usage!LedgerAssumption, Usage!IInv, [Usage!Next]_(Usage!vars)
              PROVE  Usage!IInv'
  OBVIOUS
<1>1. CASE UNCHANGED Usage!vars
  <2>1. UNCHANGED <<usage_run, usage_row, usage_thread, usage_phase, usage_spent, usage_history,
                    usage_turning, usage_told, usage_reached, usage_crashes, usage_external>>
    BY <1>1 DEF Usage!vars, Usage!provider
  <2>2. Usage!TypeOK'
    BY <2>1 DEF Usage!IInv, Usage!TypeOK
  <2>3. BooksKept
    BY <2>1 DEF BooksKept
  <2>. QED  BY <2>1, <2>2, <2>3, BooksDivide DEF Usage!IInv, Usage!Phased, Usage!Charges
<1>2. CASE Usage!Next
  <2>1. CASE \E e \in Executions :
               \/ Usage!BeginExecution(e) \/ Usage!ProviderDispatchStarted(e) \/ Usage!RequestStarted(e)
               \/ Usage!TurnStarted(e) \/ Usage!ProviderFinished(e) \/ Usage!EndExecution(e)
    BY <2>1, BooksStep
  <2>2. CASE \E e \in Executions :
               Usage!AttachThread(e) \/ Usage!Usage(e) \/ Usage!TurnSpends(e)
    BY <2>2, AttachStep, UsageStep, SpendStep
  <2>3. CASE (\E e \in Executions : Usage!TurnBegins(e) \/ Usage!TurnEnds(e)) \/ Usage!ExternalTurn
    BY <2>3, TurnStep
  <2>4. CASE Usage!Restart \/ \E r \in LedgerRuns : Usage!Finish(r)
    BY <2>4, RestartStep
  <2>. QED  BY <1>2, <2>1, <2>2, <2>3, <2>4 DEF Usage!Next
<1>. QED  BY <1>1, <1>2

LEMMA LedgerBills == Usage!LedgerAssumption /\ Usage!IInv => Usage!BilledOnce
PROOF
<1>. SUFFICES ASSUME Usage!LedgerAssumption, Usage!IInv, NEW e \in Executions, usage_row[e].delta # None
              PROVE  /\ usage_row[e].base >= usage_reached[e]
                     /\ \A d \in Executions : d < e /\ usage_row[d].delta # None => usage_row[d].total <= usage_row[e].base
  BY DEF Usage!BilledOnce
<1>. USE DEF Usage!IInv
<1>1. usage_row[e].base # None /\ usage_row[e].base \in Nat /\ usage_reached[e] = 0
  BY RowTyped DEF Usage!Charges, Usage!Linked, Usage!Tokens
<1>2. ASSUME NEW d \in Executions, d < e, usage_row[d].delta # None
      PROVE  usage_row[d].total <= usage_row[e].base
  <2>1. usage_row[d].total # None /\ usage_row[d].attached /\ usage_row[d].total \in Nat
    BY <1>2, RowTyped DEF Usage!Charges, Usage!Phased, Usage!Tokens
  <2>2. PICK l \in Executions : Usage!Precedes(l, e)
    BY <1>1, <1>2, <2>1 DEF Usage!Linked
  <2>3. /\ usage_row[l].base # None /\ usage_row[l].total # None
        /\ usage_row[e].base = usage_row[l].total /\ d <= l
    BY <1>2, <2>1, <2>2 DEF Usage!Precedes
  <2>4. CASE d = l
    BY <2>1, <2>3, <2>4
  <2>5. CASE d # l
    <3>1. d < l /\ l <= l
      BY <2>3, <2>5 DEF Usage!LedgerAssumption
    <3>2. usage_row[d].total \in Usage!Counts(d) /\ usage_row[l].total \in Usage!Counts(l)
      BY <2>1, <2>3 DEF Usage!Counts
    <3>3. usage_row[d].total < usage_row[l].total
      BY <2>3, <3>1, <3>2 DEF Usage!Divided
    <3>4. usage_row[l].total \in Nat
      BY <2>3, RowTyped DEF Usage!Tokens
    <3>. QED  BY <2>1, <2>3, <3>3, <3>4
  <2>. QED  BY <2>4, <2>5
<1>. QED  BY <1>1, <1>2

\* No token of a thread is charged to two executions, and none that another application spent
\* before the execution attached, for any executions, counts, crashes and late notifications.
THEOREM TokensBilledOnce == ASSUME Usage!LedgerAssumption PROVE Usage!Spec => []Usage!BilledOnce
BY LedgerBegins, LedgerStep, LedgerBills, PTL DEF Usage!Spec

-----------------------------------------------------------------------------
(* A sandboxed command and its worker *)

Messages == {"commandPid", "invalid", "finished", "result", "error", "cleanupFailed"}

LEMMA WorkerBegins == Worker!Init => Worker!IInv
PROOF
<1>. SUFFICES ASSUME Worker!Init
              PROVE  Worker!IInv
  OBVIOUS
<1>1. Worker!TypeOK
  <2>1. <<>> \in Seq({"stop", "finalize"}) /\ <<>> \in Seq(Messages)
    OBVIOUS
  <2>. QED  BY <2>1 DEF Worker!Init, Worker!TypeOK, Messages
<1>2. Len(worker_toParent) = 0 /\ Len(worker_toWorker) = 0 /\ 1..0 = {}
  BY DEF Worker!Init
<1>3. Worker!Confirmed /\ Worker!Killed /\ Worker!AnswersAreClean
  BY <1>2 DEF Worker!Init, Worker!Confirmed, Worker!Sent, Worker!Killed, Worker!AnswersAreClean
<1>. QED  BY <1>1, <1>3 DEF Worker!IInv

\* What sending a message and reading one do to the channel.
LEMMA Sending ==
    ASSUME Worker!TypeOK, NEW m \in Messages, Worker!Sends(m)
    PROVE  /\ worker_toParent' \in Seq(Messages) /\ Len(worker_toParent') = Len(worker_toParent) + 1
           /\ worker_toParent'[Len(worker_toParent) + 1] = m
           /\ \A i \in 1..Len(worker_toParent) : worker_toParent'[i] = worker_toParent[i]
BY DEF Worker!TypeOK, Worker!Sends, Messages

LEMMA Sends ==
    ASSUME Worker!TypeOK, Worker!Killed, NEW m \in Messages, Worker!Sends(m), UNCHANGED worker_pid,
           m = "finished" => worker_pid \/ Worker!Sent("commandPid")
    PROVE  /\ worker_toParent' \in Seq(Messages)
           /\ \A k : Worker!Sent(k)' <=> Worker!Sent(k) \/ k = m
           /\ \A i \in 1..Len(worker_toParent') : worker_toParent'[i] = "finished" =>
                worker_pid' \/ \E j \in 1..Len(worker_toParent') : j < i /\ worker_toParent'[j] = "commandPid"
PROOF
<1>1. /\ worker_toParent' \in Seq(Messages) /\ Len(worker_toParent') = Len(worker_toParent) + 1
      /\ Len(worker_toParent) \in Nat
      /\ worker_toParent'[Len(worker_toParent) + 1] = m
      /\ \A i \in 1..Len(worker_toParent) : worker_toParent'[i] = worker_toParent[i]
  BY Sending DEF Worker!TypeOK
<1>2. \A k : Worker!Sent(k)' <=> Worker!Sent(k) \/ k = m
  BY <1>1 DEF Worker!Sent
<1>3. ASSUME NEW i \in 1..Len(worker_toParent'), worker_toParent'[i] = "finished", ~worker_pid'
      PROVE  \E j \in 1..Len(worker_toParent') : j < i /\ worker_toParent'[j] = "commandPid"
  <2>1. CASE i \in 1..Len(worker_toParent)
    <3>1. worker_toParent[i] = "finished"
      BY <1>1, <1>3, <2>1
    <3>2. PICK j \in 1..Len(worker_toParent) : j < i /\ worker_toParent[j] = "commandPid"
      BY <1>3, <2>1, <3>1 DEF Worker!Killed
    <3>. QED  BY <1>1, <3>2
  <2>2. CASE i = Len(worker_toParent) + 1
    <3>1. PICK j \in 1..Len(worker_toParent) : worker_toParent[j] = "commandPid"
      BY <1>1, <1>3, <2>2 DEF Worker!Sent
    <3>. QED  BY <1>1, <2>2, <3>1
  <2>. QED  BY <1>1, <2>1, <2>2
<1>. QED  BY <1>1, <1>2, <1>3

\* A step of the worker or of its command, with or without a message.
LEMMA WorkerSteps ==
    ASSUME Worker!IInv, Worker!WorkerStep \/ Worker!CommandExits
    PROVE  Worker!IInv'
PROOF
<1>. USE DEF Worker!IInv
<1>. DEFINE Same == UNCHANGED <<worker_pid, worker_commandKilled, worker_stopping, worker_force, worker_exited,
                                worker_reported, worker_error, worker_failed, worker_confirmed, worker_outcome>>
<1>1. CASE Worker!WorkerReads
  <2>1. /\ worker_toWorker \in Seq({"stop", "finalize"}) /\ worker_toWorker # <<>>
        /\ worker_toWorker' = Tail(worker_toWorker)
        /\ worker_finalize' = (worker_finalize \/ (Head(worker_toWorker) = "finalize" /\ worker_worker = "finished"))
        /\ worker_stopped' \in BOOLEAN /\ worker_finalize' \in BOOLEAN
        /\ Same /\ UNCHANGED <<worker_worker, worker_command, worker_clean, worker_toParent>>
    BY <1>1 DEF Worker!WorkerReads, Worker!TypeOK, Worker!parent
  <2>2. /\ Head(worker_toWorker) = worker_toWorker[1] /\ 1 \in 1..Len(worker_toWorker)
        /\ Tail(worker_toWorker) \in Seq({"stop", "finalize"})
        /\ \A i \in 1..Len(worker_toWorker') : i + 1 \in 1..Len(worker_toWorker)
                                               /\ worker_toWorker'[i] = worker_toWorker[i + 1]
    BY <2>1
  <2>3. Worker!TypeOK'
    BY <2>1, <2>2 DEF Worker!TypeOK
  <2>4. Worker!Confirmed' /\ Worker!AnswersAreClean'
    BY <2>1 DEF Worker!Confirmed, Worker!AnswersAreClean, Worker!Sent
  <2>5. worker_finalize' \/ (\E i \in 1..Len(worker_toWorker') : worker_toWorker'[i] = "finalize") => worker_commandKilled'
    BY <2>1, <2>2 DEF Worker!Killed
  <2>. QED  BY <2>1, <2>3, <2>4, <2>5 DEF Worker!Killed, Worker!Sent
\* The steps that tell the parent something.
<1>2. ASSUME NEW m \in Messages, Worker!Sends(m), Same,
             UNCHANGED <<worker_toWorker, worker_stopped, worker_finalize, worker_command>>,
             worker_clean' \in {worker_clean, TRUE},
             \/ worker_worker = "spawned" /\ worker_worker' = "running" /\ m = "commandPid"
             \/ worker_worker = "unspawned" /\ worker_worker' = "failing" /\ m = "invalid"
             \/ worker_worker = "running" /\ worker_worker' = "finished" /\ m = "finished"
             \/ /\ worker_worker \in {"cleaning", "failing", "failingClean"} /\ worker_worker' = "sent"
                /\ m \in {"result", "error", "cleanupFailed"} /\ (m # "cleanupFailed" => worker_clean')
      PROVE  Worker!IInv'
  <2>1. m = "finished" => worker_pid \/ Worker!Sent("commandPid")
    BY <1>2 DEF Worker!Killed
  <2>2. /\ worker_toParent' \in Seq(Messages)
        /\ \A k : Worker!Sent(k)' <=> Worker!Sent(k) \/ k = m
        /\ \A i \in 1..Len(worker_toParent') : worker_toParent'[i] = "finished" =>
                worker_pid' \/ \E j \in 1..Len(worker_toParent') : j < i /\ worker_toParent'[j] = "commandPid"
    BY <1>2, <2>1, Sends
  <2>3. Worker!TypeOK'
    BY <1>2, <2>2 DEF Worker!TypeOK, Messages
  <2>4. Worker!Confirmed'
    BY <1>2, <2>2 DEF Worker!Confirmed, Worker!TypeOK
  <2>5. Worker!Killed'
    BY <1>2, <2>2 DEF Worker!Killed
  <2>6. Worker!AnswersAreClean'
    BY <1>2 DEF Worker!AnswersAreClean
  <2>. QED  BY <2>3, <2>4, <2>5, <2>6
<1>3. Worker!Keeps => Same /\ UNCHANGED <<worker_toWorker, worker_stopped, worker_finalize>>
  BY DEF Worker!Keeps, Worker!parent
\* The others.
<1>4. ASSUME Same, UNCHANGED <<worker_toWorker, worker_toParent, worker_stopped, worker_finalize>>,
             \/ /\ worker_worker = "starting" /\ worker_worker' \in {"ready", "failing"} /\ UNCHANGED worker_command
                /\ worker_clean' = FALSE
             \/ /\ worker_worker = "ready" /\ worker_worker' \in {"cleaning", "unspawned"}
                /\ UNCHANGED <<worker_command, worker_clean>>
             \/ /\ worker_worker = "ready" /\ worker_worker' = "spawned" /\ worker_command' = "alive"
                /\ UNCHANGED worker_clean
             \/ /\ worker_worker = "finished" /\ worker_finalize /\ worker_worker' = "cleaning"
                /\ UNCHANGED <<worker_command, worker_clean>>
             \/ /\ worker_worker = "cleaning" /\ worker_worker' = "failingClean"
                /\ UNCHANGED <<worker_command, worker_clean>>
             \/ /\ worker_worker # "dead" /\ worker_worker' = "dead"
                /\ UNCHANGED <<worker_command, worker_clean>>
             \/ /\ worker_command = "alive" /\ worker_command' \in {"jobs", "dead"}
                /\ UNCHANGED <<worker_worker, worker_clean>>
      PROVE  Worker!IInv'
  <2>1. Worker!TypeOK'
    BY <1>4 DEF Worker!TypeOK
  <2>2. \A k : Worker!Sent(k)' <=> Worker!Sent(k)
    BY <1>4 DEF Worker!Sent
  <2>3. Worker!Confirmed'
    BY <1>4, <2>2 DEF Worker!Confirmed
  <2>4. Worker!Killed'
    BY <1>4, <2>2 DEF Worker!Killed
  <2>5. Worker!AnswersAreClean'
    BY <1>4 DEF Worker!AnswersAreClean
  <2>. QED  BY <2>1, <2>3, <2>4, <2>5
<1>5. CASE Worker!TellPid
  BY <1>2, <1>3, <1>5 DEF Worker!TellPid, Messages
<1>6. CASE Worker!Finished
  BY <1>2, <1>3, <1>6 DEF Worker!Finished, Messages
<1>7. CASE Worker!CleanUp
  <2>1. CASE worker_worker' = "sent"
    BY <1>2, <1>3, <1>7, <2>1 DEF Worker!CleanUp, Messages
  <2>2. CASE worker_worker' # "sent"
    BY <1>3, <1>4, <1>7, <2>2 DEF Worker!CleanUp
  <2>. QED  BY <2>1, <2>2
<1>8. CASE Worker!Catch
  <2>1. CASE worker_clean' = TRUE /\ Worker!Sends(IF worker_worker = "failing" THEN "error" ELSE "cleanupFailed")
    BY <1>2, <1>3, <1>8, <2>1 DEF Worker!Catch, Messages
  <2>2. CASE Worker!Sends("cleanupFailed") /\ UNCHANGED worker_clean
    BY <1>2, <1>3, <1>8, <2>2 DEF Worker!Catch, Messages
  <2>. QED  BY <1>8, <2>1, <2>2 DEF Worker!Catch
<1>9. CASE Worker!Initialize \/ Worker!Spawn \/ Worker!Finalize
  BY <1>3, <1>4, <1>9 DEF Worker!Initialize, Worker!Spawn, Worker!Finalize
<1>10. CASE Worker!WorkerDies \/ Worker!CommandExits
  BY <1>3, <1>4, <1>10 DEF Worker!WorkerDies, Worker!CommandExits
<1>. QED
  BY <1>1, <1>5, <1>6, <1>7, <1>8, <1>9, <1>10 DEF Worker!WorkerStep

\* The parent stops the command, gives up the worker or hears of its end.
LEMMA ParentKills ==
    ASSUME Worker!WorkerAssumption, Worker!IInv,
           Worker!Stop \/ Worker!InputBreaks \/ Worker!Force \/ Worker!Exit
    PROVE  Worker!IInv'
PROOF
<1>. USE DEF Worker!IInv
<1>1. /\ UNCHANGED <<worker_clean, worker_toParent, worker_stopped, worker_finalize, worker_pid, worker_reported,
                      worker_confirmed, worker_outcome>>
      /\ worker_worker' \in {worker_worker, "dead"}
      /\ {worker_commandKilled', worker_stopping', worker_exited', worker_error', worker_failed'} \subseteq BOOLEAN
      /\ worker_force' \in {"unset", "set", "fired"}
      /\ worker_failed => worker_failed'
      /\ worker_commandKilled => worker_commandKilled' /\ worker_command' = worker_command
      /\ \/ worker_commandKilled' = worker_commandKilled /\ worker_command' = worker_command
         \/ /\ worker_pid /\ worker_commandKilled'
            /\ worker_command' = "dead" \/ (worker_failed' /\ worker_command' = worker_command)
      /\ worker_force' = "fired" => worker_failed'
      /\ worker_exited' => worker_exited \/ worker_worker = "dead"
      /\ worker_toWorker' \in {worker_toWorker, Append(worker_toWorker, "stop")}
  <2>. USE DEF Worker!KillCommand, Worker!Kills, Worker!KillWorker, Worker!Tells, Worker!TypeOK, Worker!WorkerAssumption
  <2>1. CASE Worker!Stop
    BY <2>1 DEF Worker!Stop, Worker!Confirmed
  <2>2. CASE Worker!InputBreaks
    BY <2>2 DEF Worker!InputBreaks, Worker!Confirmed
  <2>3. CASE Worker!Force
    BY <2>3 DEF Worker!Force
  <2>4. CASE Worker!Exit
    BY <2>4 DEF Worker!Exit, Worker!Confirmed
  <2>. QED  BY <2>1, <2>2, <2>3, <2>4
<1>2. /\ worker_toWorker' \in Seq({"stop", "finalize"})
      /\ \A i \in 1..Len(worker_toWorker') : worker_toWorker'[i] = "finalize" =>
             i \in 1..Len(worker_toWorker) /\ worker_toWorker[i] = "finalize"
  <2>1. worker_toWorker \in Seq({"stop", "finalize"})
    BY DEF Worker!TypeOK
  <2>. QED  BY <1>1, <2>1
<1>3. Worker!TypeOK'
  BY <1>1, <1>2 DEF Worker!TypeOK
<1>4. \A k : Worker!Sent(k)' <=> Worker!Sent(k)
  BY <1>1 DEF Worker!Sent
<1>5. Worker!Confirmed'
  BY <1>1, <1>4 DEF Worker!Confirmed
<1>6. Worker!Killed'
  <2>1. /\ worker_worker' \in {"starting", "ready", "unspawned", "failing"} => worker_command' = "none"
        /\ worker_worker' \in {"starting", "ready", "unspawned", "failing"} =>
              ~worker_pid' /\ ~worker_commandKilled' /\ ~Worker!Sent("commandPid")'
        /\ worker_commandKilled' => worker_command' = "dead" \/ worker_failed'
        /\ worker_worker' = "running" => worker_pid' \/ Worker!Sent("commandPid")'
        /\ worker_worker' \in {"cleaning", "failingClean"} => worker_command' = "none" \/ worker_commandKilled'
    BY <1>1, <1>4 DEF Worker!Killed
  <2>2. worker_finalize' \/ (\E i \in 1..Len(worker_toWorker') : worker_toWorker'[i] = "finalize") => worker_commandKilled'
    BY <1>1, <1>2 DEF Worker!Killed
  <2>3. \A i \in 1..Len(worker_toParent') : worker_toParent'[i] = "finished" =>
           worker_pid' \/ \E j \in 1..Len(worker_toParent') : j < i /\ worker_toParent'[j] = "commandPid"
    BY <1>1 DEF Worker!Killed
  <2>. QED  BY <2>1, <2>2, <2>3 DEF Worker!Killed
<1>7. Worker!AnswersAreClean'
  BY <1>1 DEF Worker!AnswersAreClean
<1>. QED  BY <1>3, <1>5, <1>6, <1>7

\* The parent reads a message.
LEMMA ParentReads ==
    ASSUME Worker!WorkerAssumption, Worker!IInv, Worker!Handle
    PROVE  Worker!IInv'
PROOF
<1>. USE DEF Worker!IInv
<1>. DEFINE m == Head(worker_toParent)
<1>1. /\ worker_toParent \in Seq(Messages) /\ worker_toParent # <<>> /\ worker_toParent' = Tail(worker_toParent)
      /\ worker_toWorker \in Seq({"stop", "finalize"})
  BY DEF Worker!Handle, Worker!TypeOK, Messages
<1>2. /\ 1 \in 1..Len(worker_toParent) /\ m = worker_toParent[1] /\ m \in Messages
      /\ worker_toParent' \in Seq(Messages)
      /\ Len(worker_toParent') = Len(worker_toParent) - 1 /\ Len(worker_toParent) \in Nat
      /\ \A i \in 1..Len(worker_toParent') : i + 1 \in 1..Len(worker_toParent)
                                            /\ worker_toParent'[i] = worker_toParent[i + 1]
  BY <1>1
<1>3. /\ Worker!Sent(m)
      /\ \A k : Worker!Sent(k)' => Worker!Sent(k)
      /\ \A k : Worker!Sent(k) => Worker!Sent(k)' \/ k = m
  <2>1. Worker!Sent(m)
    BY <1>2 DEF Worker!Sent
  <2>2. \A k : Worker!Sent(k)' => Worker!Sent(k)
    BY <1>2 DEF Worker!Sent
  <2>3. ASSUME NEW i \in 1..Len(worker_toParent), i # 1
        PROVE  i - 1 \in 1..Len(worker_toParent') /\ worker_toParent'[i - 1] = worker_toParent[i]
    <3>1. i - 1 \in 1..Len(worker_toParent') /\ (i - 1) + 1 = i
      BY <1>2, <2>3
    <3>. QED  BY <1>2, <3>1
  <2>4. \A k : Worker!Sent(k) => Worker!Sent(k)' \/ k = m
    BY <1>2, <2>3 DEF Worker!Sent
  <2>. QED  BY <2>1, <2>2, <2>4
\* What ends is known, so that it is killed.
<1>4. m = "finished" => worker_pid
  <2>. SUFFICES ASSUME m = "finished", ~worker_pid PROVE FALSE
    OBVIOUS
  <2>1. PICK j \in 1..Len(worker_toParent) : j < 1
    BY <1>2 DEF Worker!Killed
  <2>. QED  BY <2>1
<1>5. /\ UNCHANGED <<worker_clean, worker_stopped, worker_finalize, worker_stopping, worker_force, worker_exited, worker_outcome>>
      /\ worker_pid' = (worker_pid \/ m = "commandPid")
      /\ worker_worker' = IF m \in {"commandPid", "finished"} THEN worker_worker ELSE "dead"
      /\ {worker_pid', worker_commandKilled', worker_reported', worker_confirmed', worker_error', worker_failed'} \subseteq BOOLEAN
      /\ worker_failed => worker_failed'
      /\ worker_commandKilled => worker_commandKilled' /\ worker_command' = worker_command
      /\ \/ worker_commandKilled' = worker_commandKilled /\ worker_command' = worker_command
         \/ /\ worker_pid' /\ worker_commandKilled'
            /\ worker_command' = "dead" \/ (worker_failed' /\ worker_command' = worker_command)
      /\ worker_confirmed' => worker_confirmed \/ m \in {"result", "error"}
      /\ m = "finished" => worker_commandKilled'
      /\ \/ worker_toWorker' = worker_toWorker
         \/ worker_toWorker' = Append(worker_toWorker, "finalize") /\ m = "finished"
  <2>1. PICK fails \in {FALSE, KillFails} :
              /\ Worker!KillCommand(Worker!KnownAt(m), fails)
              /\ worker_failed' = (worker_failed \/ (Worker!Kills(Worker!KnownAt(m)) /\ fails) \/ m = "cleanupFailed")
    BY DEF Worker!Handle
  <2>2. /\ UNCHANGED <<worker_clean, worker_stopped, worker_finalize, worker_stopping, worker_force, worker_exited, worker_outcome>>
        /\ worker_pid' = (worker_pid \/ m = "commandPid")
        /\ worker_worker' = IF m \in {"commandPid", "finished"} THEN worker_worker ELSE "dead"
        /\ worker_reported'  = (worker_reported \/ m = "result")
        /\ worker_confirmed' = (worker_confirmed \/ m \in {"result", "error"})
        /\ worker_error'     = (worker_error \/ m \in {"error", "invalid"})
        /\ \/ worker_toWorker' = worker_toWorker
           \/ worker_toWorker' = Append(worker_toWorker, "finalize") /\ m = "finished"
    BY DEF Worker!Handle, Worker!KillWorker, Worker!Tells
  <2>3. {worker_pid', worker_commandKilled', worker_reported', worker_confirmed', worker_error', worker_failed'} \subseteq BOOLEAN
    BY <2>1, <2>2 DEF Worker!TypeOK, Worker!KillCommand, Worker!WorkerAssumption
  <2>4. Worker!KnownAt(m) => worker_pid'
    BY <2>2 DEF Worker!KnownAt
  <2>5. m = "finished" => Worker!KnownAt(m)
    BY <1>4 DEF Worker!KnownAt
  <2>6. /\ worker_failed => worker_failed'
        /\ worker_commandKilled => worker_commandKilled' /\ worker_command' = worker_command
        /\ \/ worker_commandKilled' = worker_commandKilled /\ worker_command' = worker_command
           \/ /\ worker_pid' /\ worker_commandKilled'
              /\ worker_command' = "dead" \/ (worker_failed' /\ worker_command' = worker_command)
        /\ m = "finished" => worker_commandKilled'
    BY <2>1, <2>4, <2>5 DEF Worker!KillCommand, Worker!Kills, Worker!TypeOK
  <2>. QED  BY <2>2, <2>3, <2>6
<1>6. /\ worker_toWorker' \in Seq({"stop", "finalize"})
      /\ \A i \in 1..Len(worker_toWorker') : worker_toWorker'[i] = "finalize" =>
             m = "finished" \/ (i \in 1..Len(worker_toWorker) /\ worker_toWorker[i] = "finalize")
  <2>1. CASE worker_toWorker' = worker_toWorker
    BY <1>1, <2>1
  <2>2. CASE worker_toWorker' = Append(worker_toWorker, "finalize") /\ m = "finished"
    <3>1. worker_toWorker' \in Seq({"stop", "finalize"})
      BY <1>1, <2>2
    <3>. QED  BY <2>2, <3>1
  <2>. QED  BY <1>5, <2>1, <2>2
<1>7. Worker!TypeOK'
  BY <1>2, <1>5, <1>6 DEF Worker!TypeOK, Messages
<1>8. Worker!Confirmed'
  BY <1>3, <1>5 DEF Worker!Confirmed
<1>9. Worker!Killed'
  <2>1. /\ worker_worker' \in {"starting", "ready", "unspawned", "failing"} => worker_command' = "none"
        /\ worker_worker' \in {"starting", "ready", "unspawned", "failing"} =>
              ~worker_pid' /\ ~worker_commandKilled' /\ ~Worker!Sent("commandPid")'
        /\ worker_commandKilled' => worker_command' = "dead" \/ worker_failed'
        /\ worker_worker' = "running" => worker_pid' \/ Worker!Sent("commandPid")'
        /\ worker_worker' \in {"cleaning", "failingClean"} => worker_command' = "none" \/ worker_commandKilled'
    BY <1>3, <1>4, <1>5 DEF Worker!Killed
  <2>2. worker_finalize' \/ (\E i \in 1..Len(worker_toWorker') : worker_toWorker'[i] = "finalize") => worker_commandKilled'
    BY <1>5, <1>6 DEF Worker!Killed
  <2>3. ASSUME NEW i \in 1..Len(worker_toParent'), worker_toParent'[i] = "finished", ~worker_pid'
        PROVE  \E j \in 1..Len(worker_toParent') : j < i /\ worker_toParent'[j] = "commandPid"
    <3>1. ~worker_pid /\ m # "commandPid" /\ i + 1 \in 1..Len(worker_toParent) /\ worker_toParent[i + 1] = "finished"
      BY <1>2, <1>5, <2>3
    <3>2. PICK j \in 1..Len(worker_toParent) : j < i + 1 /\ worker_toParent[j] = "commandPid"
      BY <3>1 DEF Worker!Killed
    <3>3. j # 1
      BY <1>2, <3>1, <3>2
    <3>4. j - 1 \in 1..Len(worker_toParent') /\ j - 1 < i /\ (j - 1) + 1 = j
      BY <1>2, <3>2, <3>3
    <3>5. worker_toParent'[j - 1] = "commandPid"
      BY <1>2, <3>2, <3>4
    <3>. QED  BY <3>4, <3>5
  <2>. QED  BY <2>1, <2>2, <2>3 DEF Worker!Killed
<1>10. Worker!AnswersAreClean'
  BY <1>5 DEF Worker!AnswersAreClean
<1>. QED  BY <1>7, <1>8, <1>9, <1>10

\* The parent answers.
LEMMA ParentAnswers ==
    ASSUME Worker!IInv, Worker!Close
    PROVE  Worker!IInv'
PROOF
<1>. USE DEF Worker!IInv
<1>1. /\ UNCHANGED <<worker_worker, worker_command, worker_clean, worker_toWorker, worker_toParent, worker_stopped,
                      worker_finalize, worker_pid, worker_commandKilled, worker_stopping, worker_force, worker_exited,
                      worker_reported, worker_error, worker_failed, worker_confirmed>>
      /\ worker_exited /\ (worker_command \in {"none", "dead"} \/ worker_force = "fired")
      /\ worker_outcome' \in {"cleanupError", "error", "result"}
      /\ worker_outcome' # "cleanupError" => ~worker_failed /\ worker_confirmed
  BY DEF Worker!Close, Worker!parent
<1>2. \A k : Worker!Sent(k)' <=> Worker!Sent(k)
  BY <1>1 DEF Worker!Sent
<1>3. Worker!TypeOK' /\ Worker!Confirmed' /\ Worker!Killed'
  BY <1>1, <1>2 DEF Worker!TypeOK, Worker!Confirmed, Worker!Killed
<1>4. Worker!AnswersAreClean'
  BY <1>1 DEF Worker!AnswersAreClean, Worker!Confirmed
<1>. QED  BY <1>3, <1>4

LEMMA WorkerInvariance == ASSUME Worker!WorkerAssumption PROVE Worker!Spec => []Worker!IInv
PROOF
<1>1. Worker!IInv /\ [Worker!Next]_(Worker!vars) => Worker!IInv'
  <2>. SUFFICES ASSUME Worker!IInv, [Worker!Next]_(Worker!vars)
                PROVE  Worker!IInv'
    OBVIOUS
  <2>1. CASE UNCHANGED Worker!vars
    BY <2>1 DEF Worker!vars, Worker!parent, Worker!IInv, Worker!TypeOK, Worker!Confirmed,
       Worker!Killed, Worker!Sent,
       Worker!AnswersAreClean
  <2>2. CASE Worker!Next
    BY <2>2, WorkerSteps, ParentKills, ParentReads, ParentAnswers DEF Worker!Next
  <2>. QED  BY <2>1, <2>2
<1>. QED  BY <1>1, WorkerBegins, PTL DEF Worker!Spec

\* An answer other than a cleanup error is a promise: the command, its jobs and the worker are
\* gone and the runtime is reset, whoever was killed, late or silent.
THEOREM SandboxAnswers == ASSUME Worker!WorkerAssumption PROVE Worker!Spec => []Worker!AnswersAreClean
PROOF
<1>1. Worker!IInv => Worker!AnswersAreClean
  BY DEF Worker!IInv
<1>. QED  BY <1>1, WorkerInvariance, PTL

\* The runtime is not torn down under a command that lives, unless killing it has failed.
THEOREM ResetsAfterCommand ==
    ASSUME Worker!WorkerAssumption PROVE Worker!Spec => Worker!ResetAfterCommand
PROOF
<1>1. Worker!IInv /\ [Worker!Next]_(Worker!vars) =>
        [worker_clean' /\ ~worker_clean => worker_command \in {"none", "dead"} \/ worker_failed]_(Worker!vars)
  <2>. SUFFICES ASSUME Worker!IInv, Worker!Next, worker_clean', ~worker_clean
                PROVE  worker_command \in {"none", "dead"} \/ worker_failed
    OBVIOUS
  <2>1. worker_worker \in {"cleaning", "failing", "failingClean"}
    BY DEF Worker!Next, Worker!WorkerStep, Worker!WorkerReads, Worker!Initialize, Worker!Spawn,
       Worker!TellPid,
       Worker!Finished, Worker!Finalize, Worker!CleanUp, Worker!Catch, Worker!WorkerDies, Worker!CommandExits,
       Worker!Stop, Worker!InputBreaks, Worker!Force, Worker!Handle, Worker!Exit, Worker!Close
  <2>. QED  BY <2>1 DEF Worker!IInv, Worker!Killed
<1>. QED
  BY <1>1, WorkerInvariance, PTL DEF Worker!ResetAfterCommand, Worker!Spec

-----------------------------------------------------------------------------
(* The sandbox of the commands of Pi *)

Tickets == ({"acquire", "reset"} \X Sandboxed) \union ({"command"} \X Commands)

\* Finite sets are those of the module that counts them.
LEMMA SameFinite == \A S : Sandbox!IsFiniteSet(S) <=> IsFiniteSet(S)
BY DEF Sandbox!IsFiniteSet, IsFiniteSet

LEMMA SameCardinality == \A S : Sandbox!Cardinality(S) = Cardinality(S)
BY DEF Sandbox!Cardinality, Cardinality

LEMMA SandboxBegins == Sandbox!Init => Sandbox!IInv
PROOF
<1>. SUFFICES ASSUME Sandbox!Init
              PROVE  Sandbox!IInv
  OBVIOUS
<1>1. Cardinality({}) = 0
  BY FS_EmptySet
<1>2. Sandbox!TypeOK
  <2>1. sandbox_queue \in Seq(Tickets)
    BY DEF Sandbox!Init
  <2>. QED  BY <2>1 DEF Sandbox!Init, Sandbox!TypeOK, Tickets
<1>3. Sandbox!Counted
  <2>1. Sandbox!Busy = {} /\ sandbox_acquired = {}
    BY DEF Sandbox!Init, Sandbox!Busy
  <2>2. sandbox_sessions = 0 /\ sandbox_commands = 0 /\ \A s \in Sandboxed : sandbox_state[s] = "new"
    BY DEF Sandbox!Init
  <2>3. Cardinality(Sandbox!Busy) = 0 /\ Cardinality(sandbox_acquired) = 0
    BY <1>1, <2>1
  <2>. QED  BY <2>2, <2>3, SameCardinality DEF Sandbox!Counted
<1>4. Sandbox!Queued /\ Sandbox!Held
  BY DEF Sandbox!Init, Sandbox!Queued, Sandbox!Held
<1>. QED  BY <1>2, <1>3, <1>4 DEF Sandbox!IInv

\* Who joins the queue leaves its first where it is.
LEMMA Joins ==
    ASSUME sandbox_queue \in Seq(Tickets), NEW what, NEW who, <<what, who>> \in Tickets,
           Sandbox!Join(what, who), UNCHANGED sandbox_windows
    PROVE  /\ sandbox_queue' \in Seq(Tickets)
           /\ sandbox_queue # <<>> => sandbox_queue' # <<>> /\ Head(sandbox_queue') = Head(sandbox_queue)
           /\ \A w, x : Sandbox!Turn(w, x) => Sandbox!Turn(w, x)'
PROOF
<1>1. sandbox_queue' = sandbox_queue \/ sandbox_queue' = Append(sandbox_queue, <<what, who>>)
  BY DEF Sandbox!Join
<1>2. CASE sandbox_queue' = sandbox_queue
  BY <1>2 DEF Sandbox!Turn
<1>3. CASE sandbox_queue' = Append(sandbox_queue, <<what, who>>)
  <2>1. sandbox_queue' \in Seq(Tickets)
    BY <1>3
  <2>2. sandbox_queue # <<>> => sandbox_queue' # <<>> /\ Head(sandbox_queue') = Head(sandbox_queue)
    BY <1>3
  <2>. QED  BY <2>1, <2>2 DEF Sandbox!Turn
<1>. QED  BY <1>1, <1>2, <1>3

\* The counters, when one is added or taken away.
LEMMA Finite ==
    ASSUME Sandbox!SandboxAssumption, Sandbox!TypeOK
    PROVE  /\ IsFiniteSet(sandbox_acquired) /\ IsFiniteSet(Sandbox!Busy)
           /\ IsFiniteSet(Sandbox!Acquirers) /\ IsFiniteSet(Sandbox!Entering)
           /\ Sandbox!Needs \subseteq Sandboxed /\ Sandbox!Entering \subseteq Sandbox!Busy
PROOF
<1>1. /\ sandbox_acquired \subseteq Sandboxed /\ Sandbox!Busy \subseteq Commands
      /\ Sandbox!Acquirers \subseteq Sandboxed /\ Sandbox!Entering \subseteq Commands
  BY DEF Sandbox!TypeOK, Sandbox!Busy, Sandbox!Acquirers, Sandbox!Entering
<1>2. Sandbox!Needs \subseteq Sandboxed /\ Sandbox!Entering \subseteq Sandbox!Busy
  BY <1>1 DEF Sandbox!Needs, Sandbox!Entering, Sandbox!Busy, Sandbox!SandboxAssumption
<1>3. IsFiniteSet(Sandboxed) /\ IsFiniteSet(Commands)
  BY SameFinite DEF Sandbox!SandboxAssumption
<1>4. IsFiniteSet(sandbox_acquired) /\ IsFiniteSet(Sandbox!Acquirers)
  BY <1>1, <1>3, FS_Subset
<1>5. IsFiniteSet(Sandbox!Busy) /\ IsFiniteSet(Sandbox!Entering)
  BY <1>1, <1>3, FS_Subset
<1>. QED  BY <1>2, <1>4, <1>5

\* On Windows there is one first in the queue.
LEMMA OneTurn ==
    ASSUME sandbox_windows, NEW v, NEW x, NEW w, NEW y, Sandbox!Turn(v, x), Sandbox!Turn(w, y)
    PROVE  v = w /\ x = y
BY DEF Sandbox!Turn

\* The setup of the sandbox.
LEMMA SetsUp ==
    ASSUME Sandbox!SandboxAssumption, Sandbox!IInv, Sandbox!Initialize \/ Sandbox!Prepared \/ Sandbox!Replace
    PROVE  Sandbox!IInv'
PROOF
<1>. USE DEF Sandbox!IInv
<1>1. UNCHANGED <<sandbox_windows, sandbox_sessions, sandbox_commands, sandbox_state, sandbox_acquired, sandbox_command,
                  sandbox_queue, sandbox_updates, sandbox_late>>
  BY DEF Sandbox!Initialize, Sandbox!Prepared, Sandbox!Replace
<1>2. Sandbox!Counted'
  BY <1>1 DEF Sandbox!Counted, Sandbox!Busy
<1>3. /\ \A w, x : Sandbox!Turn(w, x)' <=> Sandbox!Turn(w, x)
      /\ Sandbox!Needs' = Sandbox!Needs
  BY <1>1 DEF Sandbox!Turn, Sandbox!Needs, Sandbox!Acquirers, Sandbox!Entering
<1>4. CASE Sandbox!Initialize
  <2>1. Sandbox!TypeOK'
    BY <1>1, <1>4 DEF Sandbox!Initialize, Sandbox!TypeOK
  <2>2. Sandbox!Queued'
    BY <1>1, <1>3, <1>4 DEF Sandbox!Initialize, Sandbox!Queued
  <2>3. Sandbox!Held'
    BY <1>1, <1>4 DEF Sandbox!Initialize, Sandbox!Held
  <2>. QED  BY <1>2, <2>1, <2>2, <2>3
<1>5. CASE Sandbox!Prepared
  <2>1. Sandbox!TypeOK'
    <3>1. sandbox_windows => Sandbox!Needs # {} /\ Sandbox!Needs \subseteq Sandboxed
      BY <1>5, Finite DEF Sandbox!Queued, Sandbox!Prepared
    <3>2. sandbox_policy' \in {Workspace[s] : s \in Sandboxed} \union {None}
      BY <1>5, <3>1 DEF Sandbox!Prepared
    <3>. QED  BY <1>1, <1>5, <3>2 DEF Sandbox!Prepared, Sandbox!TypeOK
  <2>2. Sandbox!Queued'
    BY <1>1, <1>3, <1>5 DEF Sandbox!Prepared, Sandbox!Queued
  <2>3. Sandbox!Held'
    BY <1>1, <1>5 DEF Sandbox!Prepared, Sandbox!Held
  <2>. QED  BY <1>2, <2>1, <2>2, <2>3
<1>6. CASE Sandbox!Replace
  <2>1. Sandbox!TypeOK'
    BY <1>1, <1>6 DEF Sandbox!Replace, Sandbox!TypeOK
  <2>2. PICK s \in Sandbox!Needs : sandbox_windows /\ sandbox_initialized = "done" /\ sandbox_policy # Workspace[s]
    BY <1>6 DEF Sandbox!Replace, Sandbox!Serves
  <2>3. \/ Sandbox!Turn("acquire", s)
        \/ \E c \in Commands : Sandbox!Turn("command", c) /\ sandbox_command[c] = "entering" /\ Of[c] = s
    BY <2>2 DEF Sandbox!Needs, Sandbox!Acquirers, Sandbox!Entering
  <2>4. \A c \in Commands : sandbox_command[c] # "running"
    BY <2>2, <2>3, OneTurn DEF Sandbox!Queued
  <2>5. s \in Sandboxed
    BY <2>2, Finite
  <2>6. Sandbox!Queued'
    <3>1. \/ UNCHANGED <<sandbox_initialized, sandbox_policy>>
          \/ sandbox_initialized' = "none"
      BY <1>6 DEF Sandbox!Replace
    <3>2. /\ sandbox_queue # <<>>
          /\ \/ Head(sandbox_queue) = <<"acquire", s>>
             \/ \E c \in Commands : Head(sandbox_queue) = <<"command", c>> /\ sandbox_command[c] = "entering"
                                    /\ sandbox_policy # Workspace[Of[c]]
      BY <2>2, <2>3 DEF Sandbox!Turn
    <3>. QED  BY <1>1, <1>3, <2>2, <2>5, <3>1, <3>2 DEF Sandbox!Queued
  <2>7. Sandbox!Held'
    BY <1>1, <2>2, <2>4 DEF Sandbox!Held
  <2>. QED  BY <1>2, <2>1, <2>6, <2>7
<1>. QED  BY <1>4, <1>5, <1>6

\* A setup that fails: who waits for it is no longer counted.
LEMMA FailsToSetUp ==
    ASSUME Sandbox!SandboxAssumption, Sandbox!IInv, Sandbox!Refused
    PROVE  Sandbox!IInv'
PROOF
<1>. USE DEF Sandbox!IInv
<1>1. /\ UNCHANGED <<sandbox_windows, sandbox_policy, sandbox_updates, sandbox_late>>
      /\ sandbox_initialized = "pending" /\ sandbox_initialized' = "none" /\ sandbox_manager' = "off"
      /\ sandbox_state' = [s \in Sandboxed |-> IF s \in Sandbox!Acquirers THEN "ready" ELSE sandbox_state[s]]
      /\ sandbox_acquired' = sandbox_acquired \ Sandbox!Acquirers
      /\ sandbox_sessions' = sandbox_sessions - Cardinality(Sandbox!Acquirers)
      /\ sandbox_command' = [c \in Commands |-> IF c \in Sandbox!Entering THEN "over" ELSE sandbox_command[c]]
      /\ sandbox_commands' = sandbox_commands - Cardinality(Sandbox!Entering)
      /\ sandbox_queue' = IF sandbox_windows THEN Tail(sandbox_queue) ELSE sandbox_queue
  BY SameCardinality DEF Sandbox!Refused, Sandbox!Leave
<1>2. /\ \A s \in Sandboxed : sandbox_state'[s] = IF s \in Sandbox!Acquirers THEN "ready" ELSE sandbox_state[s]
      /\ \A c \in Commands : sandbox_command'[c] = IF c \in Sandbox!Entering THEN "over" ELSE sandbox_command[c]
      /\ \A s \in Sandbox!Acquirers : sandbox_state[s] = "acquiring"
      /\ \A c \in Sandbox!Entering : sandbox_command[c] = "entering"
  BY <1>1 DEF Sandbox!Acquirers, Sandbox!Entering
\* On Windows it is the first of the queue that waits, so that nothing runs or stops.
<1>3. ASSUME sandbox_windows
      PROVE  /\ sandbox_queue # <<>>
             /\ \A c \in Commands : sandbox_command[c] # "running"
             /\ \A s \in Sandboxed : sandbox_state[s] # "stopping"
  <2>1. PICK s \in Sandbox!Needs : TRUE
    BY <1>1, <1>3 DEF Sandbox!Queued
  <2>2. \/ Sandbox!Turn("acquire", s)
        \/ \E c \in Commands : Sandbox!Turn("command", c) /\ sandbox_command[c] = "entering"
    BY <2>1 DEF Sandbox!Needs, Sandbox!Acquirers, Sandbox!Entering
  <2>. QED  BY <1>3, <2>2, OneTurn DEF Sandbox!Queued, Sandbox!Turn
<1>4. sandbox_sessions' = Cardinality(sandbox_acquired') /\ sandbox_sessions' \in Nat
  <2>1. Sandbox!Acquirers \subseteq sandbox_acquired
    BY DEF Sandbox!Counted, Sandbox!Acquirers
  <2>2. sandbox_acquired \cap Sandbox!Acquirers = Sandbox!Acquirers
    BY <2>1
  <2>3. IsFiniteSet(sandbox_acquired)
    BY Finite
  <2>4. Cardinality(sandbox_acquired \ Sandbox!Acquirers)
          = Cardinality(sandbox_acquired) - Cardinality(Sandbox!Acquirers)
    BY <2>2, <2>3, FS_Difference
  <2>5. Cardinality(sandbox_acquired') \in Nat
    BY <1>1, <2>3, FS_Difference, FS_CardinalityType
  <2>. QED  BY <1>1, <2>4, <2>5, SameCardinality DEF Sandbox!Counted
<1>5. sandbox_commands' = Cardinality(Sandbox!Busy') /\ sandbox_commands' \in Nat
  <2>1. Sandbox!Busy \cap Sandbox!Entering = Sandbox!Entering /\ IsFiniteSet(Sandbox!Busy)
    BY Finite
  <2>2. Sandbox!Busy' = Sandbox!Busy \ Sandbox!Entering
    BY <1>2 DEF Sandbox!Busy
  <2>3. Cardinality(Sandbox!Busy \ Sandbox!Entering) = Cardinality(Sandbox!Busy) - Cardinality(Sandbox!Entering)
    BY <2>1, FS_Difference
  <2>4. Cardinality(Sandbox!Busy \ Sandbox!Entering) \in Nat
    BY <2>1, FS_Difference, FS_CardinalityType
  <2>. QED  BY <1>1, <2>2, <2>3, <2>4, SameCardinality DEF Sandbox!Counted
<1>6. Sandbox!TypeOK'
  <2>1. sandbox_queue' \in Seq(Tickets)
    BY <1>1, <1>3 DEF Sandbox!TypeOK, Tickets
  <2>2. /\ sandbox_state' \in [Sandboxed -> {"new", "acquiring", "ready", "waiting", "queued", "stopping", "closed"}]
        /\ sandbox_command' \in [Commands -> {"idle", "entering", "running", "over"}]
    BY <1>1 DEF Sandbox!TypeOK
  <2>. QED  BY <1>1, <1>4, <1>5, <2>1, <2>2 DEF Sandbox!TypeOK, Tickets
<1>7. Sandbox!Counted'
  <2>1. \A s \in Sandboxed : sandbox_state'[s] = "acquiring" => s \in sandbox_acquired'
    BY <1>1, <1>2 DEF Sandbox!Counted
  <2>. QED  BY <1>4, <1>5, <2>1, SameCardinality DEF Sandbox!Counted
<1>8. \A s \in Sandboxed : sandbox_state'[s] \in {"stopping", "queued"} => sandbox_state[s] = sandbox_state'[s]
  BY <1>2
<1>9. \A c \in Commands : sandbox_command'[c] = "running" => sandbox_command[c] = "running"
  BY <1>2
<1>10. Sandbox!Queued'
  BY <1>1, <1>3, <1>8, <1>9 DEF Sandbox!Queued, Sandbox!Turn
<1>11. Sandbox!Held'
  BY <1>1, <1>8, <1>9 DEF Sandbox!Held
<1>. QED  BY <1>6, <1>7, <1>10, <1>11

\* A session begins and a command is called.
LEMMA Arrives ==
    ASSUME Sandbox!SandboxAssumption, Sandbox!IInv,
           (\E s \in Sandboxed : Sandbox!Begin(s)) \/ (\E c \in Commands : Sandbox!Exec(c))
    PROVE  Sandbox!IInv'
PROOF
<1>. USE DEF Sandbox!IInv
<1>1. sandbox_queue \in Seq(Tickets)
  BY DEF Sandbox!TypeOK, Tickets
<1>2. /\ IsFiniteSet(sandbox_acquired) /\ IsFiniteSet(Sandbox!Busy)
      /\ sandbox_sessions = Cardinality(sandbox_acquired) /\ sandbox_commands = Cardinality(Sandbox!Busy)
  BY Finite, SameCardinality DEF Sandbox!Counted
\* What the two have in common.
<1>3. ASSUME UNCHANGED <<sandbox_windows, sandbox_manager, sandbox_initialized, sandbox_policy, sandbox_late>>,
             sandbox_queue' \in Seq(Tickets),
             sandbox_queue # <<>> => sandbox_queue' # <<>> /\ Head(sandbox_queue') = Head(sandbox_queue),
             \A w, x : Sandbox!Turn(w, x) => Sandbox!Turn(w, x)',
             sandbox_updates' \in Nat, sandbox_acquired' \subseteq Sandboxed,
             sandbox_sessions' = Cardinality(sandbox_acquired'), sandbox_sessions' \in Nat,
             sandbox_commands' = Cardinality(Sandbox!Busy'), sandbox_commands' \in Nat,
             sandbox_state' \in [Sandboxed -> {"new", "acquiring", "ready", "waiting", "queued", "stopping", "closed"}],
             sandbox_command' \in [Commands -> {"idle", "entering", "running", "over"}],
             \A s \in Sandboxed :
                \/ sandbox_state'[s] = sandbox_state[s]
                \/ sandbox_state[s] \in {"new", "ready"} /\ sandbox_state'[s] \in {"acquiring", "ready"},
             \A s \in Sandboxed : sandbox_state'[s] = "acquiring" => s \in sandbox_acquired',
             \A c \in Commands :
                sandbox_command'[c] = sandbox_command[c] \/ (sandbox_command[c] = "idle" /\ sandbox_command'[c] = "entering")
      PROVE  Sandbox!IInv'
  <2>1. Sandbox!TypeOK' /\ Sandbox!Counted'
    BY <1>3, SameCardinality DEF Sandbox!TypeOK, Sandbox!Counted, Tickets
  <2>2. \A s \in Sandboxed : sandbox_state'[s] \in {"stopping", "queued"} <=> sandbox_state[s] \in {"stopping", "queued"}
    BY <1>3
  <2>3. \A s \in Sandboxed : sandbox_state'[s] = "stopping" <=> sandbox_state[s] = "stopping"
    BY <1>3
  <2>4. \A c \in Commands : sandbox_command'[c] = "running" <=> sandbox_command[c] = "running"
    BY <1>3
  <2>5. \A x \in Sandbox!Needs : x \in Sandbox!Needs'
    <3>1. \A s \in Sandbox!Acquirers : s \in Sandbox!Acquirers'
      BY <1>3 DEF Sandbox!Acquirers
    <3>2. \A c \in Sandbox!Entering : c \in Sandbox!Entering'
      BY <1>3 DEF Sandbox!Entering
    <3>. QED  BY <3>1, <3>2 DEF Sandbox!Needs
  <2>6. Sandbox!Queued'
    <3>1. sandbox_windows' /\ sandbox_initialized' = "pending" => Sandbox!Needs' # {}
      BY <1>3, <2>5 DEF Sandbox!Queued
    <3>2. \A c \in Commands : sandbox_command[c] = "entering" => sandbox_command'[c] = "entering"
      BY <1>3
    <3>. QED  BY <1>3, <2>3, <2>4, <3>1, <3>2 DEF Sandbox!Queued
  <2>7. Sandbox!Held'
    BY <1>3, <2>2, <2>3, <2>4 DEF Sandbox!Held
  <2>. QED  BY <2>1, <2>6, <2>7
<1>4. ASSUME NEW s \in Sandboxed, Sandbox!Begin(s)
      PROVE  Sandbox!IInv'
  <2>1. /\ UNCHANGED <<sandbox_windows, sandbox_manager, sandbox_initialized, sandbox_policy, sandbox_commands,
                        sandbox_command, sandbox_late>>
        /\ sandbox_updates' \in {sandbox_updates, sandbox_updates + 1} /\ sandbox_state[s] \in {"new", "ready"}
    BY <1>4 DEF Sandbox!Begin, Sandbox!sandbox
  <2>2. Sandbox!Busy' = Sandbox!Busy
    BY <2>1 DEF Sandbox!Busy
  <2>3. CASE /\ s \notin sandbox_acquired /\ sandbox_acquired' = sandbox_acquired \union {s}
             /\ sandbox_sessions' = sandbox_sessions + 1
             /\ Sandbox!State(s, "acquiring") /\ Sandbox!Join("acquire", s)
    <3>1. sandbox_sessions' = Cardinality(sandbox_acquired') /\ sandbox_sessions' \in Nat
      <4>1. Cardinality(sandbox_acquired \union {s}) = Cardinality(sandbox_acquired) + 1
        BY <1>2, <2>3, FS_AddElement
      <4>. QED  BY <1>2, <2>3, <4>1, FS_CardinalityType
    <3>2. <<"acquire", s>> \in Tickets
      BY DEF Tickets
    <3>3. /\ sandbox_queue' \in Seq(Tickets)
          /\ sandbox_queue # <<>> => sandbox_queue' # <<>> /\ Head(sandbox_queue') = Head(sandbox_queue)
          /\ \A w, x : Sandbox!Turn(w, x) => Sandbox!Turn(w, x)'
      BY <1>1, <2>1, <2>3, <3>2, Joins
    <3>4. /\ sandbox_state' \in [Sandboxed -> {"new", "acquiring", "ready", "waiting", "queued", "stopping", "closed"}]
          /\ sandbox_state'[s] = "acquiring" /\ \A z \in Sandboxed \ {s} : sandbox_state'[z] = sandbox_state[z]
      BY <2>3 DEF Sandbox!State, Sandbox!TypeOK
    <3>5. \A z \in Sandboxed : sandbox_state'[z] = "acquiring" => z \in sandbox_acquired'
      BY <2>3, <3>4 DEF Sandbox!Counted
    <3>. QED  BY <1>2, <1>3, <2>1, <2>2, <2>3, <3>1, <3>3, <3>4, <3>5 DEF Sandbox!TypeOK
  <2>4. CASE Sandbox!State(s, "ready") /\ UNCHANGED <<sandbox_acquired, sandbox_sessions, sandbox_queue>>
    <3>1. /\ sandbox_state' \in [Sandboxed -> {"new", "acquiring", "ready", "waiting", "queued", "stopping", "closed"}]
          /\ sandbox_state'[s] = "ready" /\ \A z \in Sandboxed \ {s} : sandbox_state'[z] = sandbox_state[z]
      BY <2>4 DEF Sandbox!State, Sandbox!TypeOK
    <3>2. \A z \in Sandboxed : sandbox_state'[z] = "acquiring" => z \in sandbox_acquired'
      BY <2>4, <3>1 DEF Sandbox!Counted
    <3>3. \A w, x : Sandbox!Turn(w, x) => Sandbox!Turn(w, x)'
      BY <2>1, <2>4 DEF Sandbox!Turn
    <3>. QED  BY <1>1, <1>2, <1>3, <2>1, <2>2, <2>4, <3>1, <3>2, <3>3 DEF Sandbox!TypeOK
  <2>. QED  BY <1>4, <2>3, <2>4 DEF Sandbox!Begin
<1>5. ASSUME NEW c \in Commands, Sandbox!Exec(c)
      PROVE  Sandbox!IInv'
  <2>1. /\ UNCHANGED <<sandbox_windows, sandbox_manager, sandbox_initialized, sandbox_policy, sandbox_sessions,
                        sandbox_state, sandbox_acquired, sandbox_updates, sandbox_late>>
        /\ sandbox_command[c] = "idle" /\ sandbox_command' = [sandbox_command EXCEPT ![c] = "entering"]
        /\ sandbox_commands' = sandbox_commands + 1 /\ Sandbox!Join("command", c)
    BY <1>5 DEF Sandbox!Exec, Sandbox!sandbox
  <2>2. /\ sandbox_command' \in [Commands -> {"idle", "entering", "running", "over"}]
        /\ sandbox_command'[c] = "entering" /\ \A d \in Commands \ {c} : sandbox_command'[d] = sandbox_command[d]
    BY <2>1 DEF Sandbox!TypeOK
  <2>3. sandbox_commands' = Cardinality(Sandbox!Busy') /\ sandbox_commands' \in Nat
    <3>1. Sandbox!Busy' = Sandbox!Busy \union {c} /\ c \notin Sandbox!Busy
      BY <2>1, <2>2 DEF Sandbox!Busy
    <3>2. Cardinality(Sandbox!Busy \union {c}) = Cardinality(Sandbox!Busy) + 1
      BY <1>2, <3>1, FS_AddElement
    <3>. QED  BY <1>2, <2>1, <3>1, <3>2, FS_CardinalityType
  <2>4. <<"command", c>> \in Tickets
    BY DEF Tickets
  <2>5. /\ sandbox_queue' \in Seq(Tickets)
        /\ sandbox_queue # <<>> => sandbox_queue' # <<>> /\ Head(sandbox_queue') = Head(sandbox_queue)
        /\ \A w, x : Sandbox!Turn(w, x) => Sandbox!Turn(w, x)'
    BY <1>1, <2>1, <2>4, Joins
  <2>6. \A s \in Sandboxed : sandbox_state'[s] = "acquiring" => s \in sandbox_acquired'
    BY <2>1 DEF Sandbox!Counted
  <2>. QED  BY <1>2, <1>3, <2>1, <2>2, <2>3, <2>5, <2>6 DEF Sandbox!TypeOK
<1>. QED  BY <1>4, <1>5

\* A session has its sandbox, and a command is over: on Windows the queue goes on.
LEMMA GoesOn ==
    ASSUME Sandbox!SandboxAssumption, Sandbox!IInv,
           (\E s \in Sandboxed : Sandbox!Acquired(s)) \/ (\E c \in Commands : Sandbox!Over(c))
    PROVE  Sandbox!IInv'
PROOF
<1>. USE DEF Sandbox!IInv
<1>1. /\ UNCHANGED <<sandbox_windows, sandbox_manager, sandbox_initialized, sandbox_policy, sandbox_sessions,
                      sandbox_acquired, sandbox_updates, sandbox_late>>
      /\ sandbox_queue' = IF sandbox_windows THEN Tail(sandbox_queue) ELSE sandbox_queue
  BY DEF Sandbox!Acquired, Sandbox!Over, Sandbox!Leave, Sandbox!sandbox
\* What the two have in common.
<1>2. ASSUME sandbox_commands' = Cardinality(Sandbox!Busy'), sandbox_commands' \in Nat,
             sandbox_state' \in [Sandboxed -> {"new", "acquiring", "ready", "waiting", "queued", "stopping", "closed"}],
             sandbox_command' \in [Commands -> {"idle", "entering", "running", "over"}],
             \A s \in Sandboxed : sandbox_state'[s] \in {sandbox_state[s], "ready"},
             \A s \in Sandboxed : sandbox_state[s] = "stopping" => sandbox_state'[s] = "stopping",
             \A c \in Commands : sandbox_command'[c] \in {sandbox_command[c], "over"},
             sandbox_windows =>
                /\ sandbox_queue # <<>> /\ sandbox_initialized = "done" /\ sandbox_manager = "on"
                /\ \A s \in Sandboxed : sandbox_state[s] # "stopping"
                /\ \A c \in Commands : sandbox_command'[c] # "running"
      PROVE  Sandbox!IInv'
  <2>1. sandbox_queue' \in Seq(Tickets)
    BY <1>1, <1>2 DEF Sandbox!TypeOK, Tickets
  <2>2. Sandbox!TypeOK'
    BY <1>1, <1>2, <2>1 DEF Sandbox!TypeOK, Tickets
  <2>3. Sandbox!Counted'
    BY <1>1, <1>2, SameCardinality DEF Sandbox!Counted
  <2>4. \A s \in Sandboxed : sandbox_state'[s] \in {"stopping", "queued"} => sandbox_state[s] = sandbox_state'[s]
    BY <1>2
  <2>5. \A c \in Commands : sandbox_command'[c] = "running" => sandbox_command[c] = "running"
    BY <1>2
  <2>6. Sandbox!Queued'
    BY <1>1, <1>2, <2>4, <2>5 DEF Sandbox!Queued, Sandbox!Turn
  <2>7. Sandbox!Held'
    BY <1>1, <1>2, <2>4, <2>5 DEF Sandbox!Held
  <2>. QED  BY <2>2, <2>3, <2>6, <2>7
<1>3. ASSUME NEW s \in Sandboxed, Sandbox!Acquired(s)
      PROVE  Sandbox!IInv'
  <2>1. /\ sandbox_state[s] = "acquiring" /\ Sandbox!Turn("acquire", s)
        /\ sandbox_initialized = "done" /\ (sandbox_windows => sandbox_policy = Workspace[s])
        /\ sandbox_state' = [sandbox_state EXCEPT ![s] = "ready"]
        /\ UNCHANGED <<sandbox_command, sandbox_commands>>
    BY <1>3 DEF Sandbox!Acquired, Sandbox!Acquirers, Sandbox!Serves, Sandbox!State
  <2>2. ASSUME sandbox_windows
        PROVE  /\ sandbox_queue # <<>> /\ sandbox_manager = "on"
               /\ \A z \in Sandboxed : sandbox_state[z] # "stopping"
               /\ \A c \in Commands : sandbox_command[c] # "running"
    <3>1. sandbox_queue # <<>> /\ Head(sandbox_queue) = <<"acquire", s>>
      BY <2>1, <2>2 DEF Sandbox!Turn
    <3>2. /\ \A z \in Sandboxed : sandbox_state[z] # "stopping"
          /\ \A c \in Commands : sandbox_command[c] # "running"
      BY <2>2, <3>1 DEF Sandbox!Queued, Sandbox!Turn
    <3>3. sandbox_manager = "on"
      BY <2>1, <2>2, <3>1, <3>2 DEF Sandbox!Queued
    <3>. QED  BY <3>1, <3>2, <3>3
  <2>3. /\ sandbox_state' \in [Sandboxed -> {"new", "acquiring", "ready", "waiting", "queued", "stopping", "closed"}]
        /\ sandbox_state'[s] = "ready" /\ \A z \in Sandboxed \ {s} : sandbox_state'[z] = sandbox_state[z]
    BY <2>1 DEF Sandbox!TypeOK
  <2>4. sandbox_commands' = Cardinality(Sandbox!Busy') /\ sandbox_commands' \in Nat
    <3>1. Sandbox!Busy' = Sandbox!Busy
      BY <2>1 DEF Sandbox!Busy
    <3>. QED  BY <2>1, <3>1, SameCardinality DEF Sandbox!Counted, Sandbox!TypeOK
  <2>5. sandbox_command' \in [Commands -> {"idle", "entering", "running", "over"}]
    BY <2>1 DEF Sandbox!TypeOK
  <2>. QED  BY <1>2, <2>1, <2>2, <2>3, <2>4, <2>5
<1>4. ASSUME NEW c \in Commands, Sandbox!Over(c)
      PROVE  Sandbox!IInv'
  <2>1. /\ sandbox_command[c] = "running" /\ sandbox_command' = [sandbox_command EXCEPT ![c] = "over"]
        /\ sandbox_commands' = sandbox_commands - 1 /\ UNCHANGED sandbox_state
    BY <1>4 DEF Sandbox!Over
  <2>2. /\ sandbox_command' \in [Commands -> {"idle", "entering", "running", "over"}]
        /\ sandbox_command'[c] = "over" /\ \A d \in Commands \ {c} : sandbox_command'[d] = sandbox_command[d]
    BY <2>1 DEF Sandbox!TypeOK
  <2>3. ASSUME sandbox_windows
        PROVE  /\ sandbox_queue # <<>> /\ sandbox_initialized = "done" /\ sandbox_manager = "on"
               /\ \A s \in Sandboxed : sandbox_state[s] # "stopping"
               /\ \A d \in Commands : sandbox_command'[d] # "running"
    <3>1. Sandbox!Turn("command", c) /\ sandbox_late = {}
      BY <2>1, <2>3 DEF Sandbox!Queued
    <3>2. \A d \in Commands : sandbox_command'[d] # "running"
      <4>1. \A d \in Commands : sandbox_command[d] = "running" => d = c
        BY <2>3, <3>1, OneTurn DEF Sandbox!Queued
      <4>. QED  BY <2>2, <4>1
    <3>. QED  BY <2>1, <2>3, <3>1, <3>2 DEF Sandbox!Held, Sandbox!Turn
  <2>4. sandbox_commands' = Cardinality(Sandbox!Busy') /\ sandbox_commands' \in Nat
    <3>1. Sandbox!Busy' = Sandbox!Busy \ {c} /\ c \in Sandbox!Busy
      BY <2>1, <2>2 DEF Sandbox!Busy
    <3>2. IsFiniteSet(Sandbox!Busy) /\ sandbox_commands = Cardinality(Sandbox!Busy)
      BY Finite, SameCardinality DEF Sandbox!Counted
    <3>3. Cardinality(Sandbox!Busy \ {c}) = Cardinality(Sandbox!Busy) - 1 /\ IsFiniteSet(Sandbox!Busy \ {c})
      BY <3>1, <3>2, FS_RemoveElement
    <3>4. Cardinality(Sandbox!Busy \ {c}) \in Nat
      BY <3>3, FS_CardinalityType
    <3>. QED  BY <2>1, <3>1, <3>2, <3>3, <3>4
  <2>5. sandbox_state' \in [Sandboxed -> {"new", "acquiring", "ready", "waiting", "queued", "stopping", "closed"}]
    BY <2>1 DEF Sandbox!TypeOK
  <2>. QED  BY <1>2, <2>1, <2>2, <2>3, <2>4, <2>5
<1>. QED  BY <1>3, <1>4

\* A command gets the sandbox as it is, which on Windows is that of its workspace and elsewhere may be
\* on its way down.
LEMMA CommandRuns ==
    ASSUME Sandbox!SandboxAssumption, Sandbox!IInv, NEW c \in Commands, Sandbox!Runs(c)
    PROVE  Sandbox!IInv'
PROOF
<1>. USE DEF Sandbox!IInv
<1>1. /\ UNCHANGED <<sandbox_windows, sandbox_manager, sandbox_initialized, sandbox_policy, sandbox_sessions,
                      sandbox_commands, sandbox_state, sandbox_acquired, sandbox_queue, sandbox_updates>>
      /\ sandbox_command[c] = "entering" /\ Sandbox!Turn("command", c)
      /\ sandbox_initialized = "done" /\ (sandbox_windows => sandbox_policy = Workspace[Of[c]])
      /\ sandbox_command' = [sandbox_command EXCEPT ![c] = "running"]
      /\ sandbox_late' = IF \E s \in Sandboxed : sandbox_state[s] = "stopping" THEN sandbox_late \union {c}
                                                                         ELSE sandbox_late
  BY DEF Sandbox!Runs, Sandbox!Entering, Sandbox!Serves, Sandbox!sandbox
<1>2. /\ sandbox_command' \in [Commands -> {"idle", "entering", "running", "over"}]
      /\ sandbox_command'[c] = "running" /\ \A d \in Commands \ {c} : sandbox_command'[d] = sandbox_command[d]
  BY <1>1 DEF Sandbox!TypeOK
<1>3. ASSUME sandbox_windows
      PROVE  (\A s \in Sandboxed : sandbox_state[s] # "stopping") /\ sandbox_manager = "on"
  <2>1. sandbox_queue # <<>> /\ Head(sandbox_queue) = <<"command", c>>
    BY <1>1, <1>3 DEF Sandbox!Turn
  <2>2. \A s \in Sandboxed : sandbox_state[s] # "stopping"
    BY <1>3, <2>1 DEF Sandbox!Queued, Sandbox!Turn
  <2>. QED  BY <1>1, <1>3, <2>1, <2>2 DEF Sandbox!Queued
<1>4. Sandbox!TypeOK'
  BY <1>1, <1>2 DEF Sandbox!TypeOK
<1>5. Sandbox!Counted'
  <2>1. Sandbox!Busy' = Sandbox!Busy
    BY <1>1, <1>2 DEF Sandbox!Busy
  <2>. QED  BY <1>1, <2>1 DEF Sandbox!Counted
<1>6. \A w, x : Sandbox!Turn(w, x)' <=> Sandbox!Turn(w, x)
  BY <1>1 DEF Sandbox!Turn
<1>7. Sandbox!Queued'
  BY <1>1, <1>2, <1>3, <1>6 DEF Sandbox!Queued
<1>8. Sandbox!Held'
  BY <1>1, <1>2, <1>3 DEF Sandbox!Held
<1>. QED  BY <1>4, <1>5, <1>7, <1>8

\* The sandbox is released, by the last session once no command is left.
LEMMA Releases ==
    ASSUME Sandbox!SandboxAssumption, Sandbox!IInv, NEW s \in Sandboxed, Sandbox!Release(s) \/ Sandbox!LooksAgain(s)
    PROVE  Sandbox!IInv'
PROOF
<1>. USE DEF Sandbox!IInv
<1>1. /\ UNCHANGED <<sandbox_windows, sandbox_initialized, sandbox_policy, sandbox_commands, sandbox_command,
                      sandbox_updates, sandbox_late>>
      /\ sandbox_state[s] \in {"ready", "waiting"}
  BY DEF Sandbox!Release, Sandbox!LooksAgain, Sandbox!sandbox
<1>2. Sandbox!Busy' = Sandbox!Busy
  BY <1>1 DEF Sandbox!Busy
<1>3. sandbox_queue \in Seq(Tickets)
  BY DEF Sandbox!TypeOK, Tickets
\* Releases that take nothing down.
<1>4. ASSUME NEW to \in {"waiting", "closed", "queued"}, sandbox_state' = [sandbox_state EXCEPT ![s] = to],
             to = "queued" => sandbox_windows,
             sandbox_sessions' = Cardinality(sandbox_acquired'), sandbox_sessions' \in Nat,
             sandbox_acquired' \in {sandbox_acquired, sandbox_acquired \ {s}}, UNCHANGED sandbox_manager,
             sandbox_queue' \in Seq(Tickets),
             sandbox_queue # <<>> => sandbox_queue' # <<>> /\ Head(sandbox_queue') = Head(sandbox_queue),
             \A w, x : Sandbox!Turn(w, x) => Sandbox!Turn(w, x)'
      PROVE  Sandbox!IInv'
  <2>1. /\ sandbox_state' \in [Sandboxed -> {"new", "acquiring", "ready", "waiting", "queued", "stopping", "closed"}]
        /\ sandbox_state'[s] = to /\ \A z \in Sandboxed \ {s} : sandbox_state'[z] = sandbox_state[z]
    BY <1>4 DEF Sandbox!TypeOK
  <2>2. Sandbox!TypeOK'
    BY <1>1, <1>4, <2>1 DEF Sandbox!TypeOK, Tickets
  <2>3. Sandbox!Counted'
    BY <1>1, <1>2, <1>4, <2>1, SameCardinality DEF Sandbox!Counted
  <2>4. \A z \in Sandboxed : sandbox_state'[z] = "stopping" <=> sandbox_state[z] = "stopping"
    BY <1>1, <1>4, <2>1
  <2>5. \A x \in Sandbox!Needs : x \in Sandbox!Needs'
    <3>1. \A z \in Sandbox!Acquirers : z \in Sandbox!Acquirers'
      BY <1>1, <1>4, <2>1 DEF Sandbox!Acquirers
    <3>2. \A c \in Sandbox!Entering : c \in Sandbox!Entering'
      BY <1>1, <1>4 DEF Sandbox!Entering
    <3>. QED  BY <3>1, <3>2 DEF Sandbox!Needs
  <2>6. Sandbox!Queued'
    <3>1. sandbox_windows' /\ sandbox_initialized' = "pending" => Sandbox!Needs' # {}
      BY <1>1, <2>5 DEF Sandbox!Queued
    <3>. QED  BY <1>1, <1>4, <2>4, <3>1 DEF Sandbox!Queued
  <2>7. Sandbox!Held'
    BY <1>1, <1>4, <2>1, <2>4 DEF Sandbox!Held
  <2>. QED  BY <2>2, <2>3, <2>6, <2>7
<1>5. ASSUME UNCHANGED sandbox_queue
      PROVE  \A w, x : Sandbox!Turn(w, x) => Sandbox!Turn(w, x)'
  BY <1>1, <1>5 DEF Sandbox!Turn
<1>6. sandbox_sessions = Cardinality(sandbox_acquired) /\ sandbox_sessions \in Nat /\ IsFiniteSet(sandbox_acquired)
  BY Finite, SameCardinality DEF Sandbox!Counted, Sandbox!TypeOK
<1>7. CASE Sandbox!Release(s)
  <2>1. /\ sandbox_acquired' = sandbox_acquired \ {s} /\ UNCHANGED <<sandbox_manager, sandbox_queue>>
        /\ sandbox_sessions' = IF s \in sandbox_acquired THEN sandbox_sessions - 1 ELSE sandbox_sessions
    BY <1>7 DEF Sandbox!Release, Sandbox!sandbox
  <2>2. Cardinality(sandbox_acquired \ {s}) = sandbox_sessions' /\ Cardinality(sandbox_acquired \ {s}) \in Nat
    <3>1. /\ Cardinality(sandbox_acquired \ {s}) =
                IF s \in sandbox_acquired THEN Cardinality(sandbox_acquired) - 1 ELSE Cardinality(sandbox_acquired)
          /\ IsFiniteSet(sandbox_acquired \ {s})
      BY <1>6, FS_RemoveElement
    <3>2. Cardinality(sandbox_acquired \ {s}) \in Nat
      BY <3>1, FS_CardinalityType
    <3>. QED  BY <1>6, <2>1, <3>1, <3>2
  <2>3. PICK to \in {"waiting", "closed"} : sandbox_state' = [sandbox_state EXCEPT ![s] = to]
    BY <1>7 DEF Sandbox!Release, Sandbox!State
  <2>. QED  BY <1>3, <1>4, <1>5, <2>1, <2>2, <2>3
<1>8. CASE Sandbox!LooksAgain(s)
  <2>1. /\ UNCHANGED <<sandbox_sessions, sandbox_acquired>> /\ sandbox_state[s] = "waiting"
        /\ sandbox_commands = 0 /\ Sandbox!TakesDown(s)
    BY <1>8 DEF Sandbox!LooksAgain
  <2>2. CASE sandbox_sessions # 0
    <3>1. UNCHANGED <<sandbox_queue, sandbox_manager>> /\ sandbox_state' = [sandbox_state EXCEPT ![s] = "closed"]
      BY <2>1, <2>2 DEF Sandbox!TakesDown, Sandbox!State
    <3>. QED  BY <1>3, <1>4, <1>5, <1>6, <2>1, <3>1
  <2>3. CASE sandbox_sessions = 0 /\ sandbox_windows
    <3>1. /\ Sandbox!Join("reset", s) /\ UNCHANGED sandbox_manager
          /\ sandbox_state' = [sandbox_state EXCEPT ![s] = "queued"]
      BY <2>1, <2>3 DEF Sandbox!TakesDown, Sandbox!State
    <3>2. <<"reset", s>> \in Tickets
      BY DEF Tickets
    <3>. QED  BY <1>1, <1>3, <1>4, <1>6, <2>1, <2>3, <3>1, <3>2, Joins
  <2>4. CASE sandbox_sessions = 0 /\ ~sandbox_windows
    <3>1. /\ UNCHANGED sandbox_queue /\ sandbox_manager' = "stopping"
          /\ sandbox_state' = [sandbox_state EXCEPT ![s] = "stopping"]
      BY <2>1, <2>4 DEF Sandbox!TakesDown, Sandbox!State, Sandbox!Join
    <3>2. /\ sandbox_state' \in [Sandboxed -> {"new", "acquiring", "ready", "waiting", "queued", "stopping", "closed"}]
          /\ sandbox_state'[s] = "stopping" /\ \A z \in Sandboxed \ {s} : sandbox_state'[z] = sandbox_state[z]
      BY <3>1 DEF Sandbox!TypeOK
    <3>3. \A c \in Commands : sandbox_command[c] # "running"
      <4>1. Sandbox!Busy = {}
        BY <2>1, Finite, FS_EmptySet, SameCardinality DEF Sandbox!Counted
      <4>. QED  BY <4>1 DEF Sandbox!Busy
    <3>4. Sandbox!TypeOK'
      BY <1>1, <2>1, <3>1, <3>2 DEF Sandbox!TypeOK
    <3>5. Sandbox!Counted'
      BY <1>1, <1>2, <2>1, <3>2 DEF Sandbox!Counted
    <3>6. Sandbox!Queued'
      BY <1>1, <2>4 DEF Sandbox!Queued, Sandbox!Turn
    <3>7. Sandbox!Held'
      BY <1>1, <2>4, <3>2, <3>3 DEF Sandbox!Held
    <3>. QED  BY <3>4, <3>5, <3>6, <3>7
  <2>. QED  BY <2>2, <2>3, <2>4
<1>. QED  BY <1>7, <1>8

\* The sandbox is taken down: on Windows in its turn, and then for the next of the queue.
LEMMA TakenDown ==
    ASSUME Sandbox!SandboxAssumption, Sandbox!IInv, NEW s \in Sandboxed, Sandbox!Reset(s) \/ Sandbox!ResetDone(s)
    PROVE  Sandbox!IInv'
PROOF
<1>. USE DEF Sandbox!IInv
<1>1. UNCHANGED <<sandbox_windows, sandbox_sessions, sandbox_commands, sandbox_acquired, sandbox_command,
                  sandbox_updates, sandbox_late>>
  BY DEF Sandbox!Reset, Sandbox!ResetDone
<1>2. Sandbox!Busy' = Sandbox!Busy
  BY <1>1 DEF Sandbox!Busy
<1>3. CASE Sandbox!Reset(s)
  <2>1. /\ UNCHANGED <<sandbox_initialized, sandbox_policy, sandbox_queue>> /\ sandbox_manager' = "stopping"
        /\ sandbox_state[s] = "queued" /\ Sandbox!Turn("reset", s)
        /\ sandbox_state' = [sandbox_state EXCEPT ![s] = "stopping"]
    BY <1>3 DEF Sandbox!Reset, Sandbox!State
  <2>2. /\ sandbox_state' \in [Sandboxed -> {"new", "acquiring", "ready", "waiting", "queued", "stopping", "closed"}]
        /\ sandbox_state'[s] = "stopping" /\ \A z \in Sandboxed \ {s} : sandbox_state'[z] = sandbox_state[z]
    BY <2>1 DEF Sandbox!TypeOK
  <2>3. sandbox_windows
    BY <2>1 DEF Sandbox!Held
  <2>4. \A c \in Commands : sandbox_command[c] # "running"
    BY <2>1, <2>3, OneTurn DEF Sandbox!Queued
  <2>5. \A w, x : Sandbox!Turn(w, x)' <=> Sandbox!Turn(w, x)
    BY <1>1, <2>1 DEF Sandbox!Turn
  <2>6. Sandbox!TypeOK'
    BY <1>1, <2>1, <2>2 DEF Sandbox!TypeOK
  <2>7. Sandbox!Counted'
    BY <1>1, <1>2, <2>2 DEF Sandbox!Counted
  <2>8. Sandbox!Queued'
    <3>1. sandbox_initialized # "pending"
      <4>. SUFFICES ASSUME sandbox_initialized = "pending" PROVE FALSE
        OBVIOUS
      <4>1. PICK z \in Sandbox!Needs : TRUE
        BY <2>3 DEF Sandbox!Queued
      <4>2. Sandbox!Turn("acquire", z) \/ \E c \in Commands : Sandbox!Turn("command", c)
        BY <4>1 DEF Sandbox!Needs, Sandbox!Acquirers, Sandbox!Entering
      <4>. QED  BY <2>1, <2>3, <4>2, OneTurn
    <3>. QED  BY <1>1, <2>1, <2>2, <2>3, <2>4, <2>5, <3>1 DEF Sandbox!Queued, Sandbox!Turn
  <2>9. Sandbox!Held'
    BY <1>1, <2>3, <2>4 DEF Sandbox!Held
  <2>. QED  BY <2>6, <2>7, <2>8, <2>9
<1>4. CASE Sandbox!ResetDone(s)
  <2>1. /\ sandbox_state[s] = "stopping" /\ sandbox_state' = [sandbox_state EXCEPT ![s] = "closed"]
        /\ sandbox_manager' = "off" /\ sandbox_initialized' = "none" /\ sandbox_policy' = None
        /\ sandbox_queue' = IF sandbox_windows THEN Tail(sandbox_queue) ELSE sandbox_queue
    BY <1>4 DEF Sandbox!ResetDone, Sandbox!State, Sandbox!Leave
  <2>2. /\ sandbox_state' \in [Sandboxed -> {"new", "acquiring", "ready", "waiting", "queued", "stopping", "closed"}]
        /\ sandbox_state'[s] = "closed" /\ \A z \in Sandboxed \ {s} : sandbox_state'[z] = sandbox_state[z]
    BY <2>1 DEF Sandbox!TypeOK
  <2>3. Sandbox!Turn("reset", s)
    BY <2>1 DEF Sandbox!Queued
  <2>4. sandbox_windows => \A c \in Commands : sandbox_command[c] # "running"
    BY <2>3, OneTurn DEF Sandbox!Queued
  <2>5. sandbox_windows => \A z \in Sandboxed : sandbox_state'[z] # "stopping"
    BY <2>2, <2>3, OneTurn DEF Sandbox!Queued
  <2>6. \A c \in Commands \ sandbox_late : sandbox_command[c] # "running"
    BY <2>1 DEF Sandbox!Held
  <2>7. Sandbox!TypeOK'
    <3>1. sandbox_queue' \in Seq(Tickets)
      BY <2>1, <2>3 DEF Sandbox!TypeOK, Sandbox!Turn, Tickets
    <3>. QED  BY <1>1, <2>1, <2>2, <3>1 DEF Sandbox!TypeOK, Tickets
  <2>8. Sandbox!Counted'
    BY <1>1, <1>2, <2>2 DEF Sandbox!Counted
  <2>9. Sandbox!Queued'
    BY <1>1, <2>1, <2>4, <2>5 DEF Sandbox!Queued, Sandbox!Turn
  <2>10. Sandbox!Held'
    BY <1>1, <2>1, <2>2, <2>6 DEF Sandbox!Held
  <2>. QED  BY <2>7, <2>8, <2>9, <2>10
<1>. QED  BY <1>3, <1>4

LEMMA SandboxInvariance == ASSUME Sandbox!SandboxAssumption PROVE Sandbox!Spec => []Sandbox!IInv
PROOF
<1>1. Sandbox!IInv /\ [Sandbox!Next]_(Sandbox!vars) => Sandbox!IInv'
  <2>. SUFFICES ASSUME Sandbox!IInv, [Sandbox!Next]_(Sandbox!vars)
                PROVE  Sandbox!IInv'
    OBVIOUS
  <2>1. CASE UNCHANGED Sandbox!vars
    <3>. USE <2>1 DEF Sandbox!vars, Sandbox!IInv
    <3>1. \A w, x : Sandbox!Turn(w, x)' <=> Sandbox!Turn(w, x)
      BY DEF Sandbox!Turn
    <3>2. Sandbox!Needs' = Sandbox!Needs /\ Sandbox!Busy' = Sandbox!Busy
      BY DEF Sandbox!Needs, Sandbox!Acquirers, Sandbox!Entering, Sandbox!Turn, Sandbox!Busy
    <3>3. Sandbox!TypeOK' /\ Sandbox!Counted'
      BY <3>2 DEF Sandbox!TypeOK, Sandbox!Counted
    <3>4. Sandbox!Queued' /\ Sandbox!Held'
      BY <3>1, <3>2 DEF Sandbox!Queued, Sandbox!Held
    <3>. QED  BY <3>3, <3>4
  <2>2. CASE Sandbox!Next
    BY <2>2, SetsUp, FailsToSetUp, Arrives, GoesOn, CommandRuns, Releases, TakenDown DEF
       Sandbox!Next
  <2>. QED  BY <2>1, <2>2
<1>. QED  BY <1>1, SandboxBegins, PTL DEF Sandbox!Spec

\* A command runs in a sandbox that is set up, on Windows for its workspace, and that nobody takes
\* away, but for the commands that begin elsewhere while the last release goes on.
THEOREM SandboxesAreHeld ==
    ASSUME Sandbox!SandboxAssumption PROVE Sandbox!Spec => []Sandbox!SandboxHeld
PROOF
<1>1. Sandbox!IInv => Sandbox!SandboxHeld
  BY DEF Sandbox!IInv, Sandbox!Counted, Sandbox!Queued, Sandbox!Held, Sandbox!SandboxHeld
<1>. QED  BY <1>1, SandboxInvariance, PTL

-----------------------------------------------------------------------------
(* Clients and the daemons that they find, replace and call *)

LEMMA ClientBegins == Client!ClientAssumption /\ Client!Init => Client!IInv
PROOF
<1>. SUFFICES ASSUME Client!ClientAssumption, Client!Init
              PROVE  Client!IInv
  OBVIOUS
<1>1. Client!TypeOK
  BY DEF Client!ClientAssumption, Client!Init, Client!TypeOK
<1>2. Client!Replaced /\ Client!UpgradeNotRefused
  BY DEF Client!ClientAssumption, Client!Init, Client!Replaced, Client!UpgradeNotRefused
<1>3. Client!Asked /\ Client!Ran
  BY DEF Client!Init, Client!Asked, Client!Ran
<1>. QED  BY <1>1, <1>2, <1>3 DEF Client!IInv

Startups == {"none", "greeting", "greeted", "absent", "older", "asked", "idle", "told", "probing", "replaced"}
CallStages == {"idle", "starting", "ready", "sent", "done", "refused", "failed", "unknown"}

\* A request that is new on the wire: of a startup, or the only one of a call.
NewRequest(w) ==
    /\ w[4] \in Candidates
    /\ \/ w[1] \in Clients /\ w[2] \in {"hello", "turns", "stop"}
       \/ /\ w[1] \in Calls /\ w[2] = "start" /\ w[3] = Version[Caller[w[1]]]
          /\ client_call[w[1]] = "ready" /\ client_call'[w[1]] = "sent"
          /\ \A v \in client_wire' : v[1] = w[1] => v = w

\* The steps that start no daemon and no turn: a startup goes on, requests come and go, a
\* daemon stops.
LEMMA NothingRuns ==
    ASSUME Client!ClientAssumption, Client!IInv,
           UNCHANGED <<client_speaks, client_lock, client_upgraded, client_refused, client_ran>>,
           client_daemon' \in [Candidates -> {"none", "spawned", "ready", "stopping", "closing", "exited"}],
           \A d \in Candidates :
              \/ client_daemon'[d] = client_daemon[d]
              \/ client_daemon[d] \in {"ready", "stopping"} /\ client_daemon'[d] \in {"stopping", "closing"},
           client_startup' \in [Clients -> Startups],
           \A p \in Clients : client_startup'[p] = "replaced" => client_startup[p] = "replaced" \/ client_lock # Older,
           client_call' \in [Calls -> CallStages],
           \A c \in Calls :
              \/ client_call'[c] = client_call[c]
              \/ client_call[c] \in {"idle", "starting"} /\ client_call'[c] \in {"starting", "ready", "failed"}
              \/ client_call[c] = "ready" /\ client_call'[c] \in {"sent", "failed"}
              \/ client_call[c] = "sent" /\ client_call'[c] = "unknown",
           \A w \in client_wire' : w \in client_wire \/ NewRequest(w)
    PROVE  Client!IInv'
PROOF
<1>. USE DEF Client!IInv
<1>1. Client!TypeOK'
  BY DEF Client!TypeOK, Startups, CallStages, NewRequest
<1>2. Client!Replaced' /\ Client!UpgradeNotRefused'
  BY DEF Client!Replaced, Client!UpgradeNotRefused, Client!ClientAssumption
<1>3. Client!Asked'
  <2>1. ASSUME NEW w \in client_wire'
        PROVE  IF w[2] = "start" THEN w[1] \in Calls /\ w[3] = Version[Caller[w[1]]] ELSE w[1] \in Clients
    BY <2>1 DEF Client!Asked, NewRequest
  <2>2. ASSUME NEW w \in client_wire', w[1] \in Calls
        PROVE  /\ client_call'[w[1]] \in {"sent", "unknown"} /\ client_ran'[w[1]] = <<>>
               /\ \A v \in client_wire' : v[1] = w[1] => v = w
    <3>1. CASE w \in client_wire
      <4>1. /\ client_call[w[1]] \in {"sent", "unknown"} /\ client_ran[w[1]] = <<>>
            /\ \A v \in client_wire : v[1] = w[1] => v = w
        BY <2>2, <3>1 DEF Client!Asked
      <4>2. ASSUME NEW v \in client_wire', v[1] = w[1]
            PROVE  v \in client_wire
        BY <2>2, <4>1, <4>2 DEF NewRequest, Client!ClientAssumption
      <4>. QED  BY <2>2, <4>1, <4>2
    <3>2. CASE w \notin client_wire
      <4>1. NewRequest(w) /\ w[1] \notin Clients
        BY <2>2, <3>2 DEF Client!ClientAssumption
      <4>. QED  BY <2>2, <4>1 DEF NewRequest, Client!Ran
    <3>. QED  BY <3>1, <3>2
  <2>. QED  BY <2>1, <2>2 DEF Client!Asked
<1>4. Client!Ran'
  <2>. SUFFICES ASSUME NEW c \in Calls
                PROVE  /\ client_call'[c] \notin {"done", "unknown"} => client_ran[c] = <<>>
                       /\ client_call'[c] = "done" => client_ran[c] # <<>>
                       /\ \/ client_ran[c] = <<>>
                          \/ \E d \in Candidates : client_ran[c] = <<d>> /\ client_daemon'[d] # "none"
                                                   /\ client_speaks[d] = Version[Caller[c]]
    BY DEF Client!Ran
  <2>. QED  BY DEF Client!Ran
<1>. QED  BY <1>1, <1>2, <1>3, <1>4

\* What ending a startup does.
LEMMA StartupEnds ==
    ASSUME Client!TypeOK, NEW p \in Clients, NEW to \in {"ready", "failed"}, Client!EndStartup(p, to)
    PROVE  /\ client_startup' \in [Clients -> Startups] /\ client_call' \in [Calls -> CallStages]
           /\ client_startup'[p] = "none"
           /\ \A q \in Clients : client_startup'[q] = client_startup[q] \/ client_startup'[q] = "none"
           /\ \A c \in Calls : client_call'[c] = client_call[c]
                               \/ (client_call[c] = "starting" /\ client_call'[c] \in {"ready", "failed"})
BY DEF Client!EndStartup, Client!StartupGoes, Client!TypeOK, Startups, CallStages

LEMMA StartupMoves ==
    ASSUME Client!TypeOK, NEW p \in Clients, NEW to \in Startups, Client!StartupGoes(p, to)
    PROVE  /\ client_startup' \in [Clients -> Startups] /\ client_startup'[p] = to
           /\ \A q \in Clients : q # p => client_startup'[q] = client_startup[q]
BY DEF Client!StartupGoes, Client!TypeOK, Startups

LEMMA Requested ==
    ASSUME NEW p \in Clients, NEW what \in {"hello", "turns", "stop"}, NEW v, Client!TypeOK,
           Client!Requests(p, what, v)
    PROVE  \A w \in client_wire' : w \in client_wire \/ NewRequest(w)
BY DEF Client!Requests, Client!Listening, NewRequest

\* The steps of a startup, but for the spawning of a daemon.
LEMMA StartupStep ==
    ASSUME Client!ClientAssumption, Client!IInv, NEW p \in Clients,
           Client!Greet(p) \/ Client!AskOlder(p) \/ Client!Probe(p) \/ Client!GiveUp(p) \/ Client!Unanswered(p)
    PROVE  Client!IInv'
PROOF
<1>. USE DEF Client!IInv
<1>1. /\ UNCHANGED <<client_speaks, client_lock, client_upgraded, client_refused, client_ran, client_daemon>>
      /\ client_daemon \in [Candidates -> {"none", "spawned", "ready", "stopping", "closing", "exited"}]
  BY DEF Client!Greet, Client!AskOlder, Client!Probe, Client!GiveUp, Client!Unanswered,
     Client!Unserved, Client!TypeOK
<1>2. \A w \in client_wire' : w \in client_wire \/ NewRequest(w)
  <2>1. CASE Client!Greet(p)
    BY <2>1, Requested DEF Client!Greet
  <2>2. CASE Client!AskOlder(p)
    BY <2>2, Requested DEF Client!AskOlder
  <2>3. CASE Client!Probe(p) \/ Client!GiveUp(p) \/ Client!Unanswered(p)
    BY <2>3 DEF Client!Probe, Client!GiveUp, Client!Unanswered
  <2>. QED  BY <2>1, <2>2, <2>3
\* The startup ends, goes on, or has seen the older daemon gone.
<1>3. \/ \E to \in {"ready", "failed"} : Client!EndStartup(p, to)
      \/ UNCHANGED client_call /\ \E to \in Startups \ {"replaced"} : Client!StartupGoes(p, to)
      \/ UNCHANGED client_call /\ Client!StartupGoes(p, "replaced") /\ client_lock # Older
  <2>1. CASE Client!Greet(p)
    BY <2>1 DEF Client!Greet, Startups
  <2>2. CASE Client!AskOlder(p)
    BY <2>2 DEF Client!AskOlder, Startups
  <2>3. CASE Client!Probe(p)
    BY <2>3 DEF Client!Probe, Startups, Client!Replaced, Client!ClientAssumption
  <2>4. CASE Client!GiveUp(p)
    BY <2>4 DEF Client!GiveUp
  <2>5. CASE Client!Unanswered(p)
    BY <2>5 DEF Client!Unanswered, Startups
  <2>. QED  BY <2>1, <2>2, <2>3, <2>4, <2>5
<1>4. CASE \E to \in {"ready", "failed"} : Client!EndStartup(p, to)
  <2>1. PICK to \in {"ready", "failed"} : Client!EndStartup(p, to)
    BY <1>4
  <2>. QED  BY <1>1, <1>2, <2>1, StartupEnds, NothingRuns
<1>5. CASE /\ UNCHANGED client_call
           /\ \/ \E to \in Startups \ {"replaced"} : Client!StartupGoes(p, to)
              \/ Client!StartupGoes(p, "replaced") /\ client_lock # Older
  <2>1. PICK to \in Startups : Client!StartupGoes(p, to) /\ (to = "replaced" => client_lock # Older)
    BY <1>5 DEF Startups
  <2>2. /\ client_startup' \in [Clients -> Startups] /\ client_startup'[p] = to
        /\ \A q \in Clients : q # p => client_startup'[q] = client_startup[q]
    BY <2>1, StartupMoves
  <2>3. client_call' \in [Calls -> CallStages]
    BY <1>5 DEF Client!TypeOK, CallStages
  <2>. QED  BY <1>1, <1>2, <1>5, <2>1, <2>2, <2>3, NothingRuns
<1>. QED  BY <1>3, <1>4, <1>5

\* The steps of a call, until it is answered.
LEMMA CallStep ==
    ASSUME Client!ClientAssumption, Client!IInv, NEW c \in Calls,
           Client!Begin(c) \/ Client!Send(c) \/ Client!CallUnanswered(c)
    PROVE  Client!IInv'
PROOF
<1>. USE DEF Client!IInv
<1>1. /\ UNCHANGED <<client_speaks, client_lock, client_upgraded, client_refused, client_ran, client_daemon>>
      /\ client_daemon \in [Candidates -> {"none", "spawned", "ready", "stopping", "closing", "exited"}]
  BY DEF Client!Begin, Client!Send, Client!CallUnanswered, Client!Unserved, Client!TypeOK
<1>2. client_startup' \in [Clients -> Startups]
      /\ \A p \in Clients : client_startup'[p] = "replaced" => client_startup[p] = "replaced"
  <2>1. CASE Client!Begin(c)
    <3>1. client_startup' = client_startup \/ Client!StartupGoes(Caller[c], "greeting")
      BY <2>1 DEF Client!Begin
    <3>. QED  BY <3>1 DEF Client!StartupGoes, Client!TypeOK, Startups, Client!ClientAssumption
  <2>2. CASE Client!Send(c) \/ Client!CallUnanswered(c)
    BY <2>2 DEF Client!Send, Client!CallUnanswered, Client!TypeOK, Startups
  <2>. QED  BY <2>1, <2>2
<1>3. /\ client_call' \in [Calls -> CallStages]
      /\ \A b \in Calls : b # c => client_call'[b] = client_call[b]
      /\ \/ client_call[c] = "idle" /\ client_call'[c] = "starting"
         \/ client_call[c] = "ready" /\ client_call'[c] \in {"sent", "failed"}
         \/ client_call[c] = "sent" /\ client_call'[c] = "unknown"
  BY DEF Client!Begin, Client!Send, Client!CallUnanswered, Client!TypeOK, CallStages
<1>4. \A w \in client_wire' : w \in client_wire \/ NewRequest(w)
  <2>1. CASE client_wire' = client_wire
    BY <2>1
  <2>2. CASE Client!Send(c) /\ client_wire' # client_wire
    <3>1. PICK d \in Client!Listening : client_wire' = client_wire \union {<<c, "start", Version[Caller[c]], d>>}
      BY <2>2 DEF Client!Send, Client!Requests
    <3>2. d \in Candidates
      BY DEF Client!Listening
    <3>3. client_call[c] = "ready" /\ client_call'[c] = "sent"
      BY <2>2, <1>3 DEF Client!Send, Client!TypeOK
    <3>4. \A v \in client_wire : v[1] # c
      BY <3>3 DEF Client!Asked
    <3>5. NewRequest(<<c, "start", Version[Caller[c]], d>>)
      BY <3>1, <3>2, <3>3, <3>4 DEF NewRequest
    <3>. QED  BY <3>1, <3>5
  <2>. QED  BY <2>1, <2>2 DEF Client!Begin, Client!Send, Client!CallUnanswered
<1>. QED  BY <1>1, <1>2, <1>3, <1>4, NothingRuns

\* A daemon answers what a startup asks, is told to stop, loses a turn or closes.
LEMMA DaemonAnswers ==
    ASSUME Client!ClientAssumption, Client!IInv,
           \/ \E w \in client_wire : Client!ServeHello(w) \/ Client!ServeTurns(w) \/ Client!ServeStop(w)
           \/ \E d \in Candidates : Client!TurnEnds(d) \/ Client!Close(d)
    PROVE  Client!IInv'
PROOF
<1>. USE DEF Client!IInv
<1>1. UNCHANGED <<client_speaks, client_lock, client_upgraded, client_refused, client_ran>>
  BY DEF Client!ServeHello, Client!ServeTurns, Client!ServeStop, Client!TurnEnds, Client!Close
<1>2. client_wire' \subseteq client_wire
  BY DEF Client!ServeHello, Client!ServeTurns, Client!ServeStop, Client!TurnEnds, Client!Close,
     Client!Serve
<1>3. /\ client_daemon' \in [Candidates -> {"none", "spawned", "ready", "stopping", "closing", "exited"}]
      /\ \A d \in Candidates :
            \/ client_daemon'[d] = client_daemon[d]
            \/ client_daemon[d] \in {"ready", "stopping"} /\ client_daemon'[d] \in {"stopping", "closing"}
  <2>1. ASSUME NEW w \in client_wire, Client!ServeHello(w) \/ Client!ServeTurns(w) \/ Client!ServeStop(w)
        PROVE  \/ client_daemon' = client_daemon
               \/ \E d \in Candidates : /\ client_daemon[d] = "ready"
                                        /\ client_daemon' = [client_daemon EXCEPT ![d] = "stopping"]
    BY <2>1 DEF Client!ServeHello, Client!ServeTurns, Client!ServeStop, Client!TypeOK
  <2>2. ASSUME NEW d \in Candidates, Client!TurnEnds(d) \/ Client!Close(d)
        PROVE  \/ client_daemon' = client_daemon
               \/ /\ client_daemon[d] \in {"ready", "stopping"}
                  /\ client_daemon' = [client_daemon EXCEPT ![d] = "closing"]
    BY <2>2 DEF Client!TurnEnds, Client!Close
  <2>3. \/ client_daemon' = client_daemon
        \/ \E d \in Candidates, to \in {"stopping", "closing"} :
              /\ client_daemon[d] \in {"ready", "stopping"}
              /\ client_daemon' = [client_daemon EXCEPT ![d] = to]
    BY <2>1, <2>2
  <2>. QED  BY <2>3 DEF Client!TypeOK
<1>4. /\ client_startup' \in [Clients -> Startups] /\ client_call' \in [Calls -> CallStages]
      /\ \A p \in Clients : client_startup'[p] = "replaced" => client_startup[p] = "replaced"
      /\ \A c \in Calls : client_call'[c] = client_call[c]
                          \/ (client_call[c] = "starting" /\ client_call'[c] \in {"ready", "failed"})
  <2>1. \/ UNCHANGED <<client_startup, client_call>>
        \/ \E p \in Clients, to \in {"ready", "failed"} : Client!EndStartup(p, to)
        \/ \E p \in Clients, to \in Startups \ {"replaced"} : Client!StartupGoes(p, to) /\ UNCHANGED client_call
    <3>1. ASSUME NEW w \in client_wire, Client!ServeHello(w) \/ Client!ServeTurns(w) \/ Client!ServeStop(w)
          PROVE  w[1] \in Clients
      BY <3>1 DEF Client!ServeHello, Client!ServeTurns, Client!ServeStop, Client!Asked
    <3>2. ASSUME NEW w \in client_wire, Client!ServeHello(w)
          PROVE  \/ UNCHANGED <<client_startup, client_call>>
                 \/ \E to \in {"ready", "failed"} : Client!EndStartup(w[1], to)
                 \/ \E to \in Startups \ {"replaced"} : Client!StartupGoes(w[1], to) /\ UNCHANGED client_call
      BY <3>2 DEF Client!ServeHello, Startups
    <3>3. ASSUME NEW w \in client_wire, Client!ServeTurns(w)
          PROVE  \/ UNCHANGED <<client_startup, client_call>>
                 \/ \E to \in {"ready", "failed"} : Client!EndStartup(w[1], to)
                 \/ \E to \in Startups \ {"replaced"} : Client!StartupGoes(w[1], to) /\ UNCHANGED client_call
      BY <3>3 DEF Client!ServeTurns, Startups
    <3>4. ASSUME NEW w \in client_wire, Client!ServeStop(w)
          PROVE  \/ UNCHANGED <<client_startup, client_call>>
                 \/ \E to \in {"ready", "failed"} : Client!EndStartup(w[1], to)
                 \/ \E to \in Startups \ {"replaced"} : Client!StartupGoes(w[1], to) /\ UNCHANGED client_call
      BY <3>4 DEF Client!ServeStop, Startups
    <3>5. ASSUME NEW d \in Candidates, Client!TurnEnds(d) \/ Client!Close(d)
          PROVE  UNCHANGED <<client_startup, client_call>>
      BY <3>5 DEF Client!TurnEnds, Client!Close
    <3>. QED  BY <3>1, <3>2, <3>3, <3>4, <3>5
  <2>2. CASE UNCHANGED <<client_startup, client_call>>
    BY <2>2 DEF Client!TypeOK, Startups, CallStages
  <2>3. CASE \E p \in Clients, to \in {"ready", "failed"} : Client!EndStartup(p, to)
    BY <2>3, StartupEnds
  <2>4. ASSUME NEW p \in Clients, NEW to \in Startups \ {"replaced"}, Client!StartupGoes(p, to), UNCHANGED client_call
        PROVE  /\ client_startup' \in [Clients -> Startups] /\ client_call' \in [Calls -> CallStages]
               /\ \A q \in Clients : client_startup'[q] = "replaced" => client_startup[q] = "replaced"
    BY <2>4, StartupMoves DEF Client!TypeOK, CallStages
  <2>. QED  BY <2>1, <2>2, <2>3, <2>4
<1>. QED  BY <1>1, <1>2, <1>3, <1>4, NothingRuns

\* A daemon is spawned, after a replacement only where the older one is gone.
LEMMA DaemonSpawned ==
    ASSUME Client!ClientAssumption, Client!IInv, NEW p \in Clients, Client!Spawn(p)
    PROVE  Client!IInv'
PROOF
<1>. USE DEF Client!IInv
<1>1. /\ UNCHANGED <<client_lock, client_turns, client_wire, client_refused, client_call, client_ran>>
      /\ client_startup[p] \in {"absent", "replaced"} /\ client_startup' = [client_startup EXCEPT ![p] = "greeting"]
  BY DEF Client!Spawn, Client!StartupGoes
<1>2. /\ client_startup' \in [Clients -> Startups]
      /\ \A q \in Clients : client_startup'[q] = "replaced" => client_startup[q] = "replaced"
  BY <1>1 DEF Client!TypeOK, Startups
<1>3. \/ UNCHANGED <<client_daemon, client_speaks, client_upgraded>>
      \/ \E d \in Candidates :
            /\ client_daemon[d] = "none"
            /\ client_daemon' = [client_daemon EXCEPT ![d] = "spawned"]
            /\ client_speaks' = [client_speaks EXCEPT ![d] = Version[p]]
            /\ client_upgraded' = IF client_startup[p] = "replaced" THEN client_upgraded \union {d} ELSE client_upgraded
  BY DEF Client!Spawn
<1>4. CASE UNCHANGED <<client_daemon, client_speaks, client_upgraded>>
  <2>1. Client!TypeOK'
    BY <1>1, <1>2, <1>4 DEF Client!TypeOK, Startups
  <2>2. Client!Replaced' /\ Client!UpgradeNotRefused'
    BY <1>1, <1>2, <1>4 DEF Client!Replaced, Client!UpgradeNotRefused
  <2>3. Client!Asked' /\ Client!Ran'
    BY <1>1, <1>4 DEF Client!Asked, Client!Ran
  <2>. QED  BY <2>1, <2>2, <2>3
<1>5. ASSUME NEW d \in Candidates, client_daemon[d] = "none",
             client_daemon' = [client_daemon EXCEPT ![d] = "spawned"],
             client_speaks' = [client_speaks EXCEPT ![d] = Version[p]],
             client_upgraded' = IF client_startup[p] = "replaced" THEN client_upgraded \union {d} ELSE client_upgraded
      PROVE  Client!IInv'
  <2>1. /\ client_daemon' \in [Candidates -> {"none", "spawned", "ready", "stopping", "closing", "exited"}]
        /\ client_speaks' \in [Candidates -> {Version[q] : q \in Clients} \union {0, OlderVersion}]
        /\ client_daemon'[d] = "spawned"
        /\ \A e \in Candidates : e # d => client_daemon'[e] = client_daemon[e] /\ client_speaks'[e] = client_speaks[e]
    BY <1>5 DEF Client!TypeOK
  <2>2. Client!TypeOK'
    BY <1>1, <1>2, <1>5, <2>1 DEF Client!TypeOK, Startups
  <2>3. d # Older
    BY <1>5 DEF Client!Replaced
  <2>4. Client!Replaced'
    BY <1>1, <1>2, <1>5, <2>1, <2>3 DEF Client!Replaced, Client!ClientAssumption
  <2>5. Client!UpgradeNotRefused'
    BY <1>1, <1>5 DEF Client!UpgradeNotRefused, Client!Replaced, Client!ClientAssumption
  <2>6. Client!Asked'
    BY <1>1 DEF Client!Asked
  <2>7. Client!Ran'
    BY <1>1, <1>5, <2>1 DEF Client!Ran
  <2>. QED  BY <2>2, <2>4, <2>5, <2>6, <2>7
<1>. QED  BY <1>3, <1>4, <1>5

\* A daemon starts, and takes the lock or ends; a daemon that has closed gives the lock up.
LEMMA DaemonMoves ==
    ASSUME Client!ClientAssumption, Client!IInv, NEW d \in Candidates, Client!Start(d) \/ Client!Exit(d)
    PROVE  Client!IInv'
PROOF
<1>. USE DEF Client!IInv
<1>1. /\ UNCHANGED <<client_speaks, client_wire, client_startup, client_upgraded, client_call, client_ran>>
      /\ client_daemon[d] \in {"spawned", "closing"}
      /\ \/ /\ client_daemon[d] = "spawned" /\ client_lock = None /\ client_lock' = d /\ UNCHANGED client_refused
            /\ client_daemon' = [client_daemon EXCEPT ![d] = "ready"]
         \/ /\ client_daemon[d] = "spawned" /\ UNCHANGED client_lock
            /\ client_refused' = [client_refused EXCEPT ![d] = client_lock]
            /\ client_daemon' = [client_daemon EXCEPT ![d] = "exited"]
         \/ /\ client_lock' = None /\ UNCHANGED client_refused
            /\ client_daemon' = [client_daemon EXCEPT ![d] = "exited"]
  BY DEF Client!Start, Client!Exit
<1>2. /\ client_daemon' \in [Candidates -> {"none", "spawned", "ready", "stopping", "closing", "exited"}]
      /\ client_daemon'[d] \in {"ready", "exited"}
      /\ \A e \in Candidates : e # d => client_daemon'[e] = client_daemon[e]
  BY <1>1 DEF Client!TypeOK
<1>3. Client!TypeOK'
  BY <1>1, <1>2 DEF Client!TypeOK
\* The older daemon has been started, and never is again.
<1>4. client_daemon[d] = "spawned" => d # Older
  BY DEF Client!Replaced
<1>5. Client!Replaced'
  <2>1. client_daemon'[Older] \notin {"none", "spawned"}
    BY <1>2 DEF Client!Replaced, Client!ClientAssumption
  <2>2. client_lock' = Older => client_daemon'[Older] # "exited"
    BY <1>1, <1>2, <1>4 DEF Client!Replaced, Client!ClientAssumption
  <2>3. client_lock # Older => client_lock' # Older
    BY <1>1, <1>4 DEF Client!ClientAssumption
  <2>4. \A e \in Candidates : client_daemon'[e] = "none" => client_refused'[e] = None
    BY <1>1, <1>2 DEF Client!Replaced, Client!TypeOK
  <2>. QED  BY <1>1, <2>1, <2>2, <2>3, <2>4 DEF Client!Replaced
<1>6. Client!UpgradeNotRefused'
  <2>1. ASSUME NEW e \in client_upgraded
        PROVE  client_refused'[e] # Older
    <3>1. client_lock # Older /\ client_refused[e] # Older /\ e \in Candidates
      BY DEF Client!Replaced, Client!UpgradeNotRefused, Client!TypeOK
    <3>. QED  BY <1>1, <3>1 DEF Client!TypeOK
  <2>. QED  BY <1>1, <2>1 DEF Client!UpgradeNotRefused
<1>7. Client!Asked'
  BY <1>1 DEF Client!Asked
<1>8. Client!Ran'
  BY <1>1, <1>2 DEF Client!Ran
<1>. QED  BY <1>3, <1>5, <1>6, <1>7, <1>8

\* A daemon takes a request to start, or refuses it.
LEMMA CallServed ==
    ASSUME Client!ClientAssumption, Client!IInv, NEW w \in client_wire, Client!ServeStart(w)
    PROVE  Client!IInv'
PROOF
<1>. USE DEF Client!IInv
<1>. DEFINE c == w[1]
<1>1. /\ UNCHANGED <<client_daemon, client_speaks, client_lock, client_startup, client_upgraded, client_refused>>
      /\ client_wire' = client_wire \ {w} /\ w[2] = "start" /\ client_daemon[w[4]] \in {"ready", "stopping"}
  BY DEF Client!ServeStart, Client!Serve
<1>2. /\ c \in Calls /\ w[3] = Version[Caller[c]] /\ w[4] \in Candidates
      /\ client_call[c] \in {"sent", "unknown"} /\ client_ran[c] = <<>>
      /\ \A v \in client_wire : v[1] = c => v = w
  BY <1>1 DEF Client!Asked, Client!TypeOK
<1>3. \/ /\ client_speaks[w[4]] = Version[Caller[c]]
         /\ client_ran' = [client_ran EXCEPT ![c] = Append(@, w[4])]
         /\ client_call' = IF client_call[c] = "sent" THEN [client_call EXCEPT ![c] = "done"] ELSE client_call
      \/ /\ client_ran' = client_ran
         /\ client_call' = IF client_call[c] = "sent" THEN [client_call EXCEPT ![c] = "refused"] ELSE client_call
  BY <1>2 DEF Client!ServeStart, Client!Speaks
<1>4. /\ client_call' \in [Calls -> CallStages]
      /\ \A b \in Calls : b # c => client_call'[b] = client_call[b]
      /\ client_call'[c] \in {"done", "unknown", "refused"}
      /\ client_call'[c] = "refused" => client_ran' = client_ran
      /\ client_call'[c] = "done" => client_ran' = [client_ran EXCEPT ![c] = Append(@, w[4])]
  BY <1>2, <1>3 DEF Client!TypeOK, CallStages
<1>5. /\ client_ran' \in [Calls -> Seq(Candidates)]
      /\ \A b \in Calls : b # c => client_ran'[b] = client_ran[b]
      /\ \/ client_ran' = client_ran /\ client_call'[c] # "done"
         \/ client_ran'[c] = <<w[4]>> /\ client_speaks[w[4]] = Version[Caller[c]] /\ client_call'[c] # "refused"
  <2>1. CASE client_ran' = client_ran
    <3>1. client_call'[c] # "done"
      <4>1. Append(client_ran[c], w[4]) # client_ran[c]
        BY <1>2
      <4>2. client_ran \in [Calls -> Seq(Candidates)] /\ client_call \in [Calls -> CallStages]
        BY DEF Client!TypeOK, CallStages
      <4>3. client_ran' # [client_ran EXCEPT ![c] = Append(@, w[4])]
        BY <1>2, <2>1, <4>1, <4>2
      <4>. QED  BY <1>2, <1>3, <4>2, <4>3
    <3>. QED  BY <2>1, <3>1 DEF Client!TypeOK
  <2>2. CASE client_ran' # client_ran
    <3>1. client_ran' = [client_ran EXCEPT ![c] = Append(@, w[4])] /\ client_speaks[w[4]] = Version[Caller[c]]
      BY <1>3, <2>2
    <3>2. Append(client_ran[c], w[4]) = <<w[4]>> /\ <<w[4]>> \in Seq(Candidates)
      BY <1>2
    <3>. QED  BY <1>2, <1>4, <2>2, <3>1, <3>2 DEF Client!TypeOK
  <2>. QED  BY <2>1, <2>2
<1>6. Client!TypeOK'
  BY <1>1, <1>4, <1>5 DEF Client!TypeOK, CallStages
<1>7. Client!Replaced' /\ Client!UpgradeNotRefused'
  BY <1>1 DEF Client!Replaced, Client!UpgradeNotRefused
<1>8. Client!Asked'
  <2>1. \A v \in client_wire' : v \in client_wire /\ v[1] # c
    BY <1>1, <1>2
  <2>. QED  BY <1>1, <1>4, <1>5, <2>1 DEF Client!Asked
<1>9. Client!Ran'
  <2>1. ASSUME NEW b \in Calls
        PROVE  /\ client_call'[b] \notin {"done", "unknown"} => client_ran'[b] = <<>>
               /\ client_call'[b] = "done" => client_ran'[b] # <<>>
               /\ \/ client_ran'[b] = <<>>
                  \/ \E d \in Candidates : client_ran'[b] = <<d>> /\ client_daemon[d] # "none"
                                           /\ client_speaks[d] = Version[Caller[b]]
    <3>1. CASE b = c
      <4>1. <<w[4]>> # <<>>
        OBVIOUS
      <4>. QED  BY <1>1, <1>2, <1>4, <1>5, <3>1, <4>1
    <3>2. CASE b # c
      BY <1>4, <1>5, <3>2 DEF Client!Ran
    <3>. QED  BY <3>1, <3>2
  <2>. QED  BY <1>1, <2>1 DEF Client!Ran
<1>. QED  BY <1>6, <1>7, <1>8, <1>9

LEMMA ClientInvariance == ASSUME Client!ClientAssumption PROVE Client!Spec => []Client!IInv
PROOF
<1>1. Client!IInv /\ [Client!Next]_(Client!vars) => Client!IInv'
  <2>. SUFFICES ASSUME Client!IInv, [Client!Next]_(Client!vars)
                PROVE  Client!IInv'
    OBVIOUS
  <2>1. CASE UNCHANGED Client!vars
    BY <2>1 DEF Client!vars, Client!IInv, Client!TypeOK, Client!Replaced, Client!Asked,
       Client!Ran,
       Client!UpgradeNotRefused
  <2>2. CASE Client!Next
    BY <2>2, StartupStep, CallStep, DaemonAnswers, DaemonSpawned, DaemonMoves, CallServed DEF
       Client!Next
  <2>. QED  BY <2>1, <2>2
<1>. QED  BY <1>1, ClientBegins, PTL DEF Client!Spec

\* A daemon that replaces an older one is not refused for its lock; and a call that is told to have run
\* has run once, in a daemon of its version, one that is told to have failed has not and will not.
THEOREM CallsAreAnsweredTruly ==
    ASSUME Client!ClientAssumption PROVE Client!Spec => [](Client!UpgradeNotRefused /\ Client!RunsTold)
PROOF
<1>1. Client!IInv => Client!UpgradeNotRefused /\ Client!RunsTold
  <2>. SUFFICES ASSUME Client!IInv
                PROVE  Client!RunsTold
    BY DEF Client!IInv
  <2>. SUFFICES ASSUME NEW c \in Calls
                PROVE  /\ Len(client_ran[c]) <= 1
                       /\ \A i \in 1..Len(client_ran[c]) : client_speaks[client_ran[c][i]] = Version[Caller[c]]
                       /\ client_call[c] = "done" => client_ran[c] # <<>>
                       /\ client_call[c] \in {"refused", "failed"} =>
                             client_ran[c] = <<>> /\ \A w \in client_wire : w[1] # c
    BY DEF Client!RunsTold
  <2>1. /\ Len(client_ran[c]) <= 1
        /\ \A i \in 1..Len(client_ran[c]) : client_speaks[client_ran[c][i]] = Version[Caller[c]]
    <3>1. CASE client_ran[c] = <<>>
      BY <3>1
    <3>2. CASE client_ran[c] # <<>>
      <4>1. PICK d \in Candidates : client_ran[c] = <<d>> /\ client_speaks[d] = Version[Caller[c]]
        BY <3>2 DEF Client!IInv, Client!Ran
      <4>. QED  BY <4>1
    <3>. QED  BY <3>1, <3>2
  <2>2. /\ client_call[c] = "done" => client_ran[c] # <<>>
        /\ client_call[c] \in {"refused", "failed"} => client_ran[c] = <<>>
    BY DEF Client!IInv, Client!Ran
  <2>3. client_call[c] \in {"refused", "failed"} => \A w \in client_wire : w[1] # c
    BY DEF Client!IInv, Client!Asked
  <2>. QED  BY <2>1, <2>2, <2>3
<1>. QED  BY <1>1, ClientInvariance, PTL

-----------------------------------------------------------------------------
(* The components together *)

\* Who runs alone runs as its own specification says: a step of another component leaves
\* its variables as they are.
LEMMA EachItsOwn ==
    [AllNext]_allVars =>
        /\ [Next]_vars /\ [Client!Next]_(Client!vars) /\ [Acp!Next]_(Acp!vars) /\ [Codex!Next]_(Codex!vars)
        /\ [Opencode!Next]_(Opencode!vars) /\ [Claude!Next]_(Claude!vars) /\ [Pi!Next]_(Pi!vars)
        /\ [Sandbox!Next]_(Sandbox!vars) /\ [Worker!Next]_(Worker!vars) /\ [Usage!Next]_(Usage!vars)
PROOF
<1>. SUFFICES ASSUME [AllNext]_allVars
              PROVE  /\ [Next]_vars /\ [Client!Next]_(Client!vars) /\ [Acp!Next]_(Acp!vars)
                     /\ [Codex!Next]_(Codex!vars) /\ [Opencode!Next]_(Opencode!vars)
                     /\ [Claude!Next]_(Claude!vars) /\ [Pi!Next]_(Pi!vars)
                     /\ [Sandbox!Next]_(Sandbox!vars) /\ [Worker!Next]_(Worker!vars)
                     /\ [Usage!Next]_(Usage!vars)
  OBVIOUS
<1>1. /\ Next \/ UNCHANGED vars
      /\ Client!Next \/ UNCHANGED clientVars
      /\ Acp!Next \/ UNCHANGED acpVars
      /\ Codex!Next \/ UNCHANGED codexVars
      /\ Opencode!Next \/ UNCHANGED opencodeVars
      /\ Claude!Next \/ UNCHANGED claudeVars
      /\ Pi!Next \/ UNCHANGED piVars
      /\ Sandbox!Next \/ UNCHANGED sandboxVars
      /\ Worker!Next \/ UNCHANGED workerVars
      /\ Usage!Next \/ UNCHANGED usageVars
  BY DEF AllNext, Only, allVars
<1>2. UNCHANGED sandboxVars => UNCHANGED Sandbox!vars
  BY DEF sandboxVars, Sandbox!vars
<1>3. UNCHANGED workerVars => UNCHANGED Worker!vars
  BY DEF workerVars, Worker!vars, Worker!parent
<1>4. UNCHANGED usageVars => UNCHANGED Usage!vars
  BY DEF usageVars, Usage!vars, Usage!provider
<1>5. UNCHANGED clientVars => UNCHANGED Client!vars
  BY DEF clientVars, Client!vars
<1>6. UNCHANGED acpVars => UNCHANGED Acp!vars
  BY DEF acpVars, Acp!vars, Acp!process, Acp!node, Acp!turns
<1>7. UNCHANGED codexVars => UNCHANGED Codex!vars
  BY DEF codexVars, Codex!vars, Codex!process, Codex!accumulators
<1>8. UNCHANGED opencodeVars => UNCHANGED Opencode!vars
  BY DEF opencodeVars, Opencode!vars, Opencode!runtime
<1>9. UNCHANGED claudeVars => UNCHANGED Claude!vars
  BY DEF claudeVars, Claude!vars, Claude!runtime, Claude!query, Claude!turns
<1>10. UNCHANGED piVars => UNCHANGED Pi!vars
  BY DEF piVars, Pi!vars, Pi!here, Pi!pi, Pi!turns
<1>. QED  BY <1>1, <1>2, <1>3, <1>4, <1>5, <1>6, <1>7, <1>8, <1>9, <1>10

\* Every variable of every component keeps its type.
THEOREM TypesAreRight == AllSpec => []TypesOK
PROOF
<1>1. AllInit => /\ Init /\ Client!Init /\ Acp!Init /\ Codex!Init /\ Opencode!Init
                 /\ Claude!Init /\ Pi!Init /\ Sandbox!Init /\ Worker!Init /\ Usage!Init
  BY DEF AllInit
<1>2. /\ Client!Spec => []Client!IInv
      /\ Acp!Spec => []Acp!IInv
      /\ Codex!Spec => []Codex!IInv
      /\ Opencode!Spec => []Opencode!IInv
      /\ Claude!Spec => []Claude!IInv
      /\ Pi!Spec => []Pi!IInv
  BY AgentsAssumption, ClientInvariance, AcpInvariance, CodexInvariance, OpencodeInvariance,
     ClaudeInvariance, PiInvariance
<1>3. /\ Sandbox!Spec => []Sandbox!IInv
      /\ Worker!Spec => []Worker!IInv
  BY AgentsAssumption, SandboxInvariance, WorkerInvariance
<1>4. Usage!LedgerAssumption
  BY AgentsAssumption
<1>5. Usage!Spec => []Usage!IInv
  BY <1>4, LedgerBegins, LedgerStep, PTL DEF Usage!Spec
<1>6. TypeOK /\ Client!IInv /\ Acp!IInv /\ Codex!IInv /\ Opencode!IInv /\ Claude!IInv /\ Pi!IInv
             /\ Sandbox!IInv /\ Worker!IInv /\ Usage!IInv => TypesOK
  BY DEF TypesOK, Client!IInv, Acp!IInv, Codex!IInv, Opencode!IInv, Claude!IInv, Pi!IInv,
         Sandbox!IInv, Worker!IInv, Usage!IInv
<1>. QED  BY <1>1, <1>2, <1>3, <1>5, <1>6, EachItsOwn, TypeCorrect, PTL
          DEF AllSpec, Spec, Client!Spec, Acp!Spec, Codex!Spec, Opencode!Spec, Claude!Spec, Pi!Spec,
              Sandbox!Spec, Worker!Spec, Usage!Spec

\* Whatever a provider sends late, twice or unasked, a turn of any of the five drivers returns what
\* belongs to its own prompt, counts its own usage and works in its own write mode (local-agent-*.ts).
THEOREM TurnsAreApart == AllSpec => []TurnsApart
PROOF
<1>1. AllInit => Acp!Init /\ Codex!Init /\ Opencode!Init /\ Claude!Init /\ Pi!Init
  BY DEF AllInit
<1>2. /\ Acp!Spec => []Acp!AnswersOwn
      /\ Codex!Spec => []Codex!TurnsApart
      /\ Opencode!Spec => []Opencode!AnswersOwn
      /\ Claude!Spec => []Claude!TurnsApart
      /\ Pi!Spec => []Pi!TurnsApart
  BY AgentsAssumption, AcpAnswersOwn, CodexTurnsApart, OpencodeAnswersOwn, ClaudeTurnsApart, PiTurnsApart
<1>3. Acp!AnswersOwn /\ Codex!TurnsApart /\ Opencode!AnswersOwn /\ Claude!TurnsApart /\ Pi!TurnsApart
      => TurnsApart
  BY DEF TurnsApart
<1>. QED  BY <1>1, <1>2, <1>3, EachItsOwn, PTL
          DEF AllSpec, Acp!Spec, Codex!Spec, Opencode!Spec, Claude!Spec, Pi!Spec

\* A client replaces a daemon and calls one as CallsAreAnsweredTruly says (local-agent-client.ts).
THEOREM CallsAreTold == AllSpec => []CallsTold
PROOF
<1>1. AllInit => Client!Init
  BY DEF AllInit
<1>2. Client!Spec => [](Client!UpgradeNotRefused /\ Client!RunsTold)
  BY AgentsAssumption, CallsAreAnsweredTruly
<1>3. Client!UpgradeNotRefused /\ Client!RunsTold => CallsTold
  BY DEF CallsTold
<1>. QED  BY <1>1, <1>2, <1>3, EachItsOwn, PTL DEF AllSpec, Client!Spec

\* No token is charged to two executions or to one that did not spend it (work-ledger.ts).
THEOREM TokensAreBilledOnce == AllSpec => []BilledOnce
PROOF
<1>1. AllInit => Usage!Init
  BY DEF AllInit
<1>2. Usage!Spec => []Usage!BilledOnce
  BY AgentsAssumption, TokensBilledOnce
<1>3. Usage!BilledOnce => BilledOnce
  BY DEF BilledOnce
<1>. QED  BY <1>1, <1>2, <1>3, EachItsOwn, PTL DEF AllSpec, Usage!Spec

\* Commands of Pi keep their sandbox, and an answer about a sandboxed command other than a cleanup
\* error is true (local-agent-pi-sandbox.ts, sandbox-command.ts).
THEOREM SandboxesAreSound == AllSpec => []SandboxesSound
PROOF
<1>1. AllInit => Sandbox!Init /\ Worker!Init
  BY DEF AllInit
<1>2. (Sandbox!Spec => []Sandbox!SandboxHeld) /\ (Worker!Spec => []Worker!AnswersAreClean)
  BY AgentsAssumption, SandboxesAreHeld, SandboxAnswers
<1>3. Sandbox!SandboxHeld /\ Worker!AnswersAreClean => SandboxesSound
  BY DEF SandboxesSound
<1>. QED  BY <1>1, <1>2, <1>3, EachItsOwn, PTL DEF AllSpec, Sandbox!Spec, Worker!Spec

\* Where no daemon has crashed, the socket of one that serves stays, and a sandbox is not torn down
\* under its command (local-agent-daemon.ts, sandbox-command.ts).
THEOREM NothingIsTakenAway == ASSUME NothingStale PROVE AllSpec => NothingTakenAway
PROOF
<1>1. AllInit => Init /\ Worker!Init
  BY DEF AllInit
<1>2. (Spec => ServingKeepsSocket) /\ (Worker!Spec => Worker!ResetAfterCommand)
  BY AgentsAssumption, NothingStale, SocketKeptWithoutStaleLock, ResetsAfterCommand
<1>. QED  BY <1>1, <1>2, EachItsOwn, PTL DEF AllSpec, Spec, Worker!Spec, NothingTakenAway

=============================================================================
