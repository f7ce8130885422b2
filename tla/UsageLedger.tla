---------------------------- MODULE UsageLedger ----------------------------
(***************************************************************************)
(* src/work-ledger.ts: work runs, their executions, and what tokens of a   *)
(* provider's thread each execution is charged.                            *)
(*                                                                         *)
(* One thread and the executions of its agent, in the order of their rows. *)
(* The provider counts the tokens of the thread cumulatively; the ledger   *)
(* learns counts by notifications that may arrive after the turn has       *)
(* ended, and only in order within a turn: a later turn may run in another *)
(* process of the provider.  Each method is one transaction; the manager   *)
(* and the codex driver call them in the order of `phase`.  Of the counts  *)
(* only one total is kept; the provider is external.                       *)
(***************************************************************************)
EXTENDS Naturals, Sequences

CONSTANTS
    Executions,     \* 1 .. N, in the order of their rows
    Runs,
    RunOf,          \* RunOf[e]: the work run an execution belongs to
    None,
    MaxTokens, MaxCrashes, MaxExternal   \* bounds of the model

\* 0 stands for the turns of others.
LedgerAssumption ==
    /\ Executions \subseteq Nat \ {0} /\ RunOf \in [Executions -> Runs] /\ None \notin Nat
    /\ MaxTokens \in Nat /\ MaxCrashes \in Nat /\ MaxExternal \in Nat

VARIABLES
    run,            \* console_work_runs.status
    row,            \* console_executions
    thread,         \* a row in console_threads, and its external_activity
    phase,          \* how far the manager and the driver are with an execution
    spent,          \* the provider's count of the thread
    history,        \* the turns it lists; an external turn is 0
    turning,        \* the turns that still run
    told,           \* told[e]: counts sent for turn e and not yet delivered
    reached,        \* the count when an execution attached, if others had used the thread
    crashes, external

provider == <<spent, history, turning, external>>
vars == <<run, row, thread, phase, provider, told, reached, crashes>>

Absent == [status |-> "none", requested |-> FALSE, turn |-> FALSE, finished |-> FALSE,
           attached |-> FALSE, base |-> None, total |-> None, delta |-> None,
           quality |-> "not_used", reason |-> "none"]

Init ==
    /\ run = [r \in Runs |-> "running"] /\ row = [e \in Executions |-> Absent]
    /\ thread = "none" /\ phase = [e \in Executions |-> "none"]
    /\ spent = 0 /\ history = {} /\ turning = {} /\ external = 0
    /\ told = [e \in Executions |-> <<>>] /\ reached = [e \in Executions |-> 0]
    /\ crashes = 0

Active(e) == row[e].status \in {"starting", "queued", "running"}
Moves(e, from, to) == phase[e] = from /\ phase' = [phase EXCEPT ![e] = to]

(***************************************************************************)
(* The manager.  An agent has one turn at a time.                          *)
(***************************************************************************)
BeginExecution(e) ==
    /\ run[RunOf[e]] = "running"
    /\ \A d \in Executions : IF d < e THEN phase[d] = "over" ELSE phase[d] = "none"
    /\ Moves(e, "none", "begun") /\ row' = [row EXCEPT ![e].status = "queued"]
    /\ UNCHANGED <<run, thread, provider, told, reached, crashes>>

\* Written before the pool is entered: from here on the use is not known to be zero.
ProviderDispatchStarted(e) ==
    /\ Moves(e, "begun", "dispatched")
    /\ row' = [row EXCEPT ![e].quality = "unavailable", ![e].reason = "provider_dispatch_unconfirmed"]
    /\ UNCHANGED <<run, thread, provider, told, reached, crashes>>

(***************************************************************************)
(* What the driver reports.                                                *)
(***************************************************************************)
Prior(e) == {d \in Executions \ {e} : row[d].attached}
KnownTurns(e) == {d \in Prior(e) : row[d].turn}
CleanHistory(e, ids) == ids # None /\ turning = {} /\ ids = KnownTurns(e)

\* The latest of the others, when the thread stands where its turn has left it.
Continued(e, ids) ==
    {d \in Prior(e) : /\ CleanHistory(e, ids) /\ \A f \in Prior(e) : f <= d
                      /\ row[d].finished /\ row[d].total # None /\ row[d].quality = "complete"}
Baseline(e, ids) ==
    IF thread = "none" THEN 0
    ELSE IF Continued(e, ids) = {} THEN None
    ELSE row[CHOOSE d \in Continued(e, ids) : TRUE].total
Unmapped(e, ids) == ids # None /\ ~(ids \subseteq KnownTurns(e))

\* The thread is created, or resumed and read, which may fail.
AttachThread(e) ==
    \E ids \in IF thread = "none" THEN {{}} ELSE {history, None} :
      /\ Moves(e, "dispatched", "attached")
      /\ row' = [row EXCEPT
                   ![e].attached = TRUE, ![e].base = Baseline(e, ids),
                   ![e].reason = IF thread = "none" THEN "new_managed_thread"
                                 ELSE IF Continued(e, ids) # {} THEN "continuous_managed_history"
                                 ELSE IF Unmapped(e, ids) THEN "unmapped_external_turns"
                                 ELSE "unverified_history_boundary"]
      /\ thread' = IF Unmapped(e, ids) \/ thread = "external" THEN "external" ELSE "active"
      /\ reached' = [reached EXCEPT ![e] = IF 0 \in history THEN spent ELSE 0]
      /\ UNCHANGED <<run, provider, told, crashes>>

RequestStarted(e) ==
    /\ Moves(e, "attached", "asking")
    /\ row' = [row EXCEPT ![e].requested = TRUE, ![e].status = "running", ![e].quality = "unavailable"]
    /\ UNCHANGED <<run, thread, provider, told, reached, crashes>>

TurnStarted(e) ==
    /\ e \in history /\ Moves(e, "asking", "turn")
    /\ row' = [row EXCEPT ![e].turn = TRUE, ![e].requested = TRUE]
    /\ UNCHANGED <<run, thread, provider, told, reached, crashes>>

ProviderFinished(e) ==
    /\ e \notin turning /\ Moves(e, "turn", "finished")
    /\ row' = [row EXCEPT ![e].finished = TRUE,
                          ![e].quality = IF row[e].delta # None THEN "complete" ELSE @]
    /\ UNCHANGED <<run, thread, provider, told, reached, crashes>>

\* Also from every earlier phase, when the turn fails.
EndExecution(e) ==
    /\ phase[e] \notin {"none", "over"} /\ phase' = [phase EXCEPT ![e] = "over"]
    /\ row' = [row EXCEPT ![e].status = IF phase[e] = "finished" THEN "completed" ELSE "failed"]
    /\ UNCHANGED <<run, thread, provider, told, reached, crashes>>

Quality(e, delta) == IF delta = None THEN "unavailable"
                     ELSE IF row[e].finished THEN "complete" ELSE "partial"
Minus(total, base) ==
    IF total = None \/ base = None THEN None
    ELSE IF total >= base THEN total - base ELSE None

Charged(e, total) ==
    LET delta == Minus(total, row[e].base)
    IN [row[e] EXCEPT !.total = total, !.delta = delta, !.quality = Quality(e, delta)]
\* A successor whose baseline was the count that is now corrected.
Follows(d, e) ==
    /\ d # e /\ row[d].attached /\ row[e].total # None /\ row[d].base = row[e].total
    /\ row[d].reason = "continuous_managed_history"
Corrected(d, total) ==
    LET delta == Minus(row[d].total, total)
    IN [row[d] EXCEPT !.base = total, !.delta = delta, !.quality = Quality(d, delta)]

ChargeOnly(e, total) == row' = [row EXCEPT ![e] = Charged(e, total)]    \* a fault
Charge(e, total) ==
    row' = [d \in Executions |->
              IF d = e THEN Charged(e, total)
              ELSE IF Follows(d, e) THEN Corrected(d, total) ELSE row[d]]

\* Counts without the turn's identifier, stale and repeated ones change nothing.
Usage(e) ==
    /\ told[e] # <<>> /\ told' = [told EXCEPT ![e] = Tail(@)]
    /\ IF row[e].attached /\ row[e].turn /\ (row[e].total # None => Head(told[e]) > row[e].total)
       THEN Charge(e, Head(told[e])) ELSE UNCHANGED row
    /\ UNCHANGED <<run, thread, phase, provider, reached, crashes>>

(***************************************************************************)
(* The receipt of a run, and restarts.                                     *)
(***************************************************************************)
Finish(r) ==
    /\ run[r] = "running" /\ \A e \in Executions : RunOf[e] = r => ~Active(e)
    /\ run' = [run EXCEPT ![r] = "completed"]
    /\ UNCHANGED <<row, thread, phase, provider, told, reached, crashes>>

\* The daemon dies, and what its connections still held is lost; the next one
\* calls reconcileInterruptedExecutions before it serves.
Restart ==
    /\ crashes < MaxCrashes /\ crashes' = crashes + 1
    /\ row' = [e \in Executions |->
                 IF Active(e) THEN [row[e] EXCEPT !.status = "reconciliation_required"] ELSE row[e]]
    /\ run' = [r \in Runs |-> IF \E e \in Executions : RunOf[e] = r /\ Active(e)
                              THEN "reconciliation_required" ELSE run[r]]
    /\ phase' = [e \in Executions |-> IF phase[e] = "none" THEN "none" ELSE "over"]
    /\ told' = [e \in Executions |-> <<>>]
    /\ UNCHANGED <<thread, provider, reached>>

(***************************************************************************)
(* The provider, and others who use the thread.                            *)
(***************************************************************************)
TurnBegins(e) ==
    /\ phase[e] = "asking" /\ e \notin history
    /\ history' = history \union {e} /\ turning' = turning \union {e}
    /\ UNCHANGED <<run, row, thread, phase, spent, external, told, reached, crashes>>

\* It counts, and sends the count or does not.
TurnSpends(e) ==
    /\ e \in turning /\ spent < MaxTokens /\ spent' = spent + 1
    /\ told' \in {told, [told EXCEPT ![e] = Append(@, spent + 1)]}
    /\ UNCHANGED <<run, row, thread, phase, history, turning, external, reached, crashes>>

TurnEnds(e) ==
    /\ e \in turning /\ turning' = turning \ {e}
    /\ UNCHANGED <<run, row, thread, phase, spent, history, external, told, reached, crashes>>

\* Another application takes a turn while no managed one is under way.
ExternalTurn ==
    /\ thread # "none" /\ external < MaxExternal /\ spent < MaxTokens
    /\ \A e \in Executions : phase[e] \in {"none", "begun", "dispatched", "over"}
    /\ external' = external + 1 /\ spent' = spent + 1 /\ history' = history \union {0}
    /\ UNCHANGED <<run, row, thread, phase, turning, told, reached, crashes>>

Next ==
    \/ \E e \in Executions :
         \/ BeginExecution(e) \/ ProviderDispatchStarted(e) \/ AttachThread(e)
         \/ RequestStarted(e) \/ TurnStarted(e) \/ ProviderFinished(e) \/ EndExecution(e)
         \/ Usage(e) \/ TurnBegins(e) \/ TurnSpends(e) \/ TurnEnds(e)
    \/ \E r \in Runs : Finish(r)
    \/ Restart \/ ExternalTurn

Spec == Init /\ [][Next]_vars

-----------------------------------------------------------------------------
Tokens == 0 .. MaxTokens
Rows ==
    [status: {"none", "queued", "running", "completed", "failed", "reconciliation_required"},
     requested: BOOLEAN, turn: BOOLEAN, finished: BOOLEAN, attached: BOOLEAN,
     base: Tokens \union {None}, total: Tokens \union {None}, delta: Tokens \union {None},
     quality: {"not_used", "unavailable", "partial", "complete"},
     reason: {"none", "provider_dispatch_unconfirmed", "new_managed_thread",
              "continuous_managed_history", "unmapped_external_turns", "unverified_history_boundary"}]
TypeOK ==
    /\ run \in [Runs -> {"running", "completed", "reconciliation_required"}]
    /\ row \in [Executions -> Rows] /\ thread \in {"none", "active", "external"}
    /\ phase \in [Executions -> {"none", "begun", "dispatched", "attached", "asking", "turn", "finished", "over"}]
    /\ spent \in Tokens /\ turning \subseteq history \intersect Executions
    /\ history \subseteq Executions \union {0}
    /\ told \in [Executions -> Seq(Tokens)] /\ reached \in [Executions -> Tokens]
    /\ external \in 0 .. MaxExternal /\ crashes \in 0 .. MaxCrashes

\* No token of the thread is charged to two executions, however late a count
\* arrives, and none that another application spent before the execution attached.
BilledOnce ==
    \A e \in Executions : row[e].delta # None =>
        /\ row[e].base >= reached[e]
        /\ \A d \in Executions : d < e /\ row[d].delta # None => row[d].total <= row[e].base

-----------------------------------------------------------------------------
(* BilledOnce strengthened to an inductive invariant. *)

\* One turn at a time, and none before the thread is there; a row tells its phase.
Phased ==
    /\ \A d, e \in Executions : d < e /\ phase[e] # "none" => phase[d] = "over"
    /\ \A e \in Executions :
         /\ phase[e] \in {"attached", "asking", "turn", "finished"} => row[e].attached
         /\ row[e].attached => thread # "none" /\ phase[e] \notin {"none", "begun", "dispatched"}
         /\ e \in history => row[e].attached
         /\ e \notin history => told[e] = <<>>
         /\ ~row[e].attached => row[e].base = None /\ row[e].total = None
    /\ thread = "none" => history = {}

\* What the ledger knows or will know of the counts of e.
Counts(e) == ({told[e][i] : i \in 1..Len(told[e])} \union {row[e].total}) \ {None}

\* An execution with a baseline began when the earlier ones were over: their counts, also
\* those that come late, are below its own and its successors'.
Divided ==
    /\ \A e \in Executions : \A x \in Counts(e) : x <= spent
    /\ \A d \in Executions : row[d].base # None =>
         \A f \in Executions : f < d =>
           /\ f \notin turning
           /\ \A e \in Executions : d <= e => \A x \in Counts(f), y \in Counts(e) : x < y

\* Its baseline is the last count of the execution before it.
Precedes(l, d) ==
    /\ l < d /\ row[l].attached /\ row[l].base # None
    /\ row[l].total # None /\ row[d].base = row[l].total
    /\ \A f \in Executions : f < d /\ row[f].attached => f <= l
Linked ==
    \A d \in Executions : row[d].base # None =>
        /\ reached[d] = 0
        /\ \/ row[d].base = 0 /\ row[d].reason = "new_managed_thread"
              /\ \A f \in Executions : f < d => ~row[f].attached
           \/ row[d].reason = "continuous_managed_history" /\ \E l \in Executions : Precedes(l, d)

Charges ==
    \A e \in Executions :
        /\ row[e].delta # None => row[e].base # None /\ row[e].total # None
        /\ row[e].quality = "complete" => row[e].delta # None

IInv == TypeOK /\ Phased /\ Divided /\ Linked /\ Charges

=============================================================================
