---------------------------- MODULE RuntimePool ----------------------------
(***************************************************************************)
(* Live provider runtimes and their sessions:                              *)
(* src/local-agent-runtime-pool.ts.                                        *)
(*                                                                         *)
(* The pool runs on one thread.  An action is the code between two awaits  *)
(* of one call; continuations of settled promises run before any other     *)
(* event, which Quiet says.  The code between the last check of acquire    *)
(* and the increment of activeRuns awaits nothing but settled promises and *)
(* is part of one action.                                                  *)
(*                                                                         *)
(* A call creates at most one runtime in each of the two attempts of run,  *)
(* so that an entry is named by the call and the attempt that create it.   *)
(* Time is left out: whatever has no active run may be found idle.         *)
(***************************************************************************)
EXTENDS Naturals, FiniteSets

CONSTANTS
    Runs,       \* the calls of run
    Keys,       \* runtime keys
    Key,        \* Key[q]: the runtime key of the call's driver and context
    Sessions,   \* provider sessions
    Session,    \* Session[q]: the session the call works on
    Resumed,    \* the calls that name their session in the input
    MayDie,     \* bound of the model: the calls whose runtimes may die by themselves
    None        \* no entry

Entries == Runs \X {1, 2}

\* The entry that a call creates in its first or second attempt.
EntryOf(q, attempt) == <<q, attempt>>
Creator(e) == e[1]

ASSUME RunsAssumption ==
    /\ IsFiniteSet(Runs)
    /\ Key \in [Runs -> Keys]
    /\ Session \in [Runs -> Sessions]
    /\ Resumed \subseteq Runs
    /\ MayDie \subseteq Runs
    /\ None \notin Entries

VARIABLES
    pool,       \* open, closing or closed
    current,    \* the map `entries`: the entry of each key
    awaited,    \* the entries that close of the pool awaits
    runtime,    \* the runtime of each entry
    closing,    \* the reason of the entry's closePromise, or "no"
    cleanup,    \* how far that promise has come
    failed,     \* the entries whose runtime.close has thrown
    activeRuns, \* the counter of each entry
    session,    \* the map `sessions` of each entry
    users,      \* activeRuns of each session
    stage,      \* where each call is
    at,         \* the entry it awaits or uses
    retried,    \* the calls in their second attempt
    holding     \* the calls that have reserved their session

entries  == <<pool, current, awaited>>
closes   == <<closing, cleanup, failed>>
counts   == <<activeRuns, session, users>>
callVars == <<stage, at, retried, holding>>
vars     == <<pool, current, awaited, runtime, closing, cleanup, failed,
              activeRuns, session, users, stage, at, retried, holding>>

Reasons  == {"no", "idle", "replaced", "not_alive", "crashed", "shutdown"}
Cleanups == {"none", "creating", "draining", "releasing", "waiting", "closing", "done"}
Stages   == {"idle", "acquiring", "creating", "retrying", "discarding", "rejecting",
             "reserving", "reporting", "provider", "settling", "crashed", "done"}

\* The calls that count as active runs of their entry.
InUse == {"reserving", "reporting", "provider", "settling", "crashed"}
Users(e)      == {q \in Runs : at[q] = e /\ stage[q] \in InUse}
Holders(e, s) == {q \in Users(e) \intersect holding : Session[q] = s}

Releasing(e)  == {s \in Sessions : session[e][s] = "releasing"}

Goes(q, to) == stage' = [stage EXCEPT ![q] = to]

Init ==
    /\ pool = "open" /\ awaited = {} /\ failed = {} /\ retried = {} /\ holding = {}
    /\ current = [k \in Keys |-> None]
    /\ runtime = [e \in Entries |-> "none"]
    /\ closing = [e \in Entries |-> "no"]
    /\ cleanup = [e \in Entries |-> "none"]
    /\ activeRuns = [e \in Entries |-> 0]
    /\ session = [e \in Entries |-> [s \in Sessions |-> "absent"]]
    /\ users   = [e \in Entries |-> [s \in Sessions |-> 0]]
    /\ stage   = [q \in Runs |-> "idle"]
    /\ at      = [q \in Runs |-> None]

-----------------------------------------------------------------------------
(* Continuations that are ready to run. *)

Resumable(q) ==
    \/ stage[q] = "acquiring"
    \/ stage[q] = "creating" /\ runtime[at[q]] # "creating"
    \/ stage[q] \in {"retrying", "discarding", "rejecting", "crashed"} /\ cleanup[at[q]] = "done"
    \/ stage[q] \in {"reserving", "reporting", "settling"} /\ session[at[q]][Session[q]] # "releasing"

CleanupReady(e) ==
    \/ cleanup[e] = "creating" /\ runtime[e] # "creating"
    \/ cleanup[e] = "draining" /\ activeRuns[e] = 0
    \/ cleanup[e] \in {"releasing", "waiting"} /\ Releasing(e) = {}

PoolReady == pool = "closing" /\ \A e \in awaited : cleanup[e] = "done"

Quiet == ~PoolReady /\ (\A q \in Runs : ~Resumable(q)) /\ (\A e \in Entries : ~CleanupReady(e))

-----------------------------------------------------------------------------
(* What the calls are made of. *)

\* closeEntry: the first reason counts, everybody shares its promise.
CloseEntry(e, reason) ==
    IF closing[e] = "no"
    THEN /\ closing' = [closing EXCEPT ![e] = reason]
         /\ cleanup' = [cleanup EXCEPT ![e] = "creating"]
    ELSE UNCHANGED <<closing, cleanup>>

RemoveAndClose(e, reason) ==
    /\ current' = [k \in Keys |-> IF current[k] = e THEN None ELSE current[k]]
    /\ CloseEntry(e, reason)

\* reserveSession of a session that is not being released.
Reserve(q, e) ==
    /\ session' = [session EXCEPT ![e][Session[q]] = "kept"]
    /\ users'   = [users EXCEPT ![e][Session[q]] = @ + 1]
    /\ holding' = holding \union {q}

\* Fault: a session that was cleared meanwhile is counted down too.
FinishUnchecked(q) ==
    LET e == at[q]
        s == Session[q]
    IN  /\ Goes(q, "done")
        /\ activeRuns' = [activeRuns EXCEPT ![e] = @ - 1]
        /\ users' = [users EXCEPT ![e][s] = IF q \in holding THEN @ - 1 ELSE @]
        /\ holding' = holding \ {q}
        /\ at' = [at EXCEPT ![q] = None]

\* The finally of run; a session that has gone meanwhile is skipped.
Finish(q) ==
    LET e == at[q]
        s == Session[q]
    IN  /\ Goes(q, "done")
        /\ activeRuns' = [activeRuns EXCEPT ![e] = @ - 1]
        /\ users' = [users EXCEPT ![e][s] = IF q \in holding /\ session[e][s] # "absent" /\ @ > 0
                                            THEN @ - 1 ELSE @]
        /\ holding' = holding \ {q}
        /\ at' = [at EXCEPT ![q] = None]

\* Fault: a run is counted only once its session is reserved.
EnterUncounted(q, e) ==
    /\ at' = [at EXCEPT ![q] = e]
    /\ IF q \notin Resumed \/ session[e][Session[q]] # "releasing"
       THEN activeRuns' = [activeRuns EXCEPT ![e] = @ + 1] ELSE UNCHANGED activeRuns
    /\ \/ q \notin Resumed /\ Goes(q, "provider") /\ UNCHANGED <<session, users, holding>>
       \/ q \in Resumed /\ session[e][Session[q]] # "releasing" /\ Goes(q, "provider") /\ Reserve(q, e)
       \/ /\ q \in Resumed /\ session[e][Session[q]] = "releasing"
          /\ Goes(q, "reserving") /\ UNCHANGED <<session, users, holding>>

\* Fault: the release of the session is not awaited.
EnterAtOnce(q, e) ==
    /\ at' = [at EXCEPT ![q] = e]
    /\ activeRuns' = [activeRuns EXCEPT ![e] = @ + 1]
    /\ Goes(q, "provider")
    /\ \/ q \notin Resumed /\ UNCHANGED <<session, users, holding>>
       \/ /\ q \in Resumed /\ holding' = holding \union {q}
          /\ users' = [users EXCEPT ![e][Session[q]] = @ + 1]
          /\ session' = [session EXCEPT ![e][Session[q]] = IF @ = "absent" THEN "kept" ELSE @]

\* run, once it has an entry: it counts, and reserves the session of its input.
Enter(q, e) ==
    /\ at' = [at EXCEPT ![q] = e]
    /\ activeRuns' = [activeRuns EXCEPT ![e] = @ + 1]
    /\ \/ q \notin Resumed /\ Goes(q, "provider") /\ UNCHANGED <<session, users, holding>>
       \/ q \in Resumed /\ session[e][Session[q]] # "releasing" /\ Goes(q, "provider") /\ Reserve(q, e)
       \/ /\ q \in Resumed /\ session[e][Session[q]] = "releasing"
          /\ Goes(q, "reserving") /\ UNCHANGED <<session, users, holding>>

\* discardRuntime of an acquired runtime that is dead: one more attempt.
Discard(q, e) ==
    /\ RemoveAndClose(e, "not_alive")
    /\ at' = [at EXCEPT ![q] = e]
    /\ Goes(q, IF q \in retried THEN "rejecting" ELSE "discarding")

-----------------------------------------------------------------------------
(* run and acquire *)

Call(q) ==
    /\ Quiet /\ stage[q] = "idle"
    /\ Goes(q, IF pool = "open" THEN "acquiring" ELSE "done")
    /\ UNCHANGED <<entries, runtime, closes, counts, at, retried, holding>>

\* An entry that is there and not closing is joined, or removed when its runtime
\* is dead.
Join(q) ==
    LET e == current[Key[q]]
    IN  /\ stage[q] = "acquiring"
        /\ e # None /\ closing[e] = "no"
        /\ \/ /\ runtime[e] = "creating"
              /\ at' = [at EXCEPT ![q] = e] /\ Goes(q, "creating")
              /\ UNCHANGED <<current, closing, cleanup, counts, holding>>
           \/ /\ runtime[e] = "alive"
              /\ Enter(q, e)
              /\ UNCHANGED <<current, closing, cleanup>>
           \/ /\ runtime[e] = "dead"
              /\ RemoveAndClose(e, "not_alive")
              /\ at' = [at EXCEPT ![q] = e] /\ Goes(q, "retrying")
              /\ UNCHANGED <<counts, holding>>
        /\ UNCHANGED <<pool, awaited, runtime, failed, retried>>

\* Otherwise a runtime is created, unless the pool is closing.
Create(q) ==
    LET e == current[Key[q]]
        f == EntryOf(q, IF q \in retried THEN 2 ELSE 1)
    IN  /\ stage[q] = "acquiring"
        /\ e # None => closing[e] # "no"
        /\ \/ /\ pool # "open" /\ Goes(q, "done")
              /\ UNCHANGED <<current, runtime, at>>
           \/ /\ pool = "open"
              /\ current' = [current EXCEPT ![Key[q]] = f]
              /\ runtime' = [runtime EXCEPT ![f] = "creating"]
              /\ at' = [at EXCEPT ![q] = f] /\ Goes(q, "creating")
        /\ UNCHANGED <<pool, awaited, closes, counts, retried, holding>>

\* Fault: an entry whose creation has failed stays in the map.
KeepFailedEntry(e) ==
    /\ Quiet /\ runtime[e] = "creating"
    /\ \E result \in {"alive", "dead", "failed"} : runtime' = [runtime EXCEPT ![e] = result]
    /\ UNCHANGED <<entries, closes, counts, callVars>>

\* createRuntime settles; the runtime may have exited already.
CreateSettles(e) ==
    /\ Quiet /\ runtime[e] = "creating"
    /\ \/ /\ \/ runtime' = [runtime EXCEPT ![e] = "alive"]
             \/ Creator(e) \in MayDie /\ runtime' = [runtime EXCEPT ![e] = "dead"]
          /\ UNCHANGED current
       \/ /\ runtime' = [runtime EXCEPT ![e] = "failed"]
          /\ current' = [k \in Keys |-> IF current[k] = e THEN None ELSE current[k]]
    /\ UNCHANGED <<pool, awaited, closes, counts, callVars>>

\* What the creator and those who joined find after createPromise.
StillThere(q, e) == pool = "open" /\ closing[e] = "no" /\ current[Key[q]] = e

Created(q) ==
    LET e == at[q]
        creator == Creator(e) = q
    IN  /\ stage[q] = "creating" /\ runtime[e] # "creating"
        /\ \/ /\ runtime[e] = "failed" /\ Goes(q, "done")
              /\ at' = [at EXCEPT ![q] = None]
              /\ UNCHANGED <<current, closing, cleanup, counts, holding>>
           \/ /\ runtime[e] = "alive" /\ StillThere(q, e)
              /\ Enter(q, e) /\ UNCHANGED <<current, closing, cleanup>>
           \/ /\ runtime[e] = "dead" /\ StillThere(q, e) /\ creator
              /\ Discard(q, e) /\ UNCHANGED <<counts, holding>>
           \/ /\ runtime[e] # "failed" /\ ~StillThere(q, e) /\ creator
              /\ CloseEntry(e, "replaced") /\ Goes(q, "rejecting")
              /\ UNCHANGED <<current, counts, at, holding>>
           \/ /\ runtime[e] # "failed" /\ ~(runtime[e] = "alive" /\ StillThere(q, e)) /\ ~creator
              /\ RemoveAndClose(e, "not_alive") /\ Goes(q, "retrying")
              /\ UNCHANGED <<counts, at, holding>>
        /\ UNCHANGED <<pool, awaited, runtime, failed, retried>>

\* The close that a call awaited is over.  acquire goes round again, or throws what
\* the close has thrown; run acquires a second time, or gives up.
Closed(q) ==
    /\ stage[q] \in {"retrying", "discarding", "rejecting"} /\ cleanup[at[q]] = "done"
    /\ Goes(q, IF stage[q] = "rejecting" \/ (stage[q] = "retrying" /\ at[q] \in failed)
               THEN "done" ELSE "acquiring")
    /\ at' = [at EXCEPT ![q] = None]
    /\ retried' = IF stage[q] = "discarding" THEN retried \union {q} ELSE retried
    /\ UNCHANGED <<entries, runtime, closes, counts, holding>>

-----------------------------------------------------------------------------
(* A run in its runtime *)

\* The release that reserveSession awaited is over.  An entry that closes by then
\* has no more sessions: run ends, the callback throws, a result is kept as it is.
Reserved(q) ==
    LET e == at[q]
    IN  /\ stage[q] \in {"reserving", "reporting", "settling"}
        /\ session[e][Session[q]] # "releasing"
        /\ \/ /\ closing[e] = "no" /\ stage[q] # "settling"
              /\ Reserve(q, e) /\ Goes(q, "provider") /\ UNCHANGED <<activeRuns, at>>
           \/ /\ closing[e] # "no" /\ stage[q] = "reporting"
              /\ Goes(q, "provider") /\ UNCHANGED <<counts, at, holding>>
           \/ /\ closing[e] # "no" /\ stage[q] # "reporting"
              /\ Finish(q) /\ UNCHANGED session
           \/ /\ closing[e] = "no" /\ stage[q] = "settling"
              /\ session' = [session EXCEPT ![e][Session[q]] = "kept"]
              /\ Finish(q)
        /\ UNCHANGED <<entries, runtime, closes, retried>>

\* onSessionId
Report(q) ==
    LET e == at[q]
    IN  /\ Quiet /\ stage[q] = "provider" /\ q \notin holding
        /\ \/ session[e][Session[q]] = "releasing" /\ Goes(q, "reporting") /\ UNCHANGED <<counts, holding>>
           \/ /\ session[e][Session[q]] # "releasing" /\ closing[e] = "no"
              /\ Reserve(q, e) /\ UNCHANGED <<activeRuns, stage>>
        /\ UNCHANGED <<entries, runtime, closes, at, retried>>

\* runtime.run succeeds; the session of the result is reserved if it is not yet.
Succeed(q) ==
    LET e == at[q]
        s == Session[q]
    IN  /\ Quiet /\ stage[q] = "provider"
        /\ \/ q \in holding /\ Finish(q) /\ UNCHANGED session
           \/ /\ q \notin holding /\ session[e][s] # "releasing" /\ closing[e] # "no"
              /\ Finish(q) /\ UNCHANGED session
           \/ /\ q \notin holding /\ session[e][s] # "releasing" /\ closing[e] = "no"
              /\ session' = [session EXCEPT ![e][s] = "kept"]
              /\ Finish(q)
           \/ /\ q \notin holding /\ session[e][s] = "releasing"
              /\ Goes(q, "settling") /\ UNCHANGED <<counts, at, holding>>
        /\ UNCHANGED <<entries, runtime, closes, retried>>

\* runtime.run fails or throws; a runtime that has died is removed and closed.
Fail(q) ==
    /\ Quiet /\ stage[q] = "provider"
    /\ \/ runtime[at[q]] # "dead" /\ Finish(q) /\ UNCHANGED <<current, closing, cleanup>>
       \/ /\ runtime[at[q]] = "dead"
          /\ RemoveAndClose(at[q], "crashed") /\ Goes(q, "crashed")
          /\ UNCHANGED <<activeRuns, users, at, holding>>
    /\ UNCHANGED <<pool, awaited, runtime, failed, session, retried>>

CrashHandled(q) ==
    /\ stage[q] = "crashed" /\ cleanup[at[q]] = "done"
    /\ Finish(q)
    /\ UNCHANGED <<entries, runtime, closes, session, retried>>

Die(e) ==
    /\ Quiet /\ runtime[e] = "alive" /\ Creator(e) \in MayDie
    /\ runtime' = [runtime EXCEPT ![e] = "dead"]
    /\ UNCHANGED <<entries, closes, counts, callVars>>

-----------------------------------------------------------------------------
(* Eviction and close *)

Evictable(e) ==
    /\ \E k \in Keys : current[k] = e
    /\ closing[e] = "no" /\ runtime[e] \in {"alive", "dead"}

\* evictIdle releases sessions without active runs.
ReleaseIdle(e) ==
    /\ Quiet /\ Evictable(e)
    /\ \E S \in SUBSET {s \in Sessions : session[e][s] = "kept" /\ users[e][s] = 0} :
          /\ S # {}
          /\ session' = [session EXCEPT ![e] = [s \in Sessions |-> IF s \in S THEN "releasing" ELSE @[s]]]
    /\ UNCHANGED <<entries, runtime, closes, activeRuns, users, callVars>>

\* Fault: the active runs are not counted.
EvictInUse(e) ==
    /\ Quiet /\ Evictable(e)
    /\ RemoveAndClose(e, "idle")
    /\ UNCHANGED <<pool, awaited, runtime, failed, counts, callVars>>

\* Then, in the same pass, it evicts an entry without active runs (a later pass
\* may still be releasing another session).
Evict(e) ==
    /\ Quiet /\ Evictable(e)
    /\ activeRuns[e] = 0
    /\ RemoveAndClose(e, "idle")
    /\ UNCHANGED <<pool, awaited, runtime, failed, counts, callVars>>

\* A session that is used again, or that could not be released, stays.
ReleaseSettles(e) ==
    /\ Quiet
    /\ \E s \in Releasing(e) :
          \/ session' = [session EXCEPT ![e][s] = IF users[e][s] = 0 THEN "absent" ELSE "kept"]
          \/ session' = [session EXCEPT ![e][s] = "kept"]
    /\ UNCHANGED <<entries, runtime, closes, activeRuns, users, callVars>>

\* Fault: entries whose creation is under way are forgotten.
ShutdownStarted ==
    LET open == {e \in Entries : runtime[e] # "creating" /\ \E k \in Keys : current[k] = e}
    IN  /\ Quiet /\ pool = "open"
        /\ pool' = "closing"
        /\ awaited' = open
        /\ current' = [k \in Keys |-> None]
        /\ closing' = [e \in Entries |-> IF e \in open /\ closing[e] = "no" THEN "shutdown" ELSE closing[e]]
        /\ cleanup' = [e \in Entries |-> IF e \in open /\ closing[e] = "no" THEN "creating" ELSE cleanup[e]]
        /\ UNCHANGED <<runtime, failed, counts, callVars>>

\* close of the pool
Shutdown ==
    LET open == {e \in Entries : \E k \in Keys : current[k] = e}
    IN  /\ Quiet /\ pool = "open"
        /\ pool' = "closing"
        /\ awaited' = open
        /\ current' = [k \in Keys |-> None]
        /\ closing' = [e \in Entries |-> IF e \in open /\ closing[e] = "no" THEN "shutdown" ELSE closing[e]]
        /\ cleanup' = [e \in Entries |-> IF e \in open /\ closing[e] = "no" THEN "creating" ELSE cleanup[e]]
        /\ UNCHANGED <<runtime, failed, counts, callVars>>

ShutdownDone ==
    /\ PoolReady
    /\ pool' = "closed"
    /\ UNCHANGED <<current, awaited, runtime, closes, counts, callVars>>

-----------------------------------------------------------------------------
(* The promise of closeEntry *)

ReleaseAll(e) ==
    /\ session' = [session EXCEPT ![e] = [s \in Sessions |-> IF @[s] = "absent" THEN "absent" ELSE "releasing"]]
    /\ cleanup' = [cleanup EXCEPT ![e] = "releasing"]

\* Fault: every close awaits the active runs first.
CleanupDrains(e) ==
    /\ cleanup[e] = "creating" /\ runtime[e] # "creating"
    /\ cleanup' = [cleanup EXCEPT ![e] = IF runtime[e] = "failed" THEN "done" ELSE "draining"]
    /\ UNCHANGED <<entries, runtime, closing, failed, counts, callVars>>

\* The creation has settled: an idle runtime awaits its active runs, a shutdown
\* only the releases under way, a dead one nothing.
CleanupBegins(e) ==
    /\ cleanup[e] = "creating" /\ runtime[e] # "creating"
    /\ \/ runtime[e] = "failed" /\ cleanup' = [cleanup EXCEPT ![e] = "done"] /\ UNCHANGED session
       \/ /\ runtime[e] # "failed" /\ closing[e] = "shutdown"
          /\ cleanup' = [cleanup EXCEPT ![e] = "waiting"] /\ UNCHANGED session
       \/ /\ runtime[e] # "failed" /\ closing[e] \in {"idle", "replaced"}
          /\ cleanup' = [cleanup EXCEPT ![e] = "draining"] /\ UNCHANGED session
       \/ /\ runtime[e] # "failed" /\ closing[e] \in {"not_alive", "crashed"}
          /\ ReleaseAll(e)
    /\ UNCHANGED <<entries, runtime, closing, failed, activeRuns, users, callVars>>

Drained(e) ==
    /\ cleanup[e] = "draining" /\ activeRuns[e] = 0
    /\ ReleaseAll(e)
    /\ UNCHANGED <<entries, runtime, closing, failed, activeRuns, users, callVars>>

ClearSessions(e) ==
    /\ session' = [session EXCEPT ![e] = [s \in Sessions |-> "absent"]]
    /\ users'   = [users EXCEPT ![e] = [s \in Sessions |-> 0]]

\* runtime.close is called.
Released(e) ==
    /\ cleanup[e] \in {"releasing", "waiting"} /\ Releasing(e) = {}
    /\ cleanup' = [cleanup EXCEPT ![e] = "closing"]
    /\ IF cleanup[e] = "releasing" THEN ClearSessions(e) ELSE UNCHANGED <<session, users>>
    /\ UNCHANGED <<entries, runtime, closing, failed, activeRuns, callVars>>

CloseSettles(e) ==
    /\ Quiet /\ cleanup[e] = "closing"
    /\ cleanup' = [cleanup EXCEPT ![e] = "done"]
    /\ ClearSessions(e)
    /\ \/ runtime' = [runtime EXCEPT ![e] = "dead"] /\ UNCHANGED failed
       \/ failed' = (IF closing[e] = "shutdown" THEN failed ELSE failed \union {e}) /\ UNCHANGED runtime
    /\ UNCHANGED <<entries, closing, activeRuns, callVars>>

-----------------------------------------------------------------------------
Continue(q) == Join(q) \/ Create(q) \/ Created(q) \/ Closed(q) \/ Reserved(q) \/ CrashHandled(q)
Cleanup(e)  == CleanupBegins(e) \/ Drained(e) \/ Released(e)

Next ==
    \/ \E q \in Runs : Call(q) \/ Continue(q) \/ Report(q) \/ Succeed(q) \/ Fail(q)
    \/ \E e \in Entries :
          \/ CreateSettles(e) \/ ReleaseSettles(e) \/ CloseSettles(e)
          \/ Cleanup(e) \/ Die(e) \/ ReleaseIdle(e) \/ Evict(e)
    \/ Shutdown \/ ShutdownDone

Spec == Init /\ [][Next]_vars

\* The promises of a runtime's creation, of releases and of its close settle, and
\* so do the runs of a dead runtime; a turn of a living runtime may be stuck.
FairSpec ==
    /\ Spec
    /\ WF_vars(ShutdownDone)
    /\ \A q \in Runs : WF_vars(Continue(q)) /\ WF_vars(stage[q] = "provider" /\ runtime[at[q]] = "dead" /\ Fail(q))
    /\ \A e \in Entries : /\ WF_vars(Cleanup(e)) /\ WF_vars(CreateSettles(e))
                          /\ WF_vars(ReleaseSettles(e)) /\ WF_vars(CloseSettles(e))

-----------------------------------------------------------------------------
TypeOK ==
    /\ pool       \in {"open", "closing", "closed"}
    /\ current    \in [Keys -> Entries \union {None}]
    /\ awaited    \subseteq Entries
    /\ runtime    \in [Entries -> {"none", "creating", "alive", "dead", "failed"}]
    /\ closing    \in [Entries -> Reasons]
    /\ cleanup    \in [Entries -> Cleanups]
    /\ failed     \subseteq Entries
    /\ activeRuns \in [Entries -> Nat]
    /\ session    \in [Entries -> [Sessions -> {"absent", "kept", "releasing"}]]
    /\ users      \in [Entries -> [Sessions -> Nat]]
    /\ stage      \in [Runs -> Stages]
    /\ at         \in [Runs -> Entries \union {None}]
    /\ retried    \subseteq Runs
    /\ holding    \subseteq Runs

\* "Acquisition is single-flight per runtime key and an entry is removed before
\* its close begins": the map holds every runtime whose close has not begun, so
\* that none is left behind, and no other, so that no caller meets a closing one.
MapHoldsOpenRuntimes ==
    \A e \in Entries :
        current[Key[Creator(e)]] = e <=> runtime[e] \in {"creating", "alive", "dead"} /\ closing[e] = "no"

\* An idle runtime is closed under no run: neither one that is with its provider
\* nor one that still waits for its session (evictIdle, acquire, run).
EvictionSparesRuns == \A e \in Entries : closing[e] \in {"idle", "replaced"} => Users(e) = {}

\* "A session turn must not overlap session release": while its runtime lives, a
\* session that a turn has reserved is not being released (local-agent-runtime.test.ts:60).
ReleaseSparesTurns ==
    \A e \in Entries, s \in Sessions :
        runtime[e] = "alive" /\ session[e][s] = "releasing" => Holders(e, s) = {}

\* The counters that eviction trusts tell the calls: activeRuns of an entry, and
\* of each session of an entry that is not closing.
CountersTellCalls ==
    \A e \in Entries :
        /\ activeRuns[e] = Cardinality(Users(e))
        /\ closing[e] = "no" => \A s \in Sessions : users[e][s] = Cardinality(Holders(e, s))

\* The map and the counters tell the runtimes and the calls (acquire, run, closeEntry).
PoolConsistent == TypeOK /\ MapHoldsOpenRuntimes /\ CountersTellCalls

\* Whatever is idle when a cleanup looks at it, nothing is closed under a run and no
\* session is released under a turn (evictIdle, releaseSession).
CleanupSparesTurns == EvictionSparesRuns /\ ReleaseSparesTurns

\* When close of the pool has returned, no runtime is being created and every
\* runtime has begun to close; those of shutdown itself have been closed
\* ("a runtime created during shutdown is closed").
ShutdownCovers ==
    pool = "closed" =>
        \A e \in Entries :
            /\ runtime[e] # "creating"
            /\ runtime[e] = "alive" => closing[e] # "no"
            /\ closing[e] = "shutdown" => cleanup[e] = "done"

\* No call waits for ever for another call's creation, release or close, although
\* turns may be stuck: it reaches its provider or ends.
CallsSettle ==
    \A q \in Runs : (stage[q] \notin {"idle", "provider", "done"}) ~> (stage[q] \in {"provider", "done"})

\* Closing the pool comes to an end, although turns may be stuck.
ShutdownSettles == (pool = "closing") ~> (pool = "closed")
=============================================================================
