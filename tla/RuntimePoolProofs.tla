-------------------------- MODULE RuntimePoolProofs --------------------------
(* Theorems about RuntimePool, for any number of calls, keys and sessions. *)
EXTENDS RuntimePool, TLAPS, FiniteSetTheorems

\* A call in its attempt names the runtime that it may create.
Attempt(q) == IF q \in retried THEN 2 ELSE 1

\* A call that awaits or uses an entry has one, of its own key, with a runtime if it
\* uses it; and it has reserved a session only from its provider on.
Places ==
    /\ \A q \in Runs :
          /\ stage[q] \notin {"idle", "acquiring", "done"} => at[q] \in Entries
          /\ stage[q] = "creating" => runtime[at[q]] # "none" /\ Key[Creator(at[q])] = Key[q]
          /\ stage[q] \in InUse => runtime[at[q]] \in {"alive", "dead"}
          /\ q \in holding => stage[q] \in {"provider", "crashed"}

\* The runtime that a call would create does not exist yet.
Fresh ==
    \A q \in Runs :
        /\ q \notin retried => runtime[EntryOf(q, 2)] = "none"
        /\ stage[q] = "idle" => q \notin retried /\ runtime[EntryOf(q, 1)] = "none"
        /\ stage[q] \in {"acquiring", "retrying"} => runtime[EntryOf(q, Attempt(q))] = "none"
        /\ stage[q] = "creating" /\ Creator(at[q]) # q => runtime[EntryOf(q, Attempt(q))] = "none"
        /\ stage[q] = "discarding" => q \notin retried

\* The map holds the open runtimes, each under its key, and none once the pool closes.
Mapped ==
    /\ MapHoldsOpenRuntimes
    /\ \A k \in Keys : current[k] # None => Key[Creator(current[k])] = k
    /\ pool # "open" => \A k \in Keys : current[k] = None

\* Why and how far an entry closes: only a shutdown closes one that is being created,
\* only a dead runtime is given up for dead, and no creation is replaced, because
\* whatever removes an entry from the map closes it.
Closings ==
    \A e \in Entries :
        /\ closing[e] = "no" <=> cleanup[e] = "none"
        /\ runtime[e] = "none" => closing[e] = "no"
        /\ runtime[e] = "creating" => closing[e] \in {"no", "shutdown"} /\ cleanup[e] \in {"none", "creating"}
        /\ closing[e] \in {"not_alive", "crashed"} => runtime[e] = "dead"
        /\ closing[e] # "replaced"

\* The pool awaits what it closes, and has closed when all that has ended.
Awaited ==
    /\ \A e \in Entries : closing[e] = "shutdown" => e \in awaited /\ pool # "open"
    /\ pool = "closed" => \A e \in awaited : cleanup[e] = "done"

\* While an entry is open, the session that a call has reserved is kept.
Kept ==
    \A e \in Entries, s \in Sessions :
        closing[e] = "no" /\ Holders(e, s) # {} => session[e][s] = "kept"

IInv ==
    /\ TypeOK /\ Places /\ Fresh /\ Mapped /\ Closings /\ Awaited
    /\ CountersTellCalls /\ Kept /\ EvictionSparesRuns /\ ReleaseSparesTurns

-----------------------------------------------------------------------------
\* The proofs cite that an entry is a call with a number, never how the pair looks.
LEMMA EntryFacts ==
    /\ None \notin Entries
    /\ \A e \in Entries : Creator(e) \in Runs /\ Key[Creator(e)] \in Keys
    /\ \A q \in Runs, i \in {1, 2} : EntryOf(q, i) \in Entries /\ Creator(EntryOf(q, i)) = q
    /\ \A q, r \in Runs, i, j \in {1, 2} : EntryOf(q, i) = EntryOf(r, j) => q = r /\ i = j
BY RunsAssumption DEF Entries, EntryOf, Creator

LEMMA CallFacts == \A q \in Runs : Key[q] \in Keys /\ Session[q] \in Sessions
BY RunsAssumption

\* Only finitely many calls use an entry, and a call that does is counted.
LEMMA UsersFinite == \A e : IsFiniteSet(Users(e)) /\ \A s : IsFiniteSet(Holders(e, s))
BY RunsAssumption, FS_Subset DEF Users, Holders

LEMMA Counted ==
    ASSUME TypeOK, Places, CountersTellCalls, NEW q \in Runs, stage[q] \in InUse
    PROVE  at[q] \in Entries /\ q \in Users(at[q]) /\ activeRuns[at[q]] \in Nat \ {0}
PROOF
<1>1. at[q] \in Entries  BY DEF Places, InUse
<1>2. q \in Users(at[q])  BY DEF Users
<1>3. Cardinality(Users(at[q])) # 0  BY <1>2, UsersFinite, FS_EmptySet
<1>. QED  BY <1>1, <1>2, <1>3 DEF CountersTellCalls, TypeOK

THEOREM Initially == Init => IInv
PROOF
<1>. SUFFICES ASSUME Init PROVE IInv  OBVIOUS
<1>1. TypeOK
  BY DEF Init, TypeOK, Reasons, Cleanups, Stages
<1>2. \A e \in Entries : Users(e) = {} /\ \A s \in Sessions : Holders(e, s) = {}
  BY DEF Init, Users, Holders, InUse
<1>3. CountersTellCalls
  BY <1>2, FS_EmptySet DEF Init, CountersTellCalls
<1>4. Places /\ Fresh
  BY EntryFacts DEF Init, Places, Fresh, InUse, Attempt
<1>5. Mapped /\ Closings /\ Awaited
  BY EntryFacts DEF Init, Mapped, MapHoldsOpenRuntimes, Closings, Awaited
<1>6. Kept /\ EvictionSparesRuns /\ ReleaseSparesTurns
  BY <1>2 DEF Kept, EvictionSparesRuns, ReleaseSparesTurns
<1>. QED  BY <1>1, <1>3, <1>4, <1>5, <1>6 DEF IInv

\* A table of tables with one entry changed.
LEMMA NestedUpdate ==
    ASSUME NEW E, NEW S, NEW V, NEW f \in [E -> [S -> V]], NEW e \in E, NEW s \in S, NEW v \in V
    PROVE  /\ [f EXCEPT ![e][s] = v] \in [E -> [S -> V]]
           /\ \A d \in E, t \in S : [f EXCEPT ![e][s] = v][d][t] = IF d = e /\ t = s THEN v ELSE f[d][t]
PROOF
<1> DEFINE row == [f[e] EXCEPT ![s] = v]
<1>1. row \in [S -> V] /\ \A t \in S : row[t] = IF t = s THEN v ELSE f[e][t]
  OBVIOUS
<1>2. [f EXCEPT ![e][s] = v] = [f EXCEPT ![e] = row]
  OBVIOUS
<1> HIDE DEF row
<1>3. [f EXCEPT ![e] = row] \in [E -> [S -> V]]
  BY <1>1
<1>4. \A d \in E : [f EXCEPT ![e] = row][d] = IF d = e THEN row ELSE f[d]
  OBVIOUS
<1>. QED  BY <1>1, <1>2, <1>3, <1>4

\* What the operators of a call do, entry by entry.
LEMMA ReserveEffect ==
    ASSUME TypeOK, NEW q \in Runs, NEW e \in Entries, Reserve(q, e)
    PROVE  /\ session' \in [Entries -> [Sessions -> {"absent", "kept", "releasing"}]]
           /\ \A d \in Entries, s \in Sessions :
                 session'[d][s] = IF d = e /\ s = Session[q] THEN "kept" ELSE session[d][s]
           /\ users' \in [Entries -> [Sessions -> Nat]]
           /\ \A d \in Entries, s \in Sessions :
                 users'[d][s] = IF d = e /\ s = Session[q] THEN users[d][s] + 1 ELSE users[d][s]
           /\ holding' = holding \union {q}
PROOF
<1>1. users[e][Session[q]] + 1 \in Nat
  BY CallFacts DEF TypeOK
<1>. QED  BY <1>1, CallFacts, NestedUpdate DEF TypeOK, Reserve

LEMMA FinishEffect ==
    ASSUME TypeOK, Places, CountersTellCalls, NEW q \in Runs, stage[q] \in InUse, Finish(q)
    PROVE  /\ at[q] \in Entries
           /\ stage' = [stage EXCEPT ![q] = "done"]
           /\ at' = [at EXCEPT ![q] = None]
           /\ holding' = holding \ {q}
           /\ activeRuns' \in [Entries -> Nat]
           /\ activeRuns' = [activeRuns EXCEPT ![at[q]] = @ - 1]
           /\ users' \in [Entries -> [Sessions -> Nat]]
           /\ \A d \in Entries, s \in Sessions :
                 users'[d][s] = IF /\ d = at[q] /\ s = Session[q]
                                   /\ q \in holding /\ session[d][s] # "absent" /\ users[d][s] > 0
                                THEN users[d][s] - 1 ELSE users[d][s]
PROOF
<1>1. at[q] \in Entries /\ activeRuns[at[q]] \in Nat \ {0}
  BY Counted
<1> DEFINE e == at[q]
           s == Session[q]
           v == IF q \in holding /\ session[e][s] # "absent" /\ users[e][s] > 0
                THEN users[e][s] - 1 ELSE users[e][s]
<1>2. e \in Entries /\ s \in Sessions /\ v \in Nat
  BY <1>1, CallFacts DEF TypeOK
<1>3. users' = [users EXCEPT ![e][s] = v]
  BY DEF Finish
<1>4. /\ stage' = [stage EXCEPT ![q] = "done"]
      /\ at' = [at EXCEPT ![q] = None]
      /\ holding' = holding \ {q}
      /\ activeRuns' = [activeRuns EXCEPT ![e] = @ - 1]
  BY DEF Finish, Goes
<1>5. activeRuns' \in [Entries -> Nat]
  <2>1. activeRuns[e] - 1 \in Nat  BY <1>1
  <2>. QED  BY <1>1, <1>4, <2>1 DEF TypeOK
<1> HIDE DEF v
<1>6. /\ users' \in [Entries -> [Sessions -> Nat]]
      /\ \A d \in Entries, t \in Sessions : users'[d][t] = IF d = e /\ t = s THEN v ELSE users[d][t]
  BY <1>2, <1>3, NestedUpdate DEF TypeOK
<1>. QED  BY <1>1, <1>4, <1>5, <1>6 DEF v

LEMMA CloseEffect ==
    ASSUME TypeOK, NEW e \in Entries, NEW r \in Reasons, CloseEntry(e, r)
    PROVE  /\ closing' \in [Entries -> Reasons]
           /\ \A d \in Entries : closing'[d] = IF d = e /\ closing[d] = "no" THEN r ELSE closing[d]
           /\ cleanup' \in [Entries -> Cleanups]
           /\ \A d \in Entries : cleanup'[d] = IF d = e /\ closing[d] = "no" THEN "creating" ELSE cleanup[d]
BY DEF TypeOK, CloseEntry, Cleanups

LEMMA RemoveEffect ==
    ASSUME TypeOK, NEW e \in Entries, NEW r \in Reasons, RemoveAndClose(e, r)
    PROVE  /\ CloseEntry(e, r)
           /\ current' \in [Keys -> Entries \union {None}]
           /\ \A k \in Keys : current'[k] = IF current[k] = e THEN None ELSE current[k]
BY DEF TypeOK, RemoveAndClose

LEMMA EnterEffect ==
    ASSUME TypeOK, NEW q \in Runs, NEW e \in Entries, Enter(q, e)
    PROVE  /\ at' = [at EXCEPT ![q] = e] /\ at' \in [Runs -> Entries \union {None}]
           /\ activeRuns' = [activeRuns EXCEPT ![e] = @ + 1] /\ activeRuns' \in [Entries -> Nat]
           /\ stage' \in {[stage EXCEPT ![q] = "provider"], [stage EXCEPT ![q] = "reserving"]}
           /\ stage' \in [Runs -> Stages]
           /\ \/ Reserve(q, e) /\ stage'[q] = "provider" /\ session[e][Session[q]] # "releasing"
              \/ UNCHANGED <<session, users, holding>>
           /\ session' \in [Entries -> [Sessions -> {"absent", "kept", "releasing"}]]
           /\ users' \in [Entries -> [Sessions -> Nat]]
           /\ holding' \subseteq Runs
PROOF
<1>1. at' = [at EXCEPT ![q] = e] /\ at' \in [Runs -> Entries \union {None}]
  BY DEF Enter, TypeOK
<1>2. activeRuns' = [activeRuns EXCEPT ![e] = @ + 1] /\ activeRuns' \in [Entries -> Nat]
  BY DEF Enter, TypeOK
<1>3. /\ stage' \in {[stage EXCEPT ![q] = "provider"], [stage EXCEPT ![q] = "reserving"]}
      /\ stage' \in [Runs -> Stages]
  BY DEF Enter, Goes, TypeOK, Stages
<1>4. \/ Reserve(q, e) /\ stage'[q] = "provider" /\ session[e][Session[q]] # "releasing"
      \/ UNCHANGED <<session, users, holding>>
  BY DEF Enter, Goes, TypeOK
<1>5. CASE Reserve(q, e)
  BY <1>1, <1>2, <1>3, <1>4, <1>5, ReserveEffect DEF TypeOK
<1>6. CASE UNCHANGED <<session, users, holding>>
  BY <1>1, <1>2, <1>3, <1>4, <1>6 DEF TypeOK
<1>. QED  BY <1>4, <1>5, <1>6

LEMMA TypeStep == ASSUME TypeOK, Places, CountersTellCalls, Next PROVE TypeOK'
PROOF
<1>1. ASSUME NEW q \in Runs, Call(q) PROVE TypeOK'
  BY <1>1 DEF TypeOK, Call, Goes, Stages, entries, closes, counts
<1>2. ASSUME NEW q \in Runs, Join(q) PROVE TypeOK'
  <2> DEFINE e == current[Key[q]]
  <2>1. e \in Entries
    BY <1>2, CallFacts DEF Join, TypeOK
  <2>2. CASE runtime[e] = "creating"
    BY <1>2, <2>1, <2>2 DEF TypeOK, Join, Goes, Stages, counts
  <2>3. CASE runtime[e] = "alive"
    <3>1. Enter(q, e) /\ UNCHANGED <<pool, current, awaited, runtime, closing, cleanup, failed, retried>>
      BY <1>2, <2>3 DEF Join
    <3>. QED  BY <3>1, <2>1, EnterEffect DEF TypeOK
  <2>4. CASE runtime[e] = "dead"
    <3>1. /\ RemoveAndClose(e, "not_alive") /\ Goes(q, "retrying") /\ at' = [at EXCEPT ![q] = e]
          /\ UNCHANGED <<pool, awaited, runtime, failed, retried, holding, counts>>
      BY <1>2, <2>4 DEF Join
    <3>2. "not_alive" \in Reasons  BY DEF Reasons
    <3>. QED  BY <3>1, <3>2, <2>1, RemoveEffect, CloseEffect DEF TypeOK, Goes, Stages, counts
  <2>. QED  BY <1>2, <2>2, <2>3, <2>4 DEF Join
<1>3. ASSUME NEW q \in Runs, Create(q) PROVE TypeOK'
  <2> DEFINE f == EntryOf(q, IF q \in retried THEN 2 ELSE 1)
  <2>1. f \in Entries  BY EntryFacts
  <2>2. CASE pool # "open"
    BY <1>3, <2>2 DEF TypeOK, Create, Goes, Stages, closes, counts
  <2>3. CASE pool = "open"
    <3>1. /\ current' = [current EXCEPT ![Key[q]] = f]
          /\ runtime' = [runtime EXCEPT ![f] = "creating"]
          /\ at' = [at EXCEPT ![q] = f] /\ Goes(q, "creating")
          /\ UNCHANGED <<pool, awaited, closes, counts, retried, holding>>
      BY <1>3, <2>3 DEF Create
    <3> HIDE DEF f
    <3>. QED  BY <3>1, <2>1 DEF TypeOK, Goes, Stages, closes, counts
  <2>. QED  BY <2>2, <2>3
<1>4. ASSUME NEW q \in Runs, Created(q) PROVE TypeOK'
  <2> DEFINE e == at[q]
  <2>1. e \in Entries
    BY <1>4 DEF Created, Places
  <2>2. "not_alive" \in Reasons /\ "replaced" \in Reasons  BY DEF Reasons
  <2>3. CASE runtime[e] = "failed"
    BY <1>4, <2>3 DEF TypeOK, Created, Discard, Goes, Stages, counts
  <2>4. CASE Enter(q, e) /\ UNCHANGED <<pool, current, awaited, runtime, closing, cleanup, failed, retried>>
    BY <2>1, <2>4, EnterEffect DEF TypeOK
  <2>5. CASE Discard(q, e) /\ UNCHANGED <<pool, awaited, runtime, failed, retried, holding, counts>>
    BY <2>1, <2>2, <2>5, RemoveEffect, CloseEffect DEF TypeOK, Discard, Goes, Stages, counts
  <2>6. CASE /\ CloseEntry(e, "replaced") /\ Goes(q, "rejecting")
             /\ UNCHANGED <<pool, current, awaited, runtime, failed, at, retried, holding, counts>>
    BY <2>1, <2>2, <2>6, CloseEffect DEF TypeOK, Goes, Stages, counts
  <2>7. CASE /\ RemoveAndClose(e, "not_alive") /\ Goes(q, "retrying")
             /\ UNCHANGED <<pool, awaited, runtime, failed, at, retried, holding, counts>>
    BY <2>1, <2>2, <2>7, RemoveEffect, CloseEffect DEF TypeOK, Goes, Stages, counts
  <2>. QED  BY <1>4, <2>3, <2>4, <2>5, <2>6, <2>7 DEF Created
<1>5. ASSUME NEW q \in Runs, Closed(q) PROVE TypeOK'
  BY <1>5 DEF TypeOK, Closed, Goes, Stages, entries, closes, counts
<1>6. ASSUME NEW q \in Runs, Reserved(q) PROVE TypeOK'
  <2>1. at[q] \in Entries /\ stage[q] \in InUse
    BY <1>6 DEF Reserved, Places, InUse
  <2>2. UNCHANGED <<entries, runtime, closes, retried>>
    BY <1>6 DEF Reserved
  <2>3. CASE Reserve(q, at[q]) /\ Goes(q, "provider") /\ UNCHANGED <<activeRuns, at>>
    BY <2>1, <2>2, <2>3, ReserveEffect DEF TypeOK, Goes, Stages, entries, closes
  <2>4. CASE Goes(q, "provider") /\ UNCHANGED <<counts, at, holding>>
    BY <2>1, <2>2, <2>4 DEF TypeOK, Goes, Stages, entries, closes, counts
  <2>5. CASE Finish(q) /\ UNCHANGED session
    BY <2>1, <2>2, <2>5, FinishEffect DEF TypeOK, Stages, entries, closes
  <2>6. CASE Finish(q) /\ session' = [session EXCEPT ![at[q]][Session[q]] = "kept"]
    <3>1. session' \in [Entries -> [Sessions -> {"absent", "kept", "releasing"}]]
      BY <2>1, <2>6, CallFacts, NestedUpdate DEF TypeOK
    <3>. QED  BY <3>1, <2>1, <2>2, <2>6, FinishEffect DEF TypeOK, Stages, entries, closes
  <2>. QED  BY <1>6, <2>3, <2>4, <2>5, <2>6 DEF Reserved
<1>7. ASSUME NEW q \in Runs, CrashHandled(q) PROVE TypeOK'
  BY <1>7, FinishEffect DEF TypeOK, CrashHandled, InUse, Stages, entries, closes
<1>8. ASSUME NEW q \in Runs, Report(q) PROVE TypeOK'
  <2>1. at[q] \in Entries
    BY <1>8 DEF Report, Places
  <2>2. CASE Reserve(q, at[q]) /\ UNCHANGED <<stage, activeRuns>>
    BY <1>8, <2>1, <2>2, ReserveEffect DEF TypeOK, Report, entries, closes
  <2>3. CASE UNCHANGED <<counts, holding>>
    BY <1>8, <2>3 DEF TypeOK, Report, Goes, Stages, entries, closes, counts
  <2>. QED  BY <1>8, <2>2, <2>3 DEF Report
<1>9. ASSUME NEW q \in Runs, Succeed(q) PROVE TypeOK'
  <2>1. at[q] \in Entries /\ stage[q] \in InUse
    BY <1>9 DEF Succeed, Places, InUse
  <2>2. UNCHANGED <<entries, runtime, closes, retried>>
    BY <1>9 DEF Succeed
  <2>3. CASE Finish(q) /\ UNCHANGED session
    BY <2>1, <2>2, <2>3, FinishEffect DEF TypeOK, Stages, entries, closes
  <2>4. CASE Finish(q) /\ session' = [session EXCEPT ![at[q]][Session[q]] = "kept"]
    <3>1. session' \in [Entries -> [Sessions -> {"absent", "kept", "releasing"}]]
      BY <2>1, <2>4, CallFacts, NestedUpdate DEF TypeOK
    <3>. QED  BY <3>1, <2>1, <2>2, <2>4, FinishEffect DEF TypeOK, Stages, entries, closes
  <2>5. CASE Goes(q, "settling") /\ UNCHANGED <<counts, at, holding>>
    BY <2>2, <2>5 DEF TypeOK, Goes, Stages, entries, closes, counts
  <2>. QED  BY <1>9, <2>3, <2>4, <2>5 DEF Succeed
<1>10. ASSUME NEW q \in Runs, Fail(q) PROVE TypeOK'
  <2>1. at[q] \in Entries /\ stage[q] \in InUse
    BY <1>10 DEF Fail, Places, InUse
  <2>2. UNCHANGED <<pool, awaited, runtime, failed, session, retried>>
    BY <1>10 DEF Fail
  <2>3. CASE Finish(q) /\ UNCHANGED <<current, closing, cleanup>>
    BY <2>1, <2>2, <2>3, FinishEffect DEF TypeOK, Stages
  <2>4. CASE RemoveAndClose(at[q], "crashed") /\ Goes(q, "crashed") /\ UNCHANGED <<activeRuns, users, at, holding>>
    <3>1. "crashed" \in Reasons  BY DEF Reasons
    <3>. QED  BY <3>1, <2>1, <2>2, <2>4, RemoveEffect, CloseEffect DEF TypeOK, Goes, Stages
  <2>. QED  BY <1>10, <2>3, <2>4 DEF Fail
<1>11. ASSUME NEW e \in Entries, CreateSettles(e) PROVE TypeOK'
  BY <1>11 DEF TypeOK, CreateSettles, closes, counts, callVars
<1>12. ASSUME NEW e \in Entries, ReleaseSettles(e) PROVE TypeOK'
  <2>1. PICK s \in Sessions, v \in {"absent", "kept"} : session' = [session EXCEPT ![e][s] = v]
    BY <1>12 DEF ReleaseSettles, Releasing
  <2>2. session' \in [Entries -> [Sessions -> {"absent", "kept", "releasing"}]]
    BY <2>1, NestedUpdate DEF TypeOK
  <2>. QED  BY <1>12, <2>2 DEF TypeOK, ReleaseSettles, entries, closes, callVars
<1>13. ASSUME NEW e \in Entries, CloseSettles(e) PROVE TypeOK'
  BY <1>13 DEF TypeOK, CloseSettles, ClearSessions, Cleanups, entries, callVars
<1>14. ASSUME NEW e \in Entries, Cleanup(e) PROVE TypeOK'
  <2>1. CASE CleanupBegins(e)
    <3>1. UNCHANGED <<entries, runtime, closing, failed, activeRuns, users, callVars>>
      BY <2>1 DEF CleanupBegins
    <3>2. CASE UNCHANGED session
      <4>1. PICK v \in Cleanups : cleanup' = [cleanup EXCEPT ![e] = v]
        BY <2>1, <3>2 DEF CleanupBegins, ReleaseAll, Cleanups
      <4>. QED  BY <3>1, <3>2, <4>1 DEF TypeOK, entries, callVars
    <3>3. CASE ReleaseAll(e)
      BY <3>1, <3>3 DEF TypeOK, ReleaseAll, Cleanups, entries, callVars
    <3>. QED  BY <2>1, <3>2, <3>3 DEF CleanupBegins
  <2>2. CASE Drained(e)
    BY <2>2 DEF TypeOK, Drained, ReleaseAll, Cleanups, entries, callVars
  <2>3. CASE Released(e)
    <3>1. /\ cleanup' = [cleanup EXCEPT ![e] = "closing"]
          /\ UNCHANGED <<entries, runtime, closing, failed, activeRuns, callVars>>
          /\ ClearSessions(e) \/ UNCHANGED <<session, users>>
      BY <2>3 DEF Released
    <3>2. CASE ClearSessions(e)
      BY <3>1, <3>2 DEF TypeOK, ClearSessions, Cleanups, entries, callVars
    <3>3. CASE UNCHANGED <<session, users>>
      BY <3>1, <3>3 DEF TypeOK, Cleanups, entries, callVars
    <3>. QED  BY <3>1, <3>2, <3>3
  <2>. QED  BY <1>14, <2>1, <2>2, <2>3 DEF Cleanup
<1>15. ASSUME NEW e \in Entries, Die(e) PROVE TypeOK'
  BY <1>15 DEF TypeOK, Die, entries, closes, counts, callVars
<1>16. ASSUME NEW e \in Entries, ReleaseIdle(e) PROVE TypeOK'
  BY <1>16 DEF TypeOK, ReleaseIdle, entries, closes, callVars
<1>17. ASSUME NEW e \in Entries, Evict(e) PROVE TypeOK'
  <2>1. "idle" \in Reasons  BY DEF Reasons
  <2>. QED  BY <1>17, <2>1, RemoveEffect, CloseEffect DEF TypeOK, Evict, counts, callVars
<1>18. CASE Shutdown
  BY <1>18 DEF TypeOK, Shutdown, Reasons, Cleanups, counts, callVars
<1>19. CASE ShutdownDone
  BY <1>19 DEF TypeOK, ShutdownDone, closes, counts, callVars
<1>. QED
  BY <1>1, <1>2, <1>3, <1>4, <1>5, <1>6, <1>7, <1>8, <1>9, <1>10, <1>11, <1>12, <1>13, <1>14,
     <1>15, <1>16, <1>17, <1>18, <1>19 DEF Next, Continue

LEMMA PlacesStep == ASSUME TypeOK, Places, Fresh, Mapped, CountersTellCalls, Next PROVE Places'
PROOF
<1>1. ASSUME NEW q \in Runs, Call(q) PROVE Places'
  BY <1>1 DEF TypeOK, Places, Call, Goes, InUse
<1>2. ASSUME NEW q \in Runs, Join(q) PROVE Places'
  <2> DEFINE e == current[Key[q]]
  <2>1. /\ e \in Entries /\ Key[Creator(e)] = Key[q] /\ runtime[e] # "none"
        /\ q \notin holding
    BY <1>2, CallFacts DEF Join, TypeOK, Mapped, Places
  <2>2. CASE runtime[e] = "creating"
    BY <1>2, <2>1, <2>2 DEF TypeOK, Places, Join, Goes, InUse
  <2>3. CASE runtime[e] = "alive"
    <3>1. Enter(q, e) /\ UNCHANGED runtime
      BY <1>2, <2>3 DEF Join
    <3>2. holding' = holding \/ (holding' = holding \union {q} /\ stage'[q] = "provider")
      BY <3>1, <2>1, EnterEffect, ReserveEffect
    <3>3. /\ at' = [at EXCEPT ![q] = e]
          /\ stage' \in {[stage EXCEPT ![q] = "provider"], [stage EXCEPT ![q] = "reserving"]}
      BY <3>1, <2>1, EnterEffect
    <3>. QED  BY <3>1, <3>2, <3>3, <2>1, <2>3 DEF TypeOK, Places, InUse
  <2>4. CASE runtime[e] = "dead"
    BY <1>2, <2>1, <2>4 DEF TypeOK, Places, Join, Goes, InUse
  <2>. QED  BY <1>2, <2>2, <2>3, <2>4 DEF Join
<1>3. ASSUME NEW q \in Runs, Create(q) PROVE Places'
  <2> DEFINE f == EntryOf(q, IF q \in retried THEN 2 ELSE 1)
  <2>1. f \in Entries /\ Creator(f) = q  BY EntryFacts
  <2>2. CASE pool # "open"
    BY <1>3, <2>2 DEF TypeOK, Places, Create, Goes, InUse
  <2>3. CASE pool = "open"
    <3>1. /\ runtime' = [runtime EXCEPT ![f] = "creating"]
          /\ at' = [at EXCEPT ![q] = f] /\ Goes(q, "creating")
          /\ UNCHANGED holding /\ stage[q] = "acquiring" /\ runtime[f] = "none"
      BY <1>3, <2>3 DEF Create, Fresh, Attempt
    <3> HIDE DEF f
    <3>. QED  BY <3>1, <2>1 DEF TypeOK, Places, Goes, InUse
  <2>. QED  BY <2>2, <2>3
<1>4. ASSUME NEW q \in Runs, Created(q) PROVE Places'
  <2> DEFINE e == at[q]
  <2>1. e \in Entries /\ q \notin holding /\ stage[q] = "creating"
    BY <1>4 DEF Created, Places
  <2>2. UNCHANGED runtime
    BY <1>4 DEF Created
  <2>3. CASE runtime[e] = "failed"
    BY <1>4, <2>1, <2>3 DEF TypeOK, Places, Created, Discard, Goes, InUse
  <2>4. CASE Enter(q, e) /\ runtime[e] = "alive"
    <3>1. holding' = holding \/ (holding' = holding \union {q} /\ stage'[q] = "provider")
      BY <2>1, <2>4, EnterEffect, ReserveEffect
    <3>2. /\ at' = [at EXCEPT ![q] = e]
          /\ stage' \in {[stage EXCEPT ![q] = "provider"], [stage EXCEPT ![q] = "reserving"]}
      BY <2>1, <2>4, EnterEffect
    <3>. QED  BY <3>1, <3>2, <2>1, <2>2, <2>4 DEF TypeOK, Places, InUse
  <2>5. CASE Discard(q, e) /\ UNCHANGED holding
    BY <2>1, <2>2, <2>5 DEF TypeOK, Places, Discard, Goes, InUse
  <2>6. CASE Goes(q, "rejecting") /\ UNCHANGED <<at, holding>>
    BY <2>1, <2>2, <2>6 DEF TypeOK, Places, Goes, InUse
  <2>7. CASE Goes(q, "retrying") /\ UNCHANGED <<at, holding>>
    BY <2>1, <2>2, <2>7 DEF TypeOK, Places, Goes, InUse
  <2>. QED  BY <1>4, <2>3, <2>4, <2>5, <2>6, <2>7 DEF Created
<1>5. ASSUME NEW q \in Runs, Closed(q) PROVE Places'
  BY <1>5 DEF TypeOK, Places, Closed, Goes, InUse
<1>6. ASSUME NEW q \in Runs, Reserved(q) PROVE Places'
  <2>1. at[q] \in Entries /\ stage[q] \in InUse /\ q \notin holding /\ UNCHANGED runtime
    BY <1>6 DEF Reserved, Places, InUse
  <2>2. CASE Reserve(q, at[q]) /\ Goes(q, "provider") /\ UNCHANGED at
    BY <2>1, <2>2 DEF TypeOK, Places, Reserve, Goes, InUse
  <2>3. CASE Goes(q, "provider") /\ UNCHANGED <<at, holding>>
    BY <2>1, <2>3 DEF TypeOK, Places, Goes, InUse
  <2>4. CASE Finish(q)
    BY <2>1, <2>4, FinishEffect DEF TypeOK, Places, InUse
  <2>. QED  BY <1>6, <2>2, <2>3, <2>4 DEF Reserved
<1>7. ASSUME NEW q \in Runs, CrashHandled(q) PROVE Places'
  BY <1>7, FinishEffect DEF TypeOK, Places, CrashHandled, InUse
<1>8. ASSUME NEW q \in Runs, Report(q) PROVE Places'
  BY <1>8 DEF TypeOK, Places, Report, Reserve, Goes, InUse
<1>9. ASSUME NEW q \in Runs, Succeed(q) PROVE Places'
  <2>1. stage[q] = "provider" /\ stage[q] \in InUse /\ UNCHANGED runtime
    BY <1>9 DEF Succeed, InUse
  <2>2. CASE Finish(q)
    BY <2>1, <2>2, FinishEffect DEF TypeOK, Places, InUse
  <2>3. CASE q \notin holding /\ Goes(q, "settling") /\ UNCHANGED <<at, holding>>
    BY <1>9, <2>1, <2>3 DEF TypeOK, Places, Succeed, Goes, InUse
  <2>. QED  BY <1>9, <2>2, <2>3 DEF Succeed
<1>10. ASSUME NEW q \in Runs, Fail(q) PROVE Places'
  <2>1. stage[q] = "provider" /\ stage[q] \in InUse /\ UNCHANGED runtime
    BY <1>10 DEF Fail, InUse
  <2>2. CASE Finish(q)
    BY <2>1, <2>2, FinishEffect DEF TypeOK, Places, InUse
  <2>3. CASE Goes(q, "crashed") /\ UNCHANGED <<at, holding>>
    BY <2>1, <2>3 DEF TypeOK, Places, Goes, InUse
  <2>. QED  BY <1>10, <2>2, <2>3 DEF Fail
<1>11. ASSUME NEW e \in Entries, CreateSettles(e) PROVE Places'
  BY <1>11 DEF TypeOK, Places, CreateSettles, callVars, InUse
<1>12. ASSUME NEW e \in Entries, CloseSettles(e) PROVE Places'
  BY <1>12 DEF TypeOK, Places, CloseSettles, callVars, InUse
<1>13. ASSUME NEW e \in Entries, Die(e) PROVE Places'
  BY <1>13 DEF TypeOK, Places, Die, callVars, InUse
<1>14. CASE UNCHANGED <<runtime, callVars>>
  BY <1>14 DEF Places, callVars
<1>. QED
  BY <1>1, <1>2, <1>3, <1>4, <1>5, <1>6, <1>7, <1>8, <1>9, <1>10, <1>11, <1>12, <1>13, <1>14
     DEF Next, Continue, Cleanup, CleanupBegins, Drained, Released, ReleaseSettles, ReleaseIdle,
         Evict, Shutdown, ShutdownDone

LEMMA FreshStep == ASSUME TypeOK, Places, Fresh, Closings, CountersTellCalls, Next PROVE Fresh'
PROOF
<1> USE DEF Fresh, Attempt
<1>1. ASSUME NEW q \in Runs, Call(q) PROVE Fresh'
  BY <1>1 DEF TypeOK, Call, Goes
<1>2. ASSUME NEW q \in Runs, Join(q) PROVE Fresh'
  <2>1. /\ stage[q] = "acquiring"
        /\ UNCHANGED <<runtime, retried>>
        /\ \A r \in Runs \ {q} : stage'[r] = stage[r] /\ at'[r] = at[r]
        /\ stage'[q] \in {"creating", "provider", "reserving", "retrying"}
    BY <1>2 DEF TypeOK, Join, Enter, Goes
  <2>. QED  BY <2>1
<1>3. ASSUME NEW q \in Runs, Create(q) PROVE Fresh'
  <2> DEFINE i == IF q \in retried THEN 2 ELSE 1
  <2>1. CASE pool # "open"
    BY <1>3, <2>1 DEF TypeOK, Create, Goes
  <2>2. CASE pool = "open"
    <3>1. /\ runtime' = [runtime EXCEPT ![EntryOf(q, i)] = "creating"]
          /\ at' = [at EXCEPT ![q] = EntryOf(q, i)]
          /\ stage' = [stage EXCEPT ![q] = "creating"]
          /\ UNCHANGED retried
      BY <1>3, <2>2 DEF Create, Goes
    <3>2. Creator(EntryOf(q, i)) = q  BY EntryFacts
    <3>3. ASSUME NEW r \in Runs, NEW j \in {1, 2}, r # q \/ j # i
          PROVE  runtime'[EntryOf(r, j)] = runtime[EntryOf(r, j)]
      BY <3>1, <3>3, EntryFacts DEF TypeOK
    <3>. QED  BY <3>1, <3>2, <3>3 DEF TypeOK
  <2>. QED  BY <2>1, <2>2
<1>4. ASSUME NEW q \in Runs, Created(q) PROVE Fresh'
  <2>1. /\ stage[q] = "creating"
        /\ UNCHANGED <<runtime, retried>>
        /\ \A r \in Runs \ {q} : stage'[r] = stage[r] /\ at'[r] = at[r]
        /\ stage'[q] \in {"done", "provider", "reserving", "rejecting", "discarding", "retrying"}
        /\ stage'[q] = "discarding" => q \notin retried
        /\ stage'[q] = "retrying" => Creator(at[q]) # q
    BY <1>4 DEF TypeOK, Created, Discard, Enter, Goes
  <2>. QED  BY <2>1
<1>5. ASSUME NEW q \in Runs, Closed(q) PROVE Fresh'
  BY <1>5 DEF TypeOK, Closed, Goes
<1>6. ASSUME NEW q \in Runs, stage[q] \in InUse, stage'[q] \in InUse \union {"done"},
             \A r \in Runs \ {q} : stage'[r] = stage[r] /\ at'[r] = at[r],
             UNCHANGED <<runtime, retried>>
      PROVE  Fresh'
  BY <1>6 DEF InUse
<1>7. ASSUME NEW q \in Runs, Reserved(q) \/ CrashHandled(q) \/ Report(q) \/ Succeed(q) \/ Fail(q)
      PROVE  Fresh'
  <2>1. stage[q] \in InUse /\ UNCHANGED <<runtime, retried>>
    BY <1>7 DEF Reserved, CrashHandled, Report, Succeed, Fail, InUse
  <2>2. /\ stage' \in {stage} \union {[stage EXCEPT ![q] = t] : t \in InUse \union {"done"}}
        /\ at' \in {at, [at EXCEPT ![q] = None]}
    BY <1>7 DEF Reserved, CrashHandled, Report, Succeed, Fail, Finish, Goes, InUse
  <2>. QED  BY <2>1, <2>2, <1>6 DEF TypeOK
<1>8. ASSUME NEW e \in Entries, CreateSettles(e) \/ CloseSettles(e) \/ Die(e) PROVE Fresh'
  <2>1. runtime[e] # "none"
    BY <1>8 DEF CreateSettles, CloseSettles, Die, Closings
  <2>2. UNCHANGED <<stage, at, retried>> /\ \A d \in Entries : runtime'[d] = runtime[d] \/ d = e
    BY <1>8 DEF TypeOK, CreateSettles, CloseSettles, Die, callVars
  <2>. QED  BY <2>1, <2>2, EntryFacts
<1>9. CASE UNCHANGED <<runtime, callVars>>
  BY <1>9 DEF callVars
<1>. QED
  BY <1>1, <1>2, <1>3, <1>4, <1>5, <1>7, <1>8, <1>9
     DEF Next, Continue, Cleanup, CleanupBegins, Drained, Released, ReleaseSettles, ReleaseIdle,
         Evict, Shutdown, ShutdownDone

\* Whoever awaits a creation finds the entry in its place, unless it has been closed.
LEMMA InPlace ==
    ASSUME TypeOK, Places, Mapped, NEW q \in Runs, stage[q] = "creating",
           runtime[at[q]] \notin {"creating", "failed"}, closing[at[q]] = "no"
    PROVE  StillThere(q, at[q])
PROOF
<1>1. at[q] \in Entries /\ runtime[at[q]] # "none" /\ Key[Creator(at[q])] = Key[q]
  BY DEF Places
<1>2. runtime[at[q]] \in {"alive", "dead"}
  BY <1>1 DEF TypeOK
<1>3. current[Key[q]] = at[q]
  BY <1>1, <1>2 DEF Mapped, MapHoldsOpenRuntimes
<1>. QED  BY <1>1, <1>3, CallFacts, EntryFacts DEF Mapped, StillThere

\* A runtime that is not being created is taken out of the map and closed.
LEMMA RemovedStep ==
    ASSUME TypeOK, Mapped, Closings, Awaited, NEW e \in Entries, NEW r \in {"idle", "not_alive", "crashed"},
           runtime[e] \in {"alive", "dead"}, closing[e] = "no" /\ r # "idle" => runtime[e] = "dead",
           RemoveAndClose(e, r), UNCHANGED <<pool, awaited, runtime>>
    PROVE  Mapped' /\ Closings' /\ Awaited'
PROOF
<1>1. r \in Reasons /\ r # "no" /\ r # "shutdown" /\ r # "replaced"  BY DEF Reasons
<1>2. /\ \A k \in Keys : current'[k] = IF current[k] = e THEN None ELSE current[k]
      /\ \A d \in Entries : closing'[d] = IF d = e /\ closing[d] = "no" THEN r ELSE closing[d]
      /\ \A d \in Entries : cleanup'[d] = IF d = e /\ closing[d] = "no" THEN "creating" ELSE cleanup[d]
  BY <1>1, RemoveEffect, CloseEffect
<1>3. Mapped'
  BY <1>1, <1>2, EntryFacts DEF Mapped, MapHoldsOpenRuntimes
<1>4. Closings'
  BY <1>1, <1>2 DEF Closings
<1>5. Awaited'
  BY <1>1, <1>2 DEF Awaited, Closings, TypeOK
<1>. QED  BY <1>3, <1>4, <1>5

LEMMA MapStep == ASSUME TypeOK, Places, Fresh, Mapped, Closings, Awaited, Next
                 PROVE  Mapped' /\ Closings' /\ Awaited'
PROOF
<1>1. ASSUME UNCHANGED <<entries, runtime, closing, cleanup>>
      PROVE  Mapped' /\ Closings' /\ Awaited'
  BY <1>1 DEF Mapped, MapHoldsOpenRuntimes, Closings, Awaited, entries
<1>2. ASSUME NEW q \in Runs, Join(q) PROVE Mapped' /\ Closings' /\ Awaited'
  <2> DEFINE e == current[Key[q]]
  <2>1. e \in Entries  BY <1>2, CallFacts DEF Join, TypeOK
  <2>2. CASE runtime[e] = "dead"
    BY <1>2, <2>1, <2>2, RemovedStep DEF Join
  <2>3. CASE runtime[e] # "dead"
    BY <1>1, <1>2, <2>3 DEF Join, entries
  <2>. QED  BY <2>2, <2>3
<1>3. ASSUME NEW q \in Runs, Create(q) PROVE Mapped' /\ Closings' /\ Awaited'
  <2> DEFINE f == EntryOf(q, IF q \in retried THEN 2 ELSE 1)
  <2>1. f \in Entries /\ Creator(f) = q /\ Key[q] \in Keys  BY EntryFacts, CallFacts
  <2>2. CASE pool # "open"
    BY <1>1, <1>3, <2>2 DEF Create, closes, entries
  <2>3. CASE pool = "open"
    <3>1. /\ current' = [current EXCEPT ![Key[q]] = f]
          /\ runtime' = [runtime EXCEPT ![f] = "creating"]
          /\ UNCHANGED <<pool, awaited, closing, cleanup>>
      BY <1>3, <2>3 DEF Create, closes
    <3>2. runtime[f] = "none" /\ closing[f] = "no" /\ cleanup[f] = "none"
      BY <1>3, <2>1 DEF Create, Fresh, Attempt, Closings
    <3>3. current[Key[q]] = None
      <4>. SUFFICES ASSUME current[Key[q]] # None PROVE FALSE  OBVIOUS
      <4>1. current[Key[q]] \in Entries  BY <2>1 DEF TypeOK
      <4>2. closing[current[Key[q]]] = "no"  BY <2>1, <4>1 DEF Mapped, MapHoldsOpenRuntimes
      <4>. QED  BY <1>3, <4>2 DEF Create
    <3> HIDE DEF f
    <3>4. Mapped'
      BY <3>1, <3>2, <3>3, <2>1, <2>3, EntryFacts DEF Mapped, MapHoldsOpenRuntimes, TypeOK
    <3>5. Closings' /\ Awaited'
      BY <3>1, <3>2, <2>1 DEF Closings, Awaited, TypeOK
    <3>. QED  BY <3>4, <3>5
  <2>. QED  BY <2>2, <2>3
<1>4. ASSUME NEW q \in Runs, Created(q) PROVE Mapped' /\ Closings' /\ Awaited'
  <2> DEFINE e == at[q]
  <2>1. /\ e \in Entries /\ stage[q] = "creating" /\ UNCHANGED <<pool, awaited, runtime>>
        /\ runtime[e] \in {"alive", "dead", "failed"}
    BY <1>4 DEF Created, Places, TypeOK
  <2>2. runtime[e] # "failed" /\ closing[e] = "no" => StillThere(q, e)
    BY <2>1, InPlace
  <2>3. CASE UNCHANGED <<current, closing, cleanup>>
    BY <1>1, <2>1, <2>3 DEF entries
  <2>4. CASE runtime[e] = "dead" /\ Discard(q, e)
    BY <2>1, <2>4, RemovedStep DEF Discard
  <2>5. CASE runtime[e] # "failed" /\ ~StillThere(q, e) /\ CloseEntry(e, "replaced") /\ UNCHANGED current
    BY <2>1, <2>2, <2>5, <1>1 DEF CloseEntry, entries
  <2>6. CASE runtime[e] # "failed" /\ ~(runtime[e] = "alive" /\ StillThere(q, e)) /\ RemoveAndClose(e, "not_alive")
    BY <2>1, <2>2, <2>6, RemovedStep
  <2>. QED  BY <1>4, <2>3, <2>4, <2>5, <2>6 DEF Created
<1>5. ASSUME NEW q \in Runs, Fail(q) PROVE Mapped' /\ Closings' /\ Awaited'
  <2>1. at[q] \in Entries /\ UNCHANGED <<pool, awaited, runtime>>
    BY <1>5 DEF Fail, Places
  <2>. QED  BY <1>1, <1>5, <2>1, RemovedStep DEF Fail, entries
<1>6. ASSUME NEW e \in Entries, CreateSettles(e) PROVE Mapped' /\ Closings' /\ Awaited'
  <2>1. /\ runtime[e] = "creating" /\ UNCHANGED <<pool, awaited, closing, cleanup>>
        /\ \A d \in Entries : d # e => runtime'[d] = runtime[d]
        /\ \/ runtime'[e] \in {"alive", "dead"} /\ UNCHANGED current
           \/ /\ runtime'[e] = "failed"
              /\ \A k \in Keys : current'[k] = IF current[k] = e THEN None ELSE current[k]
    BY <1>6 DEF CreateSettles, closes, TypeOK
  <2>2. Mapped'
    BY <2>1, EntryFacts DEF Mapped, MapHoldsOpenRuntimes
  <2>3. Closings' /\ Awaited'
    BY <2>1 DEF Closings, Awaited
  <2>. QED  BY <2>2, <2>3
<1>7. ASSUME NEW e \in Entries, Die(e) PROVE Mapped' /\ Closings' /\ Awaited'
  BY <1>7, EntryFacts DEF Die, Mapped, MapHoldsOpenRuntimes, Closings, Awaited, TypeOK, entries, closes
<1>8. ASSUME NEW e \in Entries, Evict(e) PROVE Mapped' /\ Closings' /\ Awaited'
  BY <1>8, RemovedStep DEF Evict, Evictable
<1>9. ASSUME NEW e \in Entries, NEW v \in Cleanups \ {"none"}, cleanup' = [cleanup EXCEPT ![e] = v],
             closing[e] # "no", runtime[e] # "creating", cleanup[e] # "done",
             runtime' \in {runtime, [runtime EXCEPT ![e] = "dead"]},
             UNCHANGED <<entries, closing>>
      PROVE  Mapped' /\ Closings' /\ Awaited'
  <2>1. Mapped'
    BY <1>9, EntryFacts DEF Mapped, MapHoldsOpenRuntimes, TypeOK, entries
  <2>2. Closings' /\ Awaited'
    BY <1>9 DEF Closings, Awaited, TypeOK, entries
  <2>. QED  BY <2>1, <2>2
<1>10. ASSUME NEW e \in Entries, Cleanup(e) \/ CloseSettles(e) PROVE Mapped' /\ Closings' /\ Awaited'
  <2>1. closing[e] # "no" /\ runtime[e] # "creating" /\ cleanup[e] # "done"
    BY <1>10 DEF Cleanup, CleanupBegins, Drained, Released, CloseSettles, Closings
  <2>2. /\ \E v \in Cleanups \ {"none"} : cleanup' = [cleanup EXCEPT ![e] = v]
        /\ runtime' \in {runtime, [runtime EXCEPT ![e] = "dead"]}
        /\ UNCHANGED <<entries, closing>>
    BY <1>10 DEF Cleanup, CleanupBegins, Drained, Released, CloseSettles, ReleaseAll, Cleanups
  <2>. QED  BY <2>1, <2>2, <1>9
<1>11. CASE Shutdown
  <2> DEFINE open == {e \in Entries : \E k \in Keys : current[k] = e}
  <2>1. \A e \in Entries : e \in open <=> runtime[e] \in {"creating", "alive", "dead"} /\ closing[e] = "no"
    BY EntryFacts DEF Mapped, MapHoldsOpenRuntimes
  <2>2. /\ pool = "open" /\ pool' = "closing" /\ awaited' = open /\ UNCHANGED runtime
        /\ \A k \in Keys : current'[k] = None
        /\ \A e \in Entries : closing'[e] = IF e \in open /\ closing[e] = "no" THEN "shutdown" ELSE closing[e]
        /\ \A e \in Entries : cleanup'[e] = IF e \in open /\ closing[e] = "no" THEN "creating" ELSE cleanup[e]
    BY <1>11 DEF Shutdown
  <2> HIDE DEF open
  <2>3. Mapped'
    BY <2>1, <2>2, EntryFacts DEF Mapped, MapHoldsOpenRuntimes
  <2>4. Closings' /\ Awaited'
    BY <2>1, <2>2 DEF Closings, Awaited
  <2>. QED  BY <2>3, <2>4
<1>12. CASE ShutdownDone
  BY <1>12 DEF ShutdownDone, PoolReady, Mapped, MapHoldsOpenRuntimes, Closings, Awaited, closes
<1>. QED
  BY <1>1, <1>2, <1>3, <1>4, <1>5, <1>6, <1>7, <1>8, <1>10, <1>11, <1>12
     DEF Next, Continue, Call, Closed, Reserved, CrashHandled, Report, Succeed, ReleaseSettles, ReleaseIdle,
         entries, closes

Counts == CountersTellCalls /\ Kept /\ EvictionSparesRuns /\ ReleaseSparesTurns

\* Nobody comes or leaves, and whatever is closed as idle or becomes alive is unused.
LEMMA SameUsers ==
    ASSUME Counts, \A e \in Entries : Users(e)' = Users(e), UNCHANGED <<activeRuns, users, session, holding>>,
           \A e \in Entries : /\ closing'[e] = "no" => closing[e] = "no"
                              /\ closing'[e] \in {"idle", "replaced"} => closing[e] = closing'[e] \/ Users(e) = {}
                              /\ runtime'[e] = "alive" => runtime[e] = "alive" \/ Users(e) = {}
    PROVE  Counts'
PROOF
<1>1. \A e \in Entries, s \in Sessions :
         Holders(e, s)' = Holders(e, s) /\ (Users(e) = {} => Holders(e, s) = {})
  BY DEF Holders
<1>2. CountersTellCalls'
  BY <1>1 DEF Counts, CountersTellCalls
<1>3. Kept' /\ EvictionSparesRuns' /\ ReleaseSparesTurns'
  BY <1>1 DEF Counts, Kept, EvictionSparesRuns, ReleaseSparesTurns
<1>. QED  BY <1>2, <1>3 DEF Counts

\* A call that goes on in its entry, or out of use, changes no set of users.
LEMMA MovesOn ==
    ASSUME TypeOK, NEW q \in Runs, NEW to, stage' = [stage EXCEPT ![q] = to],
           \/ stage[q] \in InUse /\ to \in InUse /\ UNCHANGED at
           \/ stage[q] \notin InUse /\ to \notin InUse /\ \A r \in Runs \ {q} : at'[r] = at[r]
    PROVE  \A e \in Entries : Users(e)' = Users(e)
BY DEF TypeOK, Users

\* A call enters an entry.
LEMMA ComesIn ==
    ASSUME TypeOK, NEW q \in Runs, NEW e \in Entries, NEW to \in InUse, stage[q] \notin InUse,
           stage' = [stage EXCEPT ![q] = to], at' = [at EXCEPT ![q] = e]
    PROVE  q \notin Users(e) /\ Users(e)' = Users(e) \union {q} /\ \A d \in Entries \ {e} : Users(d)' = Users(d)
BY DEF TypeOK, Users

LEMMA GoesOut ==
    ASSUME TypeOK, NEW q \in Runs, stage[q] \in InUse,
           stage' = [stage EXCEPT ![q] = "done"], at' = [at EXCEPT ![q] = None]
    PROVE  \A d \in Entries : Users(d)' = Users(d) \ {q}
BY EntryFacts DEF TypeOK, Users, InUse

\* A session is reserved in an entry that is open, by a call that uses it (from now on).
LEMMA ReserveStep ==
    ASSUME TypeOK, Counts, NEW q \in Runs, NEW e \in Entries, q \notin holding, Reserve(q, e),
           closing[e] = "no", q \in Users(e)', \A d \in Entries : Users(d)' \ {q} = Users(d) \ {q},
           \A d \in Entries \ {e} : q \notin Users(d)',
           \A d \in Entries : activeRuns'[d] = Cardinality(Users(d)'),
           UNCHANGED <<closing, runtime>>
    PROVE  Counts'
PROOF
<1> DEFINE s == Session[q]
<1>0. s \in Sessions  BY CallFacts
<1>1. /\ \A d \in Entries, t \in Sessions : session'[d][t] = IF d = e /\ t = s THEN "kept" ELSE session[d][t]
      /\ \A d \in Entries, t \in Sessions : users'[d][t] = IF d = e /\ t = s THEN users[d][t] + 1 ELSE users[d][t]
      /\ holding' = holding \union {q}
  BY ReserveEffect
<1>2. Holders(e, s)' = Holders(e, s) \union {q} /\ q \notin Holders(e, s)
  BY <1>1 DEF Holders
<1>3. \A d \in Entries, t \in Sessions : d # e \/ t # s => Holders(d, t)' = Holders(d, t)
  BY <1>1 DEF Holders
<1>4. Cardinality(Holders(e, s)') = Cardinality(Holders(e, s)) + 1
  BY <1>2, UsersFinite, FS_AddElement
<1>5. CountersTellCalls'
  BY <1>0, <1>1, <1>3, <1>4 DEF Counts, CountersTellCalls
<1>6. Kept'
  BY <1>0, <1>1, <1>3 DEF Counts, Kept
<1>7. EvictionSparesRuns'
  BY DEF Counts, EvictionSparesRuns
<1>8. ReleaseSparesTurns'
  BY <1>0, <1>1, <1>3 DEF Counts, ReleaseSparesTurns
<1>. QED  BY <1>5, <1>6, <1>7, <1>8 DEF Counts

LEMMA EnterStep ==
    ASSUME TypeOK, Places, Counts, NEW q \in Runs, NEW e \in Entries, stage[q] \in {"acquiring", "creating"},
           closing[e] = "no", Enter(q, e), UNCHANGED <<closing, runtime>>
    PROVE  Counts'
PROOF
<1>1. PICK to \in InUse : stage' = [stage EXCEPT ![q] = to]
  BY EnterEffect DEF InUse
<1>2. stage[q] \notin InUse /\ q \notin holding
  BY DEF InUse, Places
<1>3. /\ at' = [at EXCEPT ![q] = e]
      /\ activeRuns' = [activeRuns EXCEPT ![e] = @ + 1]
      /\ Reserve(q, e) \/ UNCHANGED <<session, users, holding>>
  BY EnterEffect
<1>4. q \notin Users(e) /\ Users(e)' = Users(e) \union {q} /\ \A d \in Entries \ {e} : Users(d)' = Users(d)
  BY <1>1, <1>2, <1>3, ComesIn
<1>5. Cardinality(Users(e)') = Cardinality(Users(e)) + 1
  BY <1>4, UsersFinite, FS_AddElement
<1>6. \A d \in Entries : activeRuns'[d] = Cardinality(Users(d)')
  BY <1>3, <1>4, <1>5 DEF TypeOK, Counts, CountersTellCalls
<1>7. \A d \in Entries \ {e} : q \notin Users(d)'
  BY <1>2, <1>4 DEF Users
<1>8. CASE Reserve(q, e)
  BY <1>2, <1>4, <1>6, <1>7, <1>8, ReserveStep
<1>9. CASE UNCHANGED <<session, users, holding>>
  <2>1. \A d \in Entries, s \in Sessions : Holders(d, s)' = Holders(d, s)
    BY <1>2, <1>4, <1>9 DEF Holders
  <2>2. CountersTellCalls'
    BY <1>6, <1>9, <2>1 DEF Counts, CountersTellCalls
  <2>3. Kept' /\ ReleaseSparesTurns'
    BY <1>9, <2>1 DEF Counts, Kept, ReleaseSparesTurns
  <2>4. EvictionSparesRuns'
    BY <1>4 DEF Counts, EvictionSparesRuns
  <2>. QED  BY <2>2, <2>3, <2>4 DEF Counts
<1>. QED  BY <1>3, <1>8, <1>9

\* A call leaves its entry; its session stays, or is there again.
LEMMA FinishStep ==
    ASSUME TypeOK, Places, Counts, NEW q \in Runs, stage[q] \in InUse, Finish(q),
           \/ UNCHANGED session
           \/ session' = [session EXCEPT ![at[q]][Session[q]] = "kept"],
           UNCHANGED <<closing, runtime>>
    PROVE  Counts'
PROOF
<1> DEFINE s == Session[q]
<1>0. CountersTellCalls  BY DEF Counts
<1>. PICK e \in Entries : e = at[q]  BY <1>0, Counted
<1>1. s \in Sessions /\ q \in Users(e) /\ activeRuns[e] \in Nat \ {0}
  BY <1>0, CallFacts, Counted
<1>2. /\ stage' = [stage EXCEPT ![q] = "done"] /\ at' = [at EXCEPT ![q] = None]
      /\ holding' = holding \ {q}
      /\ activeRuns' = [activeRuns EXCEPT ![e] = @ - 1]
      /\ \A d \in Entries, t \in Sessions :
            users'[d][t] = IF /\ d = e /\ t = s
                              /\ q \in holding /\ session[d][t] # "absent" /\ users[d][t] > 0
                           THEN users[d][t] - 1 ELSE users[d][t]
  BY <1>0, FinishEffect
<1>3. \A d \in Entries : Users(d)' = Users(d) \ {q}
  BY <1>2, GoesOut
<1>4. \A d \in Entries \ {e} : q \notin Users(d)
  BY DEF Users
<1>5. \A d \in Entries, t \in Sessions : Holders(d, t)' = Holders(d, t) \ {q}
  BY <1>2, <1>3 DEF Holders
<1>6. \A d \in Entries, t \in Sessions : q \in Holders(d, t) <=> d = e /\ t = s /\ q \in holding
  BY <1>1, <1>4 DEF Holders
<1>7. Cardinality(Users(e)') = Cardinality(Users(e)) - 1
  <2>1. Users(e)' = Users(e) \ {q}  BY <1>1, <1>3
  <2>2. IsFiniteSet(Users(e))  BY UsersFinite
  <2>. QED  BY <1>1, <2>1, <2>2, FS_RemoveElement
<1>8. \A d \in Entries : activeRuns'[d] = Cardinality(Users(d)')
  <2>1. \A d \in Entries : activeRuns[d] = Cardinality(Users(d))  BY <1>0 DEF CountersTellCalls
  <2>2. ASSUME NEW d \in Entries, d # e PROVE activeRuns'[d] = Cardinality(Users(d)')
    <3>1. Users(d)' = Users(d)
      <4>1. Users(d)' = Users(d) \ {q} /\ q \notin Users(d)  BY <1>3, <1>4, <2>2
      <4>. QED  BY <4>1
    <3>2. activeRuns'[d] = activeRuns[d]  BY <1>2, <2>2 DEF TypeOK
    <3>. QED  BY <2>1, <3>1, <3>2
  <2>3. activeRuns'[e] = activeRuns[e] - 1  BY <1>1, <1>2 DEF TypeOK
  <2>. QED  BY <1>1, <1>7, <2>1, <2>2, <2>3
<1>9. ASSUME NEW d \in Entries, NEW t \in Sessions, closing[d] = "no"
      PROVE  users'[d][t] = Cardinality(Holders(d, t)')
  <2>1. users[d][t] = Cardinality(Holders(d, t))
    BY <1>0, <1>9 DEF CountersTellCalls
  <2>2. CASE q \in Holders(d, t)
    <3>1. d = e /\ t = s /\ q \in holding /\ session[d][t] = "kept"
      BY <1>6, <1>9, <2>2 DEF Counts, Kept
    <3>2. Cardinality(Holders(d, t)') = Cardinality(Holders(d, t)) - 1 /\ Cardinality(Holders(d, t)) \in Nat \ {0}
      <4>1. Holders(d, t)' = Holders(d, t) \ {q}  BY <1>5
      <4>2. IsFiniteSet(Holders(d, t))  BY UsersFinite
      <4>3. Cardinality(Holders(d, t)) \in Nat \ {0}  BY <2>2, <4>2, FS_CardinalityType, FS_EmptySet
      <4>. QED  BY <2>2, <4>1, <4>2, <4>3, FS_RemoveElement
    <3>. QED  BY <1>2, <2>1, <3>1, <3>2
  <2>3. CASE q \notin Holders(d, t)
    <3>1. Holders(d, t)' = Holders(d, t)
      <4>1. Holders(d, t)' = Holders(d, t) \ {q}  BY <1>5
      <4>. QED  BY <4>1, <2>3
    <3>2. ~(d = e /\ t = s /\ q \in holding)  BY <1>6, <2>3
    <3>. QED  BY <1>2, <2>1, <3>1, <3>2
  <2>. QED  BY <2>2, <2>3
<1>10. CountersTellCalls'
  BY <1>8, <1>9 DEF CountersTellCalls
<1>11. \A d \in Entries, t \in Sessions : session'[d][t] \in {session[d][t], "kept"}
  <2>1. CASE UNCHANGED session
    BY <2>1
  <2>2. CASE session' = [session EXCEPT ![e][s] = "kept"]
    BY <1>1, <2>2, NestedUpdate DEF TypeOK
  <2>. QED  BY <2>1, <2>2
<1>12. Kept' /\ ReleaseSparesTurns'
  BY <1>5, <1>11 DEF Counts, Kept, ReleaseSparesTurns
<1>13. EvictionSparesRuns'
  BY <1>3 DEF Counts, EvictionSparesRuns
<1>. QED  BY <1>10, <1>12, <1>13 DEF Counts

\* Sessions are released under nobody, or without a runtime; or they are gone for good.
LEMMA SessionsStep ==
    ASSUME TypeOK, Counts, NEW e \in Entries, UNCHANGED <<activeRuns, closing, callVars>>,
           \A d \in Entries : runtime'[d] = "alive" => runtime[d] = "alive",
           \A d \in Entries \ {e}, s \in Sessions : session'[d][s] = session[d][s] /\ users'[d][s] = users[d][s],
           \A s \in Sessions :
              \/ session'[e][s] = session[e][s] /\ users'[e][s] = users[e][s]
              \/ /\ session'[e][s] = "releasing"
                 /\ runtime[e] # "alive" \/ Holders(e, s) = {}
                 /\ closing[e] = "no" => Holders(e, s) = {} /\ users'[e][s] = users[e][s]
              \/ /\ session'[e][s] # "releasing"
                 /\ closing[e] = "no" => Holders(e, s) = {} /\ users'[e][s] = users[e][s]
    PROVE  Counts'
PROOF
<1>1. \A d \in Entries : Users(d)' = Users(d)
  BY DEF Users, callVars
<1>2. \A d \in Entries, s \in Sessions : Holders(d, s)' = Holders(d, s)
  BY DEF Holders, Users, callVars
<1>3. CountersTellCalls'
  BY <1>1, <1>2 DEF Counts, CountersTellCalls
<1>4. Kept'
  BY <1>2 DEF Counts, Kept
<1>5. EvictionSparesRuns'
  BY <1>1 DEF Counts, EvictionSparesRuns
<1>6. ReleaseSparesTurns'
  BY <1>2 DEF Counts, ReleaseSparesTurns
<1>. QED  BY <1>3, <1>4, <1>5, <1>6 DEF Counts

LEMMA CountStep ==
    ASSUME TypeOK, Places, Mapped, Closings, Counts, Next PROVE Counts'
PROOF
<1>0. CountersTellCalls  BY DEF Counts
<1>1. ASSUME NEW q \in Runs, Call(q) \/ Create(q) \/ Closed(q) PROVE Counts'
  <2>1. /\ UNCHANGED <<activeRuns, users, session, holding, closing>>
        /\ stage[q] \notin InUse
        /\ \E to \in Stages \ InUse : stage' = [stage EXCEPT ![q] = to]
        /\ \A r \in Runs \ {q} : at'[r] = at[r]
    BY <1>1 DEF Call, Create, Closed, Goes, TypeOK, Stages, InUse, counts, closes
  <2>2. \A e \in Entries : Users(e)' = Users(e)
    BY <2>1, MovesOn
  <2>3. \A e \in Entries : runtime'[e] = "alive" => runtime[e] = "alive"
    BY <1>1 DEF Call, Create, Closed, TypeOK
  <2>. QED  BY <2>1, <2>2, <2>3, SameUsers
<1>2. ASSUME NEW e \in Entries, NEW r \in Reasons \ {"no"}, RemoveAndClose(e, r) \/ CloseEntry(e, r),
             r \in {"idle", "replaced"} => Users(e) = {} \/ closing[e] # "no",
             \A d \in Entries : Users(d)' = Users(d),
             UNCHANGED <<activeRuns, users, session, holding, runtime>>
      PROVE  Counts'
  <2>1. \A d \in Entries : closing'[d] = IF d = e /\ closing[d] = "no" THEN r ELSE closing[d]
    BY <1>2, RemoveEffect, CloseEffect
  <2>. QED  BY <1>2, <2>1, SameUsers
<1>3. ASSUME NEW q \in Runs, Join(q) PROVE Counts'
  <2> DEFINE e == current[Key[q]]
  <2>1. e \in Entries  BY <1>3, CallFacts DEF Join, TypeOK
  <2>2. CASE runtime[e] = "alive"
    BY <1>3, <2>1, <2>2, EnterStep DEF Join
  <2>3. CASE runtime[e] # "alive"
    <3>1. /\ stage[q] \notin InUse
          /\ \E to \in Stages \ InUse : stage' = [stage EXCEPT ![q] = to]
          /\ \A r \in Runs \ {q} : at'[r] = at[r]
          /\ UNCHANGED <<activeRuns, users, session, holding, runtime>>
          /\ UNCHANGED closing \/ RemoveAndClose(e, "not_alive")
      BY <1>3, <2>3 DEF Join, Goes, TypeOK, Stages, InUse, counts
    <3>2. \A d \in Entries : Users(d)' = Users(d)
      BY <3>1, MovesOn
    <3>3. "not_alive" \in Reasons \ {"no"}  BY DEF Reasons
    <3>. QED  BY <1>2, <2>1, <3>1, <3>2, <3>3, SameUsers
  <2>. QED  BY <2>2, <2>3
<1>4. ASSUME NEW q \in Runs, Created(q) PROVE Counts'
  <2>. PICK e \in Entries : e = at[q]  BY <1>4 DEF Created, Places
  <2>1. CASE runtime[e] = "alive" /\ StillThere(q, e)
    BY <1>4, <2>1, EnterStep DEF Created, StillThere
  <2>2. CASE ~(runtime[e] = "alive" /\ StillThere(q, e))
    <3>1. /\ stage[q] \notin InUse
          /\ \E to \in Stages \ InUse : stage' = [stage EXCEPT ![q] = to]
          /\ \A r \in Runs \ {q} : at'[r] = at[r]
          /\ UNCHANGED <<activeRuns, users, session, holding, runtime>>
      BY <1>4, <2>2 DEF Created, Discard, Goes, TypeOK, Stages, InUse, counts
    <3>2. \A d \in Entries : Users(d)' = Users(d)
      BY <3>1, MovesOn
    <3>3. \/ UNCHANGED closing
          \/ RemoveAndClose(e, "not_alive")
          \/ CloseEntry(e, "replaced") /\ ~StillThere(q, e) /\ runtime[e] \notin {"creating", "failed"}
      BY <1>4, <2>2 DEF Created, Discard
    <3>4. stage[q] = "creating"  BY <1>4 DEF Created
    <3>5. {"not_alive", "replaced"} \subseteq Reasons \ {"no"}  BY DEF Reasons
    <3>. QED  BY <1>2, <3>1, <3>2, <3>3, <3>4, <3>5, InPlace, SameUsers
  <2>. QED  BY <2>1, <2>2
<1>5. ASSUME NEW q \in Runs, stage[q] \in InUse, NEW to \in InUse, stage' = [stage EXCEPT ![q] = to],
             UNCHANGED <<at, activeRuns, users, session, holding, closing, runtime>>
      PROVE  Counts'
  BY <1>5, MovesOn, SameUsers
<1>6. ASSUME NEW q \in Runs, stage[q] \in InUse, q \notin holding, Reserve(q, at[q]), closing[at[q]] = "no",
             NEW to \in InUse, stage' = [stage EXCEPT ![q] = to], UNCHANGED <<at, activeRuns, closing, runtime>>
      PROVE  Counts'
  <2>. PICK e \in Entries : e = at[q]  BY <1>0, <1>6, Counted
  <2>1. \A d \in Entries : Users(d)' = Users(d)
    BY <1>6, MovesOn
  <2>2. q \in Users(e)' /\ \A d \in Entries \ {e} : q \notin Users(d)'
    BY <1>6, <2>1 DEF Users
  <2>3. \A d \in Entries : activeRuns'[d] = Cardinality(Users(d)')
    BY <1>0, <1>6, <2>1 DEF CountersTellCalls
  <2>. QED  BY <1>6, <2>1, <2>2, <2>3, ReserveStep
<1>7. ASSUME NEW q \in Runs, Reserved(q) PROVE Counts'
  <2>1. stage[q] \in InUse /\ q \notin holding /\ UNCHANGED <<closing, runtime>>
    BY <1>7 DEF Reserved, Places, InUse, closes
  <2>2. "provider" \in InUse  BY DEF InUse
  <2>3. CASE Finish(q)
    <3>1. UNCHANGED session \/ session' = [session EXCEPT ![at[q]][Session[q]] = "kept"]
      BY <1>7, <2>3 DEF Reserved, Reserve, counts
    <3>. QED  BY <2>1, <2>3, <3>1, FinishStep
  <2>4. CASE closing[at[q]] = "no" /\ Reserve(q, at[q]) /\ Goes(q, "provider") /\ UNCHANGED <<activeRuns, at>>
    BY <1>6, <2>1, <2>2, <2>4 DEF Goes
  <2>5. CASE Goes(q, "provider") /\ UNCHANGED <<counts, at, holding>>
    BY <1>5, <2>1, <2>2, <2>5 DEF Goes, counts
  <2>. QED  BY <1>7, <2>3, <2>4, <2>5 DEF Reserved
<1>8. ASSUME NEW q \in Runs, CrashHandled(q) PROVE Counts'
  <2>1. stage[q] \in InUse /\ Finish(q) /\ UNCHANGED <<session, closing, runtime>>
    BY <1>8 DEF CrashHandled, InUse, closes
  <2>. QED  BY <2>1, FinishStep
<1>9. ASSUME NEW q \in Runs, Report(q) PROVE Counts'
  <2>1. stage[q] \in InUse /\ q \notin holding /\ UNCHANGED <<at, closing, runtime>>
    BY <1>9 DEF Report, InUse, closes
  <2>2. CASE Goes(q, "reporting") /\ UNCHANGED <<counts, holding>>
    BY <1>5, <2>1, <2>2 DEF Goes, InUse, counts
  <2>3. CASE closing[at[q]] = "no" /\ Reserve(q, at[q]) /\ UNCHANGED <<activeRuns, stage>>
    <3>1. stage' = [stage EXCEPT ![q] = stage[q]]  BY <2>3 DEF TypeOK
    <3>. QED  BY <1>6, <2>1, <2>3, <3>1
  <2>. QED  BY <1>9, <2>2, <2>3 DEF Report
<1>10. ASSUME NEW q \in Runs, Succeed(q) PROVE Counts'
  <2>1. stage[q] \in InUse /\ UNCHANGED <<closing, runtime>>
    BY <1>10 DEF Succeed, InUse, closes
  <2>2. CASE Finish(q)
    <3>1. UNCHANGED session \/ session' = [session EXCEPT ![at[q]][Session[q]] = "kept"]
      BY <1>10, <2>2 DEF Succeed, counts
    <3>. QED  BY <2>1, <2>2, <3>1, FinishStep
  <2>3. CASE Goes(q, "settling") /\ UNCHANGED <<counts, at, holding>>
    BY <1>5, <2>1, <2>3 DEF Goes, InUse, counts
  <2>. QED  BY <1>10, <2>2, <2>3 DEF Succeed
<1>11. ASSUME NEW q \in Runs, Fail(q) PROVE Counts'
  <2>. PICK e \in Entries : e = at[q]  BY <1>11 DEF Fail, Places
  <2>1. stage[q] \in InUse /\ UNCHANGED <<session, runtime>>
    BY <1>11 DEF Fail, InUse
  <2>2. CASE Finish(q) /\ UNCHANGED closing
    BY <2>1, <2>2, FinishStep
  <2>3. CASE RemoveAndClose(e, "crashed") /\ Goes(q, "crashed") /\ UNCHANGED <<activeRuns, users, at, holding>>
    <3>1. \A d \in Entries : Users(d)' = Users(d)
      BY <2>1, <2>3, MovesOn DEF Goes, InUse
    <3>. QED  BY <1>2, <2>1, <2>3, <3>1 DEF Reasons
  <2>. QED  BY <1>11, <2>2, <2>3 DEF Fail
<1>12. ASSUME NEW e \in Entries, CreateSettles(e) \/ Die(e) PROVE Counts'
  <2>1. UNCHANGED <<activeRuns, users, session, closing, callVars>>
    BY <1>12 DEF CreateSettles, Die, counts, closes
  <2>2. \A d \in Entries : Users(d)' = Users(d)
    BY <2>1 DEF Users, callVars
  <2>3. CASE Die(e)
    <3>1. \A d \in Entries : runtime'[d] = "alive" => runtime[d] = "alive"
      BY <2>3 DEF Die, TypeOK
    <3>. QED  BY <2>1, <2>2, <3>1, SameUsers DEF callVars
  <2>4. CASE CreateSettles(e)
    <3>1. Users(e) = {}
      BY <2>4 DEF CreateSettles, Places, Users
    <3>2. \A d \in Entries \ {e} : runtime'[d] = runtime[d]
      BY <2>4 DEF CreateSettles, TypeOK
    <3>. QED  BY <2>1, <2>2, <3>1, <3>2, SameUsers DEF callVars
  <2>. QED  BY <1>12, <2>3, <2>4
<1>13. \A e \in Entries, s \in Sessions : closing[e] = "no" /\ users[e][s] = 0 => Holders(e, s) = {}
  BY UsersFinite, FS_EmptySet DEF Counts, CountersTellCalls
<1>14. ASSUME NEW e \in Entries, ReleaseIdle(e) PROVE Counts'
  <2>1. closing[e] = "no" /\ UNCHANGED <<activeRuns, users, closing, runtime, callVars>>
    BY <1>14 DEF ReleaseIdle, Evictable, closes
  <2>2. \A d \in Entries \ {e}, s \in Sessions : session'[d][s] = session[d][s]
    BY <1>14 DEF ReleaseIdle, TypeOK
  <2>3. \A s \in Sessions : session'[e][s] = session[e][s] \/ (session'[e][s] = "releasing" /\ users[e][s] = 0)
    BY <1>14 DEF ReleaseIdle, TypeOK
  <2>. QED  BY <1>13, <2>1, <2>2, <2>3, SessionsStep
<1>15. ASSUME NEW e \in Entries, ReleaseSettles(e) PROVE Counts'
  <2>1. PICK s \in Sessions, v \in {"absent", "kept"} :
           session[e][s] = "releasing" /\ session' = [session EXCEPT ![e][s] = v]
    BY <1>15 DEF ReleaseSettles, Releasing
  <2>2. \A d \in Entries, t \in Sessions : session'[d][t] = IF d = e /\ t = s THEN v ELSE session[d][t]
    BY <2>1, NestedUpdate DEF TypeOK
  <2>3. UNCHANGED <<activeRuns, users, closing, runtime, callVars>>
    BY <1>15 DEF ReleaseSettles, closes
  <2>4. closing[e] = "no" => Holders(e, s) = {}
    BY <2>1 DEF Counts, Kept
  <2>. QED  BY <2>1, <2>2, <2>3, <2>4, SessionsStep
<1>16. ASSUME NEW e \in Entries, CloseSettles(e) \/ Released(e) PROVE Counts'
  <2>1. /\ closing[e] # "no" /\ UNCHANGED <<activeRuns, closing, callVars>>
        /\ \A d \in Entries : runtime'[d] = "alive" => runtime[d] = "alive"
        /\ ClearSessions(e) \/ UNCHANGED <<session, users>>
    BY <1>16 DEF CloseSettles, Released, Closings, TypeOK
  <2>2. CASE ClearSessions(e)
    <3>1. \A d \in Entries \ {e}, s \in Sessions : session'[d][s] = session[d][s] /\ users'[d][s] = users[d][s]
      BY <2>2 DEF ClearSessions, TypeOK
    <3>2. \A s \in Sessions : session'[e][s] = "absent"
      BY <2>2 DEF ClearSessions, TypeOK
    <3>. QED  BY <2>1, <3>1, <3>2, SessionsStep
  <2>3. CASE UNCHANGED <<session, users>>
    BY <2>1, <2>3, SessionsStep
  <2>. QED  BY <2>1, <2>2, <2>3
<1>17. ASSUME NEW e \in Entries, CleanupBegins(e) \/ Drained(e) PROVE Counts'
  <2>1. closing[e] # "no" /\ UNCHANGED <<activeRuns, users, closing, runtime, callVars>>
    BY <1>17 DEF CleanupBegins, Drained, Closings
  <2>2. CASE UNCHANGED session
    BY <2>1, <2>2, SessionsStep
  <2>3. CASE ReleaseAll(e) /\ (runtime[e] = "dead" \/ activeRuns[e] = 0)
    <3>1. runtime[e] # "alive" \/ \A s \in Sessions : Holders(e, s) = {}
      BY <1>0, <2>3, UsersFinite, FS_EmptySet DEF CountersTellCalls, Holders
    <3>2. \A d \in Entries \ {e}, s \in Sessions : session'[d][s] = session[d][s]
      BY <2>3 DEF ReleaseAll, TypeOK
    <3>3. \A s \in Sessions : session'[e][s] \in {"absent", "releasing"}
      BY <2>3 DEF ReleaseAll, TypeOK
    <3>. QED  BY <2>1, <3>1, <3>2, <3>3, SessionsStep
  <2>. QED  BY <1>17, <2>2, <2>3 DEF CleanupBegins, Drained, Closings
<1>18. ASSUME NEW e \in Entries, Evict(e) PROVE Counts'
  <2>1. Users(e) = {}
    BY <1>0, <1>18, UsersFinite, FS_EmptySet DEF Evict, CountersTellCalls
  <2>2. \A d \in Entries : Users(d)' = Users(d)
    BY <1>18 DEF Evict, Users, callVars
  <2>. QED  BY <1>2, <1>18, <2>1, <2>2 DEF Evict, Reasons, counts, callVars
<1>19. CASE Shutdown \/ ShutdownDone
  <2>1. UNCHANGED <<activeRuns, users, session, runtime, callVars>>
    BY <1>19 DEF Shutdown, ShutdownDone, counts
  <2>2. \A d \in Entries : Users(d)' = Users(d)
    BY <2>1 DEF Users, callVars
  <2>3. \A d \in Entries : closing'[d] = closing[d] \/ (closing[d] = "no" /\ closing'[d] = "shutdown")
    BY <1>19 DEF Shutdown, ShutdownDone, closes
  <2>. QED  BY <2>1, <2>2, <2>3, SameUsers DEF callVars
<1>. QED
  BY <1>1, <1>3, <1>4, <1>7, <1>8, <1>9, <1>10, <1>11, <1>12, <1>14, <1>15, <1>16, <1>17, <1>18, <1>19
     DEF Next, Continue, Cleanup

LEMMA Inductive == IInv /\ [Next]_vars => IInv'
PROOF
<1>. SUFFICES ASSUME IInv, [Next]_vars PROVE IInv'  OBVIOUS
<1>1. /\ TypeOK /\ Places /\ Fresh /\ Mapped /\ Closings /\ Awaited
      /\ Counts /\ CountersTellCalls
  BY DEF IInv, Counts
<1>2. CASE Next
  <2>1. TypeOK' /\ Places' /\ Fresh'
    BY <1>1, <1>2, TypeStep, PlacesStep, FreshStep
  <2>2. Mapped' /\ Closings' /\ Awaited'
    BY <1>1, <1>2, MapStep
  <2>3. Counts'
    BY <1>1, <1>2, CountStep
  <2>. QED  BY <2>1, <2>2, <2>3 DEF IInv, Counts
<1>3. CASE UNCHANGED vars
  <2>1. TypeOK' /\ Places' /\ Fresh'
    BY <1>1, <1>3 DEF vars, TypeOK, Places, Fresh, Attempt
  <2>2. Mapped' /\ Closings' /\ Awaited'
    BY <1>1, <1>3 DEF vars, Mapped, MapHoldsOpenRuntimes, Closings, Awaited
  <2>3. \A e \in Entries : Users(e)' = Users(e)
    BY <1>3 DEF vars, Users
  <2>4. Counts'
    BY <1>1, <1>3, <2>3, SameUsers DEF vars
  <2>. QED  BY <2>1, <2>2, <2>4 DEF IInv, Counts
<1>. QED  BY <1>2, <1>3

THEOREM Invariance == Spec => []IInv
BY Initially, Inductive, PTL DEF Spec

\* The types, and the map and the counters tell the runtimes and the calls: an entry is in the
\* map exactly while its runtime exists and is not closing, and the counters that
\* eviction trusts are the numbers of calls in use (acquire, run, closeEntry).
THEOREM PoolIsConsistent == Spec => []PoolConsistent
PROOF
<1>1. IInv => PoolConsistent
  BY DEF IInv, Mapped, PoolConsistent
<1>. QED  BY <1>1, Invariance, PTL

\* No eviction closes a runtime under a run, and no session is released under the turn that
\* has reserved it (evictIdle, releaseSession, reserveSession).
THEOREM CleanupSpares == Spec => []CleanupSparesTurns
PROOF
<1>1. IInv => CleanupSparesTurns
  BY DEF IInv, CleanupSparesTurns
<1>. QED  BY <1>1, Invariance, PTL

\* When close of the pool has returned, every runtime that was ever created has been closed
\* or was being closed by somebody else: none is left behind by an acquisition that
\* was under way (close, acquire).
THEOREM ShutdownIsComplete == Spec => []ShutdownCovers
PROOF
<1>1. IInv => ShutdownCovers
  <2>. SUFFICES ASSUME IInv, pool = "closed", NEW e \in Entries
                PROVE  /\ runtime[e] # "creating"
                       /\ runtime[e] = "alive" => closing[e] # "no"
                       /\ closing[e] = "shutdown" => cleanup[e] = "done"
    BY DEF ShutdownCovers
  <2>1. current[Key[Creator(e)]] # e
    BY EntryFacts DEF IInv, Mapped
  <2>2. runtime[e] \in {"creating", "alive"} => closing[e] # "no"
    BY <2>1 DEF IInv, Mapped, MapHoldsOpenRuntimes
  <2>3. closing[e] = "shutdown" => cleanup[e] = "done"
    BY DEF IInv, Awaited
  <2>4. runtime[e] # "creating"
    BY <2>2, <2>3 DEF IInv, Closings
  <2>. QED  BY <2>2, <2>3, <2>4
<1>. QED  BY <1>1, Invariance, PTL
=============================================================================
