-------------------------- MODULE WebCommandsProofs --------------------------
(* Theorems about WebCommands, for any number of processes, calls and crashes. *)
EXTENDS WebCommands, TLAPS, FiniteSetTheorems

\* The sessions of process p among S, when P tells the process of each.
SessionsOf(S, P, p) == {c \in S : P[c] = p}

\* A key's row names a call with that key that has been answered, and what belongs
\* to a session belongs to a row.
Rows ==
    /\ \A k \in Keys : receipt[k] # None => Key[receipt[k]] = k
    /\ \A c \in Reserved : stage[c] = "answered"
    /\ \A c \in Calls : work[c] # "none" <=> c \in Reserved
    /\ completed \subseteq Reserved /\ ran \subseteq Reserved
    /\ sessions \subseteq Reserved /\ stray \subseteq Reserved

\* Where a call is, its process is.
Places ==
    /\ \A c \in Calls : stage[c] # "idle" => proc[c] \in Processes
    /\ \A c \in Calls : stage[c] \in InFlight \/ work[c] \in Active => Up(proc[c])
    /\ \A c \in sessions : Up(proc[c])

\* One piece of code at a time runs without an await.
OneBusy ==
    \A c, d \in Calls :
        /\ proc[c] = proc[d]
        /\ stage[c] = "reserving" \/ work[c] = "settling"
        /\ stage[d] = "reserving" \/ work[d] = "settling"
        => c = d

\* What the work of a session says of its snapshot and of where it can be found.
Records ==
    \A c \in Reserved :
        /\ work[c] \in Active => c \in sessions /\ c \notin completed
        /\ work[c] \in Active \union {"lost"} => snapshot[c] \in {"running", "unknown"}
        /\ work[c] \in Active /\ c \in stray => snapshot[c] = "unknown"
        /\ work[c] = "over" => snapshot[c] \in {"ended", "unknown"}
        /\ work[c] = "over" => c \in sessions \/ c \in completed \/ ~Up(proc[c])
        /\ work[c] = "lost" => exit[proc[c]] = "crashed"
        /\ c \in completed => work[c] = "over"
        /\ snapshot[c] = "unknown" => c \in stray /\ proc[c] \in failures
        /\ c \in stray => snapshot[c] = "unknown" \/ work[c] = "lost"
        /\ work[c] = "over" /\ c \notin completed => proc[c] \in failures

\* A closed service has aborted its sessions, and a clean exit has no failure.
Closings ==
    /\ \A c \in Calls : stage[c] = "reserving" => proc[c] \notin closed
    /\ \A c \in sessions : proc[c] \in closed => c \in aborted
    /\ \A p \in Processes : exit[p] = "clean" => p \notin failures

\* A call that reserves has found room.
Rooms ==
    /\ \A p \in Processes : Cardinality(SessionsOf(sessions, proc, p)) <= Limit
    /\ \A c \in Calls : stage[c] = "reserving" => Cardinality(SessionsOf(sessions, proc, proc[c])) < Limit

IInv == TypeOK /\ Rows /\ SameInputs /\ Places /\ OneBusy /\ Records /\ Closings

-----------------------------------------------------------------------------
\* The row of a new session is the only one that changes.
LEMMA OpenFacts ==
    ASSUME IInv, NEW c \in Calls, stage[c] = "reserving", receipt[Key[c]] = None, Open(c)
    PROVE  /\ Reserved' = Reserved \union {c}
           /\ c \notin Reserved /\ work[c] = "none"
           /\ \A k \in Keys : receipt'[k] = IF k = Key[c] THEN c ELSE receipt[k]
           /\ \A d \in Calls : d # c => work'[d] = work[d] /\ snapshot'[d] = snapshot[d] /\ stage'[d] = stage[d]
           /\ work'[c] \in {"preparing", "settling"} /\ snapshot'[c] = "running" /\ stage'[c] = "answered"
PROOF
<1>0. \A d \in Calls : Key[d] \in Keys  BY CallsAssumption
<1>1. \A k \in Keys : receipt'[k] = IF k = Key[c] THEN c ELSE receipt[k]
  BY <1>0 DEF Open, IInv, TypeOK
<1>2. \A d \in Calls : d # c => work'[d] = work[d] /\ snapshot'[d] = snapshot[d] /\ stage'[d] = stage[d]
  BY DEF Open, Goes, IInv, TypeOK
<1>3. work'[c] \in {"preparing", "settling"} /\ snapshot'[c] = "running" /\ stage'[c] = "answered"
  BY DEF Open, Goes, IInv, TypeOK
<1>4. c # None  BY CallsAssumption
<1>5. c \notin Reserved  BY <1>4 DEF Reserved
<1>6. work[c] = "none"  BY <1>5 DEF IInv, Rows
<1>7. Reserved' = Reserved \union {c}
  <2>1. ASSUME NEW d \in Calls PROVE receipt'[Key[d]] = d <=> receipt[Key[d]] = d \/ d = c
    <3>1. CASE Key[d] = Key[c]
      <4>. receipt[Key[d]] # d  BY <3>1, CallsAssumption
      <4>. receipt'[Key[d]] = c  BY <3>1, <1>1, <1>0
      <4>. QED  OBVIOUS
    <3>2. CASE Key[d] # Key[c]
      BY <3>2, <1>1, <1>0
    <3>. QED  BY <3>1, <3>2
  <2>. QED  BY <2>1 DEF Reserved
<1>. QED  BY <1>1, <1>2, <1>3, <1>5, <1>6, <1>7

(* Every step keeps each part. *)

LEMMA TypeStep ==
    ASSUME IInv, [Next]_vars
    PROVE  TypeOK'
PROOF
<1>1. ASSUME NEW c \in Calls, NEW p \in Processes, Start(c, p) PROVE TypeOK'
  BY <1>1 DEF Start, Begin, Goes, IInv, TypeOK, Active, InFlight, table, services, live, calls, effects
<1>2. ASSUME NEW c \in Calls, Look(c) PROVE TypeOK'
  BY <1>2 DEF Look, Goes, IInv, TypeOK, Active, InFlight, table, services, live, calls, effects
<1>3. ASSUME NEW c \in Calls, Recheck(c) PROVE TypeOK'
  BY <1>3 DEF Recheck, Begin, Goes, IInv, TypeOK, Active, InFlight, table, services, live, calls, effects
<1>4. ASSUME NEW c \in Calls, Insert(c) PROVE TypeOK'
  BY <1>4 DEF Insert, Open, Begin, Goes, IInv, TypeOK, Active, InFlight, table, services, live, calls, effects
<1>5. ASSUME NEW c \in Calls, Prepared(c) PROVE TypeOK'
  BY <1>5 DEF Prepared, IInv, TypeOK, Active, InFlight, table, services, live, calls, effects
<1>6. ASSUME NEW c \in Calls, End(c) PROVE TypeOK'
  BY <1>6 DEF End, IInv, TypeOK, Active, InFlight, table, services, live, calls, effects
<1>7. ASSUME NEW c \in Calls, CleanupFails(c) PROVE TypeOK'
  <2>. c \in Calls /\ work[c] # "none"  BY <1>7 DEF CleanupFails, CloseService, table, services, live, calls, effects
  <2>. proc[c] \in Processes  BY DEF IInv, TypeOK, Rows, Places, Reserved
  <2>. QED  BY <1>7 DEF CleanupFails, CloseService, table, services, live, calls, effects, TypeOK, Active, InFlight, IInv
<1>8. ASSUME NEW c \in Calls, Save(c) PROVE TypeOK'
  BY <1>8 DEF Save, Ended, IInv, TypeOK, Active, InFlight, table, services, live, calls, effects
<1>9. ASSUME NEW c \in Calls, SaveFails(c) PROVE TypeOK'
  <2>. c \in Calls /\ work[c] # "none"  BY <1>9 DEF SaveFails, Ended, CloseService, table, services, live, calls, effects
  <2>. proc[c] \in Processes  BY DEF IInv, TypeOK, Rows, Places, Reserved
  <2>. QED  BY <1>9 DEF SaveFails, Ended, CloseService, table, services, live, calls, effects, TypeOK, Active, InFlight, IInv
<1>10. ASSUME NEW c \in Calls, Stop(c) PROVE TypeOK'
  BY <1>10 DEF Stop, IInv, TypeOK, Active, InFlight, table, services, live, calls, effects
<1>11. ASSUME NEW p \in Processes, Shutdown(p) PROVE TypeOK'
  BY <1>11 DEF Shutdown, CloseService, IInv, TypeOK, Active, InFlight, table, services, live, calls, effects
<1>12. ASSUME NEW p \in Processes, Exit(p) PROVE TypeOK'
  BY <1>12 DEF Exit, Gone, IInv, TypeOK, Active, InFlight, table, services, live, calls, effects
<1>13. ASSUME NEW p \in Processes, Crash(p) PROVE TypeOK'
  BY <1>13 DEF Crash, Gone, IInv, TypeOK, Active, InFlight, table, services, live, calls, effects
<1>14. CASE UNCHANGED vars
  BY <1>14 DEF IInv, TypeOK, Active, InFlight, vars, table, services, live, calls, effects
<1>. QED  BY <1>1, <1>2, <1>3, <1>4, <1>5, <1>6, <1>7, <1>8, <1>9, <1>10, <1>11, <1>12, <1>13, <1>14 DEF Next, Proceed, Execute

LEMMA RowsStep ==
    ASSUME IInv, [Next]_vars
    PROVE  Rows'
PROOF
<1>1. ASSUME NEW c \in Calls, NEW p \in Processes, Start(c, p) PROVE Rows'
  BY <1>1 DEF Start, Begin, Goes, IInv, TypeOK, Rows, Reserved, Active, InFlight, table, services, live, calls, effects
<1>2. ASSUME NEW c \in Calls, Look(c) PROVE Rows'
  BY <1>2 DEF Look, Goes, IInv, TypeOK, Rows, Reserved, Active, InFlight, table, services, live, calls, effects
<1>3. ASSUME NEW c \in Calls, Recheck(c) PROVE Rows'
  BY <1>3 DEF Recheck, Begin, Goes, IInv, TypeOK, Rows, Reserved, Active, InFlight, table, services, live, calls, effects
<1>4. ASSUME NEW c \in Calls, Insert(c) PROVE Rows'
  <2>1. CASE receipt[Key[c]] = None /\ Open(c)
    <3>0. Key \in [Calls -> Keys] /\ c # None /\ stage[c] = "reserving"  BY <1>4, CallsAssumption DEF Insert
    <3>1. /\ Reserved' = Reserved \union {c}
          /\ c \notin Reserved /\ work[c] = "none"
          /\ \A k \in Keys : receipt'[k] = IF k = Key[c] THEN c ELSE receipt[k]
          /\ \A d \in Calls : d # c => work'[d] = work[d] /\ snapshot'[d] = snapshot[d] /\ stage'[d] = stage[d]
          /\ work'[c] \in {"preparing", "settling"} /\ snapshot'[c] = "running" /\ stage'[c] = "answered"
      BY <3>0, <2>1, OpenFacts
    <3>2. sessions' = sessions \union {c}
      BY <2>1 DEF Open
    <3>3. UNCHANGED <<completed, services, aborted, proc, effects>>
      BY <1>4 DEF Insert
    <3>4. Reserved \subseteq Calls
      BY DEF Reserved
    <3>. QED  BY <3>0, <3>1, <3>2, <3>3, <3>4, <2>1 DEF services, effects, IInv, TypeOK, Rows, Active, InFlight
  <2>2. CASE receipt[Key[c]] # None /\ Begin(c, proc[c]) /\ UNCHANGED <<receipt, sessions, snapshot, work>>
    BY <1>4, <2>2, CallsAssumption DEF Insert, Open, Begin, Goes, table, services, live, calls, effects, IInv, TypeOK, Rows, Reserved, Active, InFlight
  <2>. QED  BY <1>4, <2>1, <2>2 DEF Insert
<1>5. ASSUME NEW c \in Calls, Prepared(c) PROVE Rows'
  BY <1>5 DEF Prepared, IInv, TypeOK, Rows, Reserved, Active, InFlight, table, services, live, calls, effects
<1>6. ASSUME NEW c \in Calls, End(c) PROVE Rows'
  BY <1>6 DEF End, IInv, TypeOK, Rows, Reserved, Active, InFlight, table, services, live, calls, effects
<1>7. ASSUME NEW c \in Calls, CleanupFails(c) PROVE Rows'
  BY <1>7 DEF CleanupFails, CloseService, IInv, TypeOK, Rows, Reserved, Active, InFlight, table, services, live, calls, effects
<1>8. ASSUME NEW c \in Calls, Save(c) PROVE Rows'
  BY <1>8 DEF Save, Ended, IInv, TypeOK, Rows, Reserved, Active, InFlight, table, services, live, calls, effects
<1>9. ASSUME NEW c \in Calls, SaveFails(c) PROVE Rows'
  BY <1>9 DEF SaveFails, Ended, CloseService, IInv, TypeOK, Rows, Reserved, Active, InFlight, table, services, live, calls, effects
<1>10. ASSUME NEW c \in Calls, Stop(c) PROVE Rows'
  BY <1>10 DEF Stop, IInv, TypeOK, Rows, Reserved, Active, InFlight, table, services, live, calls, effects
<1>11. ASSUME NEW p \in Processes, Shutdown(p) PROVE Rows'
  BY <1>11 DEF Shutdown, CloseService, IInv, TypeOK, Rows, Reserved, Active, InFlight, table, services, live, calls, effects
<1>12. ASSUME NEW p \in Processes, Exit(p) PROVE Rows'
  BY <1>12 DEF Exit, Gone, IInv, TypeOK, Rows, Reserved, Active, InFlight, table, services, live, calls, effects
<1>13. ASSUME NEW p \in Processes, Crash(p) PROVE Rows'
  BY <1>13 DEF Crash, Gone, IInv, TypeOK, Rows, Reserved, Active, InFlight, table, services, live, calls, effects
<1>14. CASE UNCHANGED vars
  BY <1>14 DEF IInv, TypeOK, Rows, Reserved, Active, InFlight, vars, table, services, live, calls, effects
<1>. QED  BY <1>1, <1>2, <1>3, <1>4, <1>5, <1>6, <1>7, <1>8, <1>9, <1>10, <1>11, <1>12, <1>13, <1>14 DEF Next, Proceed, Execute

LEMMA SameInputsStep ==
    ASSUME IInv, [Next]_vars
    PROVE  SameInputs'
PROOF
<1>1. ASSUME NEW c \in Calls, NEW p \in Processes, Start(c, p) PROVE SameInputs'
  BY <1>1 DEF Start, Begin, Goes, IInv, TypeOK, Rows, SameInputs, Reserved, Active, InFlight, table, services, live, calls, effects
<1>2. ASSUME NEW c \in Calls, Look(c) PROVE SameInputs'
  BY <1>2 DEF Look, Goes, IInv, TypeOK, Rows, SameInputs, Reserved, Active, InFlight, table, services, live, calls, effects
<1>3. ASSUME NEW c \in Calls, Recheck(c) PROVE SameInputs'
  BY <1>3 DEF Recheck, Begin, Goes, IInv, TypeOK, Rows, SameInputs, Reserved, Active, InFlight, table, services, live, calls, effects
<1>4. ASSUME NEW c \in Calls, Insert(c) PROVE SameInputs'
  <2>1. CASE receipt[Key[c]] = None /\ Open(c)
    <3>0. Key \in [Calls -> Keys] /\ c # None /\ stage[c] = "reserving"  BY <1>4, CallsAssumption DEF Insert
    <3>1. /\ Reserved' = Reserved \union {c}
          /\ c \notin Reserved /\ work[c] = "none"
          /\ \A k \in Keys : receipt'[k] = IF k = Key[c] THEN c ELSE receipt[k]
          /\ \A d \in Calls : d # c => work'[d] = work[d] /\ snapshot'[d] = snapshot[d] /\ stage'[d] = stage[d]
          /\ work'[c] \in {"preparing", "settling"} /\ snapshot'[c] = "running" /\ stage'[c] = "answered"
      BY <3>0, <2>1, OpenFacts
    <3>2. sessions' = sessions \union {c}
      BY <2>1 DEF Open
    <3>3. UNCHANGED <<completed, services, aborted, proc, effects>>
      BY <1>4 DEF Insert
    <3>4. Reserved \subseteq Calls
      BY DEF Reserved
    <3>. QED  BY <3>0, <3>1, <3>2, <3>3, <3>4, <2>1 DEF services, effects, IInv, TypeOK, Rows, SameInputs, Active, InFlight
  <2>2. CASE receipt[Key[c]] # None /\ Begin(c, proc[c]) /\ UNCHANGED <<receipt, sessions, snapshot, work>>
    BY <1>4, <2>2, CallsAssumption DEF Insert, Open, Begin, Goes, table, services, live, calls, effects, IInv, TypeOK, Rows, SameInputs, Reserved, Active, InFlight
  <2>. QED  BY <1>4, <2>1, <2>2 DEF Insert
<1>5. ASSUME NEW c \in Calls, Prepared(c) PROVE SameInputs'
  BY <1>5 DEF Prepared, IInv, TypeOK, Rows, SameInputs, Reserved, Active, InFlight, table, services, live, calls, effects
<1>6. ASSUME NEW c \in Calls, End(c) PROVE SameInputs'
  BY <1>6 DEF End, IInv, TypeOK, Rows, SameInputs, Reserved, Active, InFlight, table, services, live, calls, effects
<1>7. ASSUME NEW c \in Calls, CleanupFails(c) PROVE SameInputs'
  BY <1>7 DEF CleanupFails, CloseService, IInv, TypeOK, Rows, SameInputs, Reserved, Active, InFlight, table, services, live, calls, effects
<1>8. ASSUME NEW c \in Calls, Save(c) PROVE SameInputs'
  BY <1>8 DEF Save, Ended, IInv, TypeOK, Rows, SameInputs, Reserved, Active, InFlight, table, services, live, calls, effects
<1>9. ASSUME NEW c \in Calls, SaveFails(c) PROVE SameInputs'
  BY <1>9 DEF SaveFails, Ended, CloseService, IInv, TypeOK, Rows, SameInputs, Reserved, Active, InFlight, table, services, live, calls, effects
<1>10. ASSUME NEW c \in Calls, Stop(c) PROVE SameInputs'
  BY <1>10 DEF Stop, IInv, TypeOK, Rows, SameInputs, Reserved, Active, InFlight, table, services, live, calls, effects
<1>11. ASSUME NEW p \in Processes, Shutdown(p) PROVE SameInputs'
  BY <1>11 DEF Shutdown, CloseService, IInv, TypeOK, Rows, SameInputs, Reserved, Active, InFlight, table, services, live, calls, effects
<1>12. ASSUME NEW p \in Processes, Exit(p) PROVE SameInputs'
  BY <1>12 DEF Exit, Gone, IInv, TypeOK, Rows, SameInputs, Reserved, Active, InFlight, table, services, live, calls, effects
<1>13. ASSUME NEW p \in Processes, Crash(p) PROVE SameInputs'
  BY <1>13 DEF Crash, Gone, IInv, TypeOK, Rows, SameInputs, Reserved, Active, InFlight, table, services, live, calls, effects
<1>14. CASE UNCHANGED vars
  BY <1>14 DEF IInv, TypeOK, Rows, SameInputs, Reserved, Active, InFlight, vars, table, services, live, calls, effects
<1>. QED  BY <1>1, <1>2, <1>3, <1>4, <1>5, <1>6, <1>7, <1>8, <1>9, <1>10, <1>11, <1>12, <1>13, <1>14 DEF Next, Proceed, Execute

LEMMA PlacesStep ==
    ASSUME IInv, [Next]_vars
    PROVE  Places'
PROOF
<1>1. ASSUME NEW c \in Calls, NEW p \in Processes, Start(c, p) PROVE Places'
  BY <1>1 DEF Start, Begin, Goes, IInv, TypeOK, Rows, Places, Reserved, Active, InFlight, Up, table, services, live, calls, effects
<1>2. ASSUME NEW c \in Calls, Look(c) PROVE Places'
  BY <1>2 DEF Look, Goes, IInv, TypeOK, Rows, Places, Reserved, Active, InFlight, Up, table, services, live, calls, effects
<1>3. ASSUME NEW c \in Calls, Recheck(c) PROVE Places'
  BY <1>3 DEF Recheck, Begin, Goes, IInv, TypeOK, Rows, Places, Reserved, Active, InFlight, Up, table, services, live, calls, effects
<1>4. ASSUME NEW c \in Calls, Insert(c) PROVE Places'
  BY <1>4 DEF Insert, Open, Begin, Goes, IInv, TypeOK, Rows, Places, Reserved, Active, InFlight, Up, table, services, live, calls, effects
<1>5. ASSUME NEW c \in Calls, Prepared(c) PROVE Places'
  BY <1>5 DEF Prepared, IInv, TypeOK, Rows, Places, Reserved, Active, InFlight, Up, table, services, live, calls, effects
<1>6. ASSUME NEW c \in Calls, End(c) PROVE Places'
  BY <1>6 DEF End, IInv, TypeOK, Rows, Places, Reserved, Active, InFlight, Up, table, services, live, calls, effects
<1>7. ASSUME NEW c \in Calls, CleanupFails(c) PROVE Places'
  BY <1>7 DEF CleanupFails, CloseService, IInv, TypeOK, Rows, Places, Reserved, Active, InFlight, Up, table, services, live, calls, effects
<1>8. ASSUME NEW c \in Calls, Save(c) PROVE Places'
  BY <1>8 DEF Save, Ended, IInv, TypeOK, Rows, Places, Reserved, Active, InFlight, Up, table, services, live, calls, effects
<1>9. ASSUME NEW c \in Calls, SaveFails(c) PROVE Places'
  BY <1>9 DEF SaveFails, Ended, CloseService, IInv, TypeOK, Rows, Places, Reserved, Active, InFlight, Up, table, services, live, calls, effects
<1>10. ASSUME NEW c \in Calls, Stop(c) PROVE Places'
  BY <1>10 DEF Stop, IInv, TypeOK, Rows, Places, Reserved, Active, InFlight, Up, table, services, live, calls, effects
<1>11. ASSUME NEW p \in Processes, Shutdown(p) PROVE Places'
  BY <1>11 DEF Shutdown, CloseService, IInv, TypeOK, Rows, Places, Reserved, Active, InFlight, Up, table, services, live, calls, effects
<1>12. ASSUME NEW p \in Processes, Exit(p) PROVE Places'
  BY <1>12 DEF Exit, Gone, IInv, TypeOK, Rows, Places, Reserved, Active, InFlight, Up, table, services, live, calls, effects
<1>13. ASSUME NEW p \in Processes, Crash(p) PROVE Places'
  BY <1>13 DEF Crash, Gone, IInv, TypeOK, Rows, Places, Reserved, Active, InFlight, Up, table, services, live, calls, effects
<1>14. CASE UNCHANGED vars
  BY <1>14 DEF IInv, TypeOK, Rows, Places, Reserved, Active, InFlight, Up, vars, table, services, live, calls, effects
<1>. QED  BY <1>1, <1>2, <1>3, <1>4, <1>5, <1>6, <1>7, <1>8, <1>9, <1>10, <1>11, <1>12, <1>13, <1>14 DEF Next, Proceed, Execute

LEMMA OneBusyStep ==
    ASSUME IInv, [Next]_vars
    PROVE  OneBusy'
PROOF
<1>1. ASSUME NEW c \in Calls, NEW p \in Processes, Start(c, p) PROVE OneBusy'
  BY <1>1 DEF Start, Begin, Goes, IInv, TypeOK, Rows, Places, OneBusy, Reserved, Active, InFlight, Busy, table, services, live, calls, effects
<1>2. ASSUME NEW c \in Calls, Look(c) PROVE OneBusy'
  BY <1>2 DEF Look, Goes, IInv, TypeOK, Rows, Places, OneBusy, Reserved, Active, InFlight, Busy, table, services, live, calls, effects
<1>3. ASSUME NEW c \in Calls, Recheck(c) PROVE OneBusy'
  BY <1>3 DEF Recheck, Begin, Goes, IInv, TypeOK, Rows, Places, OneBusy, Reserved, Active, InFlight, Busy, table, services, live, calls, effects
<1>4. ASSUME NEW c \in Calls, Insert(c) PROVE OneBusy'
  BY <1>4 DEF Insert, Open, Begin, Goes, IInv, TypeOK, Rows, Places, OneBusy, Reserved, Active, InFlight, Busy, table, services, live, calls, effects
<1>5. ASSUME NEW c \in Calls, Prepared(c) PROVE OneBusy'
  BY <1>5 DEF Prepared, IInv, TypeOK, Rows, Places, OneBusy, Reserved, Active, InFlight, Busy, table, services, live, calls, effects
<1>6. ASSUME NEW c \in Calls, End(c) PROVE OneBusy'
  BY <1>6 DEF End, IInv, TypeOK, Rows, Places, OneBusy, Reserved, Active, InFlight, Busy, table, services, live, calls, effects
<1>7. ASSUME NEW c \in Calls, CleanupFails(c) PROVE OneBusy'
  BY <1>7 DEF CleanupFails, CloseService, IInv, TypeOK, Rows, Places, OneBusy, Reserved, Active, InFlight, Busy, table, services, live, calls, effects
<1>8. ASSUME NEW c \in Calls, Save(c) PROVE OneBusy'
  BY <1>8 DEF Save, Ended, IInv, TypeOK, Rows, Places, OneBusy, Reserved, Active, InFlight, Busy, table, services, live, calls, effects
<1>9. ASSUME NEW c \in Calls, SaveFails(c) PROVE OneBusy'
  BY <1>9 DEF SaveFails, Ended, CloseService, IInv, TypeOK, Rows, Places, OneBusy, Reserved, Active, InFlight, Busy, table, services, live, calls, effects
<1>10. ASSUME NEW c \in Calls, Stop(c) PROVE OneBusy'
  BY <1>10 DEF Stop, IInv, TypeOK, Rows, Places, OneBusy, Reserved, Active, InFlight, Busy, table, services, live, calls, effects
<1>11. ASSUME NEW p \in Processes, Shutdown(p) PROVE OneBusy'
  BY <1>11 DEF Shutdown, CloseService, IInv, TypeOK, Rows, Places, OneBusy, Reserved, Active, InFlight, Busy, table, services, live, calls, effects
<1>12. ASSUME NEW p \in Processes, Exit(p) PROVE OneBusy'
  BY <1>12 DEF Exit, Gone, IInv, TypeOK, Rows, Places, OneBusy, Reserved, Active, InFlight, Busy, table, services, live, calls, effects
<1>13. ASSUME NEW p \in Processes, Crash(p) PROVE OneBusy'
  BY <1>13 DEF Crash, Gone, IInv, TypeOK, Rows, Places, OneBusy, Reserved, Active, InFlight, Busy, table, services, live, calls, effects
<1>14. CASE UNCHANGED vars
  BY <1>14 DEF IInv, TypeOK, Rows, Places, OneBusy, Reserved, Active, InFlight, Busy, vars, table, services, live, calls, effects
<1>. QED  BY <1>1, <1>2, <1>3, <1>4, <1>5, <1>6, <1>7, <1>8, <1>9, <1>10, <1>11, <1>12, <1>13, <1>14 DEF Next, Proceed, Execute

LEMMA RecordsStep ==
    ASSUME IInv, [Next]_vars
    PROVE  Records'
PROOF
<1>1. ASSUME NEW c \in Calls, NEW p \in Processes, Start(c, p) PROVE Records'
  BY <1>1 DEF Start, Begin, Goes, IInv, TypeOK, Rows, Places, OneBusy, Records, Reserved, Active, InFlight, Up, Busy, table, services, live, calls, effects
<1>2. ASSUME NEW c \in Calls, Look(c) PROVE Records'
  BY <1>2 DEF Look, Goes, IInv, TypeOK, Rows, Places, OneBusy, Records, Reserved, Active, InFlight, Up, Busy, table, services, live, calls, effects
<1>3. ASSUME NEW c \in Calls, Recheck(c) PROVE Records'
  BY <1>3 DEF Recheck, Begin, Goes, IInv, TypeOK, Rows, Places, OneBusy, Records, Reserved, Active, InFlight, Up, Busy, table, services, live, calls, effects
<1>4. ASSUME NEW c \in Calls, Insert(c) PROVE Records'
  <2>1. CASE receipt[Key[c]] = None /\ Open(c)
    <3>0. Key \in [Calls -> Keys] /\ c # None /\ stage[c] = "reserving"  BY <1>4, CallsAssumption DEF Insert
    <3>1. /\ Reserved' = Reserved \union {c}
          /\ c \notin Reserved /\ work[c] = "none"
          /\ \A k \in Keys : receipt'[k] = IF k = Key[c] THEN c ELSE receipt[k]
          /\ \A d \in Calls : d # c => work'[d] = work[d] /\ snapshot'[d] = snapshot[d] /\ stage'[d] = stage[d]
          /\ work'[c] \in {"preparing", "settling"} /\ snapshot'[c] = "running" /\ stage'[c] = "answered"
      BY <3>0, <2>1, OpenFacts
    <3>2. sessions' = sessions \union {c}
      BY <2>1 DEF Open
    <3>3. UNCHANGED <<completed, services, aborted, proc, effects>>
      BY <1>4 DEF Insert
    <3>4. Reserved \subseteq Calls
      BY DEF Reserved
    <3>. QED  BY <3>0, <3>1, <3>2, <3>3, <3>4, <2>1 DEF services, effects, IInv, TypeOK, Rows, Places, OneBusy, Records, Active, InFlight, Up, Busy
  <2>2. CASE receipt[Key[c]] # None /\ Begin(c, proc[c]) /\ UNCHANGED <<receipt, sessions, snapshot, work>>
    BY <1>4, <2>2, CallsAssumption DEF Insert, Open, Begin, Goes, table, services, live, calls, effects, IInv, TypeOK, Rows, Places, OneBusy, Records, Reserved, Active, InFlight, Up, Busy
  <2>. QED  BY <1>4, <2>1, <2>2 DEF Insert
<1>5. ASSUME NEW c \in Calls, Prepared(c) PROVE Records'
  BY <1>5 DEF Prepared, IInv, TypeOK, Rows, Places, OneBusy, Records, Reserved, Active, InFlight, Up, Busy, table, services, live, calls, effects
<1>6. ASSUME NEW c \in Calls, End(c) PROVE Records'
  BY <1>6 DEF End, IInv, TypeOK, Rows, Places, OneBusy, Records, Reserved, Active, InFlight, Up, Busy, table, services, live, calls, effects
<1>7. ASSUME NEW c \in Calls, CleanupFails(c) PROVE Records'
  BY <1>7 DEF CleanupFails, CloseService, IInv, TypeOK, Rows, Places, OneBusy, Records, Reserved, Active, InFlight, Up, Busy, table, services, live, calls, effects
<1>8. ASSUME NEW c \in Calls, Save(c) PROVE Records'
  BY <1>8 DEF Save, Ended, IInv, TypeOK, Rows, Places, OneBusy, Records, Reserved, Active, InFlight, Up, Busy, table, services, live, calls, effects
<1>9. ASSUME NEW c \in Calls, SaveFails(c) PROVE Records'
  BY <1>9 DEF SaveFails, Ended, CloseService, IInv, TypeOK, Rows, Places, OneBusy, Records, Reserved, Active, InFlight, Up, Busy, table, services, live, calls, effects
<1>10. ASSUME NEW c \in Calls, Stop(c) PROVE Records'
  BY <1>10 DEF Stop, IInv, TypeOK, Rows, Places, OneBusy, Records, Reserved, Active, InFlight, Up, Busy, table, services, live, calls, effects
<1>11. ASSUME NEW p \in Processes, Shutdown(p) PROVE Records'
  BY <1>11 DEF Shutdown, CloseService, IInv, TypeOK, Rows, Places, OneBusy, Records, Reserved, Active, InFlight, Up, Busy, table, services, live, calls, effects
<1>12. ASSUME NEW p \in Processes, Exit(p) PROVE Records'
  BY <1>12 DEF Exit, Gone, IInv, TypeOK, Rows, Places, OneBusy, Records, Reserved, Active, InFlight, Up, Busy, table, services, live, calls, effects
<1>13. ASSUME NEW p \in Processes, Crash(p) PROVE Records'
  BY <1>13 DEF Crash, Gone, IInv, TypeOK, Rows, Places, OneBusy, Records, Reserved, Active, InFlight, Up, Busy, table, services, live, calls, effects
<1>14. CASE UNCHANGED vars
  BY <1>14 DEF IInv, TypeOK, Rows, Places, OneBusy, Records, Reserved, Active, InFlight, Up, Busy, vars, table, services, live, calls, effects
<1>. QED  BY <1>1, <1>2, <1>3, <1>4, <1>5, <1>6, <1>7, <1>8, <1>9, <1>10, <1>11, <1>12, <1>13, <1>14 DEF Next, Proceed, Execute

LEMMA ClosingsStep ==
    ASSUME IInv, [Next]_vars
    PROVE  Closings'
PROOF
<1>1. ASSUME NEW c \in Calls, NEW p \in Processes, Start(c, p) PROVE Closings'
  BY <1>1 DEF Start, Begin, Goes, IInv, TypeOK, Rows, Places, OneBusy, Records, Closings, Reserved, Active, InFlight, Up, Busy, table, services, live, calls, effects
<1>2. ASSUME NEW c \in Calls, Look(c) PROVE Closings'
  BY <1>2 DEF Look, Goes, IInv, TypeOK, Rows, Places, OneBusy, Records, Closings, Reserved, Active, InFlight, Up, Busy, table, services, live, calls, effects
<1>3. ASSUME NEW c \in Calls, Recheck(c) PROVE Closings'
  BY <1>3 DEF Recheck, Begin, Goes, IInv, TypeOK, Rows, Places, OneBusy, Records, Closings, Reserved, Active, InFlight, Up, Busy, table, services, live, calls, effects
<1>4. ASSUME NEW c \in Calls, Insert(c) PROVE Closings'
  <2>1. CASE receipt[Key[c]] = None /\ Open(c)
    <3>0. Key \in [Calls -> Keys] /\ c # None /\ stage[c] = "reserving"  BY <1>4, CallsAssumption DEF Insert
    <3>1. /\ Reserved' = Reserved \union {c}
          /\ c \notin Reserved /\ work[c] = "none"
          /\ \A k \in Keys : receipt'[k] = IF k = Key[c] THEN c ELSE receipt[k]
          /\ \A d \in Calls : d # c => work'[d] = work[d] /\ snapshot'[d] = snapshot[d] /\ stage'[d] = stage[d]
          /\ work'[c] \in {"preparing", "settling"} /\ snapshot'[c] = "running" /\ stage'[c] = "answered"
      BY <3>0, <2>1, OpenFacts
    <3>2. sessions' = sessions \union {c}
      BY <2>1 DEF Open
    <3>3. UNCHANGED <<completed, services, aborted, proc, effects>>
      BY <1>4 DEF Insert
    <3>4. Reserved \subseteq Calls
      BY DEF Reserved
    <3>. QED  BY <3>0, <3>1, <3>2, <3>3, <3>4, <2>1 DEF services, effects, IInv, TypeOK, Rows, Places, OneBusy, Records, Closings, Active, InFlight, Up, Busy
  <2>2. CASE receipt[Key[c]] # None /\ Begin(c, proc[c]) /\ UNCHANGED <<receipt, sessions, snapshot, work>>
    BY <1>4, <2>2, CallsAssumption DEF Insert, Open, Begin, Goes, table, services, live, calls, effects, IInv, TypeOK, Rows, Places, OneBusy, Records, Closings, Reserved, Active, InFlight, Up, Busy
  <2>. QED  BY <1>4, <2>1, <2>2 DEF Insert
<1>5. ASSUME NEW c \in Calls, Prepared(c) PROVE Closings'
  BY <1>5 DEF Prepared, IInv, TypeOK, Rows, Places, OneBusy, Records, Closings, Reserved, Active, InFlight, Up, Busy, table, services, live, calls, effects
<1>6. ASSUME NEW c \in Calls, End(c) PROVE Closings'
  BY <1>6 DEF End, IInv, TypeOK, Rows, Places, OneBusy, Records, Closings, Reserved, Active, InFlight, Up, Busy, table, services, live, calls, effects
<1>7. ASSUME NEW c \in Calls, CleanupFails(c) PROVE Closings'
  BY <1>7 DEF CleanupFails, CloseService, IInv, TypeOK, Rows, Places, OneBusy, Records, Closings, Reserved, Active, InFlight, Up, Busy, table, services, live, calls, effects
<1>8. ASSUME NEW c \in Calls, Save(c) PROVE Closings'
  BY <1>8 DEF Save, Ended, IInv, TypeOK, Rows, Places, OneBusy, Records, Closings, Reserved, Active, InFlight, Up, Busy, table, services, live, calls, effects
<1>9. ASSUME NEW c \in Calls, SaveFails(c) PROVE Closings'
  BY <1>9 DEF SaveFails, Ended, CloseService, IInv, TypeOK, Rows, Places, OneBusy, Records, Closings, Reserved, Active, InFlight, Up, Busy, table, services, live, calls, effects
<1>10. ASSUME NEW c \in Calls, Stop(c) PROVE Closings'
  BY <1>10 DEF Stop, IInv, TypeOK, Rows, Places, OneBusy, Records, Closings, Reserved, Active, InFlight, Up, Busy, table, services, live, calls, effects
<1>11. ASSUME NEW p \in Processes, Shutdown(p) PROVE Closings'
  BY <1>11 DEF Shutdown, CloseService, IInv, TypeOK, Rows, Places, OneBusy, Records, Closings, Reserved, Active, InFlight, Up, Busy, table, services, live, calls, effects
<1>12. ASSUME NEW p \in Processes, Exit(p) PROVE Closings'
  BY <1>12 DEF Exit, Gone, IInv, TypeOK, Rows, Places, OneBusy, Records, Closings, Reserved, Active, InFlight, Up, Busy, table, services, live, calls, effects
<1>13. ASSUME NEW p \in Processes, Crash(p) PROVE Closings'
  BY <1>13 DEF Crash, Gone, IInv, TypeOK, Rows, Places, OneBusy, Records, Closings, Reserved, Active, InFlight, Up, Busy, table, services, live, calls, effects
<1>14. CASE UNCHANGED vars
  BY <1>14 DEF IInv, TypeOK, Rows, Places, OneBusy, Records, Closings, Reserved, Active, InFlight, Up, Busy, vars, table, services, live, calls, effects
<1>. QED  BY <1>1, <1>2, <1>3, <1>4, <1>5, <1>6, <1>7, <1>8, <1>9, <1>10, <1>11, <1>12, <1>13, <1>14 DEF Next, Proceed, Execute
-----------------------------------------------------------------------------
LEMMA InitIInv == Init => IInv
PROOF
<1>. SUFFICES ASSUME Init PROVE IInv  OBVIOUS
<1>1. Reserved = {}
  BY CallsAssumption DEF Init, Reserved
<1>2. TypeOK
  BY DEF Init, TypeOK, InFlight, Active
<1>. QED  BY <1>1, <1>2 DEF Init, IInv, Rows, SameInputs, Places, OneBusy, Records, Closings, InFlight, Active

LEMMA StepIInv == IInv /\ [Next]_vars => IInv'
PROOF
<1>. QED  BY TypeStep, RowsStep, SameInputsStep, PlacesStep, OneBusyStep, RecordsStep, ClosingsStep DEF IInv

LEMMA Inductive == Spec => []IInv
PROOF
<1>. QED  BY InitIInv, StepIInv, PTL DEF Spec

-----------------------------------------------------------------------------
(* The number of sessions. *)

LEMMA FiniteSessions ==
    ASSUME TypeOK, NEW p
    PROVE  IsFiniteSet(SessionsOf(sessions, proc, p)) /\ Cardinality(SessionsOf(sessions, proc, p)) \in Nat
PROOF
<1>1. SessionsOf(sessions, proc, p) \subseteq Calls /\ IsFiniteSet(Calls)
  BY CallsAssumption DEF TypeOK, SessionsOf
<1>. QED  BY <1>1, FS_Subset, FS_CardinalityType

\* A step that adds no session and starts no reservation keeps the rooms.
LEMMA NoMoreSessions ==
    ASSUME TypeOK, TypeOK', Rooms, sessions' \subseteq sessions,
           \A c \in sessions : proc'[c] = proc[c],
           \A c \in Calls : stage'[c] = "reserving" => stage[c] = "reserving" /\ proc'[c] = proc[c]
    PROVE  Rooms'
PROOF
<1>1. ASSUME NEW p PROVE Cardinality(SessionsOf(sessions', proc', p)) <= Cardinality(SessionsOf(sessions, proc, p))
  <2>1. SessionsOf(sessions', proc', p) \subseteq SessionsOf(sessions, proc, p)
    BY DEF SessionsOf
  <2>2. IsFiniteSet(SessionsOf(sessions, proc, p))
    BY FiniteSessions
  <2>. QED  BY <2>1, <2>2, FS_Subset
<1>2. ASSUME NEW p PROVE Cardinality(SessionsOf(sessions, proc, p)) \in Nat
  BY FiniteSessions
<1>3. ASSUME NEW p PROVE Cardinality(SessionsOf(sessions', proc', p)) \in Nat
  <2>1. SessionsOf(sessions', proc', p) \subseteq Calls /\ IsFiniteSet(Calls)
    BY CallsAssumption DEF TypeOK, SessionsOf
  <2>. QED  BY <2>1, FS_Subset, FS_CardinalityType
<1>4. \A p \in Processes : Cardinality(SessionsOf(sessions', proc', p)) <= Limit
  BY <1>1, <1>2, <1>3, LimitAssumption DEF Rooms
<1>5. \A c \in Calls : stage'[c] = "reserving" => Cardinality(SessionsOf(sessions', proc', proc'[c])) < Limit
  <2>. SUFFICES ASSUME NEW c \in Calls, stage'[c] = "reserving"
                PROVE  Cardinality(SessionsOf(sessions', proc', proc'[c])) < Limit
    OBVIOUS
  <2>1. stage[c] = "reserving" /\ proc'[c] = proc[c]
    OBVIOUS
  <2>2. Cardinality(SessionsOf(sessions, proc, proc[c])) < Limit
    BY <2>1 DEF Rooms
  <2>3. Cardinality(SessionsOf(sessions', proc', proc[c])) < Limit
    BY <2>2, <1>1, <1>2, <1>3, LimitAssumption
  <2>. QED  BY <2>1, <2>3
<1>. QED  BY <1>4, <1>5 DEF Rooms

LEMMA RoomsStep ==
    ASSUME IInv, IInv', Rooms, [Next]_vars
    PROVE  Rooms'
PROOF
<1>. TypeOK /\ TypeOK'
  BY DEF IInv
<1>1. ASSUME NEW c \in Calls, Recheck(c) PROVE Rooms'
  <2>1. UNCHANGED <<sessions, proc>>
    BY <1>1 DEF Recheck, live
  <2>2. \A p : SessionsOf(sessions', proc', p) = SessionsOf(sessions, proc, p)
    BY <2>1 DEF SessionsOf
  <2>3. \A d \in Calls : d # c => stage'[d] = stage[d]
    BY <1>1 DEF Recheck, Begin, Goes, TypeOK
  <2>4. stage'[c] = "reserving" => ~Full(proc[c])
    BY <1>1 DEF Recheck, Begin, Goes, TypeOK
  <2>5. stage'[c] = "reserving" => Cardinality(SessionsOf(sessions, proc, proc[c])) < Limit
    <3>1. Cardinality(SessionsOf(sessions, proc, proc[c])) \in Nat
      BY FiniteSessions
    <3>. QED  BY <2>4, <3>1, LimitAssumption DEF Full, SessionsOf
  <2>. QED  BY <2>1, <2>2, <2>3, <2>5 DEF Rooms
<1>2. ASSUME NEW c \in Calls, Insert(c), receipt[Key[c]] = None, Open(c) PROVE Rooms'
  <2>. DEFINE p == proc[c]
  <2>1. sessions' = sessions \union {c} /\ proc' = proc
    BY <1>2 DEF Open, Insert
  <2>2. stage[c] = "reserving" /\ c \notin sessions
    BY <1>2, CallsAssumption DEF Insert, IInv, Rows, Reserved
  <2>3. SessionsOf(sessions', proc', p) = SessionsOf(sessions, proc, p) \union {c}
    BY <2>1 DEF SessionsOf
  <2>4. Cardinality(SessionsOf(sessions', proc', p)) = Cardinality(SessionsOf(sessions, proc, p)) + 1
    <3>1. IsFiniteSet(SessionsOf(sessions, proc, p)) /\ c \notin SessionsOf(sessions, proc, p)
      BY FiniteSessions, <2>2 DEF SessionsOf
    <3>. QED  BY <2>3, <3>1, FS_AddElement
  <2>5. Cardinality(SessionsOf(sessions, proc, p)) < Limit /\ Cardinality(SessionsOf(sessions, proc, p)) \in Nat
    BY <2>2, FiniteSessions DEF Rooms
  <2>6. Cardinality(SessionsOf(sessions', proc', p)) <= Limit
    BY <2>4, <2>5, LimitAssumption
  <2>7. \A q : q # p => SessionsOf(sessions', proc', q) = SessionsOf(sessions, proc, q)
    BY <2>1 DEF SessionsOf
  <2>8. \A d \in Calls : stage'[d] = "reserving" => stage[d] = "reserving" /\ d # c
    BY <1>2 DEF Open, Goes, TypeOK
  <2>9. \A d \in Calls : stage'[d] = "reserving" => proc[d] # p
    BY <2>2, <2>8 DEF IInv, OneBusy
  <2>10. \A d \in Calls : stage'[d] = "reserving" => Cardinality(SessionsOf(sessions', proc', proc'[d])) < Limit
    BY <2>1, <2>7, <2>8, <2>9 DEF Rooms
  <2>11. \A q \in Processes : Cardinality(SessionsOf(sessions', proc', q)) <= Limit
    BY <2>6, <2>7 DEF Rooms
  <2>. QED  BY <2>10, <2>11 DEF Rooms
<1>3. CASE \/ \E c \in Calls : \/ \E p \in Processes : Start(c, p)
                               \/ Look(c) \/ Execute(c) \/ Stop(c)
                               \/ Insert(c) /\ Begin(c, proc[c]) /\ UNCHANGED sessions
           \/ \E p \in Processes : Shutdown(p) \/ Exit(p) \/ Crash(p)
           \/ UNCHANGED vars
  <2>1. sessions' \subseteq sessions
    BY <1>3 DEF Start, Look, Execute, Prepared, End, CleanupFails, Save, SaveFails, Stop, Insert, Shutdown, Exit,
                Crash, Gone, live, vars
  <2>2. \A c \in sessions : proc'[c] = proc[c]
    BY <1>3 DEF Start, Look, Execute, Prepared, End, CleanupFails, Save, SaveFails, Stop, Insert, Shutdown, Exit,
                Crash, Gone, calls, vars, TypeOK, IInv, Rows, Reserved
  <2>3. \A c \in Calls : stage'[c] = "reserving" => stage[c] = "reserving" /\ proc'[c] = proc[c]
    BY <1>3 DEF Start, Look, Begin, Goes, Execute, Prepared, End, CleanupFails, Save, SaveFails, Stop, Insert,
                Shutdown, Exit, Crash, Gone, InFlight, calls, vars, TypeOK
  <2>. QED  BY <2>1, <2>2, <2>3, NoMoreSessions
<1>. QED  BY <1>1, <1>2, <1>3 DEF Next, Proceed, Insert

-----------------------------------------------------------------------------
\* Every reachable state is one of the states the module describes.
THEOREM TypeCorrect == Spec => []TypeOK
PROOF
<1>. QED  BY Inductive, PTL DEF IInv

\* No request key is ever executed twice: only the call whose session is in the row
\* of its key runs, and the row of a key is never replaced (reserve, start).
THEOREM NeverTwice == Spec => []AtMostOnce
PROOF
<1>1. IInv => AtMostOnce
  BY DEF IInv, Rows, AtMostOnce, Reserved
<1>. QED  BY <1>1, Inductive, PTL

\* A call is answered with a session only when its inputs are the session's.
THEOREM AnswersMatch == Spec => []SameInputs
PROOF
<1>. QED  BY Inductive, PTL DEF IInv

\* What a status says of a command is true, in every process, after any crash.
THEOREM StatusIsTrue == Spec => []ReportsTrue
PROOF
<1>1. IInv => ReportsTrue
  BY DEF IInv, TypeOK, Rows, Places, Records, ReportsTrue, Report, Reserved, Active, Up
<1>. QED  BY <1>1, Inductive, PTL

\* The owner of a command can always tell of it, unless its cleanup has failed.
THEOREM OwnerTells == Spec => []OwnerCanTell
PROOF
<1>1. IInv => OwnerCanTell
  BY DEF IInv, TypeOK, Rows, Places, Records, OwnerCanTell, Report, Reserved, Active, Up
<1>. QED  BY <1>1, Inductive, PTL

\* A process that exits without reporting a failure has saved every result.
THEOREM CleanExit == Spec => []CleanExitTells
PROOF
<1>1. IInv => CleanExitTells
  BY DEF IInv, TypeOK, Rows, Places, Records, Closings, CleanExitTells, Reserved, Active, Up
<1>. QED  BY <1>1, Inductive, PTL

\* Once the service has closed, or a session has been stopped, nothing begins.
THEOREM NoLateCommand == Spec => NothingBeginsLate
PROOF
<1>1. IInv /\ [Next]_vars => [\A c \in Calls : c \in ran' \ ran => proc[c] \notin closed /\ c \notin aborted]_vars
  <2>. SUFFICES ASSUME IInv, [Next]_vars, NEW c \in Calls, c \in ran' \ ran
                PROVE  proc[c] \notin closed /\ c \notin aborted
    OBVIOUS
  <2>1. PICK d \in Calls : Prepared(d)
    BY DEF Next, Proceed, Execute, Start, Look, Recheck, Insert, End, CleanupFails, Save, SaveFails, Stop,
           Shutdown, Exit, Crash, Gone, effects, vars
  <2>2. c = d /\ c \notin aborted
    BY <2>1 DEF Prepared
  <2>3. work[c] = "preparing"
    BY <2>1, <2>2 DEF Prepared
  <2>4. c \in sessions
    BY <2>3 DEF IInv, Rows, Records, Active
  <2>. QED  BY <2>2, <2>4 DEF IInv, Closings
<1>. QED  BY <1>1, Inductive, PTL DEF Spec, NothingBeginsLate

\* A process never has more than Limit sessions: between the check of the limit and
\* the new session nothing else of the process runs.
THEOREM LimitHolds == Spec => []Capacity
PROOF
<1>1. Init => Rooms
  <2>. SUFFICES ASSUME Init PROVE Rooms  OBVIOUS
  <2>1. \A p : SessionsOf(sessions, proc, p) = {}
    BY DEF Init, SessionsOf
  <2>. QED  BY <2>1, FS_EmptySet, LimitAssumption DEF Rooms, Init
<1>2. IInv /\ IInv' /\ Rooms /\ [Next]_vars => Rooms'
  BY RoomsStep
<1>3. Rooms => Capacity
  BY DEF Rooms, Capacity, SessionsOf
<1>. QED  BY <1>1, <1>2, <1>3, Inductive, PTL DEF Spec
=============================================================================
