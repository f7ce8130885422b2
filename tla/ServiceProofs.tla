---------------------------- MODULE ServiceProofs ----------------------------
(***************************************************************************)
(* Theorems about the components of the server, for any number of calls,   *)
(* processes and names: each by its own specification first, then as parts *)
(* of Services, of which TLC checks small instances.                       *)
(***************************************************************************)
EXTENDS Services, FiniteSetTheorems, TLAPS

-----------------------------------------------------------------------------
(* Authorization codes and token pairs *)

LEMMA TokensBegin == OAuth!OAuthAssumption /\ OAuth!Init => OAuth!IInv
BY DEF OAuth!Init, OAuth!IInv, OAuth!TypeOK, OAuth!Lineage, OAuth!Rotation, OAuth!Granted,
   OAuth!Presents

\* A call presents a code, or a refresh token that is in the table.
LEMMA TokensReceived ==
    ASSUME OAuth!OAuthAssumption, OAuth!IInv, NEW c \in TokenCalls, NEW p \in Processes,
           (\E g \in Grants : OAuth!Challenge(c, g, p))
              \/ (\E d \in oauth_refresh : \E asked \in (SUBSET TokenScopes) \ {{}} : OAuth!Look(c, d, asked, p))
    PROVE  OAuth!IInv'
PROOF
<1>. USE DEF OAuth!IInv
<1>1. PICK what \in Grants \union OAuth!Granted, asked \in SUBSET TokenScopes, next \in {"challenged", "looked"} :
         /\ OAuth!Receives(c, p, what, asked, next)
         /\ next = "challenged" => what \in Grants
         /\ next = "looked" => what \in OAuth!Granted
         /\ Client[what] = Client[c]
         /\ asked \subseteq IF what \in Grants THEN Consent[what] ELSE oauth_scopes[what]
  <2>1. CASE \E g \in Grants : OAuth!Challenge(c, g, p)
    BY <2>1 DEF OAuth!Challenge, OAuth!ValidCode, OAuth!OAuthAssumption
  <2>2. CASE \E d \in oauth_refresh : \E asked \in (SUBSET TokenScopes) \ {{}} : OAuth!Look(c, d, asked, p)
    BY <2>2 DEF OAuth!Look, OAuth!Lineage, OAuth!Granted, OAuth!OAuthAssumption
  <2>. QED  BY <2>1, <2>2
<1>2. /\ oauth_stage[c] = "idle"
      /\ oauth_stage' = [oauth_stage EXCEPT ![c] = next]
      /\ oauth_given' = [oauth_given EXCEPT ![c] = what]
      /\ oauth_scopes' = [oauth_scopes EXCEPT ![c] = asked]
      /\ oauth_grant' = [oauth_grant EXCEPT ![c] = IF what \in Grants THEN what ELSE oauth_grant[what]]
      /\ oauth_proc' = [oauth_proc EXCEPT ![c] = p]
      /\ UNCHANGED <<oauth_code, oauth_home, oauth_access, oauth_refresh, oauth_old>>
  BY <1>1 DEF OAuth!Receives
<1>3. OAuth!Granted' = OAuth!Granted /\ c \notin OAuth!Granted /\ OAuth!Presents' = OAuth!Presents \union {c}
  BY <1>2 DEF OAuth!Granted, OAuth!Presents, OAuth!TypeOK
<1>4. what \in TokenCalls \union Grants /\ (what \in Grants \/ what \in TokenCalls)
  BY <1>1 DEF OAuth!Granted
<1>5. OAuth!TypeOK'
  BY <1>1, <1>2, <1>4 DEF OAuth!TypeOK, OAuth!Lineage, OAuth!Granted, OAuth!Presents
<1>6. OAuth!Lineage'
  BY <1>1, <1>2, <1>3 DEF OAuth!TypeOK, OAuth!Lineage, OAuth!Granted, OAuth!Presents,
     OAuth!OAuthAssumption
<1>7. OAuth!Rotation'
  BY <1>2, <1>3 DEF OAuth!Rotation, OAuth!TypeOK, OAuth!Lineage
<1>. QED  BY <1>5, <1>6, <1>7

\* A call that has presented what is still good gets a pair: its code, or the refresh token
\* that is in the table.
LEMMA PairSaved ==
    ASSUME OAuth!OAuthAssumption, OAuth!IInv, NEW c \in TokenCalls, c \in OAuth!Presents \ OAuth!Granted,
           oauth_stage' = [oauth_stage EXCEPT ![c] = "granted"],
           oauth_access' = oauth_access \union {c},
           oauth_refresh' = (oauth_refresh \ {oauth_given[c]}) \union {c},
           \/ /\ oauth_given[c] \in Grants /\ oauth_code[oauth_given[c]] # "used"
              /\ oauth_code' = [oauth_code EXCEPT ![oauth_given[c]] = "used"]
           \/ oauth_given[c] \in oauth_refresh /\ UNCHANGED oauth_code,
           UNCHANGED <<oauth_home, oauth_proc, oauth_given, oauth_scopes, oauth_grant, oauth_old>>
    PROVE  OAuth!IInv'
PROOF
<1>. USE DEF OAuth!IInv
<1>1. /\ OAuth!Granted' = OAuth!Granted \union {c} /\ OAuth!Presents' = OAuth!Presents
      /\ c \notin OAuth!Granted /\ c \notin oauth_refresh
  BY DEF OAuth!Granted, OAuth!Presents, OAuth!TypeOK, OAuth!Lineage
<1>2. \A d \in OAuth!Granted : oauth_given[d] # oauth_given[c]
  BY DEF OAuth!Lineage, OAuth!Presents, OAuth!OAuthAssumption, OAuth!Granted
<1>3. \A d \in oauth_refresh : oauth_grant[d] = oauth_grant[c] => d = oauth_given[c]
  <2>1. CASE oauth_given[c] \in Grants
    <3>1. oauth_grant[c] = oauth_given[c] /\ oauth_code[oauth_given[c]] # "used"
      BY <2>1 DEF OAuth!Lineage, OAuth!Presents, OAuth!OAuthAssumption, OAuth!TypeOK
    <3>2. \A d \in oauth_refresh : oauth_code[oauth_grant[d]] = "used"
      BY DEF OAuth!Lineage
    <3>. QED  BY <3>1, <3>2
  <2>2. CASE oauth_given[c] \in oauth_refresh
    BY <2>2 DEF OAuth!Lineage, OAuth!Rotation, OAuth!OAuthAssumption, OAuth!Granted, OAuth!TypeOK
  <2>. QED  BY <2>1, <2>2
<1>4. OAuth!TypeOK'
  BY DEF OAuth!TypeOK
<1>5. OAuth!Lineage'
  BY <1>1 DEF OAuth!TypeOK, OAuth!Lineage, OAuth!Presents, OAuth!Granted, OAuth!OAuthAssumption
<1>6. OAuth!Rotation'
  BY <1>1, <1>2, <1>3 DEF OAuth!Rotation, OAuth!TypeOK
<1>. QED  BY <1>4, <1>5, <1>6

\* Nobody gets a pair: rows and codes may go, calls may end.
LEMMA PairsGo ==
    ASSUME OAuth!OAuthAssumption, OAuth!IInv, OAuth!TypeOK',
           oauth_access' \subseteq oauth_access, oauth_refresh' \subseteq oauth_refresh,
           \A c \in TokenCalls : oauth_stage'[c] = oauth_stage[c]
                              \/ (oauth_stage[c] # "granted" /\ oauth_stage'[c] \in {"refused", "failed"}),
           \A g \in Grants : oauth_code[g] = "used" => oauth_code'[g] = "used",
           UNCHANGED <<oauth_given, oauth_scopes, oauth_grant>>
    PROVE  OAuth!IInv'
PROOF
<1>. USE DEF OAuth!IInv
<1>1. OAuth!Granted' = OAuth!Granted /\ OAuth!Presents' \subseteq OAuth!Presents
  BY DEF OAuth!Granted, OAuth!Presents
<1>2. OAuth!Lineage'
  BY <1>1 DEF OAuth!Lineage, OAuth!Presents, OAuth!Granted
<1>3. OAuth!Rotation'
  BY <1>1 DEF OAuth!Rotation
<1>. QED  BY <1>2, <1>3

LEMMA TokensStep == OAuth!OAuthAssumption /\ OAuth!IInv /\ [OAuth!Next]_OAuth!vars => OAuth!IInv'
PROOF
<1>. SUFFICES ASSUME OAuth!OAuthAssumption, OAuth!IInv, [OAuth!Next]_OAuth!vars PROVE OAuth!IInv'
  OBVIOUS
<1>0. OAuth!TypeOK  BY DEF OAuth!IInv
<1>1. ASSUME NEW g \in Grants, NEW p \in Processes, OAuth!Authorize(g, p) PROVE OAuth!IInv'
  BY <1>0, <1>1, PairsGo DEF OAuth!Authorize, OAuth!TypeOK
<1>2. ASSUME NEW c \in TokenCalls, OAuth!Exchange(c) PROVE OAuth!IInv'
  <2>1. c \in OAuth!Presents \ OAuth!Granted /\ oauth_given[c] \in Grants /\ oauth_given[c] \notin oauth_refresh
    BY <1>2 DEF OAuth!Exchange, OAuth!Presents, OAuth!Granted, OAuth!IInv, OAuth!Lineage,
       OAuth!TypeOK, OAuth!OAuthAssumption
  <2>2. CASE OAuth!ValidCode(oauth_given[c], c, oauth_proc[c]) /\ oauth_stage' = [oauth_stage EXCEPT ![c] = "granted"]
    <3>1. /\ oauth_code[oauth_given[c]] # "used"
          /\ oauth_code' = [oauth_code EXCEPT ![oauth_given[c]] = "used"]
          /\ oauth_access' = oauth_access \union {c}
          /\ oauth_refresh' = (oauth_refresh \ {oauth_given[c]}) \union {c}
          /\ UNCHANGED <<oauth_home, oauth_proc, oauth_given, oauth_scopes, oauth_grant, oauth_old>>
      BY <1>0, <1>2, <2>1, <2>2 DEF OAuth!Exchange, OAuth!ValidCode, OAuth!SavePair, OAuth!Ends,
         OAuth!TypeOK
    <3>. QED  BY <2>1, <2>2, <3>1, PairSaved
  <2>3. CASE oauth_stage' \in {[oauth_stage EXCEPT ![c] = "failed"], [oauth_stage EXCEPT ![c] = "refused"]}
    BY <1>0, <1>2, <2>1, <2>3, PairsGo
       DEF OAuth!Exchange, OAuth!SavePair, OAuth!Ends, OAuth!TypeOK
  <2>. QED  BY <1>2, <2>2, <2>3 DEF OAuth!Exchange, OAuth!SavePair, OAuth!Ends
<1>3. ASSUME NEW c \in TokenCalls, OAuth!Rotate(c) PROVE OAuth!IInv'
  <2>1. c \in OAuth!Presents \ OAuth!Granted
    BY <1>3 DEF OAuth!Rotate, OAuth!Presents, OAuth!Granted
  <2>2. CASE oauth_given[c] \in oauth_refresh /\ oauth_stage' = [oauth_stage EXCEPT ![c] = "granted"]
    <3>1. /\ oauth_access' = oauth_access \union {c}
          /\ oauth_refresh' = (oauth_refresh \ {oauth_given[c]}) \union {c}
          /\ UNCHANGED <<oauth_code, oauth_home, oauth_proc, oauth_given, oauth_scopes, oauth_grant, oauth_old>>
      BY <1>0, <1>3, <2>2 DEF OAuth!Rotate, OAuth!SavePair, OAuth!Ends, OAuth!TypeOK
    <3>. QED  BY <2>1, <2>2, <3>1, PairSaved
  <2>3. CASE oauth_stage' \in {[oauth_stage EXCEPT ![c] = "failed"], [oauth_stage EXCEPT ![c] = "refused"]}
    BY <1>0, <1>3, <2>1, <2>3, PairsGo DEF OAuth!Rotate, OAuth!SavePair, OAuth!Ends, OAuth!TypeOK
  <2>. QED  BY <1>3, <2>2, <2>3 DEF OAuth!Rotate, OAuth!SavePair, OAuth!Ends
<1>4. ASSUME NEW c \in TokenCalls, OAuth!Revoke(c) PROVE OAuth!IInv'
  BY <1>0, <1>4, PairsGo DEF OAuth!Revoke, OAuth!TypeOK
<1>5. CASE OAuth!Expire
  <2>1. oauth_old' \subseteq {"access", "refresh"} \X TokenCalls
    <3>1. \/ UNCHANGED oauth_old
          \/ \E t \in {"access", "refresh"}, c \in oauth_access \union oauth_refresh :
                oauth_old' = oauth_old \union {<<t, c>>}
      BY <1>5 DEF OAuth!Expire
    <3>. QED  BY <1>0, <3>1 DEF OAuth!TypeOK
  <2>2. oauth_code' = oauth_code \/ \E g \in Grants : oauth_code[g] = "live" /\ oauth_code' = [oauth_code EXCEPT ![g] = "old"]
    BY <1>5 DEF OAuth!Expire
  <2>3. UNCHANGED <<oauth_home, oauth_stage, oauth_proc, oauth_given, oauth_scopes, oauth_grant, oauth_access, oauth_refresh>>
    BY <1>5 DEF OAuth!Expire
  <2>. QED  BY <1>0, <2>1, <2>2, <2>3, PairsGo DEF OAuth!TypeOK
<1>6. ASSUME NEW p \in Processes, OAuth!Restart(p) PROVE OAuth!IInv'
  BY <1>0, <1>6, PairsGo DEF OAuth!Restart, OAuth!TypeOK
<1>7. CASE UNCHANGED OAuth!vars
  BY <1>0, <1>7, PairsGo DEF OAuth!vars, OAuth!TypeOK
<1>. QED  BY <1>1, <1>2, <1>3, <1>4, <1>5, <1>6, <1>7, TokensReceived DEF OAuth!Next

\* A code or a refresh token gives at most one pair and a grant has at most one refresh token,
\* whatever processes exchange, refresh, revoke and restart; and no pair reaches
\* further than the pair it replaces, the owner's consent and its client
\* (exchangeAuthorizationCode, exchangeRefreshToken, saveTokenPair).
THEOREM PairsRotate == ASSUME OAuth!OAuthAssumption PROVE OAuth!Spec => [](OAuth!TypeOK /\ OAuth!TokensRotate)
PROOF
<1>1. OAuth!IInv => OAuth!TypeOK /\ OAuth!TokensRotate
  BY DEF OAuth!IInv, OAuth!Lineage, OAuth!TokensRotate, OAuth!WithinConsent, OAuth!Granted,
     OAuth!Presents
<1>. QED  BY <1>1, TokensBegin, TokensStep, PTL DEF OAuth!Spec

-----------------------------------------------------------------------------
(* The emulator of a recovery *)

\* What recoverEmulator does keeps the invariant: the world stands still meanwhile.
LEMMA RecoveryStep ==
    ASSUME Emulator!EmulatorAssumption, Emulator!IInv,
           \/ Emulator!Scopes \/ Emulator!Inspects \/ Emulator!AsksAdb \/ Emulator!Rechecks
           \/ Emulator!Stops \/ Emulator!Polls \/ Emulator!Reports
    PROVE  Emulator!IInv'
PROOF
<1>1. emulator_apply' = emulator_apply /\ UNCHANGED <<emulator_running, emulator_pid, emulator_serial, emulator_claim>>
  BY DEF Emulator!Scopes, Emulator!Inspects, Emulator!AsksAdb, Emulator!Rechecks, Emulator!Stops,
         Emulator!Polls, Emulator!Reports, Emulator!Goes, Emulator!world
<1>2. Emulator!Named'
  BY <1>1 DEF Emulator!IInv, Emulator!Named
<1>3. CASE Emulator!Rechecks
  BY <1>1, <1>2, <1>3 DEF Emulator!IInv, Emulator!TypeOK, Emulator!Named, Emulator!Stopping,
     Emulator!Rechecks, Emulator!Goes, Emulator!Identified
<1>4. CASE Emulator!Stops
  BY <1>1, <1>2, <1>4 DEF Emulator!IInv, Emulator!TypeOK, Emulator!Stopping, Emulator!Stops
<1>5. CASE Emulator!Polls
  BY <1>1, <1>2, <1>5 DEF Emulator!EmulatorAssumption, Emulator!IInv, Emulator!TypeOK,
     Emulator!Named,
     Emulator!Stopping, Emulator!Polls, Emulator!Goes
<1>6. CASE Emulator!Scopes \/ Emulator!Inspects \/ Emulator!AsksAdb \/ Emulator!Reports
  BY <1>1, <1>2, <1>6 DEF Emulator!IInv, Emulator!TypeOK, Emulator!Stopping, Emulator!Scopes,
     Emulator!Inspects, Emulator!AsksAdb, Emulator!Reports, Emulator!Goes
<1>. QED  BY <1>3, <1>4, <1>5, <1>6

\* What the machine does keeps it too: an emulator that comes has another name.
LEMMA MachineStep ==
    ASSUME Emulator!EmulatorAssumption, Emulator!IInv,
           \/ \E e \in {Recorded} \union Others : Emulator!Exits(e) \/ Emulator!Starts(e)
           \/ Emulator!Releases
    PROVE  Emulator!IInv'
PROOF
<1>1. emulator_stage' = emulator_stage /\ emulator_apply' = emulator_apply /\ emulator_stopped' = emulator_stopped
  BY DEF Emulator!Exits, Emulator!Starts, Emulator!Releases
<1>2. ASSUME NEW e \in {Recorded} \union Others, Emulator!Exits(e)
      PROVE  Emulator!IInv'
  <2>1. /\ e \in emulator_running /\ emulator_running' = emulator_running \ {e}
        /\ emulator_pid' = IF emulator_pid = e THEN None ELSE emulator_pid
        /\ emulator_serial' = IF emulator_serial = e THEN None ELSE emulator_serial
        /\ emulator_replaced' = (emulator_replaced \/ emulator_serial = e)
        /\ emulator_claim' = emulator_claim
    BY <1>2 DEF Emulator!Exits, Emulator!Freed
  <2>2. emulator_replaced' \in BOOLEAN /\ (~emulator_replaced' => ~emulator_replaced /\ emulator_serial # e)
    BY <2>1 DEF Emulator!IInv, Emulator!TypeOK
  <2>3. Emulator!TypeOK'
    BY <1>1, <2>1, <2>2 DEF Emulator!IInv, Emulator!TypeOK
  <2>4. Emulator!Named'
    BY <2>1 DEF Emulator!EmulatorAssumption, Emulator!IInv, Emulator!Named
  <2>5. Emulator!Stopping'
    BY <1>1, <2>1, <2>2 DEF Emulator!IInv, Emulator!Stopping
  <2>. QED  BY <2>3, <2>4, <2>5 DEF Emulator!IInv
<1>3. ASSUME NEW e \in {Recorded} \union Others, Emulator!Starts(e)
      PROVE  Emulator!IInv'
  BY <1>1, <1>3 DEF Emulator!EmulatorAssumption, Emulator!IInv, Emulator!TypeOK, Emulator!Named,
     Emulator!Stopping, Emulator!Starts
<1>4. CASE Emulator!Releases
  BY <1>1, <1>4 DEF Emulator!IInv, Emulator!TypeOK, Emulator!Named, Emulator!Stopping,
     Emulator!Releases
<1>. QED  BY <1>2, <1>3, <1>4

\* A recovery stops the emulator of the proof or none, unless the serial has changed hands
\* since the second inspection, and reports as stopped only what has exited, for any
\* emulators that come after it (recoverEmulator in emulator-session-recovery.ts).
THEOREM RecoveryStops ==
    ASSUME Emulator!EmulatorAssumption
    PROVE  Emulator!Spec => [](Emulator!TypeOK /\ Emulator!StopsTheRecorded)
PROOF
<1>1. Emulator!Init => Emulator!IInv
  BY DEF Emulator!EmulatorAssumption, Emulator!Init, Emulator!IInv, Emulator!TypeOK,
     Emulator!Named, Emulator!Stopping
<1>2. Emulator!IInv /\ [Emulator!Next]_(Emulator!vars) => Emulator!IInv'
  <2>. SUFFICES ASSUME Emulator!IInv, [Emulator!Next]_(Emulator!vars)
                PROVE  Emulator!IInv'
    OBVIOUS
  <2>1. CASE UNCHANGED Emulator!vars
    BY <2>1 DEF Emulator!vars, Emulator!world, Emulator!IInv, Emulator!TypeOK, Emulator!Named,
       Emulator!Stopping
  <2>. QED  BY <2>1, RecoveryStep, MachineStep DEF Emulator!Next
<1>3. Emulator!IInv => Emulator!TypeOK /\ Emulator!StopsTheRecorded
  BY DEF Emulator!IInv, Emulator!Stopping, Emulator!StopsTheRecorded
<1>. QED  BY <1>1, <1>2, <1>3, PTL DEF Emulator!Spec

-----------------------------------------------------------------------------
(* Registrations with the desktop application *)

\* Desktop and its user move threads, of which every call is told, and change projects.
LEMMA DesktopUserStep ==
    ASSUME Desktop!IInv,
           \/ \E p \in Projects : Desktop!Maps(p) \/ Desktop!Changes(p)
           \/ \E t \in Threads, p \in Projects : Desktop!Places(t, p)
    PROVE  Desktop!IInv'
PROOF
<1>1. UNCHANGED <<desktop_assigned, desktop_link, desktop_stage, desktop_status, desktop_catalog,
                  desktop_matches, desktop_before, desktop_left, desktop_thread, desktop_taken>>
  BY DEF Desktop!Maps, Desktop!Changes, Desktop!Places, Desktop!call
<1>2. Desktop!Seen' /\ Desktop!ThreadsStay'
  BY <1>1 DEF Desktop!IInv, Desktop!Seen, Desktop!Project, Desktop!ThreadsStay,
     Desktop!NoThreadTaken, Desktop!OneLink
<1>3. ASSUME NEW p \in Projects, Desktop!Maps(p) \/ Desktop!Changes(p)
      PROVE  Desktop!IInv'
  <2>1. desktop_place' = desktop_place /\ desktop_since' = desktop_since
    BY <1>3 DEF Desktop!Maps, Desktop!Changes
  <2>2. /\ desktop_covers' \subseteq Projects
        /\ desktop_saved' \in BOOLEAN /\ desktop_mapped' \in Projects \union {None}
    BY <1>3 DEF Desktop!Maps, Desktop!Changes, Desktop!IInv, Desktop!TypeOK
  <2>3. Desktop!TypeOK' /\ Desktop!InPlace'
    BY <1>1, <2>1, <2>2 DEF Desktop!IInv, Desktop!TypeOK, Desktop!InPlace
  <2>. QED  BY <1>2, <2>3 DEF Desktop!IInv
<1>4. ASSUME NEW t \in Threads, NEW p \in Projects, Desktop!Places(t, p)
      PROVE  Desktop!IInv'
  <2>1. /\ desktop_place' = [desktop_place EXCEPT ![t] = p]
        /\ desktop_since' = desktop_since \union {<<c, t>> : c \in Callers}
        /\ UNCHANGED <<desktop_covers, desktop_saved, desktop_mapped>>
    BY <1>4 DEF Desktop!Places
  <2>2. Desktop!TypeOK'
    BY <1>1, <2>1 DEF Desktop!IInv, Desktop!TypeOK
  <2>3. Desktop!InPlace'
    BY <1>1, <2>1 DEF Desktop!IInv, Desktop!TypeOK, Desktop!InPlace
  <2>. QED  BY <1>2, <2>2, <2>3 DEF Desktop!IInv
<1>. QED  BY <1>3, <1>4

\* A call that only goes on, or ends, has seen no more and no less than before.
LEMMA RegistrationGoesOn ==
    ASSUME Desktop!IInv, NEW c \in Callers,
           \/ Desktop!Connect(c) \/ Desktop!Opens(c) \/ Desktop!Joins(c) \/ Desktop!Verifies(c)
           \/ Desktop!Confirms(c) \/ Desktop!Rechecks(c) \/ Desktop!Unanswered(c)
    PROVE  Desktop!IInv'
PROOF
<1>1. /\ UNCHANGED Desktop!desktop /\ UNCHANGED Desktop!call
      /\ desktop_since' = desktop_since /\ desktop_taken' = desktop_taken
  BY DEF Desktop!Connect, Desktop!Opens, Desktop!Joins, Desktop!Verifies, Desktop!Confirms,
         Desktop!Rechecks, Desktop!Unanswered, Desktop!At
<1>2. PICK to \in Desktop!Stages \ {"placing", "verifying", "confirming"} :
         /\ desktop_stage' = [desktop_stage EXCEPT ![c] = to]
         /\ to = "choosing" => desktop_stage[c] \in {"verifying", "confirming"}
  BY DEF Desktop!Connect, Desktop!Opens, Desktop!Joins, Desktop!Verifies, Desktop!Confirms,
         Desktop!Rechecks, Desktop!Unanswered, Desktop!At, Desktop!Goes, Desktop!Ends, Desktop!Stages
<1>3. desktop_status' = desktop_status \/ \E result \in {"partial", "persisted"} :
         desktop_status' = [desktop_status EXCEPT ![c] = result]
  BY DEF Desktop!Connect, Desktop!Opens, Desktop!Joins, Desktop!Verifies, Desktop!Confirms,
         Desktop!Rechecks, Desktop!Unanswered, Desktop!Ends
<1>4. desktop_link' \subseteq Callers /\ Desktop!OneLink'
  <2>1. CASE Desktop!Opens(c)
    BY <2>1 DEF Desktop!Opens, Desktop!Joined, Desktop!IInv, Desktop!TypeOK, Desktop!ThreadsStay,
       Desktop!OneLink
  <2>2. CASE ~Desktop!Opens(c)
    <3>1. desktop_link' = desktop_link
      BY <2>2 DEF Desktop!Connect, Desktop!Joins, Desktop!Verifies, Desktop!Confirms,
         Desktop!Rechecks, Desktop!Unanswered
    <3>. QED  BY <3>1 DEF Desktop!IInv, Desktop!TypeOK, Desktop!ThreadsStay, Desktop!OneLink
  <2>. QED  BY <2>1, <2>2
<1>5. Desktop!TypeOK'
  BY <1>1, <1>2, <1>3, <1>4 DEF Desktop!IInv, Desktop!TypeOK, Desktop!desktop, Desktop!call
<1>6. Desktop!Seen' /\ Desktop!InPlace'
  BY <1>1, <1>2 DEF Desktop!IInv, Desktop!TypeOK, Desktop!Seen, Desktop!InPlace, Desktop!Project,
     Desktop!desktop, Desktop!call
<1>. QED  BY <1>1, <1>4, <1>5, <1>6 DEF Desktop!IInv, Desktop!ThreadsStay, Desktop!NoThreadTaken

\* The catalog and the projects are read before the threads are.
LEMMA RegistrationReads ==
    ASSUME Desktop!IInv, NEW c \in Callers, Desktop!Existing(c) \/ Desktop!Lists(c) \/ Desktop!Resolved(c)
    PROVE  Desktop!IInv'
PROOF
<1>1. /\ UNCHANGED Desktop!desktop
      /\ desktop_before' = desktop_before /\ desktop_left' = desktop_left /\ desktop_thread' = desktop_thread
      /\ desktop_since' = desktop_since /\ desktop_taken' = desktop_taken
  BY DEF Desktop!Existing, Desktop!Lists, Desktop!Resolved, Desktop!At
<1>2. Desktop!Catalog \in [project : Projects \union {None}, threads : SUBSET Threads]
  BY DEF Desktop!Catalog, Desktop!IInv, Desktop!TypeOK
<1>3. /\ desktop_stage' \in [Callers -> Desktop!Stages]
      /\ desktop_status' \in [Callers -> {None, "partial", "persisted"}]
      /\ desktop_catalog' \in [Callers -> [project : Projects \union {None}, threads : SUBSET Threads]]
      /\ desktop_matches' \in [Callers -> SUBSET Projects]
      /\ desktop_link' \subseteq desktop_link
      /\ \A d \in Callers :
            \/ /\ desktop_stage'[d] = desktop_stage[d] /\ desktop_catalog'[d] = desktop_catalog[d]
               /\ desktop_matches'[d] = desktop_matches[d]
            \/ desktop_stage'[d] \in {"listing", "reading", "done"}
  <2>1. CASE Desktop!Existing(c)
    BY <1>2, <2>1 DEF Desktop!Existing, Desktop!At, Desktop!Goes, Desktop!Ends, Desktop!IInv,
       Desktop!TypeOK, Desktop!Stages
  <2>2. CASE Desktop!Lists(c)
    BY <2>2 DEF Desktop!Lists, Desktop!At, Desktop!Goes, Desktop!Ends, Desktop!IInv,
       Desktop!TypeOK, Desktop!Stages
  <2>3. CASE Desktop!Resolved(c)
    <3>. DEFINE all == {c} \union {d \in Callers : desktop_stage[d] = "joined" /\ Process[d] = Process[c]}
    <3>1. desktop_link' \subseteq desktop_link /\ desktop_matches' = desktop_matches
      BY <2>3 DEF Desktop!Resolved
    <3>2. \/ /\ desktop_stage' = [d \in Callers |-> IF d \in all THEN "listing" ELSE desktop_stage[d]]
             /\ desktop_catalog' = [d \in Callers |-> IF d \in all THEN Desktop!Catalog ELSE desktop_catalog[d]]
             /\ desktop_status' = desktop_status
          \/ /\ desktop_stage' = [d \in Callers |-> IF d \in all THEN "done" ELSE desktop_stage[d]]
             /\ desktop_status' = [d \in Callers |-> IF d \in all THEN "partial" ELSE desktop_status[d]]
             /\ desktop_catalog' = desktop_catalog
      BY <2>3 DEF Desktop!Resolved
    <3>. HIDE DEF all
    <3>3. /\ desktop_stage \in [Callers -> Desktop!Stages]
          /\ desktop_status \in [Callers -> {None, "partial", "persisted"}]
          /\ desktop_catalog \in [Callers -> [project : Projects \union {None}, threads : SUBSET Threads]]
          /\ desktop_matches \in [Callers -> SUBSET Projects]
      BY DEF Desktop!IInv, Desktop!TypeOK
    <3>4. /\ desktop_stage' \in [Callers -> Desktop!Stages]
          /\ desktop_status' \in [Callers -> {None, "partial", "persisted"}]
      BY <3>2, <3>3 DEF Desktop!Stages
    <3>5. desktop_catalog' \in [Callers -> [project : Projects \union {None}, threads : SUBSET Threads]]
      BY <1>2, <3>2, <3>3
    <3>6. \A d \in Callers :
            \/ desktop_stage'[d] = desktop_stage[d] /\ desktop_catalog'[d] = desktop_catalog[d]
            \/ desktop_stage'[d] \in {"listing", "reading", "done"}
      BY <3>2
    <3>. QED  BY <3>1, <3>3, <3>4, <3>5, <3>6
  <2>. QED  BY <2>1, <2>2, <2>3
<1>4. Desktop!TypeOK'
  BY <1>1, <1>3 DEF Desktop!IInv, Desktop!TypeOK, Desktop!desktop
<1>5. Desktop!Seen' /\ Desktop!InPlace'
  BY <1>1, <1>3 DEF Desktop!IInv, Desktop!Seen, Desktop!InPlace, Desktop!Project, Desktop!desktop
<1>6. Desktop!ThreadsStay'
  BY <1>1, <1>3 DEF Desktop!IInv, Desktop!ThreadsStay, Desktop!NoThreadTaken, Desktop!OneLink
<1>. QED  BY <1>4, <1>5, <1>6 DEF Desktop!IInv

\* What a call places has been read again, and was not another project's.
LEMMA RegistrationPlaces ==
    ASSUME Desktop!IInv, NEW c \in Callers,
           Desktop!ReadsThreads(c) \/ Desktop!Assigns(c) \/ \E t \in Threads : Desktop!Rereads(c, t)
    PROVE  Desktop!IInv'
PROOF
<1>1. UNCHANGED <<desktop_covers, desktop_saved, desktop_mapped, desktop_assigned, desktop_moves,
                  desktop_link, desktop_catalog, desktop_matches>>
  BY DEF Desktop!ReadsThreads, Desktop!Rereads, Desktop!Assigns, Desktop!At, Desktop!desktop,
     Desktop!call
<1>2. desktop_status' = desktop_status \/ desktop_status' = [desktop_status EXCEPT ![c] = "partial"]
  BY DEF Desktop!ReadsThreads, Desktop!Rereads, Desktop!Assigns, Desktop!Ends
<1>3. Desktop!OneLink'
  BY <1>1 DEF Desktop!IInv, Desktop!ThreadsStay, Desktop!OneLink
<1>4. CASE Desktop!ReadsThreads(c)
  <2>1. PICK to \in {"verifying", "done"} :
           /\ desktop_stage' = [desktop_stage EXCEPT ![c] = to]
           /\ to = "verifying" => \A u \in Threads : ~Desktop!Foreign(c, u)
    BY <1>4 DEF Desktop!ReadsThreads, Desktop!Goes, Desktop!Ends
  <2>2. /\ desktop_before' = [desktop_before EXCEPT ![c] = desktop_place]
        /\ UNCHANGED <<desktop_place, desktop_left, desktop_thread, desktop_since, desktop_taken>>
    BY <1>4 DEF Desktop!ReadsThreads, Desktop!At, Desktop!desktop
  <2>3. Desktop!TypeOK'
    BY <1>1, <1>2, <2>1, <2>2 DEF Desktop!IInv, Desktop!TypeOK, Desktop!Stages
  <2>4. Desktop!Seen'
    BY <1>1, <2>1, <2>2 DEF Desktop!IInv, Desktop!TypeOK, Desktop!Seen, Desktop!Foreign,
       Desktop!Project
  <2>5. Desktop!InPlace'
    BY <1>1, <2>1, <2>2 DEF Desktop!IInv, Desktop!TypeOK, Desktop!InPlace
  <2>. QED  BY <1>3, <2>2, <2>3, <2>4, <2>5 DEF Desktop!IInv, Desktop!ThreadsStay,
               Desktop!NoThreadTaken
<1>5. ASSUME NEW t \in Threads, Desktop!Rereads(c, t)
      PROVE  Desktop!IInv'
  <2>1. PICK to \in {"confirming", "placing", "done"} :
           /\ desktop_stage' = [desktop_stage EXCEPT ![c] = to]
           /\ to = "placing" => desktop_place[t] = desktop_before[c][t]
    BY <1>5 DEF Desktop!Rereads, Desktop!Goes, Desktop!Ends
  <2>2. /\ desktop_stage[c] = "choosing"
        /\ desktop_left' = [desktop_left EXCEPT ![c] = @ \ {t}]
        /\ desktop_thread' = [desktop_thread EXCEPT ![c] = t]
        /\ desktop_since' = desktop_since \ {<<c, t>>}
        /\ UNCHANGED <<desktop_place, desktop_before, desktop_taken>>
    BY <1>5 DEF Desktop!Rereads, Desktop!At, Desktop!desktop
  <2>3. Desktop!TypeOK'
    BY <1>1, <1>2, <2>1, <2>2 DEF Desktop!IInv, Desktop!TypeOK, Desktop!Stages
  <2>4. Desktop!Seen'
    BY <1>1, <2>1, <2>2 DEF Desktop!IInv, Desktop!TypeOK, Desktop!Seen, Desktop!Project
  <2>5. Desktop!InPlace'
    BY <1>1, <2>1, <2>2 DEF Desktop!IInv, Desktop!TypeOK, Desktop!InPlace
  <2>. QED  BY <1>3, <2>2, <2>3, <2>4, <2>5 DEF Desktop!IInv, Desktop!ThreadsStay,
               Desktop!NoThreadTaken
<1>6. CASE Desktop!Assigns(c)
  <2>1. PICK to \in {"confirming", "done"} : desktop_stage' = [desktop_stage EXCEPT ![c] = to]
    BY <1>6 DEF Desktop!Assigns, Desktop!Goes, Desktop!Ends
  <2>2. /\ desktop_stage[c] = "placing"
        /\ desktop_place' = [desktop_place EXCEPT ![desktop_thread[c]] = Desktop!Project(c)]
        /\ desktop_since' = desktop_since \union {<<d, desktop_thread[c]>> : d \in Callers \ {c}}
        /\ desktop_taken' = (desktop_taken \/ (<<c, desktop_thread[c]>> \notin desktop_since
                                                 /\ Desktop!Foreign(c, desktop_thread[c])))
        /\ UNCHANGED <<desktop_before, desktop_left, desktop_thread>>
    BY <1>6 DEF Desktop!Assigns, Desktop!call
  <2>3. desktop_thread[c] \in Threads /\ Desktop!Project(c) \in Projects \union {None}
    BY <2>2 DEF Desktop!IInv, Desktop!TypeOK, Desktop!InPlace, Desktop!Project
  <2>4. ~desktop_taken'
    BY <2>2, <2>3 DEF Desktop!IInv, Desktop!InPlace, Desktop!Seen, Desktop!Foreign,
       Desktop!ThreadsStay, Desktop!NoThreadTaken
  <2>5. Desktop!TypeOK'
    BY <1>1, <1>2, <2>1, <2>2, <2>3, <2>4 DEF Desktop!IInv, Desktop!TypeOK, Desktop!Stages
  <2>6. Desktop!Seen'
    BY <1>1, <2>1, <2>2 DEF Desktop!IInv, Desktop!TypeOK, Desktop!Seen, Desktop!Project
  <2>7. Desktop!InPlace'
    BY <1>1, <2>1, <2>2, <2>3 DEF Desktop!IInv, Desktop!TypeOK, Desktop!InPlace
  <2>. QED  BY <1>3, <2>4, <2>5, <2>6, <2>7 DEF Desktop!IInv, Desktop!ThreadsStay,
               Desktop!NoThreadTaken
<1>. QED  BY <1>4, <1>5, <1>6

\* For any calls of any processes, any threads and any projects, a registration never takes
\* a thread from a project that is not its own and that it could see, and a process never
\* has two links open for one workspace (registerProject, ensureSavedDesktopProject).
THEOREM RegistrationsSpare == Desktop!Spec => [](Desktop!TypeOK /\ Desktop!ThreadsStay)
PROOF
<1>1. Desktop!Init => Desktop!IInv
  <2>. SUFFICES ASSUME Desktop!Init
                PROVE  Desktop!IInv
    OBVIOUS
  <2>1. Desktop!TypeOK
    BY DEF Desktop!Init, Desktop!TypeOK, Desktop!NoCatalog, Desktop!Stages
  <2>2. Desktop!Seen /\ Desktop!InPlace
    BY DEF Desktop!Init, Desktop!Seen, Desktop!InPlace
  <2>. QED
    BY <2>1, <2>2 DEF Desktop!Init, Desktop!IInv, Desktop!ThreadsStay, Desktop!NoThreadTaken,
       Desktop!OneLink
<1>2. Desktop!IInv /\ [Desktop!Next]_(Desktop!vars) => Desktop!IInv'
  <2>. SUFFICES ASSUME Desktop!IInv, [Desktop!Next]_(Desktop!vars)
                PROVE  Desktop!IInv'
    OBVIOUS
  <2>1. CASE UNCHANGED Desktop!vars
    BY <2>1 DEF Desktop!vars, Desktop!desktop, Desktop!call, Desktop!IInv, Desktop!TypeOK,
       Desktop!Seen,
       Desktop!InPlace, Desktop!Project, Desktop!ThreadsStay, Desktop!NoThreadTaken, Desktop!OneLink
  <2>. QED
    BY <2>1, DesktopUserStep, RegistrationGoesOn, RegistrationReads, RegistrationPlaces DEF
       Desktop!Next
<1>3. Desktop!IInv => Desktop!TypeOK /\ Desktop!ThreadsStay
  BY DEF Desktop!IInv
<1>. QED  BY <1>1, <1>2, <1>3, PTL DEF Desktop!Spec

-----------------------------------------------------------------------------
(* Batches that archive threads *)

Settled == {"ready", "skipped", "succeeded"}
OpenOutcome == {"executing", "reconciliation_required"}
ThreadStates == {"active", "archiving", "archived", "restoring", "unknown"}
BatchStates == {"planned", "executing", "reconciliation_required", "succeeded", "partial"}

\* The entry of one thread in one batch is given a status, and the thread a state.
LEMMA EntryUpdate ==
    ASSUME Archive!IInv, NEW b \in Batches, NEW t \in Threads, NEW s \in ThreadStates,
           NEW x \in Settled \union OpenOutcome,
           archive_state' = [archive_state EXCEPT ![t] = s],
           archive_entry' = [archive_entry EXCEPT ![b][t] = x]
    PROVE  /\ archive_state' \in [Threads -> ThreadStates]
           /\ archive_state'[t] = s /\ \A u \in Threads \ {t} : archive_state'[u] = archive_state[u]
           /\ archive_entry' \in [Batches -> [Threads -> {"none"} \union Settled \union OpenOutcome]]
           /\ archive_entry'[b][t] = x
           /\ \A d \in Batches, u \in Threads :
                 <<d, u>> # <<b, t>> => archive_entry'[d][u] = archive_entry[d][u]
PROOF
<1>1. /\ archive_state \in [Threads -> ThreadStates]
      /\ archive_entry \in [Batches -> [Threads -> {"none"} \union Settled \union OpenOutcome]]
  BY DEF Archive!IInv, Archive!TypeOK, Settled, OpenOutcome, ThreadStates
<1>2. archive_entry' = [archive_entry EXCEPT ![b] = [archive_entry[b] EXCEPT ![t] = x]]
  OBVIOUS
<1>. QED  BY <1>1, <1>2

\* Everything an entry needs of the end of its step, whatever the outcome.
LEMMA EntryEnds ==
    ASSUME Archive!IInv, NEW b \in Batches, NEW t \in Threads, NEW s \in ThreadStates,
           NEW x \in Settled \union OpenOutcome, NEW y \in BatchStates,
           archive_state' = [archive_state EXCEPT ![t] = s],
           archive_entry' = [archive_entry EXCEPT ![b][t] = x],
           archive_batch' = [archive_batch EXCEPT ![b] = y],
           archive_step' = Archive!NoStep, archive_claims' = archive_claims \ {b},
           UNCHANGED <<archive_away, archive_agent, archive_asked, archive_guarded, archive_open, archive_foreign>>,
           archive_flagged' \subseteq Threads,
           Archive!ArchiveAssumption,
           s \in {"active", "archived"} \/ x \in OpenOutcome =>
               \A d \in Batches \ {b} : t \notin Archive!Unsettled(d),
           x \in OpenOutcome => s \notin {"active", "archived"},
           x \in Settled => <<b, t>> \notin archive_asked,
           s = "archived" => t \in archive_away,
           s = "active" => t \notin archive_away,
           archive_agent[t] = "running" => s = "active"
    PROVE  Archive!IInv'
PROOF
<1>1. /\ archive_state' \in [Threads -> ThreadStates]
      /\ archive_state'[t] = s /\ \A u \in Threads \ {t} : archive_state'[u] = archive_state[u]
      /\ archive_entry' \in [Batches -> [Threads -> {"none"} \union Settled \union OpenOutcome]]
      /\ archive_entry'[b][t] = x
      /\ \A d \in Batches, u \in Threads : <<d, u>> # <<b, t>> => archive_entry'[d][u] = archive_entry[d][u]
  BY EntryUpdate
<1>2. Archive!TypeOK'
  BY <1>1 DEF Archive!IInv, Archive!TypeOK, Settled, OpenOutcome, ThreadStates, BatchStates
<1>3. \A d \in Batches, u \in Threads : <<d, u>> # <<b, t>> =>
         (u \in Archive!Unsettled(d)' <=> u \in Archive!Unsettled(d))
  BY <1>1 DEF Archive!Unsettled
<1>4. t \in Archive!Unsettled(b)' <=> x \in OpenOutcome
  BY <1>1 DEF Archive!Unsettled, OpenOutcome
<1>5. \A d \in Batches : Archive!Unsettled(d) \subseteq Threads /\ Archive!Unsettled(d)' \subseteq Threads
  BY DEF Archive!Unsettled
<1>6. Archive!Open'
  <2>1. ASSUME NEW d \in Batches, archive_batch'[d] = "none", NEW u \in Threads
        PROVE  archive_entry'[d][u] = "none"
    BY <1>1, <2>1 DEF Archive!IInv, Archive!TypeOK, Archive!Open, BatchStates
  <2>2. ASSUME NEW d \in Batches, NEW u \in Archive!Unsettled(d)'
        PROVE  /\ archive_state'[u] \notin {"active", "archived"}
               /\ \A e \in Batches \ {d} : u \notin Archive!Unsettled(e)'
    <3>1. CASE u = t /\ d = b
      BY <1>1, <1>3, <1>4, <2>2, <3>1
    <3>2. CASE u = t /\ d # b
      <4>1. t \in Archive!Unsettled(d)
        BY <1>3, <2>2, <3>2
      <4>2. s \notin {"active", "archived"} /\ x \notin OpenOutcome
        BY <4>1, <3>2
      <4>3. \A e \in Batches \ {d} : t \notin Archive!Unsettled(e)
        BY <4>1 DEF Archive!IInv, Archive!Open
      <4>. QED  BY <1>1, <1>3, <1>4, <3>2, <4>2, <4>3
    <3>3. CASE u # t
      <4>1. u \in Archive!Unsettled(d) /\ u \in Threads
        BY <1>3, <1>5, <2>2, <3>3
      <4>2. /\ archive_state[u] \notin {"active", "archived"}
            /\ \A e \in Batches \ {d} : u \notin Archive!Unsettled(e)
        BY <4>1 DEF Archive!IInv, Archive!Open
      <4>. QED  BY <1>1, <1>3, <3>3, <4>1, <4>2
    <3>. QED  BY <3>1, <3>2, <3>3
  <2>. QED  BY <2>1, <2>2 DEF Archive!Open
<1>7. Archive!Asked'
  <2>1. ASSUME NEW d \in Batches, NEW u \in Threads, <<d, u>> \in archive_asked'
        PROVE  u \in Archive!Unsettled(d)' /\ (u \in archive_away') = ~Archive!Archives(d)
    <3>1. u \in Archive!Unsettled(d) /\ (u \in archive_away) = ~Archive!Archives(d)
      BY <2>1 DEF Archive!IInv, Archive!Asked
    <3>2. <<d, u>> = <<b, t>> => x \in OpenOutcome
      BY <2>1
    <3>. QED  BY <1>3, <1>4, <3>1, <3>2
  <2>. QED  BY <2>1 DEF Archive!Asked, Archive!Archives
<1>8. Archive!Stepping'
  BY DEF Archive!Stepping
<1>9. Archive!Excluded'
  BY DEF Archive!IInv, Archive!Excluded, Archive!ArchiveAssumption
<1>10. Archive!ArchiveTrue'
  <2>1. Archive!StatesTrue'
    BY <1>1 DEF Archive!IInv, Archive!ArchiveTrue, Archive!StatesTrue
  <2>2. Archive!NoTurnAway'
    BY <1>1, <2>1 DEF Archive!IInv, Archive!ArchiveTrue, Archive!StatesTrue, Archive!NoTurnAway
  <2>. QED  BY <2>1, <2>2 DEF Archive!ArchiveTrue
<1>. QED  BY <1>2, <1>6, <1>7, <1>8, <1>9, <1>10 DEF Archive!IInv

\* The end of a step gives the batch a status that is not the initial one.
LEMMA BatchFinishes ==
    ASSUME NEW b \in Batches, Archive!Finishes(b)
    PROVE  /\ archive_step' = Archive!NoStep /\ archive_claims' = archive_claims \ {b}
           /\ \E y \in BatchStates : archive_batch' = [archive_batch EXCEPT ![b] = y]
BY DEF Archive!Finishes, BatchStates

\* What is the same for every step under way: nothing else acts on its thread.
LEMMA StepHolds ==
    ASSUME Archive!IInv, Archive!ArchiveAssumption, archive_step # Archive!NoStep
    PROVE  /\ Archive!B \in Batches /\ Archive!T \in Threads /\ archive_step.again \in BOOLEAN
           /\ Archive!B \in archive_claims /\ archive_agent[Archive!T] # "running"
           /\ \A d \in Batches \ {Archive!B} : Archive!T \notin Archive!Unsettled(d)
           /\ archive_batch[Archive!B] # "none"
PROOF
<1>1. Archive!B \in Batches /\ Archive!T \in Threads /\ archive_step.again \in BOOLEAN
  BY DEF Archive!IInv, Archive!TypeOK, Archive!B, Archive!T
<1>2. Archive!B \in archive_claims
  BY DEF Archive!IInv, Archive!Stepping
<1>3. Archive!T \notin archive_claims
  BY <1>1, <1>2 DEF Archive!IInv, Archive!Excluded
<1>4. archive_agent[Archive!T] # "running"
  BY <1>1, <1>3 DEF Archive!IInv, Archive!Excluded
<1>5. archive_entry[Archive!B][Archive!T] # "none"
  BY <1>1 DEF Archive!IInv, Archive!Stepping, Archive!Unsettled
<1>6. archive_batch[Archive!B] # "none"
  BY <1>1, <1>5 DEF Archive!IInv, Archive!Open
<1>7. Archive!T \in Archive!Unsettled(Archive!B) \/ archive_state[Archive!T] \in {"active", "archived"}
  BY <1>1 DEF Archive!IInv, Archive!Stepping
<1>8. \A d \in Batches \ {Archive!B} : Archive!T \notin Archive!Unsettled(d)
  BY <1>1, <1>7 DEF Archive!IInv, Archive!Open
<1>. QED  BY <1>1, <1>2, <1>4, <1>6, <1>8

\* A step that ends without a word to the provider leaves the state of the thread.
LEMMA StepRefuses ==
    ASSUME Archive!IInv, Archive!ArchiveAssumption, archive_step # Archive!NoStep, Archive!At("inspecting"),
           NEW x \in {"skipped", "reconciliation_required"},
           x = IF archive_step.again THEN "reconciliation_required" ELSE "skipped",
           archive_state' = archive_state, Archive!SetEntry(Archive!B, Archive!T, x),
           Archive!Finishes(Archive!B), archive_flagged' \subseteq Threads,
           UNCHANGED <<archive_away, archive_agent, archive_asked, archive_guarded, archive_open, archive_foreign>>
    PROVE  Archive!IInv'
PROOF
<1>. DEFINE b == Archive!B
            t == Archive!T
            s == archive_state[t]
<1>1. /\ b \in Batches /\ t \in Threads /\ archive_agent[t] # "running"
      /\ \A d \in Batches \ {b} : t \notin Archive!Unsettled(d)
  BY StepHolds
<1>2. PICK y \in BatchStates :
         /\ archive_batch' = [archive_batch EXCEPT ![b] = y]
         /\ archive_step' = Archive!NoStep /\ archive_claims' = archive_claims \ {b}
  BY <1>1, BatchFinishes
<1>3. s \in ThreadStates /\ archive_state' = [archive_state EXCEPT ![t] = s]
  BY <1>1 DEF Archive!IInv, Archive!TypeOK, ThreadStates
<1>4. archive_entry' = [archive_entry EXCEPT ![b][t] = x]
  BY DEF Archive!SetEntry
<1>5. x \in Settled \union OpenOutcome /\ (x \in OpenOutcome => t \in Archive!Unsettled(b))
  BY DEF Archive!IInv, Archive!Stepping, Settled, OpenOutcome
<1>6. x \in OpenOutcome => s \notin {"active", "archived"}
  BY <1>1, <1>5 DEF Archive!IInv, Archive!Open
<1>7. x \in Settled => <<b, t>> \notin archive_asked
  BY <1>1 DEF Archive!IInv, Archive!Stepping, Archive!Asked, Archive!Unsettled, Settled
<1>8. (s = "archived" => t \in archive_away) /\ (s = "active" => t \notin archive_away)
  BY <1>1 DEF Archive!IInv, Archive!ArchiveTrue, Archive!StatesTrue
<1>. HIDE DEF b, t, s
<1>. QED  BY <1>1, <1>2, <1>3, <1>4, <1>5, <1>6, <1>7, <1>8, EntryEnds

\* A step that ends in success finds the thread where it should be, with no request under way.
LEMMA StepSucceeds ==
    ASSUME Archive!IInv, Archive!ArchiveAssumption, archive_step # Archive!NoStep,
           (Archive!T \in archive_away) = Archive!Archives(Archive!B), Archive!MarkSucceeded,
           UNCHANGED <<archive_flagged, archive_away, archive_agent, archive_asked, archive_guarded,
                       archive_open, archive_foreign>>
    PROVE  Archive!IInv'
PROOF
<1>. DEFINE b == Archive!B
            t == Archive!T
            s == Archive!Target(b)
<1>1. /\ b \in Batches /\ t \in Threads /\ archive_agent[t] # "running"
      /\ \A d \in Batches \ {b} : t \notin Archive!Unsettled(d)
  BY StepHolds
<1>2. PICK y \in BatchStates :
         /\ archive_batch' = [archive_batch EXCEPT ![b] = y]
         /\ archive_step' = Archive!NoStep /\ archive_claims' = archive_claims \ {b}
  BY <1>1, BatchFinishes DEF Archive!MarkSucceeded
<1>3. s \in ThreadStates /\ archive_state' = [archive_state EXCEPT ![t] = s]
  BY DEF Archive!MarkSucceeded, Archive!SetState, Archive!Target, ThreadStates
<1>4. archive_entry' = [archive_entry EXCEPT ![b][t] = "succeeded"]
  BY DEF Archive!MarkSucceeded, Archive!SetEntry
<1>5. <<b, t>> \notin archive_asked
  BY <1>1 DEF Archive!IInv, Archive!Asked
<1>6. (s = "archived" => t \in archive_away) /\ (s = "active" => t \notin archive_away)
  BY DEF Archive!Target
<1>7. archive_flagged' \subseteq Threads
  BY DEF Archive!IInv, Archive!TypeOK
<1>8. "succeeded" \in Settled /\ "succeeded" \notin OpenOutcome
  BY DEF Settled, OpenOutcome
<1>. HIDE DEF b, t, s
<1>. QED  BY <1>1, <1>2, <1>3, <1>4, <1>5, <1>6, <1>7, <1>8, EntryEnds

\* A request of unknown outcome leaves the thread in a state that no other batch touches.
LEMMA StepLeavesUnknown ==
    ASSUME Archive!IInv, Archive!ArchiveAssumption, archive_step # Archive!NoStep, Archive!Unknown,
           archive_flagged' \subseteq Threads,
           UNCHANGED <<archive_away, archive_agent, archive_asked, archive_guarded, archive_open, archive_foreign>>
    PROVE  Archive!IInv'
PROOF
<1>. DEFINE b == Archive!B
            t == Archive!T
<1>1. /\ b \in Batches /\ t \in Threads /\ archive_agent[t] # "running"
      /\ \A d \in Batches \ {b} : t \notin Archive!Unsettled(d)
  BY StepHolds
<1>2. PICK y \in BatchStates :
         /\ archive_batch' = [archive_batch EXCEPT ![b] = y]
         /\ archive_step' = Archive!NoStep /\ archive_claims' = archive_claims \ {b}
  BY <1>1, BatchFinishes DEF Archive!Unknown
<1>3. archive_state' = [archive_state EXCEPT ![t] = "unknown"]
  BY DEF Archive!Unknown, Archive!SetState
<1>4. archive_entry' = [archive_entry EXCEPT ![b][t] = "reconciliation_required"]
  BY DEF Archive!Unknown, Archive!SetEntry
<1>5. "unknown" \in ThreadStates /\ "reconciliation_required" \in OpenOutcome
      /\ "reconciliation_required" \notin Settled
  BY DEF ThreadStates, OpenOutcome, Settled
<1>. HIDE DEF b, t
<1>. QED  BY <1>1, <1>2, <1>3, <1>4, <1>5, EntryEnds

\* The provider is asked: the entry is the only one whose outcome is open.
LEMMA StepAsks ==
    ASSUME Archive!IInv, Archive!ArchiveAssumption, Archive!At("inspecting"), ~archive_step.again,
           NEW b \in Batches, NEW t \in Threads, b = Archive!B, t = Archive!T,
           archive_step # Archive!NoStep, Archive!Act,
           UNCHANGED <<archive_flagged, archive_away, archive_agent, archive_guarded, archive_open, archive_foreign>>
    PROVE  Archive!IInv'
PROOF
<1>. DEFINE s == IF Archive!Archives(b) THEN "archiving" ELSE "restoring"
<1>1. /\ b \in Batches /\ t \in Threads /\ archive_agent[t] # "running" /\ b \in archive_claims
      /\ \A d \in Batches \ {b} : t \notin Archive!Unsettled(d)
      /\ archive_batch[b] # "none" /\ archive_step.again \in BOOLEAN
  BY StepHolds
<1>2. /\ archive_state' = [archive_state EXCEPT ![t] = s]
      /\ archive_entry' = [archive_entry EXCEPT ![b][t] = "executing"]
      /\ archive_asked' = archive_asked \union {<<b, t>>}
      /\ archive_step' = [archive_step EXCEPT !.at = "asked"]
      /\ archive_claims' = archive_claims /\ archive_batch' = archive_batch
  BY DEF Archive!Act, Archive!SetState, Archive!SetEntry, Archive!Goes
<1>3. s \in ThreadStates \ {"active", "archived"} /\ "executing" \in OpenOutcome
  BY DEF ThreadStates, OpenOutcome
<1>4. (t \in archive_away) = ~Archive!Archives(b)
  BY <1>1 DEF Archive!IInv, Archive!Stepping, Archive!ArchiveTrue, Archive!StatesTrue
<1>5. archive_step' = [batch |-> b, thread |-> t, at |-> "asked", again |-> archive_step.again]
  BY <1>2 DEF Archive!IInv, Archive!TypeOK, Archive!B, Archive!T
<1>. HIDE DEF s
<1>6. /\ archive_state' \in [Threads -> ThreadStates]
      /\ archive_state'[t] = s /\ \A u \in Threads \ {t} : archive_state'[u] = archive_state[u]
      /\ archive_entry' \in [Batches -> [Threads -> {"none"} \union Settled \union OpenOutcome]]
      /\ archive_entry'[b][t] = "executing"
      /\ \A d \in Batches, u \in Threads : <<d, u>> # <<b, t>> => archive_entry'[d][u] = archive_entry[d][u]
  <2>1. s \in ThreadStates /\ "executing" \in Settled \union OpenOutcome
    BY <1>3
  <2>2. /\ archive_state' = [archive_state EXCEPT ![t] = s]
        /\ archive_entry' = [archive_entry EXCEPT ![b][t] = "executing"]
    BY <1>2
  <2>. QED  BY <2>1, <2>2, EntryUpdate, ZenonT(30)
<1>7. Archive!TypeOK'
  <2>1. archive_step' \in [batch : Batches, thread : Threads,
                           at : {"inspecting", "asked", "verifying"}, again : BOOLEAN]
    BY <1>1, <1>5
  <2>2. archive_asked' \subseteq Batches \X Threads
    BY <1>1, <1>2 DEF Archive!IInv, Archive!TypeOK
  <2>3. archive_claims' \subseteq Threads \union Batches /\ archive_batch' = archive_batch
    BY <1>2 DEF Archive!IInv, Archive!TypeOK
  <2>. QED
    BY <1>6, <2>1, <2>2, <2>3 DEF Archive!IInv, Archive!TypeOK, Settled, OpenOutcome, ThreadStates
<1>8. /\ t \in Archive!Unsettled(b)'
      /\ \A d \in Batches, u \in Threads : <<d, u>> # <<b, t>> =>
            (u \in Archive!Unsettled(d)' <=> u \in Archive!Unsettled(d))
  <2>1. t \in Archive!Unsettled(b)'
    BY <1>1, <1>6 DEF Archive!Unsettled
  <2>2. \A d \in Batches, u \in Threads : <<d, u>> # <<b, t>> =>
           (u \in Archive!Unsettled(d)' <=> u \in Archive!Unsettled(d))
    BY <1>6 DEF Archive!Unsettled
  <2>. QED  BY <2>1, <2>2
<1>9. \A d \in Batches : Archive!Unsettled(d) \subseteq Threads /\ Archive!Unsettled(d)' \subseteq Threads
  BY DEF Archive!Unsettled
<1>10. Archive!Open'
  <2>1. ASSUME NEW d \in Batches, archive_batch'[d] = "none", NEW u \in Threads
        PROVE  archive_entry'[d][u] = "none"
    BY <1>1, <1>2, <1>6, <2>1 DEF Archive!IInv, Archive!Open
  <2>2. ASSUME NEW d \in Batches, NEW u \in Archive!Unsettled(d)'
        PROVE  /\ archive_state'[u] \notin {"active", "archived"}
               /\ \A e \in Batches \ {d} : u \notin Archive!Unsettled(e)'
    <3>1. CASE u = t
      <4>1. d = b
        BY <1>1, <1>8, <2>2, <3>1
      <4>. QED  BY <1>1, <1>3, <1>6, <1>8, <3>1, <4>1
    <3>2. CASE u # t
      <4>1. u \in Archive!Unsettled(d) /\ u \in Threads
        BY <1>8, <1>9, <2>2, <3>2
      <4>2. /\ archive_state[u] \notin {"active", "archived"}
            /\ \A e \in Batches \ {d} : u \notin Archive!Unsettled(e)
        BY <4>1 DEF Archive!IInv, Archive!Open
      <4>. QED  BY <1>6, <1>8, <3>2, <4>1, <4>2
    <3>. QED  BY <3>1, <3>2
  <2>. QED  BY <2>1, <2>2 DEF Archive!Open
<1>11. Archive!Asked'
  <2>1. ASSUME NEW d \in Batches, NEW u \in Threads, <<d, u>> \in archive_asked'
        PROVE  u \in Archive!Unsettled(d)' /\ (u \in archive_away) = ~Archive!Archives(d)
    <3>1. CASE <<d, u>> = <<b, t>>
      <4>1. d = b /\ u = t
        BY <3>1
      <4>. QED  BY <1>4, <1>8, <4>1
    <3>2. CASE <<d, u>> # <<b, t>>
      <4>1. u \in Archive!Unsettled(d) /\ (u \in archive_away) = ~Archive!Archives(d)
        BY <1>2, <2>1, <3>2 DEF Archive!IInv, Archive!Asked
      <4>. QED  BY <1>8, <3>2, <4>1
    <3>. QED  BY <3>1, <3>2
  <2>. QED  BY <2>1 DEF Archive!Asked, Archive!Archives
<1>12. Archive!Stepping'
  <2>1. archive_step'.batch = b /\ archive_step'.thread = t /\ archive_step'.at = "asked"
    BY <1>5
  <2>2. b \in archive_claims' /\ t \in Archive!Unsettled(b)'
    BY <1>1, <1>2, <1>8
  <2>. QED
    BY <2>1, <2>2 DEF Archive!Stepping, Archive!At, Archive!B, Archive!T, Archive!Unsettled
<1>13. Archive!Excluded'
  BY <1>2 DEF Archive!IInv, Archive!Excluded
<1>14. Archive!StatesTrue'
  BY <1>3, <1>6 DEF Archive!IInv, Archive!ArchiveTrue, Archive!StatesTrue
<1>15. Archive!NoTurnAway'
  BY <1>1, <1>6 DEF Archive!IInv, Archive!ArchiveTrue, Archive!NoTurnAway
<1>. QED  BY <1>7, <1>10, <1>11, <1>12, <1>13, <1>14, <1>15 DEF Archive!IInv, Archive!ArchiveTrue

\* Each await of a step ends in one of these.
LEMMA StepAwaits ==
    ASSUME Archive!IInv, Archive!ArchiveAssumption,
           \/ Archive!InspectFails \/ Archive!Inspected \/ Archive!Acknowledged
           \/ Archive!AnswerLost \/ Archive!Verified \/ Archive!VerifyFails
    PROVE  Archive!IInv'
PROOF
<1>1. archive_step # Archive!NoStep
  BY DEF Archive!InspectFails, Archive!Inspected, Archive!Acknowledged, Archive!AnswerLost,
         Archive!Verified, Archive!VerifyFails, Archive!At, Archive!NoStep
<1>2. /\ Archive!B \in Batches /\ Archive!T \in Threads /\ archive_step.again \in BOOLEAN
      /\ archive_flagged \subseteq Threads
  BY <1>1, StepHolds DEF Archive!IInv, Archive!TypeOK
<1>3. CASE Archive!InspectFails
  <2>1. /\ Archive!At("inspecting") /\ archive_state' = archive_state
        /\ Archive!SetEntry(Archive!B, Archive!T, Archive!Refused(archive_step.again))
        /\ Archive!Finishes(Archive!B) /\ archive_flagged' \subseteq Threads
        /\ UNCHANGED <<archive_away, archive_agent, archive_asked, archive_guarded, archive_open, archive_foreign>>
    BY <1>2, <1>3 DEF Archive!InspectFails, Archive!remote
  <2>. QED  BY <1>1, <1>2, <2>1, StepRefuses DEF Archive!Refused
<1>4. CASE Archive!Inspected
  <2>1. /\ Archive!At("inspecting")
        /\ UNCHANGED <<archive_flagged, archive_away, archive_agent, archive_guarded, archive_open, archive_foreign>>
        /\ \/ /\ (Archive!T \in archive_away) = Archive!Archives(Archive!B) /\ Archive!MarkSucceeded
              /\ archive_asked' = archive_asked
           \/ /\ archive_step.again
              /\ Archive!SetEntry(Archive!B, Archive!T, "reconciliation_required")
              /\ Archive!Finishes(Archive!B) /\ UNCHANGED <<archive_state, archive_asked>>
           \/ /\ ~archive_step.again
              /\ Archive!SetEntry(Archive!B, Archive!T, "skipped")
              /\ Archive!Finishes(Archive!B) /\ UNCHANGED <<archive_state, archive_asked>>
           \/ ~archive_step.again /\ Archive!Act
    BY <1>4 DEF Archive!Inspected, Archive!remote, Archive!local
  <2>. QED  BY <1>1, <1>2, <2>1, StepRefuses, StepSucceeds, StepAsks
<1>5. CASE Archive!Acknowledged
  <2>1. /\ archive_step' = [batch |-> Archive!B, thread |-> Archive!T, at |-> "verifying",
                            again |-> archive_step.again]
        /\ Archive!At("asked") /\ <<Archive!B, Archive!T>> \notin archive_asked
    BY <1>1, <1>5 DEF Archive!Acknowledged, Archive!Goes, Archive!B, Archive!T, Archive!IInv,
       Archive!TypeOK
  <2>2. UNCHANGED <<archive_state, archive_flagged, archive_guarded, archive_open, archive_agent,
                    archive_claims, archive_batch, archive_entry, archive_away, archive_foreign, archive_asked>>
    BY <1>5 DEF Archive!Acknowledged, Archive!local, Archive!plans, Archive!remote
  <2>3. Archive!TypeOK' /\ Archive!Open' /\ Archive!Asked' /\ Archive!Excluded' /\ Archive!ArchiveTrue'
    BY <1>2, <2>1, <2>2 DEF Archive!IInv, Archive!TypeOK, Archive!Open, Archive!Asked,
       Archive!Archives,
       Archive!Unsettled, Archive!Excluded, Archive!ArchiveTrue, Archive!StatesTrue, Archive!NoTurnAway
  <2>4. Archive!B \in archive_claims /\ Archive!T \in Archive!Unsettled(Archive!B)
    BY <1>1, <2>1 DEF Archive!IInv, Archive!Stepping, Archive!At
  <2>5. Archive!Stepping'
    BY <1>2, <2>1, <2>2, <2>4 DEF Archive!Stepping, Archive!At, Archive!B, Archive!T,
       Archive!Unsettled
  <2>. QED  BY <2>3, <2>5 DEF Archive!IInv
<1>6. CASE Archive!AnswerLost
  BY <1>1, <1>2, <1>6, StepLeavesUnknown DEF Archive!AnswerLost, Archive!local, Archive!remote
<1>7. CASE Archive!Verified
  BY <1>1, <1>7, StepSucceeds DEF Archive!Verified, Archive!local, Archive!remote
<1>8. CASE Archive!VerifyFails
  BY <1>1, <1>2, <1>8, StepLeavesUnknown DEF Archive!VerifyFails, Archive!remote
<1>. QED  BY <1>3, <1>4, <1>5, <1>6, <1>7, <1>8

\* A plan is made once for a batch, before it has an entry, and execute settles, or begins,
\* one entry that is due.
LEMMA BatchStep ==
    ASSUME Archive!IInv, Archive!ArchiveAssumption, NEW b \in Batches, Archive!Plan(b) \/ Archive!Execute(b)
    PROVE  Archive!IInv'
PROOF
<1>1. UNCHANGED <<archive_state, archive_guarded, archive_open, archive_agent, archive_away,
                  archive_turns, archive_foreign, archive_asked>>
  BY DEF Archive!Plan, Archive!Execute, Archive!local, Archive!remote
<1>2. CASE Archive!Plan(b)
  <2>1. /\ archive_batch[b] = "none" /\ archive_batch' = [archive_batch EXCEPT ![b] = "planned"]
        /\ archive_step' = archive_step /\ archive_claims' = archive_claims
        /\ \E new \in [Threads -> {"ready", "skipped"}] : archive_entry' = [archive_entry EXCEPT ![b] = new]
        /\ archive_flagged' \subseteq Threads
    BY <1>2 DEF Archive!Plan, Archive!IInv, Archive!TypeOK
  <2>2. PICK new \in [Threads -> {"ready", "skipped"}] : archive_entry' = [archive_entry EXCEPT ![b] = new]
    BY <2>1
  <2>3. Archive!TypeOK'
    BY <1>1, <2>1, <2>2 DEF Archive!IInv, Archive!TypeOK
  <2>4. \A t \in Threads : archive_entry[b][t] = "none"
    BY <2>1 DEF Archive!IInv, Archive!Open
  <2>5. \A d \in Batches, t \in Threads : t \in Archive!Unsettled(d)' <=> t \in Archive!Unsettled(d)
    BY <2>2, <2>4 DEF Archive!IInv, Archive!TypeOK, Archive!Unsettled
  <2>6. \A d \in Batches : Archive!Unsettled(d)' = Archive!Unsettled(d)
    BY <2>5 DEF Archive!Unsettled
  <2>7. Archive!Open'
    BY <1>1, <2>1, <2>2, <2>6 DEF Archive!IInv, Archive!TypeOK, Archive!Open
  <2>8. Archive!Asked' /\ Archive!Excluded' /\ Archive!ArchiveTrue'
    BY <1>1, <2>1, <2>6 DEF Archive!IInv, Archive!Asked, Archive!Archives, Archive!Excluded,
       Archive!ArchiveTrue, Archive!StatesTrue, Archive!NoTurnAway
  <2>9. Archive!Stepping'
    <3>1. CASE archive_step = Archive!NoStep
      BY <2>1, <3>1 DEF Archive!Stepping, Archive!NoStep
    <3>2. CASE archive_step # Archive!NoStep
      <4>1. /\ Archive!B \in Batches /\ Archive!T \in Threads /\ Archive!B # b
            /\ archive_step.again \in BOOLEAN
        BY <2>1, <3>2, StepHolds
      <4>2. archive_entry'[Archive!B] = archive_entry[Archive!B]
        BY <2>2, <4>1 DEF Archive!IInv, Archive!TypeOK
      <4>3. Archive!Unsettled(Archive!B)' = Archive!Unsettled(Archive!B)
        BY <2>1, <4>2 DEF Archive!Unsettled, Archive!B
      <4>. QED
        BY <1>1, <2>1, <3>2, <4>1, <4>2, <4>3 DEF Archive!IInv, Archive!Stepping, Archive!At,
           Archive!B,
           Archive!T, Archive!Archives
    <3>. QED  BY <3>1, <3>2
  <2>. QED  BY <2>3, <2>7, <2>8, <2>9 DEF Archive!IInv
<1>3. CASE Archive!Execute(b)
  <2>1. /\ archive_claims = {} /\ archive_batch[b] # "none" /\ archive_flagged' = archive_flagged
        /\ \/ archive_entry' = archive_entry /\ Archive!Finishes(b)
           \/ \E t \in Threads, again \in BOOLEAN :
                /\ again = (archive_entry[b][t] # "ready")
                /\ again => t \in Archive!Unsettled(b)
                /\ Archive!Eligible(b, t, again)
                /\ archive_step' = [batch |-> b, thread |-> t, at |-> "inspecting", again |-> again]
                /\ archive_claims' = archive_claims \union {b}
                /\ archive_batch' = [archive_batch EXCEPT ![b] = "executing"]
                /\ archive_entry' = archive_entry
           \/ \E t \in Threads, again \in BOOLEAN :
                /\ again = (archive_entry[b][t] # "ready")
                /\ again => t \in Archive!Unsettled(b)
                /\ Archive!SetEntry(b, t, Archive!Refused(again)) /\ Archive!Finishes(b)
    BY <1>3 DEF Archive!Execute, Archive!Ready, Archive!Unsettled, Archive!local
  <2>2. CASE archive_entry' = archive_entry /\ Archive!Finishes(b)
    <3>1. PICK y \in BatchStates :
             /\ archive_batch' = [archive_batch EXCEPT ![b] = y]
             /\ archive_step' = Archive!NoStep /\ archive_claims' = archive_claims \ {b}
      BY <2>2, BatchFinishes
    <3>2. Archive!TypeOK' /\ Archive!Stepping'
      BY <1>1, <2>1, <2>2, <3>1 DEF Archive!IInv, Archive!TypeOK, Archive!Stepping, BatchStates
    <3>3. Archive!Open'
      BY <1>1, <2>2, <3>1 DEF Archive!IInv, Archive!TypeOK, Archive!Open, Archive!Unsettled,
         BatchStates
    <3>4. Archive!Asked' /\ Archive!Excluded' /\ Archive!ArchiveTrue'
      BY <1>1, <2>1, <2>2, <3>1 DEF Archive!IInv, Archive!Asked, Archive!Archives,
         Archive!Unsettled,
         Archive!Excluded, Archive!ArchiveTrue, Archive!StatesTrue, Archive!NoTurnAway
    <3>. QED  BY <3>2, <3>3, <3>4 DEF Archive!IInv
  <2>3. ASSUME NEW t \in Threads, NEW again \in BOOLEAN, again = (archive_entry[b][t] # "ready"),
               again => t \in Archive!Unsettled(b), Archive!Eligible(b, t, again),
               archive_step' = [batch |-> b, thread |-> t, at |-> "inspecting", again |-> again],
               archive_claims' = archive_claims \union {b},
               archive_batch' = [archive_batch EXCEPT ![b] = "executing"],
               archive_entry' = archive_entry
        PROVE  Archive!IInv'
    <3>1. archive_step' \in [batch : Batches, thread : Threads,
                             at : {"inspecting", "asked", "verifying"}, again : BOOLEAN]
      BY <2>3
    <3>2. Archive!TypeOK'
      BY <1>1, <2>1, <2>3, <3>1 DEF Archive!IInv, Archive!TypeOK
    <3>3. Archive!Open'
      BY <1>1, <2>3 DEF Archive!IInv, Archive!TypeOK, Archive!Open, Archive!Unsettled
    <3>4. Archive!Asked' /\ Archive!ArchiveTrue'
      BY <1>1, <2>3 DEF Archive!IInv, Archive!Asked, Archive!Archives, Archive!Unsettled,
         Archive!ArchiveTrue, Archive!StatesTrue, Archive!NoTurnAway
    <3>5. Archive!Excluded'
      BY <1>1, <2>1, <2>3 DEF Archive!IInv, Archive!Excluded, Archive!ArchiveAssumption
    <3>6. Archive!Stepping'
      <4>1. /\ b \in archive_claims' /\ (again => t \in Archive!Unsettled(b)')
            /\ ~again => /\ archive_entry'[b][t] = "ready"
                         /\ archive_state'[t] = IF Archive!Archives(b) THEN "active" ELSE "archived"
        BY <1>1, <2>3 DEF Archive!Unsettled, Archive!Eligible
      <4>2. /\ archive_step'.batch = b /\ archive_step'.thread = t
            /\ archive_step'.at = "inspecting" /\ archive_step'.again = again
        BY <2>3
      <4>. QED
        BY <4>1, <4>2 DEF Archive!Stepping, Archive!At, Archive!B, Archive!T, Archive!Unsettled,
           Archive!Archives
    <3>. QED  BY <3>2, <3>3, <3>4, <3>5, <3>6 DEF Archive!IInv
  <2>4. ASSUME NEW t \in Threads, NEW again \in BOOLEAN, again = (archive_entry[b][t] # "ready"),
               again => t \in Archive!Unsettled(b),
               Archive!SetEntry(b, t, Archive!Refused(again)), Archive!Finishes(b)
        PROVE  Archive!IInv'
    <3>1. PICK y \in BatchStates :
             /\ archive_batch' = [archive_batch EXCEPT ![b] = y]
             /\ archive_step' = Archive!NoStep /\ archive_claims' = archive_claims \ {b}
      BY <2>4, BatchFinishes
    <3>2. PICK s \in ThreadStates : s = archive_state[t]
      BY DEF Archive!IInv, Archive!TypeOK, ThreadStates
    <3>3. archive_state' = [archive_state EXCEPT ![t] = s]
      BY <1>1, <3>2 DEF Archive!IInv, Archive!TypeOK
    <3>4. PICK x \in Settled \union OpenOutcome :
             /\ archive_entry' = [archive_entry EXCEPT ![b][t] = x]
             /\ x \in OpenOutcome => t \in Archive!Unsettled(b)
             /\ x \in Settled => t \notin Archive!Unsettled(b)
      <4>1. archive_entry' = [archive_entry EXCEPT ![b][t] = Archive!Refused(again)]
        BY <2>4 DEF Archive!SetEntry
      <4>2. CASE again
        <5>1. Archive!Refused(again) = "reconciliation_required" /\ t \in Archive!Unsettled(b)
          BY <2>4, <4>2 DEF Archive!Refused
        <5>. QED  BY <4>1, <5>1 DEF Settled, OpenOutcome
      <4>3. CASE ~again
        <5>1. Archive!Refused(again) = "skipped" /\ t \notin Archive!Unsettled(b)
          BY <2>4, <4>3 DEF Archive!Refused, Archive!Unsettled
        <5>. QED  BY <4>1, <5>1 DEF Settled, OpenOutcome
      <4>. QED  BY <4>2, <4>3
    <3>5. x \in OpenOutcome => s \notin {"active", "archived"} /\ \A d \in Batches \ {b} : t \notin Archive!Unsettled(d)
      BY <3>2, <3>4 DEF Archive!IInv, Archive!Open
    <3>6. s \in {"active", "archived"} => \A d \in Batches \ {b} : t \notin Archive!Unsettled(d)
      BY <3>2 DEF Archive!IInv, Archive!Open
    <3>7. x \in Settled => <<b, t>> \notin archive_asked
      BY <3>4 DEF Archive!IInv, Archive!Asked
    <3>8. /\ s = "archived" => t \in archive_away
          /\ s = "active" => t \notin archive_away
          /\ archive_agent[t] = "running" => s = "active"
      BY <3>2 DEF Archive!IInv, Archive!ArchiveTrue, Archive!StatesTrue, Archive!NoTurnAway
    <3>9. archive_flagged' \subseteq Threads
      BY <2>1 DEF Archive!IInv, Archive!TypeOK
    <3>. QED  BY <1>1, <3>1, <3>3, <3>4, <3>5, <3>6, <3>7, <3>8, <3>9, EntryEnds
  <2>. QED  BY <2>1, <2>2, <2>3, <2>4
<1>. QED  BY <1>2, <1>3

\* A process that dies leaves its claim, and whoever removes it does so when no step is under way.
LEMMA StepIsLost ==
    ASSUME Archive!IInv, Archive!ArchiveAssumption, Archive!Crash \/ Archive!ReconcileClaim
    PROVE  Archive!IInv'
PROOF
<1>1. /\ UNCHANGED <<archive_state, archive_flagged, archive_guarded, archive_open, archive_agent,
                    archive_batch, archive_entry, archive_away, archive_foreign, archive_asked>>
      /\ archive_step' = Archive!NoStep
      /\ archive_claims' = archive_claims \/ \E b \in Batches : archive_claims' = archive_claims \ {b}
  BY DEF Archive!Crash, Archive!ReconcileClaim, Archive!local, Archive!plans, Archive!remote
<1>2. Archive!TypeOK' /\ Archive!Stepping'
  BY <1>1 DEF Archive!IInv, Archive!TypeOK, Archive!Stepping
<1>3. Archive!Open' /\ Archive!Asked' /\ Archive!ArchiveTrue'
  BY <1>1 DEF Archive!IInv, Archive!Open, Archive!Asked, Archive!Archives, Archive!Unsettled,
     Archive!ArchiveTrue, Archive!StatesTrue, Archive!NoTurnAway
<1>4. Archive!Excluded'
  BY <1>1 DEF Archive!IInv, Archive!Excluded, Archive!ArchiveAssumption
<1>. QED  BY <1>2, <1>3, <1>4 DEF Archive!IInv

\* An agent takes its claim when no batch has one, and looks again before its turn.
LEMMA AgentStep ==
    ASSUME Archive!IInv, Archive!ArchiveAssumption, NEW t \in Threads,
           \/ Archive!BeginTurn(t) \/ Archive!QueueTurn(t) \/ Archive!AdmitTurn(t) \/ Archive!RunTurn(t)
           \/ Archive!EndTurn(t) \/ Archive!FinishRun(t) \/ Archive!Protect(t) \/ Archive!ForeignTurn(t)
    PROVE  Archive!IInv'
PROOF
<1>1. /\ UNCHANGED <<archive_state, archive_flagged, archive_batch, archive_entry, archive_step,
                    archive_away, archive_asked>>
      /\ archive_guarded' \subseteq archive_guarded \union {t}
      /\ archive_open' \subseteq archive_open \union {t}
      /\ archive_foreign' \subseteq archive_foreign \union {t}
  BY DEF Archive!BeginTurn, Archive!QueueTurn, Archive!AdmitTurn, Archive!RunTurn, Archive!InvokesProvider,
     Archive!EndsTurn, Archive!EndTurn,
     Archive!FinishRun,
         Archive!Protect, Archive!ForeignTurn, Archive!local, Archive!plans, Archive!remote
<1>2. \/ archive_agent' = archive_agent /\ archive_claims' = archive_claims
      \/ \E to \in {"begun", "queued"} :
            archive_agent' = [archive_agent EXCEPT ![t] = to] /\ archive_claims' = archive_claims
      \/ /\ archive_claims \cap Batches = {} /\ archive_claims' = archive_claims \union {t}
         /\ archive_agent' = [archive_agent EXCEPT ![t] = "admitted"]
      \/ /\ archive_agent[t] = "admitted" /\ archive_state[t] = "active"
         /\ archive_agent' = [archive_agent EXCEPT ![t] = "running"] /\ archive_claims' = archive_claims
      \/ archive_agent' = [archive_agent EXCEPT ![t] = "idle"] /\ archive_claims' = archive_claims \ {t}
  BY DEF Archive!BeginTurn, Archive!QueueTurn, Archive!AdmitTurn, Archive!RunTurn, Archive!InvokesProvider,
     Archive!EndsTurn, Archive!EndTurn,
     Archive!FinishRun,
         Archive!Protect, Archive!ForeignTurn, Archive!AgentGoes, Archive!EndsTurn, Archive!local
<1>3. /\ archive_agent' \in [Threads -> {"idle", "begun", "queued", "admitted", "running"}]
      /\ \A u \in Threads \ {t} : archive_agent'[u] = archive_agent[u]
      /\ archive_agent'[t] = "running" => archive_agent[t] = "running" \/ archive_state[t] = "active"
      /\ archive_agent'[t] \in {"admitted", "running"} => t \in archive_claims'
  BY <1>2 DEF Archive!IInv, Archive!TypeOK, Archive!Excluded
<1>4. /\ archive_claims' \subseteq archive_claims \union {t}
      /\ archive_claims \ {t} \subseteq archive_claims'
      /\ t \in archive_claims' \ archive_claims => archive_claims \cap Batches = {}
  BY <1>2
<1>5. Archive!TypeOK'
  BY <1>1, <1>3, <1>4 DEF Archive!IInv, Archive!TypeOK
<1>6. Archive!Open' /\ Archive!Asked' /\ Archive!StatesTrue'
  BY <1>1 DEF Archive!IInv, Archive!Open, Archive!Asked, Archive!Archives, Archive!Unsettled,
     Archive!ArchiveTrue, Archive!StatesTrue
<1>7. Archive!NoTurnAway'
  BY <1>1, <1>3, <1>6 DEF Archive!IInv, Archive!ArchiveTrue, Archive!StatesTrue,
     Archive!NoTurnAway
<1>8. Archive!Excluded'
  BY <1>3, <1>4 DEF Archive!IInv, Archive!Excluded, Archive!ArchiveAssumption
<1>9. Archive!Stepping'
  <2>1. archive_step # Archive!NoStep => Archive!B \in archive_claims'
    <3>1. archive_step # Archive!NoStep => Archive!B \in Batches /\ Archive!B \in archive_claims
      BY StepHolds
    <3>. QED  BY <1>4, <3>1 DEF Archive!ArchiveAssumption
  <2>. QED
    BY <1>1, <2>1 DEF Archive!IInv, Archive!Stepping, Archive!At, Archive!B, Archive!T,
       Archive!Unsettled,
       Archive!Archives, Archive!NoStep
<1>. QED  BY <1>5, <1>6, <1>7, <1>8, <1>9 DEF Archive!IInv, Archive!ArchiveTrue

\* A request takes effect on a thread whose state claims nothing.
LEMMA RequestTakesEffect ==
    ASSUME Archive!IInv, NEW b \in Batches, NEW t \in Threads, Archive!TakesEffect(b, t)
    PROVE  Archive!IInv'
PROOF
<1>1. /\ <<b, t>> \in archive_asked /\ archive_asked' = archive_asked \ {<<b, t>>}
      /\ archive_away' = IF Archive!Archives(b) THEN archive_away \union {t} ELSE archive_away \ {t}
      /\ UNCHANGED <<archive_state, archive_flagged, archive_guarded, archive_open, archive_agent,
                     archive_claims, archive_batch, archive_entry, archive_step, archive_foreign>>
  BY DEF Archive!TakesEffect, Archive!local, Archive!plans
<1>2. t \in Archive!Unsettled(b) /\ archive_state[t] \notin {"active", "archived"}
      /\ \A d \in Batches \ {b} : t \notin Archive!Unsettled(d)
  BY <1>1 DEF Archive!IInv, Archive!Asked, Archive!Open
<1>3. \A u \in Threads \ {t} : u \in archive_away' <=> u \in archive_away
  BY <1>1
<1>4. Archive!TypeOK'
  BY <1>1 DEF Archive!IInv, Archive!TypeOK
<1>5. Archive!Open' /\ Archive!Excluded'
  BY <1>1 DEF Archive!IInv, Archive!Open, Archive!Unsettled, Archive!Excluded
<1>6. Archive!Asked'
  <2>1. ASSUME NEW d \in Batches, NEW u \in Threads, <<d, u>> \in archive_asked'
        PROVE  u \in Archive!Unsettled(d) /\ (u \in archive_away') = ~Archive!Archives(d)
    <3>1. /\ <<d, u>> \in archive_asked /\ <<d, u>> # <<b, t>>
          /\ u \in Archive!Unsettled(d) /\ (u \in archive_away) = ~Archive!Archives(d)
      BY <1>1, <2>1 DEF Archive!IInv, Archive!Asked
    <3>2. u # t
      BY <1>2, <3>1
    <3>. QED  BY <1>3, <3>1, <3>2
  <2>. QED  BY <1>1, <2>1 DEF Archive!Asked, Archive!Archives, Archive!Unsettled
<1>7. Archive!Stepping'
  BY <1>1 DEF Archive!IInv, Archive!Stepping, Archive!At, Archive!B, Archive!T, Archive!Unsettled,
     Archive!Archives, Archive!NoStep
<1>8. Archive!StatesTrue'
  BY <1>1, <1>2, <1>3 DEF Archive!IInv, Archive!ArchiveTrue, Archive!StatesTrue
<1>9. Archive!NoTurnAway'
  BY <1>1, <1>2, <1>3 DEF Archive!IInv, Archive!ArchiveTrue, Archive!NoTurnAway
<1>. QED  BY <1>4, <1>5, <1>6, <1>7, <1>8, <1>9 DEF Archive!IInv, Archive!ArchiveTrue

\* For any threads and batches, whatever answer is lost and wherever the process dies, what
\* the ledger says of a thread is what the provider has, and no turn runs on a thread that
\* is being archived or is archived (project-archive.ts, local-agent-manager.ts).
THEOREM BatchesTell ==
    ASSUME Archive!ArchiveAssumption
    PROVE  Archive!Spec => [](Archive!TypeOK /\ Archive!ArchiveTrue)
PROOF
<1>1. Archive!Init => Archive!IInv
  <2>. SUFFICES ASSUME Archive!Init
                PROVE  Archive!IInv
    OBVIOUS
  <2>1. Archive!TypeOK
    BY DEF Archive!Init, Archive!TypeOK
  <2>2. Archive!Open /\ Archive!Asked /\ Archive!Stepping /\ Archive!Excluded
    BY DEF Archive!Init, Archive!Open, Archive!Unsettled, Archive!Asked, Archive!Stepping,
       Archive!Excluded
  <2>. QED
    BY <2>1, <2>2 DEF Archive!Init, Archive!IInv, Archive!ArchiveTrue, Archive!StatesTrue,
       Archive!NoTurnAway
<1>2. Archive!IInv /\ [Archive!Next]_(Archive!vars) => Archive!IInv'
  <2>. SUFFICES ASSUME Archive!IInv, [Archive!Next]_(Archive!vars)
                PROVE  Archive!IInv'
    OBVIOUS
  <2>1. CASE UNCHANGED Archive!vars
    BY <2>1 DEF Archive!vars, Archive!local, Archive!plans, Archive!remote, Archive!IInv,
       Archive!TypeOK,
       Archive!Open, Archive!Asked, Archive!Archives, Archive!Unsettled, Archive!Stepping, Archive!At,
       Archive!B, Archive!T, Archive!NoStep, Archive!Excluded, Archive!ArchiveTrue, Archive!StatesTrue,
       Archive!NoTurnAway
  <2>. QED
    BY <2>1, BatchStep, StepAwaits, StepIsLost, AgentStep, RequestTakesEffect DEF Archive!Next
<1>3. Archive!IInv => Archive!TypeOK /\ Archive!ArchiveTrue
  BY DEF Archive!IInv
<1>. QED  BY <1>1, <1>2, <1>3, PTL DEF Archive!Spec

-----------------------------------------------------------------------------
(* Downloads *)

LEMMA DownloadStep ==
    ASSUME Downloads!DownloadsAssumption, Downloads!IInv, [Downloads!Next]_(Downloads!vars)
    PROVE  Downloads!IInv'
PROOF
<1>0. Downloads!TypeOK /\ Downloads!Completed  BY DEF Downloads!IInv
<1>. USE <1>0 DEF Downloads!Goes, Downloads!Ended, Downloads!TypeOK
<1>1. Downloads!TypeOK'
  <2>1. ASSUME NEW c \in Downloaders,
               \/ Downloads!Open(c) \/ Downloads!Inspect(c) \/ Downloads!Create(c)
               \/ \E d \in Downloaders : Downloads!RemoveStale(c, d)
        PROVE  Downloads!TypeOK'
    BY <2>1 DEF Downloads!Open, Downloads!Inspect, Downloads!Create, Downloads!RemoveStale
  <2>2. ASSUME NEW c \in Downloaders, Downloads!Write(c)
        PROVE  Downloads!TypeOK'
    BY <2>2 DEF Downloads!Write, Downloads!DownloadsAssumption
  <2>3. ASSUME NEW c \in Downloaders,
               Downloads!Sync(c) \/ Downloads!Break(c) \/ Downloads!Recheck(c) \/ Downloads!Publish(c)
        PROVE  Downloads!TypeOK'
    BY <2>3 DEF Downloads!Sync, Downloads!Break, Downloads!Recheck, Downloads!Publish
  <2>4. ASSUME NEW c \in Downloaders,
               Downloads!Verify(c) \/ Downloads!Finish(c) \/ Downloads!Crash(c)
        PROVE  Downloads!TypeOK'
    BY <2>4 DEF Downloads!Verify, Downloads!Finish, Downloads!Crash
  <2>5. CASE Downloads!Age \/ Downloads!Edit \/ UNCHANGED Downloads!vars
    BY <2>5 DEF Downloads!Age, Downloads!Edit, Downloads!vars
  <2>. QED  BY <2>1, <2>2, <2>3, <2>4, <2>5 DEF Downloads!Next
<1>2. Downloads!Completed'
  <2>. USE DEF Downloads!Completed, Downloads!Complete
  <2>1. ASSUME NEW c \in Downloaders,
               \/ Downloads!Open(c) \/ Downloads!Inspect(c) \/ Downloads!Create(c)
               \/ \E d \in Downloaders : Downloads!RemoveStale(c, d)
        PROVE  Downloads!Completed'
    BY <2>1 DEF Downloads!Open, Downloads!Inspect, Downloads!Create, Downloads!RemoveStale
  <2>2. ASSUME NEW c \in Downloaders, Downloads!Write(c)
        PROVE  Downloads!Completed'
    BY <2>2 DEF Downloads!Write
  <2>3. ASSUME NEW c \in Downloaders,
               Downloads!Sync(c) \/ Downloads!Break(c) \/ Downloads!Recheck(c)
        PROVE  Downloads!Completed'
    BY <2>3 DEF Downloads!Sync, Downloads!Break, Downloads!Recheck, Downloads!DownloadsAssumption
  <2>4. ASSUME NEW c \in Downloaders, Downloads!Publish(c)
        PROVE  Downloads!Completed'
    BY <2>4 DEF Downloads!Publish, Downloads!DownloadsAssumption
  <2>5. ASSUME NEW c \in Downloaders,
               Downloads!Verify(c) \/ Downloads!Finish(c) \/ Downloads!Crash(c)
        PROVE  Downloads!Completed'
    BY <2>5 DEF Downloads!Verify, Downloads!Finish, Downloads!Crash
  <2>6. CASE Downloads!Age \/ Downloads!Edit \/ UNCHANGED Downloads!vars
    BY <2>6 DEF Downloads!Age, Downloads!Edit, Downloads!vars, Downloads!DownloadsAssumption
  <2>. QED  BY <2>1, <2>2, <2>3, <2>4, <2>5, <2>6 DEF Downloads!Next
<1>. QED  BY <1>1, <1>2 DEF Downloads!IInv

\* For any calls and sizes, whatever fails, dies or is cleaned up, a destination holds a whole
\* file and no call that has ended leaves a partial one (artifact-tools.ts).
THEOREM DownloadsAreWhole ==
    ASSUME Downloads!DownloadsAssumption
    PROVE  Downloads!Spec => [](Downloads!TypeOK /\ Downloads!WholeFiles /\ Downloads!NothingLeft)
PROOF
<1>1. Downloads!Init => Downloads!IInv
  BY DEF Downloads!DownloadsAssumption, Downloads!Init, Downloads!IInv, Downloads!TypeOK,
     Downloads!Completed, Downloads!Complete, Downloads!Ended
<1>2. Downloads!IInv /\ [Downloads!Next]_(Downloads!vars) => Downloads!IInv'
  BY DownloadStep
<1>3. Downloads!IInv => Downloads!TypeOK /\ Downloads!WholeFiles /\ Downloads!NothingLeft
  BY DEF Downloads!IInv, Downloads!Completed, Downloads!Complete, Downloads!WholeFiles,
     Downloads!NothingLeft
<1>. QED  BY <1>1, <1>2, <1>3, PTL DEF Downloads!Spec

\* A download never takes the place of a file that is there (publishDestination).
THEOREM DownloadsNeverReplace ==
    ASSUME Downloads!DownloadsAssumption
    PROVE  Downloads!Spec => Downloads!NeverReplaces
PROOF
<1>1. [Downloads!Next]_(Downloads!vars) =>
          [downloads_dest' \in Downloaders /\ downloads_dest' # downloads_dest => downloads_dest = None]_(Downloads!vars)
  <2>. SUFFICES ASSUME Downloads!Next, downloads_dest' \in Downloaders, downloads_dest' # downloads_dest
                PROVE  downloads_dest = None
    BY DEF Downloads!vars
  <2>1. PICK c \in Downloaders : Downloads!Publish(c)
    BY DEF Downloads!Next, Downloads!Open, Downloads!Inspect, Downloads!Create, Downloads!Write,
       Downloads!Sync, Downloads!Break, Downloads!Recheck, Downloads!Verify, Downloads!Finish,
       Downloads!Crash, Downloads!RemoveStale, Downloads!Age, Downloads!Edit,
       Downloads!DownloadsAssumption
  <2>. QED  BY <2>1 DEF Downloads!Publish
<1>. QED  BY <1>1, PTL DEF Downloads!Spec, Downloads!NeverReplaces

-----------------------------------------------------------------------------
(* Incoming artifacts *)

LEMMA IncomingStep ==
    ASSUME Incoming!IncomingAssumption, Incoming!Progress, [Incoming!Next]_(Incoming!vars)
    PROVE  Incoming!Progress'
PROOF
<1>. USE DEF Incoming!Progress, Incoming!IncomingAssumption, Incoming!Fails
<1>1. ASSUME NEW a \in Adapters \union {Incoming!OpenAI}, Incoming!Asks(a)
      PROVE  Incoming!Progress'
  BY <1>1 DEF Incoming!Asks
<1>2. CASE Incoming!Chooses
  BY <1>2 DEF Incoming!Chooses, Incoming!here
<1>3. CASE Incoming!Delegates
  BY <1>3 DEF Incoming!Delegates, Incoming!Agrees
<1>4. CASE Incoming!Validates
  BY <1>4 DEF Incoming!Validates, Incoming!Agrees
<1>5. CASE Incoming!Normalizes
  <2>1. incoming_reference' = incoming_reference
    BY <1>5 DEF Incoming!Normalizes
  <2>2. Incoming!Conflict(incoming_reference)' <=> Incoming!Conflict(incoming_reference)
    BY <2>1 DEF Incoming!Conflict, Incoming!Supplied
  <2>. QED  BY <1>5, <2>1, <2>2 DEF Incoming!Normalizes
<1>6. CASE Incoming!Requests
  BY <1>6 DEF Incoming!Requests, Incoming!Conflict, Incoming!Supplied
<1>7. CASE Incoming!Redirected
  BY <1>7 DEF Incoming!Redirected, Incoming!Cancelled, Incoming!Conflict, Incoming!Supplied
<1>8. CASE Incoming!Refused
  BY <1>8 DEF Incoming!Refused, Incoming!Cancelled
<1>9. CASE Incoming!Takes
  <2>1. /\ incoming_stage = "answered" /\ incoming_response.body
        /\ UNCHANGED <<incoming_reference, incoming_matching, incoming_requests>>
    BY <1>9 DEF Incoming!Takes
  <2>2. incoming_bodies = {incoming_requests} /\ ~Incoming!Conflict(incoming_reference)
    BY <2>1
  <2>3. CASE Incoming!Differ /\ Incoming!Cancelled /\ Incoming!Fails
    BY <2>1, <2>2, <2>3 DEF Incoming!Cancelled
  <2>4. CASE ~(Incoming!Differ /\ Incoming!Cancelled /\ Incoming!Fails)
    <3>1. /\ incoming_stage' = "validating" /\ UNCHANGED incoming_bodies
          /\ incoming_source'.name = IF Incoming!FileName(incoming_reference) = None
                                     THEN "id" ELSE Incoming!FileName(incoming_reference)
          /\ incoming_source'.size = IF incoming_response.size # None THEN incoming_response.size
                                                                    ELSE incoming_reference.size
          /\ incoming_source'.stream = incoming_requests
          /\ ~Incoming!Differ
      BY <1>9, <2>4 DEF Incoming!Takes
    <3>2. incoming_reference.size \in {None, incoming_source'.size}
      BY <3>1 DEF Incoming!Differ
    <3>3. \A n \in {incoming_reference.name, incoming_reference.alias} : n \in {None, "hidden", incoming_source'.name}
      BY <2>2, <3>1 DEF Incoming!FileName, Incoming!Supplied, Incoming!Conflict,
         Incoming!References,
         Incoming!Names
    <3>4. Incoming!Agrees'
      BY <2>1, <3>2, <3>3 DEF Incoming!Agrees
    <3>. QED  BY <2>1, <2>2, <3>1, <3>4
  <2>. QED  BY <2>3, <2>4
<1>10. CASE UNCHANGED Incoming!vars
  BY <1>10 DEF Incoming!vars, Incoming!here, Incoming!Agrees, Incoming!Conflict, Incoming!Supplied
<1>. QED
  BY <1>1, <1>2, <1>3, <1>4, <1>5, <1>6, <1>7, <1>8, <1>9, <1>10 DEF Incoming!Next

\* The stream of a source is a body that is open.
LEMMA StreamStep ==
    ASSUME Incoming!IncomingAssumption, Incoming!Progress, Incoming!Streams, [Incoming!Next]_(Incoming!vars)
    PROVE  Incoming!Streams'
PROOF
<1>. USE DEF Incoming!Streams, Incoming!TypeOK, Incoming!Fails
<1>1. ASSUME NEW a \in Adapters \union {Incoming!OpenAI}, Incoming!Asks(a)
      PROVE  Incoming!Streams'
  BY <1>1 DEF Incoming!Asks
<1>2. CASE Incoming!Chooses
  BY <1>2 DEF Incoming!Chooses, Incoming!here
<1>3. CASE Incoming!Delegates
  <2>1. CASE Incoming!Fails /\ UNCHANGED <<incoming_bodies, incoming_source, incoming_requests>>
    BY <1>3, <2>1 DEF Incoming!Delegates
  <2>2. CASE ~(Incoming!Fails /\ UNCHANGED <<incoming_bodies, incoming_source, incoming_requests>>)
    <3>1. incoming_source'.stream = 1 /\ incoming_requests' = 1 /\ incoming_bodies' = {1}
      BY <1>3, <2>2 DEF Incoming!Delegates
    <3>2. incoming_bodies' \subseteq 1..incoming_requests'
      BY <3>1
    <3>. QED  BY <1>3, <2>2, <3>1, <3>2 DEF Incoming!Delegates
  <2>. QED  BY <2>1, <2>2
<1>4. CASE Incoming!Validates
  <2>1. CASE incoming_source.name # None
    <3>1. /\ incoming_stage = "validating" /\ incoming_stage' = "opened"
          /\ UNCHANGED <<incoming_bodies, incoming_source, incoming_reference, incoming_asked, incoming_matching,
                         incoming_url, incoming_requests, incoming_response>>
      BY <1>4, <2>1 DEF Incoming!Validates
    <3>. QED  BY <3>1
  <2>2. CASE incoming_source.name = None
    BY <1>4, <2>2 DEF Incoming!Validates
  <2>. QED  BY <2>1, <2>2
<1>5. CASE Incoming!Normalizes
  BY <1>5 DEF Incoming!Normalizes
<1>6. CASE Incoming!Requests
  <2>1. incoming_requests \in Nat /\ incoming_source = None
    BY <1>6 DEF Incoming!Requests, Incoming!Progress
  <2>2. \/ UNCHANGED <<incoming_requests, incoming_bodies, incoming_response>>
        \/ /\ incoming_requests' = incoming_requests + 1
           /\ incoming_bodies' \in {incoming_bodies, incoming_bodies \union {incoming_requests'}}
           /\ incoming_response' \in Incoming!Responses \union {incoming_response}
    BY <1>6 DEF Incoming!Requests
  <2>3. incoming_bodies' \subseteq 1..incoming_requests' /\ incoming_response' \in Incoming!Responses \union {None}
    <3>1. incoming_response' \in Incoming!Responses \union {None}
      BY <2>2
    <3>2. incoming_bodies \subseteq 1..incoming_requests
      OBVIOUS
    <3>3. incoming_bodies' \subseteq 1..incoming_requests'
      <4>. SUFFICES ASSUME NEW b \in incoming_bodies'
                    PROVE  b \in 1..incoming_requests'
        OBVIOUS
      <4>1. b \in incoming_bodies \/ (b = incoming_requests' /\ incoming_requests' = incoming_requests + 1)
        BY <2>2
      <4>2. incoming_requests' \in {incoming_requests, incoming_requests + 1}
        BY <2>2
      <4>3. CASE b \in incoming_bodies
        <5>1. b \in 1..incoming_requests
          BY <3>2, <4>3
        <5>. HIDE DEF Incoming!Streams, Incoming!TypeOK, Incoming!Fails
        <5>. QED  BY <2>1, <4>2, <5>1
      <4>4. CASE b = incoming_requests' /\ incoming_requests' = incoming_requests + 1
        BY <2>1, <4>4
      <4>. QED  BY <4>1, <4>3, <4>4
    <3>. QED  BY <3>1, <3>3
  <2>. QED  BY <1>6, <2>1, <2>3 DEF Incoming!Requests
<1>7. CASE Incoming!Redirected
  <2>1. incoming_response.location \in {None, "trusted", "other"}
    BY <1>7 DEF Incoming!Redirected, Incoming!Progress, Incoming!Responses
  <2>2. incoming_url' \in {None, "trusted", "other"} /\ incoming_source' = None
    BY <1>7, <2>1 DEF Incoming!Redirected
  <2>. QED  BY <1>7, <2>2 DEF Incoming!Redirected, Incoming!Cancelled
<1>8. CASE Incoming!Refused
  BY <1>8 DEF Incoming!Refused, Incoming!Cancelled
<1>9. CASE Incoming!Takes
  <2>1. CASE Incoming!Differ /\ Incoming!Cancelled /\ Incoming!Fails
    BY <1>9, <2>1 DEF Incoming!Takes, Incoming!Cancelled
  <2>2. CASE ~(Incoming!Differ /\ Incoming!Cancelled /\ Incoming!Fails)
    BY <1>9, <2>2 DEF Incoming!Takes, Incoming!Progress
  <2>. QED  BY <2>1, <2>2
<1>10. CASE UNCHANGED Incoming!vars
  BY <1>10 DEF Incoming!vars, Incoming!here
<1>. QED
  BY <1>1, <1>2, <1>3, <1>4, <1>5, <1>6, <1>7, <1>8, <1>9, <1>10 DEF Incoming!Next

\* For any adapters and any limit of redirects, however a file is refused no body stays open,
\* and a source contradicts nothing that its reference says (incoming-artifacts.ts).
THEOREM BodiesAreClosed ==
    ASSUME Incoming!IncomingAssumption
    PROVE  Incoming!Spec => [](Incoming!TypeOK /\ Incoming!NothingHangs)
PROOF
<1>1. Incoming!Init => Incoming!IInv
  BY DEF Incoming!Init, Incoming!IInv, Incoming!Progress, Incoming!Streams, Incoming!TypeOK,
     Incoming!IncomingAssumption
<1>2. Incoming!IInv /\ [Incoming!Next]_(Incoming!vars) => Incoming!IInv'
  BY IncomingStep, StreamStep DEF Incoming!IInv
<1>3. Incoming!IInv => Incoming!TypeOK /\ Incoming!NothingHangs
  BY DEF Incoming!IInv, Incoming!Progress, Incoming!Streams, Incoming!Agrees,
     Incoming!NothingHangs
<1>. QED  BY <1>1, <1>2, <1>3, PTL DEF Incoming!Spec

-----------------------------------------------------------------------------
(* Configuration files *)

LEMMA ConfigStep ==
    ASSUME Config!ConfigAssumption, Config!IInv, NEW p \in Config!Procs,
           \/ Config!Looks(p) \/ Config!LooksForLegacy(p) \/ Config!Loads(p) \/ Config!Reads(p)
           \/ Config!ReadsAuth(p) \/ Config!ChecksBackup(p) \/ Config!Converts(p)
           \/ Config!Publishes(p) \/ Config!Yields(p) \/ Config!Retires(p) \/ Config!Undoes(p)
           \/ Config!Edits(p) \/ Config!Writes(p) \/ Config!Truncates(p) \/ Config!Fills(p)
           \/ Config!Crashes(p)
    PROVE  Config!IInv'
PROOF
<1>. USE DEF Config!IInv, Config!TypeOK, Config!Editing, Config!Migrated, Config!At, Config!Goes, Config!Holds,
        Config!files, Config!Stages
<1>1. CASE Config!Looks(p)
  BY <1>1 DEF Config!Looks
<1>2. CASE Config!LooksForLegacy(p)
  BY <1>2 DEF Config!LooksForLegacy
<1>3. CASE Config!Loads(p)
  BY <1>3 DEF Config!Loads, Config!Default, Config!Configs
<1>4. CASE Config!Reads(p)
  BY <1>4 DEF Config!Reads
<1>5. CASE Config!ReadsAuth(p)
  BY <1>5 DEF Config!ReadsAuth
<1>6. CASE Config!ChecksBackup(p)
  BY <1>6 DEF Config!ChecksBackup
<1>7. CASE Config!Converts(p)
  BY <1>7 DEF Config!Converts, Config!MigrateLegacyConfig, Config!Configs, Config!ConfigAssumption
<1>8. CASE Config!Publishes(p)
  BY <1>8 DEF Config!Publishes
<1>9. CASE Config!Yields(p)
  BY <1>9 DEF Config!Yields
<1>10. CASE Config!Retires(p)
  BY <1>10 DEF Config!Retires
<1>11. CASE Config!Undoes(p)
  BY <1>11 DEF Config!Undoes
<1>12. CASE Config!Edits(p)
  <2>1. PICK source \in Config!Configs \union {None} :
           /\ source = IF config_mine[p] = Config!Default THEN Config!Default ELSE config_config
           /\ \/ source = None /\ Config!Goes(p, "failed") /\ UNCHANGED config_mine
              \/ /\ source # None /\ Config!Goes(p, "writing")
                 /\ Config!Holds(p, [source EXCEPT !.edits = @ \union {p}])
    BY <1>12 DEF Config!Edits, Config!Default, Config!Configs
  <2>2. source # None => /\ [source EXCEPT !.edits = @ \union {p}] \in Config!Configs
                         /\ [source EXCEPT !.edits = @ \union {p}].base = source.base
                         /\ [source EXCEPT !.edits = @ \union {p}].edits # {}
    BY <1>12 DEF Config!Edits, Config!Configs
  <2>. HIDE DEF Config!Configs
  <2>3. config_mine[p].base = "legacy" => config_mine[p] # Config!Default
    BY DEF Config!Default
  <2>4. UNCHANGED Config!files /\ UNCHANGED <<config_upgrade, config_undone>> /\ config_stage[p] = "editing"
    BY <1>12 DEF Config!Edits
  <2>5. CASE source = None
    BY <2>1, <2>4, <2>5, <2>3
  <2>6. CASE source # None
    <3>1. Config!TypeOK'
      BY <2>1, <2>2, <2>4, <2>6
    <3>2. Config!Editing'
      BY <2>1, <2>4, <2>6
    <3>3. source # None => [source EXCEPT !.edits = @ \union {p}] # None
      BY <2>2, <2>6 DEF Config!ConfigAssumption
    <3>4. Config!Migrated'
      BY <2>1, <2>2, <2>3, <2>4, <2>6, <3>3
    <3>. QED  BY <3>1, <3>2, <3>4
  <2>. QED  BY <2>5, <2>6
<1>13. CASE Config!Writes(p)
  BY <1>13 DEF Config!Writes
<1>14. CASE Config!Truncates(p)
  BY <1>14 DEF Config!Truncates
<1>15. CASE Config!Fills(p)
  BY <1>15 DEF Config!Fills
<1>16. CASE Config!Crashes(p)
  BY <1>16 DEF Config!Crashes
<1>. QED
  BY <1>1, <1>2, <1>3, <1>4, <1>5, <1>6, <1>7, <1>8, <1>9, <1>10, <1>11, <1>12, <1>13, <1>14,
     <1>15, <1>16

\* For any loading and editing processes, wherever they interleave or end, a user who upgrades
\* runs with the old settings and what has been set since (user-config.ts).
THEOREM SettingsAreKept ==
    ASSUME Config!ConfigAssumption
    PROVE  Config!Spec => [](Config!TypeOK /\ Config!UpgradeKeepsSettings)
PROOF
<1>1. Config!Init => Config!IInv
  <2>. SUFFICES ASSUME Config!Init PROVE Config!IInv
    OBVIOUS
  <2>1. Config!TypeOK /\ Config!Editing
    <3>1. config_upgrade \in BOOLEAN
      BY Zenon DEF Config!Init
    <3>2. {config_backup, config_upgrade, config_undone} \subseteq BOOLEAN
      BY <3>1, Zenon DEF Config!Init
    <3>3. /\ config_config \in Config!Configs \union {None} /\ config_legacy \in {None, "plain", "unsupported"}
          /\ config_auth \in {"whole", "torn"} /\ config_stage \in [Config!Procs -> Config!Stages]
          /\ config_mine \in [Config!Procs -> Config!Configs \union {None}]
          /\ Config!Editing
      BY DEF Config!Init, Config!Editing, Config!Own, Config!Configs, Config!Stages
    <3>. QED  BY <3>2, <3>3 DEF Config!TypeOK
  <2>2. Config!Migrated
    BY DEF Config!Init, Config!Migrated
  <2>. QED  BY <2>1, <2>2 DEF Config!IInv
<1>2. Config!IInv /\ [Config!Next]_(Config!vars) => Config!IInv'
  <2>1. Config!IInv /\ UNCHANGED Config!vars => Config!IInv'
    BY DEF Config!vars, Config!files, Config!IInv, Config!TypeOK, Config!Editing, Config!Migrated
  <2>. QED  BY <2>1, ConfigStep DEF Config!Next
<1>3. Config!IInv => Config!TypeOK /\ Config!UpgradeKeepsSettings
  BY DEF Config!IInv, Config!Migrated, Config!UpgradeKeepsSettings, Config!Procs
<1>. QED  BY <1>1, <1>2, <1>3, PTL DEF Config!Spec

-----------------------------------------------------------------------------
(* Operations on files *)

LEMMA SameFilesCardinality ==
    /\ \A S : FileOps!IsFiniteSet(S) <=> IsFiniteSet(S)
    /\ \A S : FileOps!Cardinality(S) = Cardinality(S)
BY DEF FileOps!IsFiniteSet, IsFiniteSet, FileOps!Cardinality, Cardinality

\* The number of a new file is that of no file.
LEMMA NewIsNew ==
    ASSUME FileOps!Numbered
    PROVE  /\ FileOps!New \in Nat /\ FileOps!New \notin FileOps!Known
           /\ IsFiniteSet(FileOps!Known \union {FileOps!New})
           /\ FileOps!Known \union {FileOps!New} = 1..Cardinality(FileOps!Known \union {FileOps!New})
PROOF
<1>. DEFINE k == Cardinality(FileOps!Known)
<1>1. k \in Nat /\ FileOps!Known = 1..k /\ IsFiniteSet(FileOps!Known)
  BY SameFilesCardinality, FS_CardinalityType DEF FileOps!Numbered
<1>2. FileOps!New = k + 1
  BY SameFilesCardinality DEF FileOps!New
<1>3. FileOps!New \in Nat /\ FileOps!New \notin FileOps!Known
  BY <1>1, <1>2
<1>4. /\ IsFiniteSet(FileOps!Known \union {FileOps!New})
      /\ Cardinality(FileOps!Known \union {FileOps!New}) = k + 1
  BY <1>1, <1>3, FS_AddElement
<1>5. FileOps!Known \union {FileOps!New} = 1..(k + 1)
  BY <1>1, <1>2
<1>. QED  BY <1>3, <1>4, <1>5

\* A file that appears has its own number and changes no other.
LEMMA FileAppears ==
    ASSUME FileOps!Numbered, NEW v, FileOps!Adds(FileOps!New, v)
    PROVE  /\ FileOps!Numbered' /\ FileOps!Known' = FileOps!Known \union {FileOps!New}
           /\ \A i \in FileOps!Known : files_version'[i] = files_version[i]
PROOF
<1>1. FileOps!Known' = FileOps!Known \union {FileOps!New}
  BY DEF FileOps!Adds, FileOps!Known
<1>2. \A i \in FileOps!Known : files_version'[i] = files_version[i]
  BY NewIsNew DEF FileOps!Adds, FileOps!Known
<1>. QED  BY <1>1, <1>2, SameFilesCardinality, NewIsNew DEF FileOps!Numbered

LEMMA FileStep ==
    ASSUME FileOps!FilesAssumption, FileOps!IInv, [FileOps!Next]_(FileOps!vars)
    PROVE  FileOps!IInv'
PROOF
<1>. DEFINE Kept == FileOps!Known \subseteq FileOps!Known' /\ FileOps!Numbered'
                    /\ \A i \in FileOps!Known : files_version'[i] = files_version[i]
<1>0. /\ FileOps!TypeOK /\ FileOps!Numbered /\ FileOps!UnderWay
      /\ files_temporary \in FileOps!Known \union {None}
  BY DEF FileOps!IInv
<1>a. None \notin FileOps!Known
  BY <1>0, SameFilesCardinality, FS_CardinalityType DEF FileOps!Numbered, FileOps!FilesAssumption
<1>1. UNCHANGED files_version => Kept
  BY <1>0 DEF FileOps!Known, FileOps!Numbered
<1>2. ASSUME NEW v, FileOps!Adds(FileOps!New, v)
      PROVE  Kept /\ FileOps!New \in FileOps!Known'
  BY <1>0, <1>2, FileAppears
<1>. HIDE DEF Kept
<1>. USE <1>0 DEF FileOps!TypeOK, FileOps!UnderWay, FileOps!IInv, FileOps!Idle, FileOps!File,
        FileOps!Points, FileOps!Steps, FileOps!Ends, FileOps!FilesAssumption
<1>3. CASE FileOps!Begin
  BY <1>1, <1>3 DEF FileOps!Begin, Kept
<1>4. CASE FileOps!RequireMissing
  BY <1>1, <1>4 DEF FileOps!RequireMissing, Kept
<1>5. CASE FileOps!CreateExclusive
  BY <1>1, <1>2, <1>5 DEF FileOps!CreateExclusive, Kept
<1>6. CASE FileOps!Fill
  <2>1. FileOps!Known' = FileOps!Known /\ FileOps!Numbered'
    BY <1>6 DEF FileOps!Fill, FileOps!Known, FileOps!Numbered
  <2>. QED  BY <1>6, <2>1 DEF FileOps!Fill
<1>7. CASE FileOps!OpenExisting
  BY <1>1, <1>7 DEF FileOps!OpenExisting, FileOps!AfterOpen, Kept
<1>8. CASE FileOps!StageTemporary
  BY <1>2, <1>8 DEF FileOps!StageTemporary, Kept
<1>9. CASE FileOps!StageFails
  BY <1>1, <1>9 DEF FileOps!StageFails, Kept
<1>10. CASE FileOps!VerifyIdentity
  BY <1>1, <1>10, <1>a DEF FileOps!VerifyIdentity, Kept
<1>11. CASE FileOps!Unlink
  BY <1>1, <1>11 DEF FileOps!Unlink, Kept
<1>12. CASE FileOps!RenameOver
  BY <1>1, <1>12 DEF FileOps!RenameOver, Kept
<1>13. CASE FileOps!Link
  BY <1>1, <1>13 DEF FileOps!Link, Kept
<1>14. CASE FileOps!UnlinkSource
  BY <1>1, <1>14 DEF FileOps!UnlinkSource, Kept
<1>15. CASE FileOps!Dies
  BY <1>1, <1>15 DEF FileOps!Dies, Kept
<1>16. ASSUME NEW n \in FileNames, FileOps!OtherCreates(n)
       PROVE  FileOps!IInv'
  BY <1>2, <1>16 DEF FileOps!OtherCreates, Kept
<1>17. ASSUME NEW n \in FileNames, FileOps!OtherTakes(n)
       PROVE  FileOps!IInv'
  BY <1>1, <1>2, <1>17 DEF FileOps!OtherTakes, Kept
<1>18. CASE UNCHANGED FileOps!vars
  BY <1>1, <1>18 DEF FileOps!vars, Kept
<1>. QED
  BY <1>3, <1>4, <1>5, <1>6, <1>7, <1>8, <1>9, <1>10, <1>11, <1>12, <1>13, <1>14, <1>15, <1>16,
     <1>17,
     <1>18 DEF FileOps!Next

\* Unless another program takes a file away meanwhile, a text disappears only when an operation
\* deletes or replaces the version that its caller has named.
LEMMA TextsStay ==
    ASSUME FileOps!FilesAssumption, FileOps!IInv, FileOps!Next, NEW i \in FileOps!Known,
           ~FileOps!Idle, ~files_disturbed', FileOps!Named(i), ~FileOps!Named(i)'
    PROVE  files_op.action \in {"delete", "replace"} /\ files_op.expected = files_version[i]
PROOF
<1>0. FileOps!TypeOK /\ FileOps!UnderWay /\ FileOps!Numbered /\ None \notin FileOps!Known
  BY SameFilesCardinality, FS_CardinalityType DEF FileOps!IInv, FileOps!Numbered,
     FileOps!FilesAssumption
<1>1. PICK n \in FileNames : files_name[n] = i
  BY DEF FileOps!Named
<1>. USE <1>0, <1>1 DEF FileOps!TypeOK, FileOps!Named, FileOps!File, FileOps!Points, FileOps!Steps,
        FileOps!Ends, FileOps!FilesAssumption
<1>2. files_name' # files_name
  OBVIOUS
<1>3. CASE FileOps!CreateExclusive
  BY <1>3 DEF FileOps!CreateExclusive
<1>4. CASE FileOps!Unlink \/ FileOps!RenameOver
  <2>1. n = files_op.path /\ files_at = "acting" /\ ~files_disturbed
    BY <1>4 DEF FileOps!Unlink, FileOps!RenameOver
  <2>. QED  BY <1>4, <2>1 DEF FileOps!UnderWay, FileOps!Unlink, FileOps!RenameOver
<1>5. CASE FileOps!Link
  BY <1>5 DEF FileOps!Link
<1>6. CASE FileOps!UnlinkSource
  <2>1. ~files_disturbed /\ files_op \in Operations /\ files_at = "unlinking"
    BY <1>6 DEF FileOps!UnlinkSource, FileOps!UnderWay
  <2>2. files_op.path # files_op.destination /\ files_name[files_op.destination] = files_name[files_op.path]
    BY <2>1 DEF FileOps!UnderWay
  <2>3. files_name' = [files_name EXCEPT ![files_op.path] = None]
    BY <1>2, <1>6 DEF FileOps!UnlinkSource
  <2>4. n = files_op.path
    BY <2>3
  <2>5. files_op.destination \in FileNames
    BY <2>1 DEF FileOps!UnderWay
  <2>. QED  BY <2>2, <2>3, <2>4, <2>5
<1>7. CASE \E m \in FileNames : FileOps!OtherCreates(m) \/ FileOps!OtherTakes(m)
  BY <1>7 DEF FileOps!OtherCreates, FileOps!OtherTakes
<1>. QED
  BY <1>2, <1>3, <1>4, <1>5, <1>6, <1>7 DEF FileOps!Next, FileOps!Begin, FileOps!RequireMissing,
     FileOps!Fill, FileOps!OpenExisting, FileOps!StageTemporary, FileOps!StageFails,
     FileOps!VerifyIdentity, FileOps!Dies

\* For any names, operations and other programs, no operation makes a text disappear but the
\* one that its caller named (filesystem-operations.ts).
THEOREM OperationsSpareTexts ==
    ASSUME FileOps!FilesAssumption
    PROVE  FileOps!Spec => []FileOps!TypeOK /\ FileOps!NothingOverwritten
PROOF
<1>1. FileOps!Init => FileOps!IInv
  <2>. SUFFICES ASSUME FileOps!Init PROVE FileOps!IInv
    OBVIOUS
  <2>1. FileOps!Known = {1} /\ {1} = 1..1
    BY DEF FileOps!Init, FileOps!Known
  <2>2. IsFiniteSet({1}) /\ Cardinality({1}) = 1
    BY FS_Singleton
  <2>. QED
    BY <2>1, <2>2, SameFilesCardinality DEF FileOps!Init, FileOps!IInv, FileOps!TypeOK,
       FileOps!Idle,
       FileOps!Numbered, FileOps!UnderWay
<1>2. FileOps!IInv /\ [FileOps!Next]_(FileOps!vars) => FileOps!IInv'
  BY FileStep
<1>3. FileOps!IInv /\ [FileOps!Next]_(FileOps!vars) =>
          [\A i \in FileOps!Known : ~FileOps!Idle /\ ~files_disturbed' /\ FileOps!Named(i) /\ ~FileOps!Named(i)' =>
              files_op.action \in {"delete", "replace"} /\ files_op.expected = files_version[i]]_(FileOps!vars)
  BY TextsStay
<1>4. FileOps!IInv => FileOps!TypeOK
  BY DEF FileOps!IInv
<1>. QED  BY <1>1, <1>2, <1>3, <1>4, PTL DEF FileOps!Spec, FileOps!NothingOverwritten

-----------------------------------------------------------------------------
(* Review checkpoints *)

\* A commit descends from itself, and what descends from a descendant descends.
LEMMA Descent ==
    /\ \A a : Checkpoints!IsAncestor(a, a)
    /\ \A a, b, c : Checkpoints!IsAncestor(a, b) /\ Checkpoints!IsAncestor(b, c) => Checkpoints!IsAncestor(a, c)
BY DEF Checkpoints!IsAncestor

\* A new commit descends from its parent, and changes nothing among the others.
LEMMA CommitDescends ==
    ASSUME Checkpoints!Shapes, NEW p \in 0..Len(reviews_commits), NEW t \in Nat,
           reviews_commits' = Append(reviews_commits, [parent |-> p, tree |-> t])
    PROVE  /\ Len(reviews_commits') = Len(reviews_commits) + 1
           /\ reviews_commits' \in Seq([parent : Nat, tree : Nat])
           /\ \A i \in 1..Len(reviews_commits') : reviews_commits'[i].parent \in 0..(i - 1)
           /\ \A a \in 0..Len(reviews_commits), new \in {Len(reviews_commits) + 1} :
                 Checkpoints!IsAncestor(a, p) => Checkpoints!IsAncestor(a, new)'
           /\ \A a, b \in 0..Len(reviews_commits) :
                 Checkpoints!IsAncestor(a, b) => Checkpoints!IsAncestor(a, b)'
PROOF
<1>. DEFINE n == Len(reviews_commits)
<1>1. /\ n \in Nat /\ Len(reviews_commits') = n + 1
      /\ reviews_commits' \in Seq([parent : Nat, tree : Nat])
      /\ \A i \in 1..n : reviews_commits'[i] = reviews_commits[i]
      /\ reviews_commits'[n + 1] = [parent |-> p, tree |-> t]
  BY DEF Checkpoints!Shapes
<1>2. \A i \in 1..(n + 1) : reviews_commits'[i].parent \in 0..(i - 1)
  BY <1>1 DEF Checkpoints!Shapes
<1>3. ASSUME NEW a \in 0..n, NEW b \in 0..n, Checkpoints!IsAncestor(a, b)
      PROVE  Checkpoints!IsAncestor(a, b)'
  <2>1. SUFFICES ASSUME NEW S \in SUBSET (0..(n + 1)), b \in S,
                        \A i \in S \ {0} : reviews_commits'[i].parent \in S
                 PROVE  a \in S
    BY <1>1 DEF Checkpoints!IsAncestor
  <2>2. \A i \in (S \cap 0..n) \ {0} : reviews_commits[i].parent \in S \cap 0..n
    <3>. TAKE i \in (S \cap 0..n) \ {0}
    <3>1. i \in 1..n /\ i \in S \ {0}
      BY <1>1
    <3>2. reviews_commits[i].parent \in 0..(i - 1)
      BY <3>1 DEF Checkpoints!Shapes
    <3>3. reviews_commits[i].parent \in S
      BY <1>1, <2>1, <3>1
    <3>. QED  BY <1>1, <3>1, <3>2, <3>3
  <2>3. S \cap 0..n \in SUBSET (0..n) /\ b \in S \cap 0..n
    BY <2>1
  <2>. QED  BY <1>3, <2>2, <2>3 DEF Checkpoints!IsAncestor
<1>4. ASSUME NEW new \in {n + 1}
      PROVE  Checkpoints!IsAncestor(p, new)'
  <2>1. SUFFICES ASSUME NEW S \in SUBSET (0..(n + 1)), new \in S,
                        \A i \in S \ {0} : reviews_commits'[i].parent \in S
                 PROVE  p \in S
    BY <1>1 DEF Checkpoints!IsAncestor
  <2>. QED  BY <1>1, <2>1
<1>5. ASSUME NEW a \in 0..n, NEW new \in {n + 1}, Checkpoints!IsAncestor(a, p)
      PROVE  Checkpoints!IsAncestor(a, new)'
  <2>1. Checkpoints!IsAncestor(a, p)'
    BY <1>3, <1>5
  <2>. QED  BY <1>4, <2>1 DEF Checkpoints!IsAncestor
<1>. QED  BY <1>1, <1>2, <1>3, <1>5

\* A call makes a commit on p; whatever it had descends as before.
LEMMA SnapshotTaken ==
    ASSUME Checkpoints!Shapes, NEW c \in Checkpoints!Calls, NEW p \in 0..Len(reviews_commits),
           Checkpoints!Snapshot(c, p)
    PROVE  /\ reviews_commits' \in Seq([parent : Nat, tree : Nat])
           /\ \A i \in 1..Len(reviews_commits') : reviews_commits'[i].parent \in 0..(i - 1)
           /\ Checkpoints!Commits \subseteq Checkpoints!Commits'
           /\ reviews_mine' \in [Checkpoints!Calls -> Checkpoints!Commits']
           /\ reviews_mine'[c] = Len(reviews_commits) + 1
           /\ \A d \in Checkpoints!Calls \ {c} : reviews_mine'[d] = reviews_mine[d]
           /\ \A a \in 0..Len(reviews_commits) : Checkpoints!IsAncestor(a, p) =>
                 Checkpoints!IsAncestor(a, reviews_mine[c])'
           /\ \A a, b \in 0..Len(reviews_commits) :
                 Checkpoints!IsAncestor(a, b) => Checkpoints!IsAncestor(a, b)'
PROOF
<1>. DEFINE n == Len(reviews_commits)
<1>1. /\ reviews_commits' = Append(reviews_commits, [parent |-> p, tree |-> reviews_tree])
      /\ reviews_mine' = [reviews_mine EXCEPT ![c] = n + 1]
      /\ reviews_tree \in Nat /\ n \in Nat
  BY DEF Checkpoints!Snapshot, Checkpoints!Shapes
<1>2. /\ Len(reviews_commits') = n + 1
      /\ reviews_commits' \in Seq([parent : Nat, tree : Nat])
      /\ \A i \in 1..Len(reviews_commits') : reviews_commits'[i].parent \in 0..(i - 1)
      /\ \A a \in 0..n, new \in {n + 1} : Checkpoints!IsAncestor(a, p) => Checkpoints!IsAncestor(a, new)'
      /\ \A a, b \in 0..n : Checkpoints!IsAncestor(a, b) => Checkpoints!IsAncestor(a, b)'
  BY <1>1, CommitDescends
<1>3. reviews_mine'[c] = n + 1 /\ \A d \in Checkpoints!Calls \ {c} : reviews_mine'[d] = reviews_mine[d]
  BY <1>1 DEF Checkpoints!Shapes
<1>4. /\ Checkpoints!Commits \subseteq Checkpoints!Commits'
      /\ reviews_mine' \in [Checkpoints!Calls -> Checkpoints!Commits']
  BY <1>1, <1>2 DEF Checkpoints!Shapes, Checkpoints!Commits
<1>5. \A a, new : new = n + 1 => (Checkpoints!IsAncestor(a, reviews_mine[c])' <=> Checkpoints!IsAncestor(a, new)')
  BY <1>2, <1>3 DEF Checkpoints!IsAncestor
<1>. QED  BY <1>2, <1>3, <1>4, <1>5

LEMMA ReviewStep ==
    ASSUME Checkpoints!ReviewAssumption, Checkpoints!Between, [Checkpoints!Next]_(Checkpoints!vars)
    PROVE  Checkpoints!Between'
PROOF
<1>0. /\ Checkpoints!Shapes /\ Checkpoints!OneInitializes /\ Checkpoints!Reviewing
      /\ Checkpoints!BaselineDescends
      /\ Len(reviews_commits) \in Nat /\ None \notin 0..(Len(reviews_commits) + 1) /\ None \notin Checkpoints!Calls
  BY DEF Checkpoints!Between, Checkpoints!Shapes, Checkpoints!ReviewAssumption, Checkpoints!Calls
<1>. USE <1>0 DEF Checkpoints!Goes, Checkpoints!state
<1>1. ASSUME reviews_commits' = reviews_commits
      PROVE  /\ Checkpoints!Commits' = Checkpoints!Commits
             /\ \A a, b : Checkpoints!IsAncestor(a, b)' <=> Checkpoints!IsAncestor(a, b)
  BY <1>1 DEF Checkpoints!Commits, Checkpoints!IsAncestor
<1>2. ASSUME NEW c \in Checkpoints!Calls,
             \/ Checkpoints!Enter(c) \/ Checkpoints!Look(c) \/ Checkpoints!InitializationFails(c)
             \/ Checkpoints!Opened(c) \/ Checkpoints!Reopen(c)
      PROVE  Checkpoints!Between'
  <2>1. UNCHANGED <<reviews_tree, reviews_commits, reviews_open, reviews_baseline, reviews_base, reviews_mine>>
    BY <1>2 DEF Checkpoints!Enter, Checkpoints!Look, Checkpoints!InitializationFails,
       Checkpoints!Opened,
       Checkpoints!Reopen
  <2>2. Checkpoints!Shapes'
    BY <1>1, <1>2, <2>1 DEF Checkpoints!Shapes, Checkpoints!Enter, Checkpoints!Look,
       Checkpoints!InitializationFails,
       Checkpoints!Opened, Checkpoints!Reopen, Checkpoints!Initialized, Checkpoints!Initializing
  <2>3. Checkpoints!OneInitializes'
    BY <1>2, <2>1 DEF Checkpoints!Shapes, Checkpoints!Enter, Checkpoints!Look,
       Checkpoints!InitializationFails,
       Checkpoints!Opened, Checkpoints!Reopen, Checkpoints!Initialized, Checkpoints!Initializing,
       Checkpoints!OneInitializes
  <2>4. \A d \in Checkpoints!Calls : reviews_stage'[d] \in {"comparing", "compared"} => reviews_stage'[d] = reviews_stage[d]
    BY <1>2 DEF Checkpoints!Shapes, Checkpoints!Enter, Checkpoints!Look,
       Checkpoints!InitializationFails,
       Checkpoints!Opened, Checkpoints!Reopen, Checkpoints!Initialized
  <2>5. Checkpoints!Reviewing' /\ Checkpoints!BaselineDescends'
    BY <1>1, <2>1, <2>4 DEF Checkpoints!Reviewing, Checkpoints!Descends,
       Checkpoints!BaselineDescends
  <2>. QED  BY <2>2, <2>3, <2>5 DEF Checkpoints!Between
<1>3. ASSUME NEW c \in Checkpoints!Calls, Checkpoints!FirstSnapshot(c)
      PROVE  Checkpoints!Between'
  <2>1. /\ reviews_stage[c] = "snapshot" /\ reviews_stage' = [reviews_stage EXCEPT ![c] = "opening"]
        /\ Checkpoints!Snapshot(c, 0)
        /\ UNCHANGED <<reviews_tree, reviews_open, reviews_baseline, reviews_ready, reviews_pending, reviews_base>>
    BY <1>3 DEF Checkpoints!FirstSnapshot
  <2>2. 0 \in 0..Len(reviews_commits)
    OBVIOUS
  <2>3. Checkpoints!Shapes'
    BY <2>1, <2>2, SnapshotTaken DEF Checkpoints!Shapes, Checkpoints!Initializing
  <2>4. /\ \A d \in Checkpoints!Calls \ {c} : reviews_stage'[d] = reviews_stage[d] /\ reviews_mine'[d] = reviews_mine[d]
        /\ reviews_stage'[c] = "opening" /\ reviews_mine'[c] # None
    BY <2>1, <2>2, SnapshotTaken DEF Checkpoints!Shapes
  <2>5. Checkpoints!OneInitializes'
    BY <2>1, <2>4 DEF Checkpoints!OneInitializes, Checkpoints!Initializing
  <2>6. Checkpoints!Reviewing' /\ Checkpoints!BaselineDescends'
    BY <2>1, <2>4 DEF Checkpoints!OneInitializes, Checkpoints!Initializing, Checkpoints!Reviewing,
       Checkpoints!BaselineDescends
  <2>. QED  BY <2>3, <2>5, <2>6 DEF Checkpoints!Between
<1>4. ASSUME NEW c \in Checkpoints!Calls, Checkpoints!SetOpen(c) \/ Checkpoints!SetBaseline(c)
      PROVE  Checkpoints!Between'
  <2>1. /\ UNCHANGED <<reviews_tree, reviews_commits, reviews_base, reviews_mine>>
        /\ reviews_mine[c] # None /\ reviews_mine[c] \in Checkpoints!Commits
        /\ reviews_stage[c] \in {"opening", "basing"} /\ reviews_baseline = None
    BY <1>4 DEF Checkpoints!SetOpen, Checkpoints!SetBaseline, Checkpoints!OneInitializes,
       Checkpoints!Shapes
  <2>2. \A d \in Checkpoints!Calls : reviews_stage'[d] \notin {"comparing", "compared"}
    BY <1>4, <2>1 DEF Checkpoints!SetOpen, Checkpoints!SetBaseline, Checkpoints!OneInitializes,
       Checkpoints!Shapes,
       Checkpoints!Initializing, Checkpoints!Initialized
  <2>3. Checkpoints!Shapes'
    BY <1>1, <1>4, <2>1 DEF Checkpoints!SetOpen, Checkpoints!SetBaseline, Checkpoints!Shapes,
       Checkpoints!Initializing, Checkpoints!Initialized
  <2>4. Checkpoints!OneInitializes'
    <3>1. reviews_pending = c /\ ~reviews_ready
          /\ \A d \in Checkpoints!Calls \ {c} : reviews_stage[d] \notin Checkpoints!Initializing
      BY <2>1 DEF Checkpoints!OneInitializes, Checkpoints!Initializing
    <3>2. CASE Checkpoints!SetOpen(c)
      BY <2>1, <3>1, <3>2 DEF Checkpoints!SetOpen, Checkpoints!OneInitializes, Checkpoints!Shapes,
         Checkpoints!Initializing
    <3>3. CASE Checkpoints!SetBaseline(c)
      <4>1. /\ \A d \in Checkpoints!Calls : reviews_stage'[d] \notin Checkpoints!Initializing \union {"joined"}
            /\ reviews_ready'
        BY <2>1, <3>1, <3>3 DEF Checkpoints!SetBaseline, Checkpoints!Initialized,
           Checkpoints!Initializing
      <4>. QED  BY <4>1 DEF Checkpoints!OneInitializes, Checkpoints!Initializing
    <3>. QED  BY <1>4, <3>2, <3>3
  <2>5. Checkpoints!BaselineDescends'
    BY <1>1, <1>4, <2>1, Descent DEF Checkpoints!SetOpen, Checkpoints!SetBaseline,
       Checkpoints!OneInitializes,
       Checkpoints!BaselineDescends
  <2>. QED  BY <2>2, <2>3, <2>4, <2>5 DEF Checkpoints!Between, Checkpoints!Reviewing
<1>5. ASSUME NEW c \in Checkpoints!Calls, Checkpoints!Compare(c)
      PROVE  Checkpoints!Between'
  <2>1. PICK ref \in {reviews_open, reviews_baseline} :
           /\ reviews_stage[c] = "ready" /\ reviews_base' = [reviews_base EXCEPT ![c] = ref]
           /\ reviews_stage' = [reviews_stage EXCEPT ![c] = IF ref = None THEN "failed" ELSE "comparing"]
           /\ UNCHANGED <<reviews_tree, reviews_commits, reviews_open, reviews_baseline, reviews_ready,
                          reviews_pending, reviews_mine>>
    BY <1>5 DEF Checkpoints!Compare
  <2>2. Checkpoints!Shapes'
    BY <1>1, <2>1 DEF Checkpoints!Shapes, Checkpoints!Initializing
  <2>3. Checkpoints!OneInitializes'
    BY <2>1 DEF Checkpoints!OneInitializes, Checkpoints!Shapes, Checkpoints!Initializing
  <2>4. ref # None => Checkpoints!Descends(ref)
    BY Descent DEF Checkpoints!Descends, Checkpoints!BaselineDescends
  <2>5. Checkpoints!Reviewing'
    BY <1>1, <2>1, <2>4 DEF Checkpoints!Reviewing, Checkpoints!Descends, Checkpoints!Shapes
  <2>6. Checkpoints!BaselineDescends'
    BY <1>1, <2>1 DEF Checkpoints!BaselineDescends
  <2>. QED  BY <2>2, <2>3, <2>5, <2>6 DEF Checkpoints!Between
<1>6. ASSUME NEW c \in Checkpoints!Calls, Checkpoints!TakeSnapshot(c)
      PROVE  Checkpoints!Between'
  <2>. DEFINE p == reviews_base[c]
  <2>1. /\ reviews_stage[c] = "comparing" /\ reviews_stage' = [reviews_stage EXCEPT ![c] = "compared"]
        /\ Checkpoints!Snapshot(c, p)
        /\ UNCHANGED <<reviews_tree, reviews_open, reviews_baseline, reviews_ready, reviews_pending, reviews_base>>
    BY <1>6 DEF Checkpoints!TakeSnapshot
  <2>2. p \in 1..Len(reviews_commits) /\ Checkpoints!Descends(p)
    BY <2>1 DEF Checkpoints!Shapes, Checkpoints!Commits, Checkpoints!Reviewing
  <2>3. Checkpoints!Shapes'
    BY <2>1, <2>2, SnapshotTaken DEF Checkpoints!Shapes, Checkpoints!Initializing
  <2>4. /\ \A d \in Checkpoints!Calls \ {c} : reviews_stage'[d] = reviews_stage[d] /\ reviews_mine'[d] = reviews_mine[d]
        /\ reviews_stage'[c] = "compared" /\ reviews_mine'[c] # None
    BY <2>1, <2>2, SnapshotTaken DEF Checkpoints!Shapes
  <2>5. Checkpoints!OneInitializes'
    BY <2>1, <2>4 DEF Checkpoints!OneInitializes, Checkpoints!Initializing
  <2>6. reviews_open # None => reviews_open \in 0..Len(reviews_commits)
    BY DEF Checkpoints!Shapes, Checkpoints!Commits
  <2>7. Checkpoints!BaselineDescends'
    <3>1. reviews_baseline # None => reviews_baseline \in 0..Len(reviews_commits)
      BY DEF Checkpoints!Shapes, Checkpoints!Commits
    <3>. QED  BY <2>1, <2>2, <2>6, <3>1, SnapshotTaken DEF Checkpoints!BaselineDescends
  <2>8. ASSUME NEW d \in Checkpoints!Calls, reviews_stage'[d] = "comparing"
        PROVE  reviews_base'[d] # None /\ Checkpoints!Descends(reviews_base[d])'
    <3>1. d # c /\ reviews_stage[d] = "comparing" /\ reviews_base'[d] = reviews_base[d]
      BY <2>1, <2>4, <2>8
    <3>2. reviews_base[d] \in 1..Len(reviews_commits) /\ Checkpoints!Descends(reviews_base[d])
      BY <3>1 DEF Checkpoints!Shapes, Checkpoints!Commits, Checkpoints!Reviewing
    <3>. QED  BY <2>1, <2>2, <2>6, <3>1, <3>2, SnapshotTaken DEF Checkpoints!Descends
  <2>9. ASSUME NEW d \in Checkpoints!Calls, reviews_stage'[d] = "compared"
        PROVE  reviews_mine'[d] # None /\ Checkpoints!Descends(reviews_mine[d])'
    <3>1. CASE d = c
      BY <2>1, <2>2, <2>4, <2>6, <3>1, SnapshotTaken DEF Checkpoints!Descends
    <3>2. CASE d # c
      <4>1. reviews_stage[d] = "compared" /\ reviews_mine'[d] = reviews_mine[d]
        BY <2>4, <2>9, <3>2
      <4>2. reviews_mine[d] \in 1..Len(reviews_commits) /\ Checkpoints!Descends(reviews_mine[d])
        BY <4>1 DEF Checkpoints!Shapes, Checkpoints!Commits, Checkpoints!Reviewing
      <4>. QED  BY <2>1, <2>2, <2>6, <4>1, <4>2, SnapshotTaken DEF Checkpoints!Descends
    <3>. QED  BY <3>1, <3>2
  <2>. QED  BY <2>3, <2>5, <2>7, <2>8, <2>9 DEF Checkpoints!Between, Checkpoints!Reviewing
<1>7. ASSUME NEW c \in Checkpoints!Calls, Checkpoints!Answer(c)
      PROVE  Checkpoints!Between'
  <2>1. /\ reviews_stage[c] = "compared" /\ \E to \in {"failed", "done"} : reviews_stage' = [reviews_stage EXCEPT ![c] = to]
        /\ reviews_baseline' \in {reviews_baseline, reviews_mine[c]}
        /\ UNCHANGED <<reviews_tree, reviews_commits, reviews_open, reviews_ready, reviews_pending, reviews_base,
                       reviews_mine>>
    BY <1>7 DEF Checkpoints!Answer
  <2>2. /\ \A d \in Checkpoints!Calls \ {c} : reviews_stage'[d] = reviews_stage[d]
        /\ reviews_stage'[c] \in {"failed", "done"}
    BY <2>1 DEF Checkpoints!Shapes
  <2>3. Checkpoints!Shapes'
    BY <1>1, <2>1 DEF Checkpoints!Shapes
  <2>4. Checkpoints!OneInitializes'
    BY <2>1, <2>2 DEF Checkpoints!OneInitializes, Checkpoints!Initializing
  <2>5. Checkpoints!Reviewing' /\ Checkpoints!BaselineDescends'
    BY <1>1, <2>1, <2>2 DEF Checkpoints!Reviewing, Checkpoints!Descends,
       Checkpoints!BaselineDescends
  <2>. QED  BY <2>3, <2>4, <2>5 DEF Checkpoints!Between
<1>8. CASE Checkpoints!Edit \/ Checkpoints!Prune \/ UNCHANGED Checkpoints!vars
  <2>1. /\ UNCHANGED <<reviews_commits, reviews_ready, reviews_pending, reviews_stage, reviews_base, reviews_mine>>
        /\ reviews_tree' \in Nat /\ reviews_open' \in {reviews_open, None}
        /\ reviews_baseline' \in {reviews_baseline, None}
    BY <1>8 DEF Checkpoints!Edit, Checkpoints!Prune, Checkpoints!vars, Checkpoints!Shapes
  <2>2. Checkpoints!Shapes'
    BY <1>1, <2>1 DEF Checkpoints!Shapes, Checkpoints!Commits
  <2>3. Checkpoints!OneInitializes'
    BY <2>1 DEF Checkpoints!OneInitializes, Checkpoints!Initializing
  <2>4. Checkpoints!Reviewing' /\ Checkpoints!BaselineDescends'
    BY <1>1, <2>1 DEF Checkpoints!Reviewing, Checkpoints!Descends, Checkpoints!BaselineDescends
  <2>. QED  BY <2>2, <2>3, <2>4 DEF Checkpoints!Between
<1>9. CASE Checkpoints!Restart
  <2>1. /\ UNCHANGED <<reviews_tree, reviews_commits, reviews_open, reviews_baseline, reviews_base, reviews_mine>>
        /\ reviews_stage' \in [Checkpoints!Calls -> {"idle", "done", "failed"}]
    BY <1>9 DEF Checkpoints!Restart
  <2>2. Checkpoints!Shapes'
    BY <1>1, <2>1 DEF Checkpoints!Shapes
  <2>3. Checkpoints!OneInitializes' /\ Checkpoints!Reviewing'
    BY <2>1 DEF Checkpoints!OneInitializes, Checkpoints!Initializing, Checkpoints!Reviewing
  <2>4. Checkpoints!BaselineDescends'
    BY <1>1, <2>1 DEF Checkpoints!BaselineDescends
  <2>. QED  BY <2>2, <2>3, <2>4 DEF Checkpoints!Between
<1>. QED
  BY <1>2, <1>3, <1>4, <1>5, <1>6, <1>7, <1>8, <1>9 DEF Checkpoints!Next

\* A commit is of a tree that has been, and the initialization that is under way is a call's.
LEMMA BoundedStep ==
    ASSUME Checkpoints!ReviewAssumption, Checkpoints!Between, Checkpoints!Bounded,
           [Checkpoints!Next]_(Checkpoints!vars)
    PROVE  Checkpoints!Bounded'
PROOF
<1>0. /\ reviews_commits \in Seq([parent : Nat, tree : Nat]) /\ Len(reviews_commits) \in Nat
      /\ reviews_tree \in Nat /\ MaxEdits \in Nat
  BY DEF Checkpoints!Between, Checkpoints!Shapes, Checkpoints!ReviewAssumption
<1>1. ASSUME UNCHANGED <<reviews_tree, reviews_commits>>, reviews_pending' \in Checkpoints!Calls \union {None}
      PROVE  Checkpoints!Bounded'
  BY <1>1 DEF Checkpoints!Bounded
<1>2. ASSUME NEW c \in Checkpoints!Calls, NEW p, Checkpoints!Snapshot(c, p), UNCHANGED <<reviews_tree, reviews_pending>>
      PROVE  Checkpoints!Bounded'
  <2>1. reviews_commits' = Append(reviews_commits, [parent |-> p, tree |-> reviews_tree])
    BY <1>2 DEF Checkpoints!Snapshot
  <2>2. /\ Len(reviews_commits') = Len(reviews_commits) + 1
        /\ \A i \in 1..Len(reviews_commits) : reviews_commits'[i] = reviews_commits[i]
        /\ reviews_commits'[Len(reviews_commits) + 1] = [parent |-> p, tree |-> reviews_tree]
    BY <1>0, <2>1
  <2>3. ASSUME NEW i \in 1..Len(reviews_commits')
        PROVE  reviews_commits'[i].tree <= reviews_tree
    <3>1. CASE i \in 1..Len(reviews_commits)
      BY <2>2, <3>1 DEF Checkpoints!Bounded
    <3>2. CASE i = Len(reviews_commits) + 1
      BY <1>0, <2>2, <3>2
    <3>. QED  BY <1>0, <2>2, <3>1, <3>2
  <2>. QED  BY <1>2, <2>3 DEF Checkpoints!Bounded
<1>3. ASSUME NEW c \in Checkpoints!Calls, Checkpoints!FirstSnapshot(c) \/ Checkpoints!TakeSnapshot(c)
      PROVE  Checkpoints!Bounded'
  BY <1>2, <1>3 DEF Checkpoints!FirstSnapshot, Checkpoints!TakeSnapshot
<1>4. ASSUME NEW c \in Checkpoints!Calls,
             \/ Checkpoints!Enter(c) \/ Checkpoints!Look(c) \/ Checkpoints!SetOpen(c) \/ Checkpoints!SetBaseline(c)
             \/ Checkpoints!InitializationFails(c) \/ Checkpoints!Opened(c) \/ Checkpoints!Compare(c)
             \/ Checkpoints!Answer(c) \/ Checkpoints!Reopen(c)
      PROVE  Checkpoints!Bounded'
  BY <1>1, <1>4 DEF Checkpoints!Bounded, Checkpoints!Enter, Checkpoints!Look, Checkpoints!SetOpen,
     Checkpoints!SetBaseline, Checkpoints!InitializationFails, Checkpoints!Opened, Checkpoints!Compare,
     Checkpoints!Answer, Checkpoints!Reopen, Checkpoints!Initialized
<1>5. CASE Checkpoints!Edit
  <2>1. reviews_tree' = reviews_tree + 1 /\ reviews_tree < MaxEdits /\ UNCHANGED <<reviews_commits, reviews_pending>>
    BY <1>5 DEF Checkpoints!Edit
  <2>2. ASSUME NEW i \in 1..Len(reviews_commits)
        PROVE  reviews_commits[i].tree <= reviews_tree + 1
    <3>1. reviews_commits[i].tree \in Nat /\ reviews_commits[i].tree <= reviews_tree
      <4>1. reviews_commits[i] \in [parent : Nat, tree : Nat]
        <5>1. \A S : reviews_commits \in Seq(S) => reviews_commits[i] \in S
          OBVIOUS
        <5>. QED  BY <1>0, <5>1
      <4>. QED  BY <4>1 DEF Checkpoints!Bounded
    <3>. QED  BY <1>0, <3>1
  <2>. QED  BY <1>0, <2>1, <2>2 DEF Checkpoints!Bounded
<1>6. CASE Checkpoints!Prune \/ Checkpoints!Restart \/ UNCHANGED Checkpoints!vars
  BY <1>1, <1>6 DEF Checkpoints!Bounded, Checkpoints!Prune, Checkpoints!Restart, Checkpoints!vars
<1>. QED  BY <1>3, <1>4, <1>5, <1>6 DEF Checkpoints!Next

\* For any calls, edits and restarts, whatever initializations overlap, fail or are cut off, the
\* baseline descends from the open checkpoint (review-checkpoints.ts).
THEOREM ReviewsLieBetween ==
    ASSUME Checkpoints!ReviewAssumption
    PROVE  Checkpoints!Spec => [](Checkpoints!TypeOK /\ Checkpoints!BaselineDescends)
PROOF
<1>1. Checkpoints!Init => Checkpoints!IInv
  <2>. SUFFICES ASSUME Checkpoints!Init
                PROVE  Checkpoints!IInv
    OBVIOUS
  <2>1. Checkpoints!Between
    BY DEF Checkpoints!ReviewAssumption, Checkpoints!Init, Checkpoints!Between,
       Checkpoints!Shapes,
       Checkpoints!Commits, Checkpoints!OneInitializes, Checkpoints!Initializing, Checkpoints!Reviewing,
       Checkpoints!BaselineDescends
  <2>2. Checkpoints!Bounded
    BY DEF Checkpoints!ReviewAssumption, Checkpoints!Init, Checkpoints!Bounded
  <2>. QED  BY <2>1, <2>2 DEF Checkpoints!IInv
<1>2. Checkpoints!IInv /\ [Checkpoints!Next]_(Checkpoints!vars) => Checkpoints!IInv'
  BY ReviewStep, BoundedStep DEF Checkpoints!IInv
<1>3. Checkpoints!IInv => Checkpoints!TypeOK /\ Checkpoints!BaselineDescends
  <2>. SUFFICES ASSUME Checkpoints!Between, Checkpoints!Bounded
                PROVE  Checkpoints!TypeOK
    BY DEF Checkpoints!IInv, Checkpoints!Between
  <2>1. reviews_tree \in 0..MaxEdits
    BY DEF Checkpoints!Between, Checkpoints!Bounded, Checkpoints!Shapes,
       Checkpoints!ReviewAssumption
  <2>2. ASSUME NEW i \in 1..Len(reviews_commits)
        PROVE  reviews_commits[i].parent \in 0..(i - 1) /\ reviews_commits[i].tree \in 0..reviews_tree
    <3>1. reviews_commits \in Seq([parent : Nat, tree : Nat]) /\ reviews_tree \in Nat
          /\ reviews_commits[i].parent \in 0..(i - 1) /\ reviews_commits[i].tree <= reviews_tree
      BY DEF Checkpoints!Between, Checkpoints!Bounded, Checkpoints!Shapes
    <3>2. \A S : reviews_commits \in Seq(S) => reviews_commits[i] \in S
      OBVIOUS
    <3>3. reviews_commits[i].tree \in Nat
      <4>1. reviews_commits[i] \in [parent : Nat, tree : Nat]
        BY <3>1, <3>2
      <4>. QED  BY <4>1
    <3>. QED  BY <3>1, <3>3
  <2>3. /\ reviews_open \in 1..Len(reviews_commits) \union {None}
        /\ reviews_baseline \in 1..Len(reviews_commits) \union {None}
        /\ \A c \in Checkpoints!Calls : /\ reviews_base[c] \in 1..Len(reviews_commits) \union {None}
                                       /\ reviews_mine[c] \in 1..Len(reviews_commits) \union {None}
    BY DEF Checkpoints!Between, Checkpoints!Shapes, Checkpoints!Commits
  <2>. QED  BY <2>1, <2>2, <2>3 DEF Checkpoints!TypeOK, Checkpoints!Bounded
<1>. QED  BY <1>1, <1>2, <1>3, PTL DEF Checkpoints!Spec

-----------------------------------------------------------------------------
(* Sequences *)

\* What a sequence is when another follows it, and when one of its elements is removed.
LEMMA JoinedEntries ==
    ASSUME NEW S, NEW a \in Seq(S), NEW b \in Seq(S)
    PROVE  /\ a \o b \in Seq(S) /\ Len(a \o b) = Len(a) + Len(b)
           /\ \A i \in 1..(Len(a) + Len(b)) :
                 (a \o b)[i] = IF i <= Len(a) THEN a[i] ELSE b[i - Len(a)]
OBVIOUS

Removed(s, k) == SubSeq(s, 1, k - 1) \o SubSeq(s, k + 1, Len(s))
LEMMA RemovedAt ==
    ASSUME NEW S, NEW s \in Seq(S), NEW k \in 1..Len(s)
    PROVE  /\ Removed(s, k) \in Seq(S) /\ Len(Removed(s, k)) = Len(s) - 1
           /\ \A i \in 1..(Len(s) - 1) : Removed(s, k)[i] = IF i < k THEN s[i] ELSE s[i + 1]
PROOF
<1>. DEFINE t == Removed(s, k)
            a == SubSeq(s, 1, k - 1)
            b == SubSeq(s, k + 1, Len(s))
<1>1. /\ a \in Seq(S) /\ Len(a) = k - 1 /\ \A i \in 1..(k - 1) : a[i] = s[i]
  OBVIOUS
<1>2. /\ b \in Seq(S) /\ Len(b) = Len(s) - k /\ \A i \in 1..(Len(s) - k) : b[i] = s[i + k]
  OBVIOUS
<1>3. t = a \o b
  BY DEF Removed
<1>. HIDE DEF a, b, t
<1>4. /\ a \o b \in Seq(S) /\ Len(a \o b) = Len(a) + Len(b)
      /\ \A i \in 1..(Len(a) + Len(b)) : (a \o b)[i] = IF i <= Len(a) THEN a[i] ELSE b[i - Len(a)]
  BY <1>1, <1>2, JoinedEntries
<1>5. /\ t \in Seq(S) /\ Len(t) = (k - 1) + (Len(s) - k)
      /\ \A i \in 1..Len(t) : t[i] = IF i <= k - 1 THEN a[i] ELSE b[i - (k - 1)]
  BY <1>1, <1>2, <1>3, <1>4
<1>0. k \in Nat /\ k <= Len(s) /\ Len(s) \in Nat /\ Len(t) \in Nat /\ Len(t) = Len(s) - 1
  BY <1>5
<1>6. ASSUME NEW i \in 1..Len(t)
      PROVE  t[i] = IF i < k THEN s[i] ELSE s[i + 1]
  <2>1. CASE i < k
    BY <2>1, <1>0, <1>1, <1>5
  <2>2. CASE i >= k
    <3>1. i - (k - 1) \in 1..(Len(s) - k) /\ (i - (k - 1)) + k = i + 1
      BY <2>2, <1>0
    <3>2. b[i - (k - 1)] = s[i + 1]
      BY <3>1, <1>2
    <3>3. t[i] = b[i - (k - 1)]
      BY <2>2, <1>0, <1>5
    <3>. QED  BY <2>2, <3>2, <3>3, <1>0
  <2>. QED  BY <2>1, <2>2, <1>0
<1>. QED  BY <1>0, <1>5, <1>6 DEF t

-----------------------------------------------------------------------------
(* Workspaces *)

\* What becomes of an open and of those that have joined it.
LEMMA OpenEnds ==
    ASSUME Workspaces!Bindings, NEW c \in WorkspaceOpens, NEW how \in {"answered", "failed"},
           NEW w \in WorkspaceOpens \union {None}, Workspaces!Ends(c, how, w),
           workspaces_stage[c] \in Workspaces!Active \union {"worktree"}
    PROVE  /\ workspaces_stage' \in [WorkspaceOpens -> Workspaces!Active \union {"idle", "joined", "worktree", "answered", "failed"}]
           /\ workspaces_answer' \in [WorkspaceOpens -> WorkspaceOpens \union {None}]
           /\ workspaces_pending' \in [Workspaces!Scopes -> WorkspaceOpens \union {None}]
           /\ workspaces_stage'[c] = how /\ workspaces_answer'[c] = w
           /\ \A d \in WorkspaceOpens \ {c} :
                 \/ workspaces_stage'[d] = workspaces_stage[d] /\ workspaces_answer'[d] = workspaces_answer[d]
                 \/ /\ workspaces_stage[d] = "joined" /\ Workspaces!Bound(c) /\ Scope[d] = Scope[c]
                    /\ workspaces_stage'[d] = how /\ workspaces_answer'[d] = w
           /\ \A d \in WorkspaceOpens \ {c} :
                 workspaces_stage[d] \in Workspaces!Active /\ Workspaces!Bound(d) =>
                     workspaces_pending'[Scope[d]] = d
PROOF
<1>. USE DEF Workspaces!Bindings, Workspaces!Shapes
<1>. DEFINE joined == {d \in WorkspaceOpens : workspaces_stage[d] = "joined" /\ Scope[d] = Scope[c]}
<1>1. /\ workspaces_stage'  = [d \in WorkspaceOpens |-> IF d = c \/ (d \in joined /\ c \notin Worktrees) THEN how ELSE workspaces_stage[d]]
      /\ workspaces_answer' = [d \in WorkspaceOpens |-> IF d = c \/ (d \in joined /\ c \notin Worktrees) THEN w ELSE workspaces_answer[d]]
      /\ workspaces_pending' = IF c \in Worktrees \/ Scope[c] = None THEN workspaces_pending
                               ELSE [workspaces_pending EXCEPT ![Scope[c]] = None]
  BY DEF Workspaces!Ends
<1>2. \A d \in joined : c \notin Worktrees => Workspaces!Bound(c)
  BY DEF Workspaces!OneOpens, Workspaces!Bound
<1>3. \A d \in WorkspaceOpens \ {c} :
         workspaces_stage[d] \in Workspaces!Active /\ Workspaces!Bound(d) =>
             /\ workspaces_pending[Scope[d]] = d /\ Scope[d] \in Workspaces!Scopes
             /\ Scope[d] # Scope[c] \/ c \in Worktrees
  BY DEF Workspaces!OneOpens, Workspaces!Bound, Workspaces!Scopes
<1>. QED  BY <1>1, <1>2, <1>3 DEF Workspaces!Active

LEMMA WorkspaceStep ==
    ASSUME Workspaces!WorkspacesAssumption, Workspaces!Bindings, [Workspaces!Next]_(Workspaces!vars)
    PROVE  Workspaces!Bindings'
PROOF
<1>0. /\ Workspaces!Shapes /\ Workspaces!Records /\ Workspaces!OneOpens /\ Workspaces!Remembered
      /\ None \notin WorkspaceOpens
      /\ \A c \in WorkspaceOpens : Workspaces!Bound(c) => Scope[c] \in Workspaces!Scopes
  BY DEF Workspaces!Bindings, Workspaces!WorkspacesAssumption, Workspaces!Bound, Workspaces!Scopes
<1>. USE <1>0 DEF Workspaces!Goes, Workspaces!Shapes, Workspaces!Bindings
<1>1. ASSUME NEW c \in WorkspaceOpens, Workspaces!Enter(c)
      PROVE  Workspaces!Bindings'
  <2>1. Workspaces!Shapes'
    BY <1>1 DEF Workspaces!Enter, Workspaces!Bound, Workspaces!Active
  <2>2. Workspaces!Records'
    BY <1>1 DEF Workspaces!Enter, Workspaces!Records
  <2>3. Workspaces!OneOpens'
    BY <1>1 DEF Workspaces!Enter, Workspaces!OneOpens, Workspaces!Bound, Workspaces!Active
  <2>4. Workspaces!Remembered'
    BY <1>1 DEF Workspaces!Enter, Workspaces!Records, Workspaces!Remembered, Workspaces!Bound,
       Workspaces!Active
  <2>. QED  BY <2>1, <2>2, <2>3, <2>4
<1>2. ASSUME NEW c \in WorkspaceOpens, Workspaces!Stat(c)
      PROVE  Workspaces!Bindings'
  <2>1. Workspaces!Shapes'
    BY <1>2 DEF Workspaces!Stat, Workspaces!Active
  <2>2. Workspaces!Records'
    BY <1>2 DEF Workspaces!Stat, Workspaces!Records
  <2>3. Workspaces!OneOpens'
    BY <1>2 DEF Workspaces!Stat, Workspaces!OneOpens, Workspaces!Bound, Workspaces!Active
  <2>4. Workspaces!Remembered'
    BY <1>2 DEF Workspaces!Stat, Workspaces!Records, Workspaces!Remembered, Workspaces!Bound,
       Workspaces!Active
  <2>. QED  BY <2>1, <2>2, <2>3, <2>4
<1>3. ASSUME NEW c \in WorkspaceOpens, Workspaces!Bind(c) \/ Workspaces!Reuse(c)
      PROVE  Workspaces!Bindings'
  <2>. DEFINE k == Scope[c]
  <2>1. /\ UNCHANGED <<workspaces_present, workspaces_gone, workspaces_sessions, workspaces_pending,
                       workspaces_previous, workspaces_missing, workspaces_answer>>
        /\ workspaces_stage[c] \in {"binding", "reusing"} /\ Workspaces!Bound(c) /\ k \in Workspaces!Scopes
        /\ \/ /\ UNCHANGED workspaces_binding
              /\ workspaces_stage' = [workspaces_stage EXCEPT ![c] = "reusing"]
                 \/ workspaces_stage' = [workspaces_stage EXCEPT ![c] = "reused"]
              /\ workspaces_binding[k] # None
              /\ workspaces_missing[c] => workspaces_binding[k] # workspaces_previous[c]
           \/ /\ workspaces_stage' = [workspaces_stage EXCEPT ![c] = "creating"]
              /\ workspaces_binding' = [workspaces_binding EXCEPT ![k] = None]
    BY <1>3 DEF Workspaces!Bind, Workspaces!Reuse, Workspaces!OneOpens, Workspaces!Remembered
  <2>2. Workspaces!Shapes'
    BY <2>1 DEF Workspaces!Active
  <2>3. Workspaces!Records'
    BY <2>1 DEF Workspaces!Records
  <2>4. \A d \in WorkspaceOpens \ {c} : workspaces_stage[d] \in Workspaces!Active /\ Workspaces!Bound(d) => Scope[d] # k
    BY <2>1 DEF Workspaces!OneOpens, Workspaces!Active
  <2>5. Workspaces!OneOpens'
    BY <2>1, <2>4 DEF Workspaces!OneOpens, Workspaces!Bound, Workspaces!Active
  <2>6. Workspaces!Remembered'
    BY <2>1, <2>4 DEF Workspaces!Remembered, Workspaces!Bound, Workspaces!Active,
       Workspaces!OneOpens
  <2>. QED  BY <2>2, <2>3, <2>5, <2>6
<1>4. ASSUME NEW c \in WorkspaceOpens, NEW how \in {"answered", "failed"}, NEW w \in WorkspaceOpens \union {None},
             Workspaces!Ends(c, how, w), workspaces_stage[c] \in Workspaces!Active \union {"worktree"},
             UNCHANGED <<workspaces_present, workspaces_gone, workspaces_sessions, workspaces_previous,
                         workspaces_missing>>,
             \/ UNCHANGED workspaces_binding
             \/ /\ workspaces_stage[c] = "created" /\ Workspaces!Bound(c)
                /\ workspaces_binding' = [workspaces_binding EXCEPT ![Scope[c]] = c]
      PROVE  Workspaces!Bindings'
  <2>1. Workspaces!Shapes'
    BY <1>4, OpenEnds
  <2>2. \A d \in WorkspaceOpens \ {c} :
            /\ workspaces_stage'[d] = workspaces_stage[d] \/ workspaces_stage'[d] \in {"answered", "failed"}
            /\ workspaces_stage[d] \in Workspaces!Active /\ Workspaces!Bound(d) => workspaces_pending'[Scope[d]] = d
    BY <1>4, OpenEnds
  <2>3. workspaces_stage'[c] \in {"answered", "failed"}
    BY <1>4, OpenEnds
  <2>4. \A d \in WorkspaceOpens \ {c} :
            workspaces_stage[d] \in Workspaces!Active /\ Workspaces!Bound(d) =>
               workspaces_binding'[Scope[d]] = workspaces_binding[Scope[d]]
    BY <1>4 DEF Workspaces!OneOpens, Workspaces!Active
  <2>5. Workspaces!Records'
    BY <1>4, <2>2, <2>3 DEF Workspaces!Records, Workspaces!OneOpens, Workspaces!Bound
  <2>6. Workspaces!OneOpens'
    BY <2>2, <2>3, <2>4, <1>4 DEF Workspaces!OneOpens, Workspaces!Bound, Workspaces!Active
  <2>7. Workspaces!Remembered'
    BY <2>2, <2>3, <2>4, <1>4 DEF Workspaces!OneOpens, Workspaces!Remembered, Workspaces!Bound,
       Workspaces!Active
  <2>. QED  BY <2>1, <2>5, <2>6, <2>7
<1>5. ASSUME NEW c \in WorkspaceOpens, Workspaces!Prepare(c)
      PROVE  Workspaces!Bindings'
  <2>1. CASE workspaces_present \/ c \in Creating
    <3>1. /\ workspaces_stage[c] = "preparing" /\ workspaces_present' = TRUE
          /\ workspaces_stage' = [workspaces_stage EXCEPT ![c] =
                IF c \in Worktrees THEN "worktree" ELSE IF Scope[c] = None THEN "creating" ELSE "binding"]
          /\ UNCHANGED <<workspaces_pending, workspaces_answer, workspaces_gone, workspaces_sessions,
                         workspaces_binding, workspaces_previous, workspaces_missing>>
      BY <1>5, <2>1 DEF Workspaces!Prepare
    <3>2. Workspaces!Shapes'
      BY <3>1 DEF Workspaces!Active
    <3>3. Workspaces!Records'
      BY <3>1 DEF Workspaces!Records
    <3>4. Workspaces!OneOpens'
      BY <3>1 DEF Workspaces!OneOpens, Workspaces!Bound, Workspaces!Active
    <3>5. Workspaces!Remembered'
      BY <3>1 DEF Workspaces!Remembered, Workspaces!Bound, Workspaces!Active
    <3>. QED  BY <3>2, <3>3, <3>4, <3>5
  <2>2. CASE ~(workspaces_present \/ c \in Creating)
    BY <1>4, <1>5, <2>2 DEF Workspaces!Prepare, Workspaces!Fails, Workspaces!Active
  <2>. QED  BY <2>1, <2>2
<1>6. ASSUME NEW c \in WorkspaceOpens, Workspaces!Reused(c)
      PROVE  Workspaces!Bindings'
  <2>1. workspaces_binding[Scope[c]] \in WorkspaceOpens \union {None}
    BY <1>6 DEF Workspaces!Reused, Workspaces!OneOpens
  <2>. QED  BY <1>4, <1>6, <2>1 DEF Workspaces!Reused, Workspaces!Fails, Workspaces!Active
<1>7. ASSUME NEW c \in WorkspaceOpens, Workspaces!CreateWorktree(c)
      PROVE  Workspaces!Bindings'
  <2>1. CASE Workspaces!Fails(c)
    BY <1>4, <1>7, <2>1 DEF Workspaces!CreateWorktree, Workspaces!Fails
  <2>2. CASE ~Workspaces!Fails(c)
    <3>1. /\ workspaces_stage[c] = "worktree" /\ workspaces_stage' = [workspaces_stage EXCEPT ![c] = "creating"]
          /\ UNCHANGED <<workspaces_present, workspaces_pending, workspaces_answer, workspaces_gone,
                         workspaces_sessions, workspaces_binding, workspaces_previous, workspaces_missing>>
      BY <1>7, <2>2 DEF Workspaces!CreateWorktree
    <3>. QED
      BY <3>1 DEF Workspaces!Active, Workspaces!Records, Workspaces!OneOpens, Workspaces!Bound,
         Workspaces!Remembered
  <2>. QED  BY <2>1, <2>2
<1>8. ASSUME NEW c \in WorkspaceOpens, Workspaces!Create(c)
      PROVE  Workspaces!Bindings'
  <2>1. CASE Workspaces!Fails(c) /\ UNCHANGED <<workspaces_sessions, workspaces_cache>>
    BY <1>4, <1>8, <2>1 DEF Workspaces!Create, Workspaces!Fails, Workspaces!Active
  <2>2. CASE ~(Workspaces!Fails(c) /\ UNCHANGED <<workspaces_sessions, workspaces_cache>>)
    <3>1. /\ workspaces_stage[c] = "creating" /\ workspaces_stage' = [workspaces_stage EXCEPT ![c] = "created"]
          /\ workspaces_sessions' = workspaces_sessions \union {c}
          /\ workspaces_present \/ c \in Worktrees
          /\ UNCHANGED <<workspaces_present, workspaces_pending, workspaces_answer, workspaces_gone,
                         workspaces_binding, workspaces_previous, workspaces_missing>>
      BY <1>8, <2>2 DEF Workspaces!Create
    <3>2. Workspaces!Shapes'
      BY <3>1 DEF Workspaces!Active
    <3>3. Workspaces!Records'
      BY <3>1 DEF Workspaces!Records
    <3>4. Workspaces!OneOpens'
      BY <3>1 DEF Workspaces!OneOpens, Workspaces!Bound, Workspaces!Active
    <3>5. Workspaces!Remembered'
      BY <3>1 DEF Workspaces!Remembered, Workspaces!Bound, Workspaces!Active
    <3>. QED  BY <3>2, <3>3, <3>4, <3>5
  <2>. QED  BY <2>1, <2>2
<1>9. ASSUME NEW c \in WorkspaceOpens, Workspaces!Created(c)
      PROVE  Workspaces!Bindings'
  BY <1>4, <1>9 DEF Workspaces!Created, Workspaces!Fails, Workspaces!Active, Workspaces!Bound
<1>10. CASE Workspaces!UserEdits
  BY <1>10 DEF Workspaces!UserEdits, Workspaces!Records, Workspaces!OneOpens, Workspaces!Bound,
     Workspaces!Remembered
<1>11. CASE Workspaces!Restart
  <2>1. workspaces_stage' \in [WorkspaceOpens -> {"idle", "answered", "failed"}]
        /\ \A c \in WorkspaceOpens : workspaces_stage'[c] = "idle" => workspaces_stage[c] = "idle"
    BY <1>11 DEF Workspaces!Restart
  <2>. QED
    BY <1>11, <2>1 DEF Workspaces!Restart, Workspaces!Records, Workspaces!OneOpens,
       Workspaces!Bound,
       Workspaces!Remembered, Workspaces!Active
<1>12. CASE (\E c \in WorkspaceOpens : Workspaces!Use(c)) \/ UNCHANGED Workspaces!vars
  BY <1>12 DEF Workspaces!Use, Workspaces!vars, Workspaces!Records, Workspaces!OneOpens,
     Workspaces!Bound,
     Workspaces!Remembered, Workspaces!Active
<1>. QED
  BY <1>1, <1>2, <1>3, <1>5, <1>6, <1>7, <1>8, <1>9, <1>10, <1>11, <1>12 DEF Workspaces!Next

\* A conversation that is bound to a workspace loses it only when the directory has been missing.
LEMMA BindingStays ==
    ASSUME Workspaces!WorkspacesAssumption, Workspaces!Bindings, Workspaces!Next, NEW k \in Workspaces!Scopes,
           workspaces_binding[k] \notin {None, workspaces_binding'[k]}
    PROVE  workspaces_binding[k] \in workspaces_gone
PROOF
<1>. USE DEF Workspaces!Bindings, Workspaces!Shapes
<1>1. PICK c \in WorkspaceOpens : Workspaces!Bind(c) \/ Workspaces!Reuse(c) \/ Workspaces!Created(c)
  BY DEF Workspaces!Next, Workspaces!Enter, Workspaces!Stat, Workspaces!Prepare,
     Workspaces!Reused,
     Workspaces!CreateWorktree, Workspaces!Create, Workspaces!Use, Workspaces!UserEdits, Workspaces!Restart
<1>2. CASE Workspaces!Bind(c)
  <2>1. Workspaces!Bound(c) /\ k = Scope[c] /\ workspaces_missing[c] /\ workspaces_binding[k] = workspaces_previous[c]
    BY <1>2 DEF Workspaces!Bind, Workspaces!OneOpens
  <2>. QED  BY <1>2, <2>1 DEF Workspaces!Bind, Workspaces!Remembered, Workspaces!Active
<1>3. CASE Workspaces!Reuse(c)
  BY <1>3 DEF Workspaces!Reuse, Workspaces!Records
<1>4. CASE Workspaces!Created(c)
  BY <1>4 DEF Workspaces!Created, Workspaces!OneOpens, Workspaces!Bound
<1>. QED  BY <1>1, <1>2, <1>3, <1>4

\* The answer to a conversation is what it is bound to, and not what had lost its directory.
LEMMA AnswerBound ==
    ASSUME Workspaces!WorkspacesAssumption, Workspaces!Bindings, Workspaces!Next, NEW c \in WorkspaceOpens \ Worktrees,
           workspaces_stage[c] # "answered", workspaces_stage'[c] = "answered", Scope[c] # None
    PROVE  /\ workspaces_answer'[c] = workspaces_binding'[Scope[c]]
           /\ LET o == IF workspaces_stage[c] = "joined" THEN workspaces_pending[Scope[c]] ELSE c
              IN  workspaces_missing[o] => workspaces_answer'[c] # workspaces_previous[o]
PROOF
<1>. USE DEF Workspaces!Bindings
<1>0. None \notin WorkspaceOpens  BY DEF Workspaces!WorkspacesAssumption
<1>1. PICK d \in WorkspaceOpens : Workspaces!Reused(d) \/ Workspaces!Created(d)
  <2>1. ASSUME NEW d \in WorkspaceOpens, Workspaces!Fails(d),
               workspaces_stage[d] \in Workspaces!Active \union {"worktree"}
        PROVE  FALSE
    BY <2>1, OpenEnds DEF Workspaces!Fails
  <2>. QED
    BY <2>1 DEF Workspaces!Next, Workspaces!Enter, Workspaces!Stat, Workspaces!Prepare,
       Workspaces!Bind,
       Workspaces!Reuse, Workspaces!CreateWorktree, Workspaces!Create, Workspaces!Use, Workspaces!UserEdits,
       Workspaces!Restart, Workspaces!Goes, Workspaces!Shapes, Workspaces!Active
<1>2. PICK w \in WorkspaceOpens :
         /\ Workspaces!Ends(d, "answered", w)
         /\ \/ /\ workspaces_stage[d] = "reused" /\ w = workspaces_binding[Scope[d]]
               /\ UNCHANGED workspaces_binding
            \/ /\ workspaces_stage[d] = "created" /\ w = d
               /\ Workspaces!Bound(d) => workspaces_binding' = [workspaces_binding EXCEPT ![Scope[d]] = d]
  <2>1. ~Workspaces!Fails(d)
    BY <1>1, OpenEnds DEF Workspaces!Fails, Workspaces!Reused, Workspaces!Created,
       Workspaces!Active
  <2>2. CASE Workspaces!Reused(d)
    <3>1. Scope[d] \in Workspaces!Scopes /\ workspaces_binding[Scope[d]] # None
      BY <2>2 DEF Workspaces!Reused, Workspaces!OneOpens, Workspaces!Remembered, Workspaces!Bound,
         Workspaces!Scopes
    <3>2. workspaces_binding[Scope[d]] \in WorkspaceOpens
      BY <3>1 DEF Workspaces!Shapes
    <3>. QED  BY <2>1, <2>2, <3>2 DEF Workspaces!Reused
  <2>3. CASE Workspaces!Created(d)
    BY <2>1, <2>3 DEF Workspaces!Created, Workspaces!Bound
  <2>. QED  BY <1>1, <2>2, <2>3
<1>3. /\ workspaces_answer'[c] = w /\ Workspaces!Bound(d) /\ Scope[d] = Scope[c]
      /\ d = IF workspaces_stage[c] = "joined" THEN workspaces_pending[Scope[c]] ELSE c
  <2>1. workspaces_stage[d] \in Workspaces!Active
    BY <1>2 DEF Workspaces!Active
  <2>2. CASE c = d
    BY <1>2, <2>1, <2>2, OpenEnds DEF Workspaces!Bound
  <2>3. CASE c # d
    BY <1>2, <2>1, <2>3, OpenEnds DEF Workspaces!OneOpens
  <2>. QED  BY <2>2, <2>3
<1>4. Scope[c] \in Workspaces!Scopes
  BY DEF Workspaces!Scopes
<1>. QED
  BY <1>2, <1>3, <1>4 DEF Workspaces!Shapes, Workspaces!Remembered

\* The cache of workspaces never holds more than its limit.
LEMMA CacheWithout ==
    ASSUME workspaces_cache \in Seq(WorkspaceOpens), NEW w
    PROVE  Workspaces!Without(w) \in Seq(WorkspaceOpens) /\ Len(Workspaces!Without(w)) <= Len(workspaces_cache)
PROOF
<1>1. CASE Workspaces!Contains(workspaces_cache, w)
  <2>. DEFINE k == CHOOSE i \in DOMAIN workspaces_cache : workspaces_cache[i] = w
  <2>1. k \in 1..Len(workspaces_cache)
    BY <1>1 DEF Workspaces!Contains
  <2>2. Workspaces!Without(w) = Removed(workspaces_cache, k)
    BY <1>1 DEF Workspaces!Without, Workspaces!RemoveAt, Removed
  <2>. HIDE DEF k
  <2>3. /\ Removed(workspaces_cache, k) \in Seq(WorkspaceOpens)
        /\ Len(Removed(workspaces_cache, k)) = Len(workspaces_cache) - 1
    BY <2>1, RemovedAt
  <2>. QED  BY <2>2, <2>3, Len(workspaces_cache) \in Nat
<1>2. CASE ~Workspaces!Contains(workspaces_cache, w)
  BY <1>2 DEF Workspaces!Without
<1>. QED  BY <1>1, <1>2

LEMMA CacheRemembers ==
    ASSUME Workspaces!WorkspacesAssumption, Workspaces!Cached, NEW w \in WorkspaceOpens, Workspaces!Remember(w)
    PROVE  Workspaces!Cached'
PROOF
<1>. DEFINE r == Workspaces!Without(w)
            q == Append(r, w)
            m == IF Len(q) > MaxCached THEN Len(q) - MaxCached + 1 ELSE 1
<1>1. r \in Seq(WorkspaceOpens)
  BY CacheWithout DEF Workspaces!Cached
<1>. HIDE DEF r
<1>2. q \in Seq(WorkspaceOpens) /\ Len(q) \in Nat
  BY <1>1
<1>3. workspaces_cache' = SubSeq(q, m, Len(q))
  BY DEF Workspaces!Remember, r
<1>. HIDE DEF q
<1>4. m \in 1..(Len(q) + 1) /\ Len(q) - m + 1 <= MaxCached /\ MaxCached \in Nat
  BY <1>2 DEF Workspaces!WorkspacesAssumption
<1>. HIDE DEF m
<1>5. SubSeq(q, m, Len(q)) \in Seq(WorkspaceOpens) /\ Len(SubSeq(q, m, Len(q))) = Len(q) - m + 1
  BY <1>2, <1>4
<1>. QED  BY <1>3, <1>4, <1>5 DEF Workspaces!Cached

LEMMA CacheStep ==
    ASSUME Workspaces!WorkspacesAssumption, Workspaces!Bindings, Workspaces!Cached,
           [Workspaces!Next]_(Workspaces!vars)
    PROVE  Workspaces!Cached'
PROOF
<1>0. workspaces_sessions \subseteq WorkspaceOpens
  BY DEF Workspaces!Bindings, Workspaces!Shapes
<1>1. ASSUME UNCHANGED workspaces_cache
      PROVE  Workspaces!Cached'
  BY <1>1 DEF Workspaces!Cached
<1>2. ASSUME NEW w, workspaces_cache' = Workspaces!Without(w)
      PROVE  Workspaces!Cached'
  <2>1. /\ Workspaces!Without(w) \in Seq(WorkspaceOpens)
        /\ Len(Workspaces!Without(w)) <= Len(workspaces_cache)
    BY CacheWithout DEF Workspaces!Cached
  <2>. QED  BY <1>2, <2>1 DEF Workspaces!Cached, Workspaces!WorkspacesAssumption
<1>3. ASSUME NEW c \in WorkspaceOpens, Workspaces!Bind(c)
      PROVE  Workspaces!Cached'
  BY <1>1, <1>2, <1>3 DEF Workspaces!Bind
<1>4. ASSUME NEW c \in WorkspaceOpens, Workspaces!Reuse(c)
      PROVE  Workspaces!Cached'
  BY <1>0, <1>2, <1>4, CacheRemembers DEF Workspaces!Reuse
<1>5. ASSUME NEW c \in WorkspaceOpens, Workspaces!Create(c) \/ Workspaces!Use(c)
      PROVE  Workspaces!Cached'
  BY <1>0, <1>1, <1>5, CacheRemembers DEF Workspaces!Create, Workspaces!Use
<1>6. CASE Workspaces!Restart
  BY <1>6 DEF Workspaces!Restart, Workspaces!Cached, Workspaces!WorkspacesAssumption
<1>7. ASSUME NEW c \in WorkspaceOpens,
             \/ Workspaces!Enter(c) \/ Workspaces!Stat(c) \/ Workspaces!Prepare(c) \/ Workspaces!Reused(c)
             \/ Workspaces!CreateWorktree(c) \/ Workspaces!Created(c)
      PROVE  Workspaces!Cached'
  BY <1>1, <1>7 DEF Workspaces!Enter, Workspaces!Stat, Workspaces!Prepare, Workspaces!Reused,
     Workspaces!CreateWorktree, Workspaces!Created
<1>8. CASE Workspaces!UserEdits \/ UNCHANGED Workspaces!vars
  BY <1>1, <1>8 DEF Workspaces!UserEdits, Workspaces!vars
<1>. QED  BY <1>3, <1>4, <1>5, <1>6, <1>7, <1>8 DEF Workspaces!Next

\* For any calls, scopes and sizes of the cache, whatever opens overlap, fail or are cut off, a
\* conversation keeps its workspace and is told it (workspaces.ts, workspace-store.ts).
THEOREM ConversationsKeepWorkspaces ==
    ASSUME Workspaces!WorkspacesAssumption
    PROVE  Workspaces!Spec => []Workspaces!TypeOK /\ Workspaces!BindingsStable /\ Workspaces!AnswersBound
PROOF
<1>1. Workspaces!Init => Workspaces!IInv
  BY DEF Workspaces!WorkspacesAssumption, Workspaces!Init, Workspaces!IInv, Workspaces!Bindings,
     Workspaces!Cached, Workspaces!Shapes, Workspaces!Records, Workspaces!OneOpens,
     Workspaces!Remembered, Workspaces!Active
<1>2. Workspaces!IInv /\ [Workspaces!Next]_(Workspaces!vars) => Workspaces!IInv'
  BY WorkspaceStep, CacheStep DEF Workspaces!IInv
<1>3. Workspaces!IInv /\ [Workspaces!Next]_(Workspaces!vars) =>
        /\ [\A k \in Workspaces!Scopes : workspaces_binding[k] \notin {None, workspaces_binding'[k]} =>
                workspaces_binding[k] \in workspaces_gone]_(Workspaces!vars)
        /\ [\A c \in WorkspaceOpens \ Worktrees :
               workspaces_stage[c] # "answered" /\ workspaces_stage'[c] = "answered" /\ Scope[c] # None =>
                   /\ workspaces_answer'[c] = workspaces_binding'[Scope[c]]
                   /\ LET o == IF workspaces_stage[c] = "joined" THEN workspaces_pending[Scope[c]] ELSE c
                      IN  workspaces_missing[o] => workspaces_answer'[c] # workspaces_previous[o]]_(Workspaces!vars)
  BY BindingStays, AnswerBound DEF Workspaces!IInv
<1>4. Workspaces!IInv => Workspaces!TypeOK
  BY DEF Workspaces!IInv, Workspaces!Bindings, Workspaces!Cached, Workspaces!Shapes,
     Workspaces!Active,
     Workspaces!TypeOK
<1>. QED  BY <1>1, <1>2, <1>3, <1>4, PTL DEF Workspaces!Spec, Workspaces!BindingsStable,
             Workspaces!AnswersBound

-----------------------------------------------------------------------------
(* The database *)

\* The database e has what d has, and new columns in the tables ts only.
Starred(d) == \A c \in d.columns : <<c[1], "*">> \in d.columns
Adds(d, e, ts) ==
    /\ e \in Migrations!Databases /\ Starred(e)
    /\ e.applied = d.applied /\ e.thinking = d.thinking /\ e.effort = d.effort
    /\ d.columns \subseteq e.columns /\ \A c \in e.columns \ d.columns : c[1] \in ts

LEMMA AddsTwice ==
    ASSUME NEW a, NEW b, NEW c, NEW s, NEW t, Adds(a, b, s), Adds(b, c, t)
    PROVE  Adds(a, c, s \union t)
BY DEF Adds

\* Each statement adds what it says to its own table.
LEMMA ColumnsAdded ==
    ASSUME NEW d \in Migrations!Databases, Starred(d), NEW t, NEW cs,
           {t} \X cs \subseteq Migrations!Columns, "*" \in cs \/ <<t, "*">> \in d.columns
    PROVE  /\ Adds(d, Migrations!With(d, t, cs), {t})
           /\ {t} \X cs \subseteq Migrations!With(d, t, cs).columns
PROOF
<1>1. Migrations!With(d, t, cs) = [d EXCEPT !.columns = d.columns \union ({t} \X cs)]
  BY DEF Migrations!With, Migrations!Databases
<1>2. Migrations!With(d, t, cs) \in Migrations!Databases
  BY <1>1 DEF Migrations!Databases
<1>3. /\ Migrations!With(d, t, cs).columns = d.columns \union ({t} \X cs)
      /\ Migrations!With(d, t, cs).applied = d.applied
      /\ Migrations!With(d, t, cs).thinking = d.thinking
      /\ Migrations!With(d, t, cs).effort = d.effort
  BY <1>1 DEF Migrations!Databases
<1>4. Starred(Migrations!With(d, t, cs))
  BY <1>3 DEF Starred
<1>. QED  BY <1>2, <1>3, <1>4 DEF Adds

LEMMA TableThere ==
    ASSUME NEW d \in Migrations!Databases, Starred(d), NEW t, NEW cs,
           {t} \X cs \subseteq Migrations!Columns, "*" \in cs
    PROVE  /\ Adds(d, Migrations!CreateIfMissing(d, t, cs), {t})
           /\ <<t, "*">> \in Migrations!CreateIfMissing(d, t, cs).columns
PROOF
<1>1. CASE Migrations!HasTable(d, t)
  BY <1>1 DEF Migrations!HasTable, Migrations!CreateIfMissing, Adds, Starred
<1>2. CASE ~Migrations!HasTable(d, t)
  BY <1>2, ColumnsAdded DEF Migrations!CreateIfMissing
<1>. QED  BY <1>1, <1>2

LEMMA ColumnThere ==
    ASSUME Migrations!MigrationsAssumption,
           NEW d \in Migrations!Databases, Starred(d), NEW t, NEW c,
           <<t, c>> \in Migrations!Columns, <<t, "*">> \in d.columns
    PROVE  /\ Adds(d, Migrations!AddColumnIfMissing(d, t, c), {t})
           /\ <<t, c>> \in Migrations!AddColumnIfMissing(d, t, c).columns
PROOF
<1>1. d # None /\ Migrations!HasTable(d, t)
  BY DEF Migrations!HasTable, Migrations!MigrationsAssumption
<1>2. Migrations!AddColumnIfMissing(d, t, c) = Migrations!With(d, t, {c})
  BY <1>1 DEF Migrations!AddColumnIfMissing
<1>. QED  BY <1>2, ColumnsAdded

LEMMA TablesCreated ==
    ASSUME NEW d \in Migrations!Databases, Starred(d), NEW ts,
           ts \X {"*"} \subseteq Migrations!Columns, \A t \in ts : ~Migrations!HasTable(d, t)
    PROVE  /\ Adds(d, Migrations!Create(d, ts), ts)
           /\ ts \X {"*"} \subseteq Migrations!Create(d, ts).columns
PROOF
<1>1. Migrations!Create(d, ts) = [d EXCEPT !.columns = d.columns \union (ts \X {"*"})]
  BY DEF Migrations!Create, Migrations!Databases
<1>2. Migrations!Create(d, ts) \in Migrations!Databases
  BY <1>1 DEF Migrations!Databases
<1>3. /\ Migrations!Create(d, ts).columns = d.columns \union (ts \X {"*"})
      /\ Migrations!Create(d, ts).applied = d.applied
      /\ Migrations!Create(d, ts).thinking = d.thinking
      /\ Migrations!Create(d, ts).effort = d.effort
  BY <1>1 DEF Migrations!Databases
<1>4. Starred(Migrations!Create(d, ts))
  BY <1>3 DEF Starred
<1>. QED  BY <1>2, <1>3, <1>4 DEF Adds

\* A migration that adds what it promises, and nothing that a later one creates, leaves a
\* sound database; the sixth is a case of its own.
LEMMA AddingIsSound ==
    ASSUME Migrations!MigrationsAssumption, NEW level, NEW d, Migrations!Sound(d, level),
           NEW v \in 1..13, v \notin d.applied, v # 6,
           NEW ts, Adds(d, Migrations!Up(d, v), ts),
           Migrations!Promised(v) \subseteq Migrations!Up(d, v).columns,
           \A w \in {10, 11, 13} \ {v} : Migrations!Creates(w) \intersect ts = {}
    PROVE  /\ Migrations!Up(d, v) # None
           /\ Migrations!Sound(Migrations!Upgraded(d, v), level)
           /\ Migrations!Upgraded(d, v).applied = d.applied \union {v}
           /\ Migrations!Upgraded(d, v).thinking \in {d.thinking, None}
PROOF
<1>. DEFINE e == Migrations!Up(d, v)
            u == Migrations!Upgraded(d, v)
<1>1. e \in Migrations!Databases
  BY DEF Adds
<1>. HIDE DEF e
<1>2. u = [e EXCEPT !.applied = e.applied \union {v}]
  BY <1>1 DEF Migrations!Upgraded, Migrations!Databases, e
<1>3. /\ u \in Migrations!Databases /\ u.applied = d.applied \union {v} /\ u.columns = e.columns
      /\ u.thinking = d.thinking /\ u.effort = d.effort
  BY <1>1, <1>2 DEF Migrations!Databases, Migrations!Latest, Adds, e
<1>. HIDE DEF u
<1>4. Adds(d, e, ts) /\ Migrations!Promised(v) \subseteq e.columns
  BY DEF e
<1>5. \A c \in u.columns : <<c[1], "*">> \in u.columns
  BY <1>3, <1>4 DEF Adds, Starred
<1>6. \A w \in u.applied : Migrations!Promised(w) \subseteq u.columns
  BY <1>3, <1>4 DEF Adds, Migrations!Sound
<1>7. ASSUME NEW w \in {10, 11, 13} \ u.applied, NEW t \in Migrations!Creates(w),
             Migrations!HasTable(u, t)
      PROVE  FALSE
  <2>1. PICK c \in e.columns : c[1] = t
    BY <1>3, <1>7 DEF Migrations!HasTable
  <2>2. w # v /\ w \notin d.applied
    BY <1>3
  <2>3. c \notin d.columns
    BY <2>1, <2>2, <1>7 DEF Migrations!Sound, Migrations!HasTable
  <2>. QED  BY <2>1, <2>2, <2>3, <1>4 DEF Adds
<1>8. Migrations!Level(u, level)
  BY <1>3, <1>4 DEF Migrations!Level, Migrations!Sound, Adds
<1>9. Migrations!Sound(u, level)
  BY <1>3, <1>5, <1>6, <1>7, <1>8 DEF Migrations!Sound
<1>10. e # None
  BY <1>1 DEF Migrations!MigrationsAssumption
<1>. QED  BY <1>3, <1>9, <1>10 DEF e, u

\* The names of the schema, written out.
LEMMA Names ==
    /\ Migrations!Ws = "workspace_sessions" /\ Migrations!Las = "local_agent_sessions"
    /\ Migrations!Claims = "execution_claims"
    /\ {Migrations!Ws} \X ({"*"} \union Migrations!WorkspaceColumns) \subseteq Migrations!Columns
    /\ {Migrations!Las} \X ({"*", "effort", "thinking", "error_code", "error_retryable", "progress"}
                               \union Migrations!AffinityColumns) \subseteq Migrations!Columns
    /\ {Migrations!Claims} \X {"*", "access_mode", "thread_key"} \subseteq Migrations!Columns
    /\ {"loaded_agent_files", "workspace_conversation_bindings", "oauth_clients",
         "oauth_access_tokens", "oauth_refresh_tokens", "execution_waiters", "agent_continue_keys",
         "agent_task_keys", "agent_usage_snapshots", "web_command_receipts"} \X {"*"}
          \subseteq Migrations!Columns
    /\ Migrations!ConsoleTables \X {"*"} \subseteq Migrations!Columns
BY DEF Migrations!Columns, Migrations!Schema, Migrations!SessionSchema, Migrations!AgentSchema,
   Migrations!CoordinationSchema, Migrations!ConsoleSchema, Migrations!Ws, Migrations!Las, Migrations!Claims

LEMMA FirstMigrations ==
    ASSUME Migrations!MigrationsAssumption, NEW level, NEW d, Migrations!Sound(d, level),
           NEW v \in {1, 2, 3, 4}
    PROVE  \E ts : /\ Adds(d, Migrations!Up(d, v), ts)
                   /\ Migrations!Promised(v) \subseteq Migrations!Up(d, v).columns
                   /\ \A w \in {10, 11, 13} \ {v} : Migrations!Creates(w) \intersect ts = {}
PROOF
<1>0. d \in Migrations!Databases /\ Starred(d)
  BY DEF Migrations!Sound, Starred
<1>1. CASE v = 1
  <2>. DEFINE wc == {"*"} \union Migrations!WorkspaceColumns
              a == Migrations!CreateIfMissing(d, Migrations!Ws, wc)
              b == Migrations!CreateIfMissing(a, "loaded_agent_files", {"*"})
              c == Migrations!With(b, Migrations!Ws, Migrations!WorkspaceColumns)
  <2>0. /\ {Migrations!Ws} \X wc \subseteq Migrations!Columns /\ "*" \in wc
        /\ {Migrations!Ws} \X Migrations!WorkspaceColumns \subseteq Migrations!Columns
        /\ {"loaded_agent_files"} \X {"*"} \subseteq Migrations!Columns
    BY Names
  <2>. HIDE DEF wc
  <2>1. Adds(d, a, {Migrations!Ws}) /\ <<Migrations!Ws, "*">> \in a.columns
    BY <1>0, <2>0, TableThere
  <2>. HIDE DEF a
  <2>2. Adds(a, b, {"loaded_agent_files"}) /\ <<"loaded_agent_files", "*">> \in b.columns
    BY <2>0, <2>1, TableThere DEF Adds
  <2>. HIDE DEF b
  <2>3. <<Migrations!Ws, "*">> \in b.columns
    BY <2>1, <2>2 DEF Adds
  <2>4. /\ Adds(b, c, {Migrations!Ws})
        /\ {Migrations!Ws} \X Migrations!WorkspaceColumns \subseteq c.columns
    BY <2>0, <2>2, <2>3, ColumnsAdded DEF Adds
  <2>. HIDE DEF c
  <2>5. Adds(d, c, {Migrations!Ws} \union {"loaded_agent_files"} \union {Migrations!Ws})
    BY <2>1, <2>2, <2>4, AddsTwice
  <2>6. Migrations!Promised(1) \subseteq c.columns
    BY <2>2, <2>3, <2>4 DEF Migrations!Promised, Adds
  <2>7. Migrations!Up(d, 1) = c
    BY DEF Migrations!Up, Migrations!MigrateWorkspaceState, a, b, c, wc
  <2>8. \A w \in {10, 11, 13} :
           Migrations!Creates(w) \intersect ({Migrations!Ws} \union {"loaded_agent_files"} \union {Migrations!Ws}) = {}
    BY DEF Migrations!Creates, Migrations!ConsoleTables, Migrations!Ws
  <2>. QED  BY <1>1, <2>5, <2>6, <2>7, <2>8
<1>2. CASE v = 2
  <2>. DEFINE a == Migrations!CreateIfMissing(d, "oauth_clients", {"*"})
              b == Migrations!CreateIfMissing(a, "oauth_access_tokens", {"*"})
              c == Migrations!CreateIfMissing(b, "oauth_refresh_tokens", {"*"})
  <2>0. \A t \in {"oauth_clients", "oauth_access_tokens", "oauth_refresh_tokens"} :
           {t} \X {"*"} \subseteq Migrations!Columns
    BY Names
  <2>1. Adds(d, a, {"oauth_clients"}) /\ <<"oauth_clients", "*">> \in a.columns
    BY <1>0, <2>0, TableThere
  <2>. HIDE DEF a
  <2>2. Adds(a, b, {"oauth_access_tokens"}) /\ <<"oauth_access_tokens", "*">> \in b.columns
    BY <2>0, <2>1, TableThere DEF Adds
  <2>. HIDE DEF b
  <2>3. Adds(b, c, {"oauth_refresh_tokens"}) /\ <<"oauth_refresh_tokens", "*">> \in c.columns
    BY <2>0, <2>2, TableThere DEF Adds
  <2>. HIDE DEF c
  <2>4. Adds(d, c, {"oauth_clients"} \union {"oauth_access_tokens"} \union {"oauth_refresh_tokens"})
    BY <2>1, <2>2, <2>3, AddsTwice
  <2>5. Migrations!Promised(2) \subseteq c.columns
    BY <2>1, <2>2, <2>3 DEF Migrations!Promised, Adds
  <2>6. Migrations!Up(d, 2) = c
    BY DEF Migrations!Up, Migrations!MigrateOAuthState, a, b, c
  <2>7. \A w \in {10, 11, 13} :
           Migrations!Creates(w)
              \intersect ({"oauth_clients"} \union {"oauth_access_tokens"} \union {"oauth_refresh_tokens"}) = {}
    BY DEF Migrations!Creates, Migrations!ConsoleTables
  <2>. QED  BY <1>2, <2>4, <2>5, <2>6, <2>7
<1>3. CASE v = 3
  <2>. DEFINE a == Migrations!CreateIfMissing(d, Migrations!Las, {"*", "effort"})
              b == Migrations!AddColumnIfMissing(a, Migrations!Las, "effort")
  <2>0. /\ {Migrations!Las} \X {"*", "effort"} \subseteq Migrations!Columns
        /\ <<Migrations!Las, "effort">> \in Migrations!Columns
    BY Names
  <2>1. Adds(d, a, {Migrations!Las}) /\ <<Migrations!Las, "*">> \in a.columns
    BY <1>0, <2>0, TableThere
  <2>. HIDE DEF a
  <2>2. Adds(a, b, {Migrations!Las})
    BY <2>0, <2>1, ColumnThere DEF Adds
  <2>. HIDE DEF b
  <2>3. Adds(d, b, {Migrations!Las} \union {Migrations!Las})
    BY <2>1, <2>2, AddsTwice
  <2>4. Migrations!Promised(3) \subseteq b.columns
    BY <2>1, <2>2 DEF Migrations!Promised, Adds
  <2>5. Migrations!Up(d, 3) = b
    BY DEF Migrations!Up, Migrations!MigrateLocalAgentSessions, a, b
  <2>6. \A w \in {10, 11, 13} : Migrations!Creates(w) \intersect ({Migrations!Las} \union {Migrations!Las}) = {}
    BY DEF Migrations!Creates, Migrations!ConsoleTables, Migrations!Las
  <2>. QED  BY <1>3, <2>3, <2>4, <2>5, <2>6
<1>4. CASE v = 4
  <2>. DEFINE a == Migrations!CreateIfMissing(d, "workspace_conversation_bindings", {"*"})
  <2>0. {"workspace_conversation_bindings"} \X {"*"} \subseteq Migrations!Columns
    BY Names
  <2>1. Adds(d, a, {"workspace_conversation_bindings"}) /\ <<"workspace_conversation_bindings", "*">> \in a.columns
    BY <1>0, <2>0, TableThere
  <2>. HIDE DEF a
  <2>2. Migrations!Promised(4) \subseteq a.columns
    BY <2>1 DEF Migrations!Promised
  <2>3. Migrations!Up(d, 4) = a
    BY DEF Migrations!Up, Migrations!MigrateBindings, a
  <2>4. \A w \in {10, 11, 13} : Migrations!Creates(w) \intersect {"workspace_conversation_bindings"} = {}
    BY DEF Migrations!Creates, Migrations!ConsoleTables
  <2>. QED  BY <1>4, <2>1, <2>2, <2>3, <2>4
<1>. QED  BY <1>1, <1>2, <1>3, <1>4

LEMMA LaterMigrations ==
    ASSUME Migrations!MigrationsAssumption, NEW level, NEW d, Migrations!Sound(d, level),
           NEW v \in {5, 7, 8, 9, 12}, 1..(v - 1) \subseteq d.applied
    PROVE  \E ts : /\ Adds(d, Migrations!Up(d, v), ts)
                   /\ Migrations!Promised(v) \subseteq Migrations!Up(d, v).columns
                   /\ \A w \in {10, 11, 13} \ {v} : Migrations!Creates(w) \intersect ts = {}
PROOF
<1>0. d \in Migrations!Databases /\ Starred(d)
  BY DEF Migrations!Sound, Starred
<1>. <<Migrations!Las, "*">> \in d.columns
  <2>1. 3 \in d.applied
    OBVIOUS
  <2>. QED  BY <2>1 DEF Migrations!Sound, Migrations!Promised
<1>. /\ <<Migrations!Las, "error_code">> \in Migrations!Columns
     /\ <<Migrations!Las, "error_retryable">> \in Migrations!Columns
     /\ <<Migrations!Las, "progress">> \in Migrations!Columns
  BY Names
<1>. \A w \in {10, 11, 13} : Migrations!Creates(w) \intersect {Migrations!Las} = {}
  BY DEF Migrations!Creates, Migrations!ConsoleTables, Migrations!Las
<1>1. CASE v = 5
  <2>. DEFINE a == Migrations!AddColumnIfMissing(d, Migrations!Las, "error_code")
              b == Migrations!AddColumnIfMissing(a, Migrations!Las, "error_retryable")
  <2>1. Adds(d, a, {Migrations!Las}) /\ <<Migrations!Las, "error_code">> \in a.columns
    BY <1>0, ColumnThere
  <2>. HIDE DEF a
  <2>2. Adds(a, b, {Migrations!Las}) /\ <<Migrations!Las, "error_retryable">> \in b.columns
    BY <2>1, ColumnThere DEF Adds
  <2>. HIDE DEF b
  <2>3. Adds(d, b, {Migrations!Las})
    BY <2>1, <2>2, AddsTwice DEF Adds
  <2>4. Migrations!Promised(5) \subseteq b.columns
    BY <2>1, <2>2 DEF Migrations!Promised, Adds
  <2>5. Migrations!Up(d, 5) = b
    BY DEF Migrations!Up, Migrations!MigrateStructuredErrors, a, b
  <2>. QED  BY <1>1, <2>3, <2>4, <2>5
<1>2. CASE v = 7
  <2>. DEFINE a == Migrations!CreateIfMissing(d, Migrations!Claims, {"*"})
  <2>0. {Migrations!Claims} \X {"*"} \subseteq Migrations!Columns
    BY Names
  <2>1. Adds(d, a, {Migrations!Claims}) /\ <<Migrations!Claims, "*">> \in a.columns
    BY <1>0, <2>0, TableThere
  <2>. HIDE DEF a
  <2>2. Migrations!Promised(7) \subseteq a.columns
    BY <2>1 DEF Migrations!Promised
  <2>3. Migrations!Up(d, 7) = a
    BY DEF Migrations!Up, Migrations!MigrateCoordination, a
  <2>4. \A w \in {10, 11, 13} : Migrations!Creates(w) \intersect {Migrations!Claims} = {}
    BY DEF Migrations!Creates, Migrations!ConsoleTables, Migrations!Claims
  <2>. QED  BY <1>2, <2>1, <2>2, <2>3, <2>4
<1>3. CASE v = 8
  <2>. DEFINE a == Migrations!CreateIfMissing(d, "agent_task_keys", {"*"})
  <2>0. {"agent_task_keys"} \X {"*"} \subseteq Migrations!Columns
    BY Names
  <2>1. Adds(d, a, {"agent_task_keys"}) /\ <<"agent_task_keys", "*">> \in a.columns
    BY <1>0, <2>0, TableThere
  <2>. HIDE DEF a
  <2>2. Migrations!Promised(8) \subseteq a.columns
    BY <2>1 DEF Migrations!Promised
  <2>3. Migrations!Up(d, 8) = a
    BY DEF Migrations!Up, Migrations!MigrateTaskKeys, a
  <2>4. \A w \in {10, 11, 13} : Migrations!Creates(w) \intersect {"agent_task_keys"} = {}
    BY DEF Migrations!Creates, Migrations!ConsoleTables, Migrations!Claims
  <2>. QED  BY <1>3, <2>1, <2>2, <2>3, <2>4
<1>4. CASE v = 9
  <2>. DEFINE a == Migrations!CreateIfMissing(d, "agent_usage_snapshots", {"*"})
  <2>0. {"agent_usage_snapshots"} \X {"*"} \subseteq Migrations!Columns
    BY Names
  <2>1. Adds(d, a, {"agent_usage_snapshots"}) /\ <<"agent_usage_snapshots", "*">> \in a.columns
    BY <1>0, <2>0, TableThere
  <2>. HIDE DEF a
  <2>2. Migrations!Promised(9) \subseteq a.columns
    BY <2>1 DEF Migrations!Promised
  <2>3. Migrations!Up(d, 9) = a
    BY DEF Migrations!Up, Migrations!MigrateUsageSnapshots, a
  <2>4. \A w \in {10, 11, 13} : Migrations!Creates(w) \intersect {"agent_usage_snapshots"} = {}
    BY DEF Migrations!Creates, Migrations!ConsoleTables, Migrations!Claims
  <2>. QED  BY <1>4, <2>1, <2>2, <2>3, <2>4
<1>5. CASE v = 12
  <2>. DEFINE a == Migrations!AddColumnIfMissing(d, Migrations!Las, "progress")
  <2>1. Adds(d, a, {Migrations!Las}) /\ <<Migrations!Las, "progress">> \in a.columns
    BY <1>0, ColumnThere
  <2>. HIDE DEF a
  <2>2. Migrations!Promised(12) \subseteq a.columns
    BY <2>1 DEF Migrations!Promised
  <2>3. Migrations!Up(d, 12) = a
    BY DEF Migrations!Up, Migrations!MigrateProgress, a
  <2>. QED  BY <1>5, <2>1, <2>2, <2>3
<1>. QED  BY <1>1, <1>2, <1>3, <1>4, <1>5

\* Tables that are created without asking are not there before.
LEMMA CreatingMigrations ==
    ASSUME Migrations!MigrationsAssumption, NEW level, NEW d, Migrations!Sound(d, level),
           NEW v \in {10, 11, 13}, v \notin d.applied, 1..(v - 1) \subseteq d.applied
    PROVE  \E ts : /\ Adds(d, Migrations!Up(d, v), ts)
                   /\ Migrations!Promised(v) \subseteq Migrations!Up(d, v).columns
                   /\ \A w \in {10, 11, 13} \ {v} : Migrations!Creates(w) \intersect ts = {}
PROOF
<1>0. d \in Migrations!Databases /\ Starred(d)
  BY DEF Migrations!Sound, Starred
<1>1. \A t \in Migrations!Creates(v) : ~Migrations!HasTable(d, t)
  BY DEF Migrations!Sound
<1>2. CASE v = 10
  <2>. DEFINE cl == {"access_mode", "thread_key"}
              new == {"execution_waiters", "agent_continue_keys"}
              a == Migrations!With(d, Migrations!Claims, cl)
              b == Migrations!With(a, Migrations!Las, Migrations!AffinityColumns)
              c == Migrations!Create(b, new)
  <2>0. /\ {Migrations!Claims} \X cl \subseteq Migrations!Columns
        /\ {Migrations!Las} \X Migrations!AffinityColumns \subseteq Migrations!Columns
        /\ new \X {"*"} \subseteq Migrations!Columns
    BY Names
  <2>1. <<Migrations!Claims, "*">> \in d.columns /\ <<Migrations!Las, "*">> \in d.columns
    <3>1. 3 \in d.applied /\ 7 \in d.applied
      BY <1>2
    <3>. QED  BY <3>1 DEF Migrations!Sound, Migrations!Promised
  <2>2. Adds(d, a, {Migrations!Claims}) /\ {Migrations!Claims} \X cl \subseteq a.columns
    BY <1>0, <2>0, <2>1, ColumnsAdded
  <2>3. /\ Adds(a, b, {Migrations!Las})
        /\ {Migrations!Las} \X Migrations!AffinityColumns \subseteq b.columns
    <3>1. a \in Migrations!Databases /\ Starred(a) /\ <<Migrations!Las, "*">> \in a.columns
      BY <2>1, <2>2 DEF Adds
    <3>. HIDE DEF a
    <3>. QED  BY <2>0, <3>1, ColumnsAdded
  <2>. HIDE DEF a, b
  <2>4. Adds(d, b, {Migrations!Claims} \union {Migrations!Las})
    BY <2>2, <2>3, AddsTwice
  <2>5. \A t \in new : ~Migrations!HasTable(b, t)
    BY <1>1, <1>2, <2>4 DEF Adds, Migrations!HasTable, Migrations!Creates, Migrations!Claims,
       Migrations!Las
  <2>6. Adds(b, c, new) /\ new \X {"*"} \subseteq c.columns
    BY <2>0, <2>4, <2>5, TablesCreated DEF Adds
  <2>. HIDE DEF c
  <2>7. Adds(d, c, {Migrations!Claims} \union {Migrations!Las} \union new)
    BY <2>4, <2>6, AddsTwice
  <2>8. Migrations!Promised(10) \subseteq c.columns
    BY <2>2, <2>3, <2>6 DEF Migrations!Promised, Adds
  <2>9. Migrations!Up(d, 10) = c
    <3>1. Migrations!HasTable(d, Migrations!Claims) /\ Migrations!HasTable(d, Migrations!Las)
      BY <2>1 DEF Migrations!HasTable
    <3>. QED  BY <3>1 DEF Migrations!Up, Migrations!MigrateAffinity, a, b, c
  <2>10. \A w \in {11, 13} : Migrations!Creates(w) \intersect ({Migrations!Claims} \union {Migrations!Las} \union new) = {}
    BY DEF Migrations!Creates, Migrations!ConsoleTables, Migrations!Claims, Migrations!Las
  <2>. QED  BY <1>2, <2>7, <2>8, <2>9, <2>10
<1>3. CASE v = 11
  <2>. DEFINE a == Migrations!Create(d, Migrations!ConsoleTables)
  <2>1. Adds(d, a, Migrations!ConsoleTables) /\ Migrations!ConsoleTables \X {"*"} \subseteq a.columns
    BY <1>0, <1>1, <1>3, Names, TablesCreated DEF Migrations!Creates
  <2>. HIDE DEF a
  <2>2. Migrations!Promised(11) \subseteq a.columns
    BY <2>1 DEF Migrations!Promised
  <2>3. Migrations!Up(d, 11) = a
    BY DEF Migrations!Up, Migrations!MigrateProjectConsole, a
  <2>4. \A w \in {10, 13} : Migrations!Creates(w) \intersect Migrations!ConsoleTables = {}
    BY DEF Migrations!Creates, Migrations!ConsoleTables
  <2>. QED  BY <1>3, <2>1, <2>2, <2>3, <2>4
<1>4. CASE v = 13
  <2>. DEFINE new == {"web_command_receipts"}
              a == Migrations!Create(d, new)
  <2>0. new \X {"*"} \subseteq Migrations!Columns
    BY Names
  <2>1. Adds(d, a, new) /\ new \X {"*"} \subseteq a.columns
    BY <1>0, <1>1, <1>4, <2>0, TablesCreated DEF Migrations!Creates
  <2>. HIDE DEF a
  <2>2. Migrations!Promised(13) \subseteq a.columns
    BY <2>1 DEF Migrations!Promised
  <2>3. Migrations!Up(d, 13) = a
    BY DEF Migrations!Up, Migrations!MigrateReceipts, a
  <2>4. \A w \in {10, 11} : Migrations!Creates(w) \intersect new = {}
    BY DEF Migrations!Creates, Migrations!ConsoleTables
  <2>. QED  BY <1>4, <2>1, <2>2, <2>3, <2>4
<1>. QED  BY <1>2, <1>3, <1>4

\* The level keeps its value when its column gets its new name, also where a column of that
\* name is there already.
LEMMA RenameIsSound ==
    ASSUME Migrations!MigrationsAssumption, NEW level, NEW d, Migrations!Sound(d, level),
           6 \notin d.applied, 1..5 \subseteq d.applied
    PROVE  /\ Migrations!Up(d, 6) # None
           /\ Migrations!Sound(Migrations!Upgraded(d, 6), level)
           /\ Migrations!Upgraded(d, 6).applied = d.applied \union {6}
           /\ Migrations!Upgraded(d, 6).thinking \in {d.thinking, None}
PROOF
<1>. DEFINE old == <<Migrations!Las, "thinking">>
            new == <<Migrations!Las, "effort">>
            e == Migrations!MigrateEffortRename(d)
            u == Migrations!Upgraded(d, 6)
<1>1. /\ d \in Migrations!Databases /\ Starred(d) /\ <<Migrations!Las, "*">> \in d.columns
      /\ new \in Migrations!Columns /\ old # new /\ <<Migrations!Las, "*">> # old
      /\ d.effort = None /\ d.thinking = level /\ (d.thinking # None => old \in d.columns)
  <2>1. 3 \in d.applied
    OBVIOUS
  <2>. QED  BY <2>1, Names DEF Migrations!Sound, Migrations!Promised, Migrations!Level, Starred
<1>2. /\ e \in Migrations!Databases /\ e.applied = d.applied /\ new \in e.columns /\ e.effort = level
      /\ e.thinking \in {d.thinking, None}
      /\ d.columns \ {old} \subseteq e.columns /\ e.columns \subseteq d.columns \union {new}
  <2>1. CASE new \in d.columns
    <3>1. e = IF old \in d.columns THEN [d EXCEPT !.effort = d.thinking] ELSE d
      BY <1>1, <2>1 DEF Migrations!MigrateEffortRename
    <3>2. CASE old \in d.columns
      BY <1>1, <2>1, <3>1, <3>2 DEF Migrations!Databases
    <3>3. CASE old \notin d.columns
      BY <1>1, <2>1, <3>1, <3>3
    <3>. QED  BY <3>2, <3>3
  <2>2. CASE new \notin d.columns /\ old \notin d.columns
    <3>1. e = Migrations!AddColumnIfMissing(d, Migrations!Las, "effort")
      BY <2>2 DEF Migrations!MigrateEffortRename
    <3>2. Adds(d, e, {Migrations!Las}) /\ new \in e.columns
      BY <1>1, <3>1, ColumnThere
    <3>3. e.columns = d.columns \union {new}
      <4>1. d # None /\ Migrations!HasTable(d, Migrations!Las)
        BY <1>1 DEF Migrations!HasTable, Migrations!MigrationsAssumption
      <4>2. e = [d EXCEPT !.columns = d.columns \union ({Migrations!Las} \X {"effort"})]
        BY <1>1, <3>1, <4>1 DEF Migrations!AddColumnIfMissing, Migrations!With,
           Migrations!Databases
      <4>. HIDE DEF e
      <4>. QED  BY <1>1, <4>2 DEF Migrations!Databases
    <3>. HIDE DEF e
    <3>. QED  BY <1>1, <2>2, <3>2, <3>3 DEF Adds
  <2>3. CASE new \notin d.columns /\ old \in d.columns
    <3>1. e = [d EXCEPT !.columns = (d.columns \union {new}) \ {old},
                        !.effort = d.thinking, !.thinking = None]
      <4>1. Migrations!With(d, Migrations!Las, {"effort"})
               = [d EXCEPT !.columns = d.columns \union ({Migrations!Las} \X {"effort"})]
        BY <1>1 DEF Migrations!With, Migrations!Databases
      <4>2. {Migrations!Las} \X {"effort"} = {new}
        OBVIOUS
      <4>3. e = [[d EXCEPT !.columns = d.columns \union {new}]
                   EXCEPT !.columns = @ \ {old}, !.effort = d.thinking, !.thinking = None]
        BY <2>3, <4>1, <4>2 DEF Migrations!MigrateEffortRename
      <4>. HIDE DEF e
      <4>. QED  BY <1>1, <4>3 DEF Migrations!Databases
    <3>. HIDE DEF e
    <3>. QED  BY <1>1, <2>3, <3>1 DEF Migrations!Databases, Migrations!Levels
  <2>. QED  BY <2>1, <2>2, <2>3
<1>3. Migrations!Up(d, 6) = e
  BY DEF Migrations!Up
<1>. HIDE DEF e
<1>4. u = [e EXCEPT !.applied = e.applied \union {6}]
  BY <1>2, <1>3 DEF Migrations!Upgraded, Migrations!Databases
<1>5. /\ u \in Migrations!Databases /\ u.applied = d.applied \union {6} /\ u.columns = e.columns
      /\ u.effort = level /\ u.thinking \in {d.thinking, None}
  BY <1>2, <1>4 DEF Migrations!Databases, Migrations!Latest
<1>. HIDE DEF u
<1>6. \A c \in u.columns : <<c[1], "*">> \in u.columns
  <2>1. \A c \in u.columns : <<c[1], "*">> \in d.columns
    <3>1. \A c \in u.columns : c \in d.columns \/ c = new
      BY <1>2, <1>5
    <3>2. new[1] = Migrations!Las
      OBVIOUS
    <3>. HIDE DEF new, old
    <3>. QED  BY <1>1, <3>1, <3>2 DEF Starred
  <2>2. \A t : <<t, "*">> # old
    OBVIOUS
  <2>. QED  BY <1>2, <1>5, <2>1, <2>2
<1>7. \A w \in u.applied : Migrations!Promised(w) \subseteq u.columns
  <2>1. \A w \in d.applied : old \notin Migrations!Promised(w)
    <3>1. d.applied \subseteq 1..13
      BY <1>1 DEF Migrations!Databases, Migrations!Latest
    <3>2. \A w \in 1..13 : old \notin Migrations!Promised(w)
      BY DEF Migrations!Promised, Migrations!Las, Migrations!Ws, Migrations!Claims,
         Migrations!AffinityColumns,
         Migrations!ConsoleTables
    <3>. QED  BY <3>1, <3>2
  <2>2. Migrations!Promised(6) = {new}
    BY DEF Migrations!Promised
  <2>. QED  BY <1>2, <1>5, <2>1, <2>2 DEF Migrations!Sound
<1>8. \A w \in {10, 11, 13} \ u.applied : \A t \in Migrations!Creates(w) : ~Migrations!HasTable(u, t)
  <2>1. \A w \in {10, 11, 13} : Migrations!Las \notin Migrations!Creates(w)
    BY DEF Migrations!Creates, Migrations!ConsoleTables, Migrations!Las
  <2>. QED  BY <1>2, <1>5, <2>1 DEF Migrations!Sound, Migrations!HasTable
<1>9. Migrations!Level(u, level)
  BY <1>5 DEF Migrations!Level
<1>10. Migrations!Sound(u, level)
  BY <1>5, <1>6, <1>7, <1>8, <1>9 DEF Migrations!Sound
<1>11. e # None
  BY <1>2 DEF Migrations!MigrationsAssumption
<1>. QED  BY <1>3, <1>5, <1>10, <1>11 DEF u

\* Every migration leaves a sound database when those before it have been applied.
LEMMA MigrationIsSound ==
    ASSUME Migrations!MigrationsAssumption, NEW level, NEW d, Migrations!Sound(d, level),
           NEW v \in 1..13, v \notin d.applied, 1..(v - 1) \subseteq d.applied
    PROVE  /\ Migrations!Up(d, v) # None
           /\ Migrations!Sound(Migrations!Upgraded(d, v), level)
           /\ Migrations!Upgraded(d, v).applied = d.applied \union {v}
           /\ Migrations!Upgraded(d, v).thinking \in {d.thinking, None}
PROOF
<1>1. CASE v = 6
  <2>1. 6 \notin d.applied /\ 1..5 \subseteq d.applied
    BY <1>1
  <2>2. /\ Migrations!Up(d, 6) # None
        /\ Migrations!Sound(Migrations!Upgraded(d, 6), level)
        /\ Migrations!Upgraded(d, 6).applied = d.applied \union {6}
        /\ Migrations!Upgraded(d, 6).thinking \in {d.thinking, None}
    BY <2>1, RenameIsSound
  <2>. QED  BY <1>1, <2>2
<1>2. CASE v # 6
  <2>1. \E ts : /\ Adds(d, Migrations!Up(d, v), ts)
                /\ Migrations!Promised(v) \subseteq Migrations!Up(d, v).columns
                /\ \A w \in {10, 11, 13} \ {v} : Migrations!Creates(w) \intersect ts = {}
    <3>1. CASE v \in {1, 2, 3, 4}
      BY <3>1, FirstMigrations
    <3>2. CASE v \in {5, 7, 8, 9, 12}
      BY <3>2, LaterMigrations
    <3>3. CASE v \in {10, 11, 13}
      BY <3>3, CreatingMigrations
    <3>. QED  BY <1>2, <3>1, <3>2, <3>3
  <2>. QED  BY <1>2, <2>1, AddingIsSound
<1>. QED  BY <1>1, <1>2

\* What the earlier builds have left is sound.
Built(d, n) == Migrations!Sound(d, None) /\ d.applied = 1..n /\ d.thinking = None
LEMMA Upgrading ==
    ASSUME Migrations!MigrationsAssumption, NEW n \in 0..12, NEW d, Built(d, n)
    PROVE  Built(Migrations!Upgraded(d, n + 1), n + 1)
PROOF
<1>1. n + 1 \in 1..13 /\ n + 1 \notin d.applied /\ 1..n \subseteq d.applied
  BY DEF Built
<1>2. (n + 1) - 1 = n /\ 1..(n + 1) = (1..n) \union {n + 1}
  OBVIOUS
<1>3. /\ Migrations!Sound(Migrations!Upgraded(d, n + 1), None)
      /\ Migrations!Upgraded(d, n + 1).applied = d.applied \union {n + 1}
      /\ Migrations!Upgraded(d, n + 1).thinking = None
  <2>. DEFINE v == n + 1
  <2>1. v \in 1..13 /\ v \notin d.applied /\ 1..(v - 1) \subseteq d.applied
    BY <1>1, <1>2
  <2>2. Migrations!Sound(d, None) /\ d.thinking = None
    BY DEF Built
  <2>. HIDE DEF v
  <2>3. /\ Migrations!Sound(Migrations!Upgraded(d, v), None)
        /\ Migrations!Upgraded(d, v).applied = d.applied \union {v}
        /\ Migrations!Upgraded(d, v).thinking \in {d.thinking, None}
    BY <2>1, <2>2, MigrationIsSound
  <2>. QED  BY <2>2, <2>3 DEF v
<1>. QED  BY <1>2, <1>3 DEF Built

LEMMA FreshIsBuilt == Built(Migrations!Fresh, 0)
BY DEF Built, Migrations!Sound, Migrations!Fresh, Migrations!Databases, Migrations!Level,
   Migrations!HasTable,
   Migrations!Levels

LEMMA BuildsAreSound ==
    ASSUME Migrations!MigrationsAssumption
    PROVE  /\ Built(Migrations!After1, 1) /\ Built(Migrations!After2, 2) /\ Built(Migrations!After3, 3)
           /\ Built(Migrations!After4, 4) /\ Built(Migrations!After5, 5) /\ Built(Migrations!After6, 6)
           /\ Built(Migrations!After7, 7) /\ Built(Migrations!After8, 8) /\ Built(Migrations!After9, 9)
           /\ Built(Migrations!After10, 10) /\ Built(Migrations!After11, 11)
           /\ Built(Migrations!After12, 12) /\ Built(Migrations!After13, 13)
PROOF
<1>1. Built(Migrations!Fresh, 0)
  BY FreshIsBuilt
<1>2. Built(Migrations!After1, 1)
  BY <1>1, Upgrading DEF Migrations!After1
<1>3. Built(Migrations!After2, 2)
  BY <1>2, Upgrading DEF Migrations!After2
<1>4. Built(Migrations!After3, 3)
  BY <1>3, Upgrading DEF Migrations!After3
<1>5. Built(Migrations!After4, 4)
  BY <1>4, Upgrading DEF Migrations!After4
<1>6. Built(Migrations!After5, 5)
  BY <1>5, Upgrading DEF Migrations!After5
<1>7. Built(Migrations!After6, 6)
  BY <1>6, Upgrading DEF Migrations!After6
<1>8. Built(Migrations!After7, 7)
  BY <1>7, Upgrading DEF Migrations!After7
<1>9. Built(Migrations!After8, 8)
  BY <1>8, Upgrading DEF Migrations!After8
<1>10. Built(Migrations!After9, 9)
  BY <1>9, Upgrading DEF Migrations!After9
<1>11. Built(Migrations!After10, 10)
  BY <1>10, Upgrading DEF Migrations!After10
<1>12. Built(Migrations!After11, 11)
  BY <1>11, Upgrading DEF Migrations!After11
<1>13. Built(Migrations!After12, 12)
  BY <1>12, Upgrading DEF Migrations!After12
<1>14. Built(Migrations!After13, 13)
  BY <1>13, Upgrading DEF Migrations!After13
<1>. QED  BY <1>2, <1>3, <1>4, <1>5, <1>6, <1>7, <1>8, <1>9, <1>10, <1>11, <1>12, <1>13, <1>14

\* So are those in which the level is a column named thinking, and the unversioned one.
LEMMA ThinkingIsSound ==
    ASSUME NEW d, Migrations!Sound(d, None), d.applied \subseteq 1..5, NEW vs \in SUBSET d.applied,
           <<Migrations!Las, "*">> \in d.columns
    PROVE  /\ Migrations!Sound(Migrations!Thinking(d, vs), "high")
           /\ Migrations!Thinking(d, vs).thinking = "high"
PROOF
<1>. DEFINE old == <<Migrations!Las, "thinking">>
            new == <<Migrations!Las, "effort">>
            e == Migrations!Thinking(d, vs)
<1>1. d \in Migrations!Databases /\ old \in Migrations!Columns
  BY Names DEF Migrations!Sound
<1>2. /\ e \in Migrations!Databases /\ e.applied = vs /\ e.thinking = "high" /\ e.effort = d.effort
      /\ e.columns = (d.columns \ {new}) \union {old}
  BY <1>1 DEF Migrations!Thinking, Migrations!Databases, Migrations!Levels
<1>. HIDE DEF e
<1>3. \A c \in e.columns : <<c[1], "*">> \in e.columns
  <2>1. \A c \in e.columns : <<c[1], "*">> \in d.columns
    <3>1. old[1] = Migrations!Las
      OBVIOUS
    <3>. QED  BY <1>2, <3>1 DEF Migrations!Sound
  <2>2. \A t : <<t, "*">> # new
    OBVIOUS
  <2>. QED  BY <1>2, <2>1, <2>2
<1>4. \A w \in vs : Migrations!Promised(w) \subseteq e.columns
  <2>1. \A w \in 1..5 : new \notin Migrations!Promised(w)
    BY DEF Migrations!Promised, Migrations!Las, Migrations!Ws
  <2>. QED  BY <1>2, <2>1 DEF Migrations!Sound
<1>5. \A w \in {10, 11, 13} \ vs : \A t \in Migrations!Creates(w) : ~Migrations!HasTable(e, t)
  <2>1. \A w \in {10, 11, 13} : Migrations!Las \notin Migrations!Creates(w) /\ w \notin d.applied
    BY DEF Migrations!Creates, Migrations!ConsoleTables, Migrations!Las
  <2>. QED  BY <1>2, <2>1 DEF Migrations!Sound, Migrations!HasTable
<1>6. Migrations!Level(e, "high")
  <2>1. 6 \notin d.applied /\ 6 \notin vs
    OBVIOUS
  <2>. QED  BY <1>2, <2>1 DEF Migrations!Level, Migrations!Sound
<1>. QED  BY <1>2, <1>3, <1>4, <1>5, <1>6 DEF Migrations!Sound, e

LEMMA UnversionedIsSound ==
    /\ Migrations!Sound(Migrations!Unversioned, "high") /\ Migrations!Unversioned.thinking = "high"
PROOF
<1>. DEFINE a == Migrations!With(Migrations!Fresh, Migrations!Ws, {"*"})
            b == Migrations!With(a, Migrations!Las, {"*"})
<1>1. Migrations!Fresh \in Migrations!Databases /\ Starred(Migrations!Fresh)
  BY FreshIsBuilt DEF Built, Migrations!Sound, Starred
<1>2. {Migrations!Ws} \X {"*"} \subseteq Migrations!Columns /\ {Migrations!Las} \X {"*"} \subseteq Migrations!Columns
  BY Names
<1>3. Adds(Migrations!Fresh, a, {Migrations!Ws})
  BY <1>1, <1>2, ColumnsAdded
<1>. HIDE DEF a
<1>4. Adds(a, b, {Migrations!Las}) /\ {Migrations!Las} \X {"*"} \subseteq b.columns
  BY <1>2, <1>3, ColumnsAdded DEF Adds
<1>. HIDE DEF b
<1>5. Adds(Migrations!Fresh, b, {Migrations!Ws} \union {Migrations!Las})
  BY <1>3, <1>4, AddsTwice
<1>6. \A w \in {10, 11, 13} : Migrations!Creates(w) \intersect ({Migrations!Ws} \union {Migrations!Las}) = {}
  BY DEF Migrations!Creates, Migrations!ConsoleTables, Migrations!Las, Migrations!Ws
<1>7. Migrations!Sound(b, None) /\ b.applied = {}
  BY <1>5, <1>6 DEF Adds, Starred, Migrations!Sound, Migrations!Fresh, Migrations!HasTable,
     Migrations!Level
<1>. QED  BY <1>4, <1>7, ThinkingIsSound DEF Migrations!Unversioned, a, b

\* A level that has been given under the new name stays.
LEMMA GivenIsSound ==
    ASSUME NEW d, Migrations!Sound(d, None), 6 \in d.applied
    PROVE  /\ Migrations!Sound([d EXCEPT !.effort = "low"], "low")
           /\ [d EXCEPT !.effort = "low"].effort = "low"
           /\ [d EXCEPT !.effort = "low"].thinking = d.thinking
BY DEF Migrations!Sound, Migrations!Databases, Migrations!Levels, Migrations!Level,
   Migrations!HasTable

LEMMA LegacyIsSound ==
    ASSUME Migrations!MigrationsAssumption, NEW d \in Migrations!Legacy
    PROVE  Migrations!Sound(d, IF d.thinking # None THEN d.thinking ELSE d.effort)
PROOF
<1>1. \A e, n : Built(e, n) => /\ Migrations!Sound(e, None) /\ e.thinking = None
                             /\ e.effort = None /\ e.applied = 1..n
  BY DEF Built, Migrations!Sound, Migrations!Level
<1>2. CASE d \in Migrations!Versioned
  <2>1. \E n : Built(d, n)
    BY <1>2, BuildsAreSound, FreshIsBuilt DEF Migrations!Versioned
  <2>. QED  BY <1>1, <2>1
<1>3. CASE d \in {Migrations!Thinking(Migrations!After3, 1..3), Migrations!Thinking(Migrations!After4, 1..4),
                   Migrations!Thinking(Migrations!After5, 1..5), Migrations!Thinking(Migrations!After4, {1, 2, 4})}
  <2>1. \A e, n : Built(e, n) /\ n \in 3..5 =>
           /\ Migrations!Sound(e, None) /\ e.applied = 1..n /\ <<Migrations!Las, "*">> \in e.columns
    <3>1. \A n \in 3..5 : 3 \in 1..n
      OBVIOUS
    <3>2. Migrations!Promised(3) = {<<Migrations!Las, "*">>}
      BY DEF Migrations!Promised
    <3>. QED  BY <3>1, <3>2 DEF Built, Migrations!Sound
  <2>2. PICK e, vs, n : /\ n \in 3..5 /\ Built(e, n) /\ vs \in SUBSET (1..n)
                        /\ d = Migrations!Thinking(e, vs)
    <3>1. \A m \in 3..5 : 1..m \in SUBSET (1..m)
      OBVIOUS
    <3>2. {1, 2, 4} \in SUBSET (1..4)
      OBVIOUS
    <3>. QED  BY <1>3, <3>1, <3>2, BuildsAreSound
  <2>3. /\ Migrations!Sound(e, None) /\ e.applied \subseteq 1..5 /\ vs \in SUBSET e.applied
        /\ <<Migrations!Las, "*">> \in e.columns
    BY <2>1, <2>2
  <2>4. Migrations!Sound(d, "high") /\ d.thinking = "high"
    BY <2>2, <2>3, ThinkingIsSound
  <2>. QED  BY <2>4 DEF Migrations!MigrationsAssumption
<1>4. CASE d = Migrations!Unversioned
  BY <1>4, UnversionedIsSound DEF Migrations!MigrationsAssumption
<1>5. CASE d \in {[Migrations!After6 EXCEPT !.effort = "low"], [Migrations!After9 EXCEPT !.effort = "low"]}
  <2>1. PICK e, n : n \in {6, 9} /\ Built(e, n) /\ d = [e EXCEPT !.effort = "low"]
    BY <1>5, BuildsAreSound
  <2>2. Migrations!Sound(e, None) /\ 6 \in e.applied /\ e.thinking = None
    BY <1>1, <2>1
  <2>. QED  BY <2>1, <2>2, GivenIsSound
<1>. QED  BY <1>2, <1>3, <1>4, <1>5 DEF Migrations!Legacy

\* Whoever opens the database finds it as the queries name it, and every level under its
\* new name (migrateDatabase).
THEOREM OpenersFindTheirSchema ==
    ASSUME Migrations!MigrationsAssumption
    PROVE  Migrations!Spec => [](Migrations!TypeOK /\ Migrations!OpenIsMigrated)
PROOF
<1>. USE DEF Migrations!Goes
<1>1. Migrations!Init => Migrations!IInv
  <2>. SUFFICES ASSUME Migrations!Init
                PROVE  Migrations!IInv
    OBVIOUS
  <2>1. Migrations!Sound(migrations_db, migrations_given)
    BY LegacyIsSound DEF Migrations!Init
  <2>2. migrations_db.applied \subseteq 1..Migrations!Latest /\ None \notin Migrators
    BY <2>1 DEF Migrations!Sound, Migrations!Databases, Migrations!MigrationsAssumption
  <2>. QED  BY <2>1, <2>2 DEF Migrations!Init, Migrations!IInv, Migrations!TypeOK,
               Migrations!Opening, Migrations!Latest
<1>2. Migrations!IInv /\ [Migrations!Next]_(Migrations!vars) => Migrations!IInv'
  <2>. SUFFICES ASSUME Migrations!IInv, [Migrations!Next]_(Migrations!vars)
                PROVE  Migrations!IInv'
    OBVIOUS
  <2>a. \A w, l, v : Migrations!Sound(w, l) /\ v \in 1..13 /\ v \notin w.applied /\ 1..(v - 1) \subseteq w.applied =>
           /\ Migrations!Up(w, v) # None
           /\ Migrations!Sound(Migrations!Upgraded(w, v), l)
           /\ Migrations!Upgraded(w, v).applied = w.applied \union {v}
    BY MigrationIsSound
  <2>. USE DEF Migrations!IInv, Migrations!Opening, Migrations!TypeOK
  <2>0. /\ migrations_db # None /\ (migrations_holder # None => migrations_work # None)
        /\ None \notin Migrators
    BY DEF Migrations!Sound, Migrations!MigrationsAssumption
  <2>1. ASSUME NEW p \in Migrators, Migrations!Begin(p)
        PROVE  Migrations!IInv'
    <3>1. migrations_db.applied \union 1..(1 - 1) = migrations_db.applied
      OBVIOUS
    <3>2. migrations_db.applied \subseteq 1..Migrations!Latest /\ migrations_holder = None
      BY <2>1 DEF Migrations!Begin
    <3>3. /\ migrations_holder' = p /\ migrations_work' = migrations_db /\ migrations_next' = 1
          /\ migrations_seen' = [migrations_seen EXCEPT ![p] = migrations_db.applied]
          /\ migrations_stage' = [migrations_stage EXCEPT ![p] = "migrating"]
          /\ UNCHANGED <<migrations_db, migrations_given>>
      BY <2>1 DEF Migrations!Begin
    <3>. QED  BY <2>0, <3>1, <3>2, <3>3 DEF Migrations!Latest
  <2>2. ASSUME NEW p \in Migrators, Migrations!Busy(p)
        PROVE  Migrations!IInv'
    BY <2>0, <2>2 DEF Migrations!Busy
  <2>3. ASSUME NEW p \in Migrators, Migrations!Migrate(p)
        PROVE  Migrations!IInv'
    <3>1. /\ migrations_holder = p /\ migrations_next \in 0..13 /\ migrations_stage[p] = "migrating"
          /\ migrations_work.applied = migrations_seen[p] \union 1..(migrations_next - 1)
          /\ Migrations!Sound(migrations_work, migrations_given)
          /\ UNCHANGED <<migrations_db, migrations_seen, migrations_given>>
      BY <2>0, <2>3 DEF Migrations!Migrate, Migrations!Latest
    <3>2. CASE migrations_next \in migrations_seen[p]
      <4>1. UNCHANGED <<migrations_holder, migrations_stage, migrations_work>> /\ migrations_next' = migrations_next + 1
        BY <2>3, <3>2 DEF Migrations!Migrate
      <4>2. migrations_work.applied = migrations_seen[p] \union 1..((migrations_next + 1) - 1)
        BY <3>1, <3>2, <2>0 DEF Migrations!Latest
      <4>. QED  BY <2>0, <3>1, <4>1, <4>2 DEF Migrations!Latest
    <3>3. CASE migrations_next \notin migrations_seen[p]
      <4>0. /\ migrations_next \in 1..13 /\ migrations_next \notin migrations_work.applied
            /\ 1..(migrations_next - 1) \subseteq migrations_work.applied
        BY <3>1, <3>3, <2>0
      <4>. DEFINE d == Migrations!Up(migrations_work, migrations_next)
                  u == Migrations!Upgraded(migrations_work, migrations_next)
      <4>1. /\ d # None /\ Migrations!Sound(u, migrations_given)
            /\ u.applied = migrations_work.applied \union {migrations_next}
        <5>. DEFINE v == migrations_next
                    w == migrations_work
                    l == migrations_given
        <5>1. v \in 1..13 /\ v \notin w.applied /\ 1..(v - 1) \subseteq w.applied /\ Migrations!Sound(w, l)
          BY <3>1, <4>0
        <5>. HIDE DEF v, w, l
        <5>2. /\ Migrations!Up(w, v) # None
              /\ Migrations!Sound(Migrations!Upgraded(w, v), l)
              /\ Migrations!Upgraded(w, v).applied = w.applied \union {v}
          BY <5>1, <2>a
        <5>. QED  BY <5>2 DEF v, w, l
      <4>2. /\ UNCHANGED <<migrations_holder, migrations_stage>> /\ migrations_next' = migrations_next + 1
            /\ migrations_work' = u
        BY <2>3, <3>3, <4>1 DEF Migrations!Migrate, Migrations!Upgraded
      <4>. HIDE DEF d, u
      <4>3. u.applied = migrations_seen[p] \union 1..((migrations_next + 1) - 1)
        BY <3>1, <4>0, <4>1
      <4>4. u # None
        BY <4>1 DEF Migrations!Sound, Migrations!MigrationsAssumption
      <4>. QED  BY <2>0, <3>1, <4>0, <4>1, <4>2, <4>3, <4>4 DEF Migrations!Latest
    <3>. QED  BY <3>2, <3>3
  <2>4. ASSUME NEW p \in Migrators, Migrations!Commit(p)
        PROVE  Migrations!IInv'
    <3>1. migrations_work.applied = 1..Migrations!Latest /\ Migrations!Sound(migrations_work, migrations_given)
      BY <2>0, <2>4 DEF Migrations!Commit, Migrations!Latest
    <3>. QED  BY <2>0, <2>4, <3>1 DEF Migrations!Commit, Migrations!Latest
  <2>5. ASSUME NEW p \in Migrators, Migrations!Ends(p)
        PROVE  Migrations!IInv'
    BY <2>0, <2>5 DEF Migrations!Ends, Migrations!Latest
  <2>6. CASE UNCHANGED Migrations!vars
    BY <2>6 DEF Migrations!vars
  <2>. QED  BY <2>1, <2>2, <2>3, <2>4, <2>5, <2>6 DEF Migrations!Next
<1>3. Migrations!IInv => Migrations!TypeOK /\ Migrations!OpenIsMigrated
  <2>. SUFFICES ASSUME Migrations!IInv, NEW p \in Migrators
                PROVE  /\ migrations_stage[p] # "broken"
                       /\ migrations_stage[p] = "open" =>
                             Migrations!Schema \subseteq migrations_db.columns /\ migrations_db.effort = migrations_given
    BY DEF Migrations!IInv, Migrations!OpenIsMigrated
  <2>1. migrations_stage[p] # "broken" /\ Migrations!Sound(migrations_db, migrations_given)
    BY DEF Migrations!IInv
  <2>2. CASE migrations_stage[p] = "open"
    <3>1. migrations_db.applied = 1..13
      BY <2>2 DEF Migrations!IInv, Migrations!Latest
    <3>2. migrations_db.effort = migrations_given
      <4>1. 6 \in migrations_db.applied
        BY <3>1
      <4>. QED  BY <2>1, <4>1 DEF Migrations!Sound, Migrations!Level
    <3>3. \A v \in 1..13 : Migrations!Promised(v) \subseteq migrations_db.columns
      BY <2>1, <3>1 DEF Migrations!Sound
    <3>4. /\ Migrations!SessionSchema \subseteq
                Migrations!Promised(1) \union Migrations!Promised(2) \union Migrations!Promised(4)
          /\ Migrations!AgentSchema \subseteq
                Migrations!Promised(3) \union Migrations!Promised(5) \union Migrations!Promised(6)
                   \union Migrations!Promised(10) \union Migrations!Promised(12)
          /\ Migrations!CoordinationSchema \subseteq
                Migrations!Promised(7) \union Migrations!Promised(8) \union Migrations!Promised(9)
                   \union Migrations!Promised(10) \union Migrations!Promised(13)
          /\ Migrations!ConsoleSchema \subseteq Migrations!Promised(11)
      BY DEF Migrations!Promised, Migrations!SessionSchema, Migrations!AgentSchema,
         Migrations!CoordinationSchema, Migrations!ConsoleSchema
    <3>5. Migrations!Schema \subseteq migrations_db.columns
      BY <3>3, <3>4 DEF Migrations!Schema
    <3>. QED  BY <2>1, <3>2, <3>5
  <2>. QED  BY <2>1, <2>2
<1>. QED  BY <1>1, <1>2, <1>3, PTL DEF Migrations!Spec

-----------------------------------------------------------------------------
(* Patches *)

\* Sequences of keys, in which no key comes twice.
Entries(s) == {s[i] : i \in 1..Len(s)}
Apart(s)   == \A i, j \in 1..Len(s) : s[i] = s[j] => i = j

LEMMA InsertedEntry ==
    ASSUME NEW s \in Seq(Paths), NEW p \in Paths, Apart(s)
    PROVE  /\ Patch!Insert(s, p) \in Seq(Paths) /\ Apart(Patch!Insert(s, p))
           /\ Entries(Patch!Insert(s, p)) = Entries(s) \union {p}
PROOF
<1>1. CASE Patch!Contains(s, p)
  BY <1>1 DEF Patch!Insert, Patch!Contains, Entries
<1>2. CASE ~Patch!Contains(s, p)
  <2>1. Patch!Insert(s, p) = Append(s, p)
    BY <1>2 DEF Patch!Insert
  <2>2. /\ Append(s, p) \in Seq(Paths) /\ Len(Append(s, p)) = Len(s) + 1
        /\ \A i \in 1..Len(s) : Append(s, p)[i] = s[i]
        /\ Append(s, p)[Len(s) + 1] = p
    OBVIOUS
  <2>3. \A i \in 1..Len(s) : s[i] # p
    BY <1>2 DEF Patch!Contains, Entries
  <2>. DEFINE t == Append(s, p)
  <2>. HIDE DEF t
  <2>4. t \in Seq(Paths) /\ Len(t) = Len(s) + 1 /\ t[Len(s) + 1] = p /\ \A i \in 1..Len(s) : t[i] = s[i]
    BY <2>2 DEF t
  <2>5. Apart(t)
    <3>. SUFFICES ASSUME NEW i \in 1..Len(t), NEW j \in 1..Len(t), t[i] = t[j]
                  PROVE  i = j
      BY DEF Apart
    <3>1. CASE i \in 1..Len(s) /\ j \in 1..Len(s)
      BY <3>1, <2>4 DEF Apart
    <3>2. CASE i = Len(s) + 1 \/ j = Len(s) + 1
      BY <3>2, <2>3, <2>4
    <3>. QED  BY <3>1, <3>2, <2>4
  <2>6. Entries(t) = Entries(s) \union {p}
    <3>1. ASSUME NEW x \in Entries(t)
          PROVE  x \in Entries(s) \union {p}
      BY <2>4, <3>1 DEF Entries
    <3>2. Entries(s) \subseteq Entries(t)
      BY <2>4 DEF Entries
    <3>3. p \in Entries(t)
      <4>1. Len(s) + 1 \in 1..Len(t)
        BY <2>4
      <4>. QED  BY <2>4, <4>1 DEF Entries
    <3>. QED  BY <3>1, <3>2, <3>3
  <2>. QED  BY <2>1, <2>4, <2>5, <2>6 DEF t
<1>. QED  BY <1>1, <1>2

LEMMA RemovedEntry ==
    ASSUME NEW s \in Seq(Paths), NEW p, Apart(s)
    PROVE  /\ Patch!Without(s, p) \in Seq(Paths) /\ Apart(Patch!Without(s, p))
           /\ Entries(Patch!Without(s, p)) = Entries(s) \ {p}
PROOF
<1>1. CASE ~Patch!Contains(s, p)
  BY <1>1 DEF Patch!Without, Patch!Contains, Entries
<1>2. CASE Patch!Contains(s, p)
  <2>. DEFINE k == CHOOSE i \in DOMAIN s : s[i] = p
              t == Removed(s, k)
  <2>1. k \in 1..Len(s) /\ s[k] = p
    BY <1>2 DEF Patch!Contains
  <2>2. Patch!Without(s, p) = t
    BY <1>2 DEF Patch!Without, Patch!RemoveAt, Removed
  <2>. HIDE DEF k
  <2>4. /\ t \in Seq(Paths) /\ Len(t) = Len(s) - 1
        /\ \A i \in 1..Len(t) : t[i] = IF i < k THEN s[i] ELSE s[i + 1]
    BY <2>1, RemovedAt, Len(s) \in Nat
  <2>. HIDE DEF t
  <2>5. Apart(t)
    BY <2>1, <2>4 DEF Apart
  <2>6. Entries(t) = Entries(s) \ {p}
    <3>1. ASSUME NEW i \in 1..Len(t)
          PROVE  t[i] \in Entries(s) \ {p}
      <4>1. PICK j \in 1..Len(s) : j # k /\ t[i] = s[j]
        BY <2>1, <2>4
      <4>. QED  BY <2>1, <4>1 DEF Entries, Apart
    <3>2. ASSUME NEW i \in 1..Len(s), s[i] # p
          PROVE  s[i] \in Entries(t)
      <4>1. CASE i < k
        BY <2>1, <2>4, <4>1 DEF Entries
      <4>2. CASE i > k
        <5>1. i - 1 \in 1..Len(t) /\ t[i - 1] = s[i]
          BY <2>1, <2>4, <4>2
        <5>. QED  BY <5>1 DEF Entries
      <4>. QED  BY <2>1, <3>2, <4>1, <4>2
    <3>. QED  BY <3>1, <3>2 DEF Entries
  <2>. QED  BY <2>2, <2>4, <2>5, <2>6
<1>. QED  BY <1>1, <1>2

\* A map of what is staged tells the texts that the files in fs shall have, each of which has
\* one name in it.
Tells(map, keys, texts, old, fs) ==
    /\ map = [p \in DOMAIN map |-> map[p]] /\ DOMAIN map \subseteq Paths
    /\ keys \in Seq(Paths) /\ DOMAIN map = Entries(keys) /\ Apart(keys)
    /\ \A p, q \in DOMAIN map : FileAt[p] = FileAt[q] /\ FileAt[p] \in fs => p = q
    /\ texts = [f \in Files |-> texts[f]]
    /\ \A p \in DOMAIN map : FileAt[p] \in fs => texts[FileAt[p]] = map[p]
    /\ \A f \in fs : (\A p \in DOMAIN map : FileAt[p] # f) => texts[f] = old[f]

PutIn(map, p, t)         == [q \in DOMAIN map \union {p} |-> IF q = p THEN t ELSE map[q]]
Respelled(map, p, to, t) == PutIn([q \in DOMAIN map \ {p} |-> map[q]], to, t)
\* An action changes the text of one file, as far as the files in fs go.
Changes(x, texts, f, t, fs) ==
    x = [g \in Files |-> x[g]] /\ \A g \in fs : x[g] = IF g = f THEN t ELSE texts[g]
OneName(map, p) == \A q \in DOMAIN map : FileAt[q] = FileAt[p] => q = p

LEMMA PutTells ==
    ASSUME FileAt \in [Paths -> Files],
           NEW fs \in SUBSET Files, NEW fs2 \in SUBSET fs,
           NEW map, NEW keys, NEW texts, NEW old, Tells(map, keys, texts, old, fs), NEW p \in Paths, NEW t,
           FileAt[p] \in fs2 => OneName(map, p), NEW x, Changes(x, texts, FileAt[p], t, fs2)
    PROVE  Tells(PutIn(map, p, t), Patch!Insert(keys, p), x, old, fs2)
PROOF
<1>. USE DEF OneName, Changes
<1>. DEFINE m == PutIn(map, p, t)
<1>1. /\ Patch!Insert(keys, p) \in Seq(Paths) /\ Apart(Patch!Insert(keys, p))
      /\ Entries(Patch!Insert(keys, p)) = DOMAIN map \union {p}
  BY InsertedEntry DEF Tells
<1>2. DOMAIN m = DOMAIN map \union {p} /\ m[p] = t /\ \A q \in DOMAIN map : q # p => m[q] = map[q]
  BY DEF PutIn
<1>3. m = [q \in DOMAIN m |-> m[q]] /\ DOMAIN m \subseteq Paths
  BY DEF Tells, PutIn, Respelled
<1>. HIDE DEF m
<1>4. \A q, r \in DOMAIN m : FileAt[q] = FileAt[r] /\ FileAt[q] \in fs2 => q = r
  BY <1>2 DEF Tells
<1>5. \A q \in DOMAIN m : FileAt[q] \in fs2 => x[FileAt[q]] = m[q]
  <2>. SUFFICES ASSUME NEW q \in DOMAIN m, FileAt[q] \in fs2
                PROVE  x[FileAt[q]] = m[q]
    OBVIOUS
  <2>1. CASE q = p
    BY <2>1, <1>2
  <2>2. CASE q # p
    <3>1. q \in DOMAIN map /\ FileAt[q] # FileAt[p]
      BY <2>2, <1>2
    <3>. QED  BY <2>2, <3>1, <1>2 DEF Tells
  <2>. QED  BY <2>1, <2>2
<1>6. ASSUME NEW f \in fs2, \A q \in DOMAIN m : FileAt[q] # f
      PROVE  x[f] = old[f]
  BY <1>2, <1>6 DEF Tells
<1>7. Tells(m, Patch!Insert(keys, p), x, old, fs2)
  BY <1>1, <1>2, <1>3, <1>4, <1>5, <1>6 DEF Tells
<1>. QED  BY <1>7 DEF m

LEMMA RespelledTells ==
    ASSUME FileAt \in [Paths -> Files],
           NEW fs \in SUBSET Files, NEW fs2 \in SUBSET fs,
           NEW map, NEW keys, NEW texts, NEW old, Tells(map, keys, texts, old, fs),
           NEW p \in Paths, NEW to \in Paths, FileAt[p] = FileAt[to], NEW t,
           FileAt[p] \in fs2 => OneName(map, p), NEW x, Changes(x, texts, FileAt[p], t, fs2)
    PROVE  Tells(Respelled(map, p, to, t), Patch!Insert(Patch!Without(keys, p), to), x, old, fs2)
PROOF
<1>. USE DEF OneName, Changes
<1>. DEFINE m == Respelled(map, p, to, t)
            less == Patch!Without(keys, p)
<1>0. less \in Seq(Paths) /\ Apart(less) /\ Entries(less) = DOMAIN map \ {p}
  BY RemovedEntry DEF Tells
<1>. HIDE DEF less
<1>1. /\ Patch!Insert(less, to) \in Seq(Paths) /\ Apart(Patch!Insert(less, to))
      /\ Entries(Patch!Insert(less, to)) = (DOMAIN map \ {p}) \union {to}
  BY <1>0, InsertedEntry
<1>2. /\ DOMAIN m = (DOMAIN map \ {p}) \union {to} /\ m[to] = t
      /\ \A q \in DOMAIN map \ {p} : q # to => m[q] = map[q]
  BY DEF Respelled, PutIn
<1>3. m = [q \in DOMAIN m |-> m[q]] /\ DOMAIN m \subseteq Paths
  BY DEF Tells, PutIn, Respelled
<1>. HIDE DEF m
<1>4. \A q, r \in DOMAIN m : FileAt[q] = FileAt[r] /\ FileAt[q] \in fs2 => q = r
  BY <1>2 DEF Tells
<1>5. \A q \in DOMAIN m : FileAt[q] \in fs2 => x[FileAt[q]] = m[q]
  <2>. SUFFICES ASSUME NEW q \in DOMAIN m, FileAt[q] \in fs2
                PROVE  x[FileAt[q]] = m[q]
    OBVIOUS
  <2>1. CASE q = to
    BY <2>1, <1>2
  <2>2. CASE q # to
    <3>1. q \in DOMAIN map \ {p} /\ FileAt[q] # FileAt[p]
      BY <2>2, <1>2
    <3>. QED  BY <2>2, <3>1, <1>2 DEF Tells
  <2>. QED  BY <2>1, <2>2
<1>6. ASSUME NEW f \in fs2, \A q \in DOMAIN m : FileAt[q] # f
      PROVE  x[f] = old[f]
  <2>1. f # FileAt[p]
    BY <1>2, <1>6
  <2>2. \A q \in DOMAIN map : FileAt[q] # f
    BY <1>2, <1>6, <2>1
  <2>. QED  BY <2>1, <2>2 DEF Tells
<1>7. Tells(m, Patch!Insert(less, to), x, old, fs2)
  BY <1>1, <1>2, <1>3, <1>4, <1>5, <1>6 DEF Tells
<1>. QED  BY <1>7 DEF m, less

\* The history of the texts follows each of them to a file that still has one.
Followed(place, texts, old, fs) ==
    /\ place \in [Files -> Files \union {None}]
    /\ \A f \in Files : old[f] # None /\ place[f] \in fs => texts[place[f]] # None

LEMMA FollowFollows ==
    ASSUME None \notin Files, FileAt \in [Paths -> Files],
           NEW fs \in SUBSET Files, NEW fs2 \in SUBSET fs,
           NEW texts, texts = [f \in Files |-> texts[f]],
           NEW place, NEW old, Followed(place, texts, old, fs),
           NEW a, a.kind \in {"add", "delete", "update", "move"}, Patch!Touches(a) \subseteq Paths,
           a.kind = "update" /\ FileAt[a.path] \in fs2 => Patch!Act(texts, a)[FileAt[a.path]] # None,
           a.kind = "move" /\ FileAt[a.to] \in fs2 => Patch!Act(texts, a)[FileAt[a.to]] # None
    PROVE  Followed(Patch!Follow(place, a), Patch!Act(texts, a), old, fs2)
PROOF
<1>. DEFINE from == FileAt[a.path]
            x == Patch!Act(texts, a)
            l == Patch!Follow(place, a)
<1>1. from \in Files /\ (a.kind = "move" => FileAt[a.to] \in Files)
  BY DEF Patch!Touches
<1>2. a.kind # "move" => \A f \in Files : f # from => x[f] = texts[f]
  BY <1>1 DEF Patch!Act
<1>3. a.kind = "move" => \A f \in Files : f # from /\ f # FileAt[a.to] => x[f] = texts[f]
  BY <1>1 DEF Patch!Act
<1>4. l \in [Files -> Files \union {None}]
  BY <1>1 DEF Patch!Follow, Followed
<1>5. ASSUME NEW f \in Files, old[f] # None, l[f] \in fs2
      PROVE  x[l[f]] # None
  <2>1. l[f] = place[f] => place[f] \in Files /\ texts[place[f]] # None
    BY <1>5 DEF Followed
  <2>2. CASE a.kind \in {"add", "delete"}
    <3>1. l[f] = place[f] /\ place[f] # from
      BY <1>5, <2>2 DEF Patch!Follow
    <3>. QED  BY <1>2, <2>1, <2>2, <3>1
  <2>3. CASE a.kind = "update"
    <3>1. l[f] = place[f]
      BY <2>3 DEF Patch!Follow
    <3>. QED  BY <1>2, <1>5, <2>1, <2>3, <3>1
  <2>4. CASE a.kind = "move" /\ place[f] = from
    <3>1. l[f] = FileAt[a.to]
      BY <2>4 DEF Patch!Follow
    <3>. QED  BY <1>5, <2>4, <3>1
  <2>5. CASE a.kind = "move" /\ place[f] # from
    <3>1. l[f] = place[f] /\ place[f] # FileAt[a.to]
      BY <1>5, <2>5 DEF Patch!Follow
    <3>. QED  BY <1>3, <2>1, <2>5, <3>1
  <2>. QED  BY <2>2, <2>3, <2>4, <2>5
<1>. QED  BY <1>4, <1>5 DEF Followed

\* The disk, when the entries before the n-th have been written, or deleted, in this phase.
HeldText(map, keys, old, phase, n, i) ==
    IF phase = "away" /\ i = n THEN None
    ELSE IF \/ map[keys[i]] # None /\ (i < n \/ phase = "deleting" \/ (phase = "removing" /\ i = n))
            \/ phase = "deleting" /\ i < n
    THEN map[keys[i]] ELSE old[FileAt[keys[i]]]
Written(map, keys, old, texts, phase, n, fs) ==
    /\ texts = [f \in Files |-> texts[f]]
    /\ \A f \in fs : (\A p \in DOMAIN map : FileAt[p] # f) => texts[f] = old[f]
    /\ \A i \in 1..Len(keys) :
          FileAt[keys[i]] \in fs => texts[FileAt[keys[i]]] = HeldText(map, keys, old, phase, n, i)

\* One step of the application writes, or takes away, the text of one entry.
LEMMA OneTextChanges ==
    ASSUME FileAt \in [Paths -> Files], NEW fs \in SUBSET Files,
           NEW map, NEW keys, NEW files, NEW old, Tells(map, keys, files, old, fs),
           NEW texts, NEW phase, NEW n, Written(map, keys, old, texts, phase, n, fs),
           NEW k \in 1..Len(keys), NEW phase2, NEW n2, NEW t,
           FileAt[keys[k]] \in fs => t = HeldText(map, keys, old, phase2, n2, k),
           \A i \in 1..Len(keys) : i # k =>
               HeldText(map, keys, old, phase2, n2, i) = HeldText(map, keys, old, phase, n, i)
    PROVE  Written(map, keys, old, [texts EXCEPT ![FileAt[keys[k]]] = t], phase2, n2, fs)
PROOF
<1>. DEFINE x == [texts EXCEPT ![FileAt[keys[k]]] = t]
<1>1. keys[k] \in DOMAIN map /\ keys[k] \in Paths /\ FileAt[keys[k]] \in Files
  BY DEF Tells, Entries
<1>2. /\ x = [f \in Files |-> x[f]] /\ x[FileAt[keys[k]]] = t
      /\ \A f \in Files : f # FileAt[keys[k]] => x[f] = texts[f]
  BY <1>1 DEF Written
<1>. HIDE DEF x
<1>3. ASSUME NEW i \in 1..Len(keys), FileAt[keys[i]] \in fs
      PROVE  x[FileAt[keys[i]]] = HeldText(map, keys, old, phase2, n2, i)
  <2>1. CASE i = k
    BY <1>2, <1>3, <2>1
  <2>2. CASE i # k
    <3>1. keys[i] \in DOMAIN map /\ keys[i] # keys[k]
      BY <2>2 DEF Tells, Entries, Apart
    <3>2. FileAt[keys[i]] # FileAt[keys[k]] /\ FileAt[keys[i]] \in Files
      BY <1>1, <1>3, <3>1 DEF Tells
    <3>. QED  BY <1>2, <1>3, <2>2, <3>2 DEF Written
  <2>. QED  BY <2>1, <2>2
<1>4. ASSUME NEW f \in fs, \A p \in DOMAIN map : FileAt[p] # f
      PROVE  x[f] = old[f]
  BY <1>1, <1>2, <1>4 DEF Written
<1>5. Written(map, keys, old, x, phase2, n2, fs)
  BY <1>2, <1>3, <1>4 DEF Written
<1>. QED  BY <1>5 DEF x

\* A text the patch does not remove is then in its file or in the one it moves to, or it
\* has been renamed away.
Keeps(keys, files, old, texts, phase, n, f, g) ==
    \/ texts[f] = old[f] \/ texts[g] = files[g]
    \/ phase = "away" /\ n \in 1..Len(keys) /\ FileAt[keys[n]] = f

LEMMA WrittenKeeps ==
    ASSUME FileAt \in [Paths -> Files], NEW fs \in SUBSET Files,
           NEW map, NEW keys, NEW files, NEW old, Tells(map, keys, files, old, fs),
           NEW texts, NEW phase, NEW n \in Nat, Written(map, keys, old, texts, phase, n, fs),
           NEW f \in fs, NEW g \in fs, old[f] # None, files[g] # None, g = f \/ files[f] = None
    PROVE  Keeps(keys, files, old, texts, phase, n, f, g)
PROOF
<1>. USE DEF Keeps
<1>1. CASE \A p \in DOMAIN map : FileAt[p] # f
  BY <1>1 DEF Written
<1>2. CASE \E p \in DOMAIN map : FileAt[p] = f
  <2>1. PICK i \in 1..Len(keys) : FileAt[keys[i]] = f /\ keys[i] \in DOMAIN map
    BY <1>2 DEF Tells, Entries
  <2>2. map[keys[i]] = files[f] /\ texts[f] = HeldText(map, keys, old, phase, n, i)
    BY <2>1 DEF Tells, Written
  <2>3. CASE phase = "away" /\ i = n
    BY <2>1, <2>3
  <2>4. CASE ~(phase = "away" /\ i = n) /\ files[f] # None
    BY <2>1, <2>2, <2>4 DEF HeldText
  <2>5. CASE ~(phase = "away" /\ i = n) /\ files[f] = None
    <3>1. CASE phase # "deleting"
      BY <2>1, <2>2, <2>5, <3>1 DEF HeldText
    <3>2. CASE phase = "deleting"
      <4>1. CASE \A p \in DOMAIN map : FileAt[p] # g
        <5>1. files[g] = old[g]
          BY <4>1 DEF Tells
        <5>2. texts[g] = old[g]
          BY <4>1 DEF Written
        <5>. QED  BY <5>1, <5>2
      <4>2. CASE \E p \in DOMAIN map : FileAt[p] = g
        <5>1. PICK j \in 1..Len(keys) : FileAt[keys[j]] = g /\ keys[j] \in DOMAIN map
          BY <4>2 DEF Tells, Entries
        <5>2. map[keys[j]] = files[g] /\ texts[g] = HeldText(map, keys, old, phase, n, j)
          BY <5>1 DEF Tells, Written
        <5>. QED  BY <3>2, <5>2 DEF HeldText
      <4>. QED  BY <4>1, <4>2
    <3>. QED  BY <3>1, <3>2
  <2>. QED  BY <2>3, <2>4, <2>5
<1>. QED  BY <1>1, <1>2

\* When all the deletions are done the disk holds the texts.
LEMMA WrittenAll ==
    ASSUME NEW fs \in SUBSET Files,
           NEW map, NEW keys, NEW files, NEW old, Tells(map, keys, files, old, fs),
           NEW texts, NEW n \in Nat, n > Len(keys), Written(map, keys, old, texts, "deleting", n, fs)
    PROVE  \A f \in fs : texts[f] = files[f]
PROOF
<1>1. ASSUME NEW f \in fs
      PROVE  texts[f] = files[f]
  <2>1. CASE \A p \in DOMAIN map : FileAt[p] # f
    BY <2>1 DEF Tells, Written
  <2>2. CASE \E p \in DOMAIN map : FileAt[p] = f
    <3>1. PICK i \in 1..Len(keys) : FileAt[keys[i]] = f /\ keys[i] \in DOMAIN map
      BY <2>2 DEF Tells, Entries
    <3>2. Len(keys) \in Nat /\ i < n
      BY DEF Tells
    <3>. QED  BY <3>1, <3>2 DEF Tells, Written, HeldText
  <2>. QED  BY <2>1, <2>2
<1>. QED  BY <1>1

\* For any files, paths, texts and patches: a patch that is applied means its actions in their
\* order, and one that fails or dies loses no text, of every file that the actions do not use
\* under two names (apply-patch.ts).
THEOREM PatchesApply ==
    ASSUME Patch!PatchAssumption
    PROVE  Patch!Spec => [](Patch!TypeOK /\ Patch!MeansItsActions /\ Patch!NothingLost)
PROOF
<1>. DEFINE Told == Tells(patch_staged, patch_order, patch_meant.files, patch_before, Patch!Once)
            Kept == Followed(patch_meant.place, patch_meant.files, patch_before, Patch!Once)
<1>0. None \notin Files /\ FileAt \in [Paths -> Files] /\ Patch!Once \in SUBSET Files
  BY DEF Patch!PatchAssumption, Patch!Once
<1>a. Patch!Staged /\ Patch!Meaning <=> Told /\ Kept /\ patch_meant.names = DOMAIN patch_staged
  BY DEF Patch!Staged, Patch!Meaning, Tells, Entries, Apart, Followed
<1>b. ASSUME NEW texts, NEW phase, NEW n
      PROVE  Patch!Wrote(texts, phase, n)
                <=> Written(patch_staged, patch_order, patch_before, texts, phase, n, Patch!Once)
  BY DEF Patch!Wrote, Patch!Text, Written, HeldText
<1>c. \A fs, fs2, map, keys, texts, old, p, t, x :
         /\ fs \subseteq Files /\ fs2 \subseteq fs /\ p \in Paths /\ Tells(map, keys, texts, old, fs)
         /\ FileAt[p] \in fs2 => OneName(map, p)
         /\ Changes(x, texts, FileAt[p], t, fs2)
         => Tells(PutIn(map, p, t), Patch!Insert(keys, p), x, old, fs2)
  <2>. TAKE fs, fs2, map, keys, texts, old, p, t, x
  <2>. HAVE /\ fs \subseteq Files /\ fs2 \subseteq fs /\ p \in Paths /\ Tells(map, keys, texts, old, fs)
            /\ FileAt[p] \in fs2 => OneName(map, p)
            /\ Changes(x, texts, FileAt[p], t, fs2)
  <2>1. fs \in SUBSET Files /\ fs2 \in SUBSET fs
    OBVIOUS
  <2>. QED  BY <1>0, <2>1, PutTells
<1>d. \A fs, fs2, map, keys, texts, old, p, to, t, x :
         /\ fs \subseteq Files /\ fs2 \subseteq fs /\ p \in Paths /\ to \in Paths /\ FileAt[p] = FileAt[to]
         /\ Tells(map, keys, texts, old, fs)
         /\ FileAt[p] \in fs2 => OneName(map, p)
         /\ Changes(x, texts, FileAt[p], t, fs2)
         => Tells(Respelled(map, p, to, t), Patch!Insert(Patch!Without(keys, p), to), x, old, fs2)
  <2>. TAKE fs, fs2, map, keys, texts, old, p, to, t, x
  <2>. HAVE /\ fs \subseteq Files /\ fs2 \subseteq fs /\ p \in Paths /\ to \in Paths /\ FileAt[p] = FileAt[to]
            /\ Tells(map, keys, texts, old, fs)
            /\ FileAt[p] \in fs2 => OneName(map, p)
            /\ Changes(x, texts, FileAt[p], t, fs2)
  <2>1. fs \in SUBSET Files /\ fs2 \in SUBSET fs
    OBVIOUS
  <2>. QED  BY <1>0, <2>1, RespelledTells
<1>1. Patch!Init => Patch!IInv
  <2>. SUFFICES ASSUME Patch!Init
                PROVE  Patch!IInv
    OBVIOUS
  <2>1. PICK input \in Inputs : patch_patch = input[1] /\ patch_before = input[2]
    BY DEF Patch!Init
  <2>2. patch_before = [f \in Files |-> patch_before[f]] /\ Len(patch_patch) \in Nat
    BY <2>1 DEF Patch!PatchAssumption
  <2>3. Patch!Staged /\ Patch!Meaning
    <3>1. /\ DOMAIN patch_staged = {} /\ patch_staged = [p \in {} |-> None]
          /\ patch_order = <<>> /\ patch_meant.names = {} /\ patch_meant.files = patch_before
          /\ patch_meant.place = [f \in Files |-> f]
      BY DEF Patch!Init
    <3>2. Patch!Staged
      BY <3>1 DEF Patch!Staged
    <3>. QED  BY <1>0, <2>2, <3>1, <3>2 DEF Patch!Meaning
  <2>4. Patch!NothingLost
    <3>1. ASSUME NEW f \in Patch!Once
          PROVE  Patch!OnDisk(patch_before[f])
      BY <1>0 DEF Patch!Init, Patch!OnDisk
    <3>. QED  BY <3>1 DEF Patch!NothingLost
  <2>5. Patch!Staging
    BY <2>2 DEF Patch!Init, Patch!Staging
  <2>6. Patch!TypeOK
    BY DEF Patch!Init, Patch!TypeOK, Patch!Phases, Patch!NoSpare, Patch!Contains
  <2>. QED  BY <2>1, <2>3, <2>4, <2>5, <2>6 DEF Patch!Init, Patch!IInv, Patch!MeansItsActions
<1>2. ASSUME Patch!IInv, Patch!Stage
      PROVE  Patch!IInv'
  <2>. DEFINE a == patch_patch[patch_next]
              files == patch_meant.files
              from == FileAt[a.path]
              fs == Patch!Once
              fs2 == Patch!Once'
  <2>1. /\ patch_at = "staging" /\ patch_next \in 1..Len(patch_patch) /\ Len(patch_patch) \in Nat
        /\ a.kind \in {"add", "delete", "update", "move"} /\ Patch!Touches(a) \subseteq Paths
        /\ Patch!Staging /\ Told /\ Kept /\ patch_meant.names = DOMAIN patch_staged
        /\ patch_before = [f \in Files |-> patch_before[f]]
    BY <1>2, <1>a DEF Patch!IInv, Patch!Stage, Patch!Staging, Patch!PatchAssumption
  <2>4. /\ patch_meant'.files = Patch!Act(files, a) /\ patch_meant'.actions = patch_meant.actions + 1
        /\ patch_meant'.place = Patch!Follow(patch_meant.place, a)
        /\ patch_meant'.names = Patch!Named(a) /\ patch_meant'.twice = Patch!Twice(a)
        /\ UNCHANGED <<patch_patch, patch_before, patch_disk, patch_spare, patch_at>>
        /\ patch_next' = patch_next + 1
        /\ Patch!StageAdd(a) \/ Patch!StageDelete(a) \/ Patch!StageUpdate(a) \/ Patch!StageMove(a)
    BY <1>2 DEF Patch!Stage, Patch!Mean
  <2>5. a.path \in Paths /\ FileAt[a.path] \in Files /\ a.path \in Patch!Touches(a)
        /\ (a.kind = "move" => a.to \in Paths /\ FileAt[a.to] \in Files /\ a.to \in Patch!Touches(a))
    BY <1>0, <2>1 DEF Patch!Touches
  <2>. HIDE DEF a
  <2>2. /\ fs2 \in SUBSET fs /\ fs \in SUBSET Files
        /\ from \in fs2 => OneName(patch_staged, a.path)
        /\ a.kind = "move" /\ FileAt[a.to] \in fs2 =>
              /\ from \in fs2
              /\ ~Patch!Respells(a) =>
                    \A q \in DOMAIN patch_staged \union {a.path} : FileAt[q] = FileAt[a.to] => q = a.to
    <3>1. fs = Files \ patch_meant.twice /\ fs2 = Files \ Patch!Twice(a)
      BY <2>4 DEF Patch!Once
    <3>2. fs2 \in SUBSET fs /\ fs \in SUBSET Files
      BY <3>1 DEF Patch!Twice
    <3>3. \A f \in fs2 : f \notin Patch!Shared(patch_meant.names \union {a.path})
                         /\ f \notin Patch!Shared(Patch!Named(a))
      BY <3>1 DEF Patch!Twice
    <3>4. from \in fs2 => OneName(patch_staged, a.path)
      BY <2>1, <3>3, <3>2 DEF Patch!Shared, OneName
    <3>5. a.kind = "move" /\ FileAt[a.to] \in fs2 => from \in fs2
      BY <2>5, <3>1 DEF Patch!Twice
    <3>6. ASSUME a.kind = "move", FileAt[a.to] \in fs2, ~Patch!Respells(a),
                 NEW q \in DOMAIN patch_staged \union {a.path}, FileAt[q] = FileAt[a.to]
          PROVE  q = a.to
      <4>1. Patch!Named(a) = DOMAIN patch_staged \union {a.path, a.to}
        BY <2>1, <3>6 DEF Patch!Named, Patch!Touches
      <4>. QED  BY <3>2, <3>3, <3>6, <4>1 DEF Patch!Shared
    <3>. QED  BY <3>2, <3>4, <3>5, <3>6
  <2>0. fs \subseteq Files /\ fs2 \subseteq fs
    BY <2>2
  <2>. HIDE DEF fs, fs2
  <2>3. ASSUME from \in fs2
        PROVE  Patch!Read(a.path) = files[from]
    <3>1. from \in fs /\ Tells(patch_staged, patch_order, files, patch_before, fs)
      BY <2>1, <2>2, <2>3 DEF fs
    <3>2. patch_disk = patch_before
      BY <2>1 DEF Patch!Staging
    <3>3. CASE a.path \in DOMAIN patch_staged
      BY <3>1, <3>3 DEF Patch!Read, Tells
    <3>4. CASE a.path \notin DOMAIN patch_staged
      <4>1. \A q \in DOMAIN patch_staged : FileAt[q] # from
        BY <2>2, <2>3, <3>4 DEF OneName
      <4>2. files[from] = patch_before[from]
        BY <3>1, <4>1 DEF Tells
      <4>. QED  BY <3>2, <3>4, <4>2 DEF Patch!Read
    <3>. QED  BY <3>3, <3>4
  <2>6. /\ Told'
        /\ patch_meant'.names = DOMAIN patch_staged'
        /\ a.kind = "update" /\ from \in fs2 => Patch!Act(files, a)[from] # None
        /\ a.kind = "move" /\ FileAt[a.to] \in fs2 => Patch!Act(files, a)[FileAt[a.to]] # None
    <3>0. files = [f \in Files |-> files[f]]
      BY <2>1 DEF Tells
    <3>9. Patch!Act(files, a) = [f \in Files |-> Patch!Act(files, a)[f]]
      BY <2>1, <3>0 DEF Patch!Act
    <3>1. ASSUME NEW t, Patch!Put({}, [p \in {a.path} |-> t]), patch_order' = Patch!Insert(patch_order, a.path),
                 Changes(Patch!Act(files, a), files, from, t, fs2)
          PROVE  Told' /\ DOMAIN patch_staged' = DOMAIN patch_staged \union {a.path}
      <4>1. patch_staged' = PutIn(patch_staged, a.path, t)
        BY <3>1 DEF Patch!Put, PutIn
      <4>. DEFINE map == patch_staged
                  keys == patch_order
                  texts == files
                  old == patch_before
                  p == a.path
                  x == Patch!Act(files, a)
      <4>3. /\ Tells(map, keys, texts, old, fs) /\ p \in Paths
            /\ FileAt[p] \in fs2 => OneName(map, p)
            /\ Changes(x, texts, FileAt[p], t, fs2)
        BY <2>1, <2>2, <2>5, <3>1 DEF fs
      <4>5. DOMAIN patch_staged' = DOMAIN patch_staged \union {a.path}
        BY <4>1 DEF PutIn
      <4>. HIDE DEF map, keys, texts, old, p, x
      <4>4. Tells(PutIn(map, p, t), Patch!Insert(keys, p), x, old, fs2)
        BY <1>c, <2>0, <4>3
      <4>. QED  BY <2>4, <3>1, <4>1, <4>4, <4>5 DEF map, keys, texts, old, p, x, fs2
    <3>a. a.kind # "move" => Patch!Named(a) = DOMAIN patch_staged \union {a.path}
      BY <2>1 DEF Patch!Named, Patch!Respells, Patch!Touches
    <3>2. CASE Patch!StageAdd(a)
      <4>1. a.kind = "add" /\ Changes(Patch!Act(files, a), files, from, a.text, fs2)
        BY <2>2, <3>0, <3>2, <3>9 DEF Changes, Patch!StageAdd, Patch!Act
      <4>. QED  BY <2>4, <3>1, <3>2, <3>a, <4>1 DEF Patch!StageAdd
    <3>3. CASE Patch!StageDelete(a)
      <4>1. a.kind = "delete" /\ Changes(Patch!Act(files, a), files, from, None, fs2)
        BY <2>2, <3>0, <3>3, <3>9 DEF Changes, Patch!StageDelete, Patch!Act
      <4>. QED  BY <2>4, <3>1, <3>3, <3>a, <4>1 DEF Patch!StageDelete
    <3>4. CASE Patch!StageUpdate(a)
      <4>1. from \in fs2 => /\ files[from] # None
                            /\ Patch!Updated(a) = Patch!ApplyHunks(files[from], a.hunks)
        BY <2>3, <3>4 DEF Patch!StageUpdate, Patch!Updated
      <4>2. a.kind = "update" /\ Patch!Updated(a) # None
        BY <3>4 DEF Patch!StageUpdate
      <4>3. Changes(Patch!Act(files, a), files, from, Patch!Updated(a), fs2)
        BY <2>2, <3>0, <3>9, <4>1, <4>2 DEF Changes, Patch!Act
      <4>4. from \in fs2 => Patch!Act(files, a)[from] # None
        BY <4>2, <4>3 DEF Changes
      <4>. QED  BY <2>4, <3>1, <3>4, <3>a, <4>2, <4>3, <4>4 DEF Patch!StageUpdate
    <3>5. CASE Patch!StageMove(a)
      <4>. DEFINE t == Patch!Updated(a)
                  dest == FileAt[a.to]
                  gone == [files EXCEPT ![from] = None]
      <4>1. /\ t # None /\ a.kind = "move"
            /\ from \in fs2 => files[from] # None /\ t = Patch!ApplyHunks(files[from], a.hunks)
        BY <2>3, <3>5 DEF Patch!StageMove, Patch!Updated
      <4>. HIDE DEF t
      <4>2. \A f \in fs2 : Patch!Act(files, a)[f] = IF f = dest THEN t ELSE IF f = from THEN None ELSE files[f]
        BY <2>2, <2>5, <3>0, <4>1 DEF Patch!Act
      <4>3. dest \in fs2 => Patch!Act(files, a)[dest] # None
        BY <4>1, <4>2
      <4>6. Patch!IsSamePatchFile(a.path, a.to) <=> Patch!Respells(a) \/ a.path = a.to
        BY <2>1, <4>1 DEF Patch!IsSamePatchFile, Patch!Respells, Patch!Staging
      <4>4. CASE Patch!IsSamePatchFile(a.path, a.to)
        <5>1. /\ Patch!Put({a.path}, [p \in {a.to} |-> t])
              /\ patch_order' = Patch!Insert(Patch!Without(patch_order, a.path), a.to)
          BY <3>5, <4>4 DEF Patch!StageMove, t
        <5>2. /\ patch_staged' = Respelled(patch_staged, a.path, a.to, t)
              /\ DOMAIN patch_staged' = (DOMAIN patch_staged \ {a.path}) \union {a.to}
          BY <5>1 DEF Patch!Put, PutIn, Respelled
        <5>3. from = dest
          BY <4>4, <4>6 DEF Patch!Respells
        <5>4. Patch!Named(a) = (DOMAIN patch_staged \ {a.path}) \union {a.to}
          BY <2>1, <4>1, <4>4, <4>6 DEF Patch!Named, Patch!Touches
        <5>. DEFINE map == patch_staged
                    keys == patch_order
                    texts == files
                    old == patch_before
                    p == a.path
                    to == a.to
                    x == Patch!Act(files, a)
        <5>5. /\ Tells(map, keys, texts, old, fs) /\ p \in Paths /\ to \in Paths /\ FileAt[p] = FileAt[to]
              /\ FileAt[p] \in fs2 => OneName(map, p)
              /\ Changes(x, texts, FileAt[p], t, fs2)
          BY <2>1, <2>2, <2>5, <3>9, <4>1, <4>2, <5>3 DEF fs, Changes
        <5>. HIDE DEF map, keys, texts, old, p, to, x
        <5>6. Tells(Respelled(map, p, to, t), Patch!Insert(Patch!Without(keys, p), to), x, old, fs2)
          BY <1>d, <2>0, <5>5
        <5>7. Told'
          BY <2>4, <5>1, <5>2, <5>6 DEF map, keys, texts, old, p, to, x, fs2
        <5>. QED  BY <2>4, <4>1, <4>3, <5>2, <5>4, <5>7
      <4>5. CASE ~Patch!IsSamePatchFile(a.path, a.to)
        <5>0. a.path # a.to /\ ~Patch!Respells(a)
          BY <4>5, <4>6
        <5>. DEFINE m == PutIn(patch_staged, a.path, None)
                    o == Patch!Insert(patch_order, a.path)
        <5>1. /\ Patch!Put({}, [p \in {a.path, a.to} |-> IF p = a.to THEN t ELSE None])
              /\ patch_order' = Patch!Insert(o, a.to)
          BY <3>5, <4>5 DEF Patch!StageMove, t
        <5>2. patch_staged' = PutIn(m, a.to, t)
          BY <5>0, <5>1 DEF Patch!Put, PutIn
        <5>3. Changes(gone, files, from, None, fs2)
          BY <2>2, <3>0 DEF Changes
        <5>. HIDE DEF gone
        <5>4. Tells(m, o, gone, patch_before, fs2)
          <6>. DEFINE map == patch_staged
                      keys == patch_order
                      texts == files
                      old == patch_before
                      p == a.path
          <6>1. /\ Tells(map, keys, texts, old, fs) /\ p \in Paths
                /\ FileAt[p] \in fs2 => OneName(map, p)
                /\ Changes(gone, texts, FileAt[p], None, fs2)
            BY <2>1, <2>2, <2>5, <5>3 DEF fs
          <6>. HIDE DEF map, keys, texts, old, p
          <6>2. Tells(PutIn(map, p, None), Patch!Insert(keys, p), gone, old, fs2)
            BY <1>c, <2>0, <6>1
          <6>. QED  BY <6>2 DEF map, keys, texts, old, p
        <5>6. DOMAIN m = DOMAIN patch_staged \union {a.path}
          BY DEF PutIn
        <5>. HIDE DEF m, o
        <5>5. dest \in fs2 => OneName(m, a.to)
          BY <2>2, <4>1, <5>0, <5>6 DEF OneName
        <5>. DEFINE x == Patch!Act(files, a)
                    to == a.to
                    old == patch_before
        <5>8. /\ to \in Paths
              /\ FileAt[to] \in fs2 => OneName(m, to)
              /\ Changes(x, gone, FileAt[to], t, fs2)
          BY <2>5, <3>9, <4>1, <4>2, <5>3, <5>5 DEF Changes
        <5>9. fs2 \subseteq Files /\ fs2 \subseteq fs2 /\ Tells(m, o, gone, old, fs2)
          BY <2>2, <5>4
        <5>. HIDE DEF x, to, old
        <5>7. Tells(PutIn(m, to, t), Patch!Insert(o, to), x, old, fs2)
          BY <1>c, <5>8, <5>9
        <5>10. Told'
          BY <2>4, <5>1, <5>2, <5>7 DEF x, to, old, fs2
        <5>11. Patch!Named(a) = DOMAIN patch_staged'
          BY <2>1, <4>1, <5>0, <5>2, <5>6 DEF Patch!Named, Patch!Touches, PutIn
        <5>. QED  BY <2>4, <4>1, <4>3, <5>10, <5>11
      <4>. QED  BY <4>4, <4>5
    <3>. QED  BY <2>4, <3>2, <3>3, <3>4, <3>5
  <2>7. Kept'
    <3>. DEFINE l == patch_meant.place
    <3>0. files = [f \in Files |-> files[f]] /\ a.kind \in {"add", "delete", "update", "move"}
          /\ Patch!Touches(a) \subseteq Paths /\ Followed(l, files, patch_before, fs)
      BY <2>1 DEF Tells, fs
    <3>. HIDE DEF l, files
    <3>1. Followed(Patch!Follow(l, a), Patch!Act(files, a), patch_before, fs2)
      BY <1>0, <2>2, <2>6, <3>0, FollowFollows
    <3>. QED  BY <2>4, <3>1 DEF l, files, fs2
  <2>8. Patch!NothingLost'
    BY <2>1, <2>2, <2>4 DEF Patch!NothingLost, Patch!OnDisk, Patch!Staging, fs, fs2
  <2>9. Patch!Staging'
    BY <2>1, <2>4 DEF Patch!Staging, Patch!NoSpare
  <2>10. Patch!TypeOK'
    <3>1. \A p \in Paths : Patch!Contains(patch_order, p)' <=> p \in DOMAIN patch_staged'
      BY <2>6 DEF Tells, Entries, Patch!Contains
    <3>. QED  BY <1>2, <2>4, <3>1 DEF Patch!IInv, Patch!TypeOK
  <2>11. Patch!Staged' /\ Patch!Meaning'
    BY <2>6, <2>7 DEF Patch!Staged, Patch!Meaning, Tells, Entries, Apart, Followed
  <2>. QED  BY <1>2, <2>1, <2>4, <2>8, <2>9, <2>10, <2>11 DEF Patch!IInv, Patch!MeansItsActions
<1>e. \A fs, map, keys, files, old, texts, phase, n, k, phase2, n2, t :
         /\ fs \subseteq Files /\ k \in 1..Len(keys)
         /\ Tells(map, keys, files, old, fs) /\ Written(map, keys, old, texts, phase, n, fs)
         /\ FileAt[keys[k]] \in fs => t = HeldText(map, keys, old, phase2, n2, k)
         /\ \A i \in 1..Len(keys) : i # k =>
                HeldText(map, keys, old, phase2, n2, i) = HeldText(map, keys, old, phase, n, i)
         => Written(map, keys, old, [texts EXCEPT ![FileAt[keys[k]]] = t], phase2, n2, fs)
  <2>. TAKE fs, map, keys, files, old, texts, phase, n, k, phase2, n2, t
  <2>. HAVE /\ fs \subseteq Files /\ k \in 1..Len(keys)
            /\ Tells(map, keys, files, old, fs) /\ Written(map, keys, old, texts, phase, n, fs)
            /\ FileAt[keys[k]] \in fs => t = HeldText(map, keys, old, phase2, n2, k)
            /\ \A i \in 1..Len(keys) : i # k =>
                   HeldText(map, keys, old, phase2, n2, i) = HeldText(map, keys, old, phase, n, i)
  <2>1. fs \in SUBSET Files
    OBVIOUS
  <2>. HIDE DEF HeldText
  <2>. QED  BY <1>0, <2>1, OneTextChanges
<1>f. \A fs, map, keys, files, old, texts, phase, n, f, g :
         /\ fs \subseteq Files /\ n \in Nat /\ f \in fs /\ g \in fs
         /\ Tells(map, keys, files, old, fs) /\ Written(map, keys, old, texts, phase, n, fs)
         /\ old[f] # None /\ files[g] # None /\ (g = f \/ files[f] = None)
         => Keeps(keys, files, old, texts, phase, n, f, g)
  <2>. TAKE fs, map, keys, files, old, texts, phase, n, f, g
  <2>. HAVE /\ fs \subseteq Files /\ n \in Nat /\ f \in fs /\ g \in fs
            /\ Tells(map, keys, files, old, fs) /\ Written(map, keys, old, texts, phase, n, fs)
            /\ old[f] # None /\ files[g] # None /\ (g = f \/ files[f] = None)
  <2>1. fs \in SUBSET Files
    OBVIOUS
  <2>. QED  BY <1>0, <2>1, WrittenKeeps
<1>g. \A fs, map, keys, files, old, texts, n :
         /\ fs \subseteq Files /\ n \in Nat
         /\ Tells(map, keys, files, old, fs) /\ Written(map, keys, old, texts, "deleting", n, fs) /\ n > Len(keys)
         => \A f \in fs : texts[f] = files[f]
  <2>. TAKE fs, map, keys, files, old, texts, n
  <2>. HAVE /\ fs \subseteq Files /\ n \in Nat
            /\ Tells(map, keys, files, old, fs) /\ Written(map, keys, old, texts, "deleting", n, fs) /\ n > Len(keys)
  <2>1. fs \in SUBSET Files
    OBVIOUS
  <2>. QED  BY <2>1, WrittenAll
<1>. DEFINE Same == UNCHANGED <<patch_patch, patch_before, patch_staged, patch_order, patch_meant>>
            On(texts, phase, n) ==
                Written(patch_staged, patch_order, patch_before, texts, phase, n, Patch!Once)
\* The disk is as the phase says, and what was renamed away is still there.
<1>3. ASSUME Patch!IInv, Same, NEW phase, NEW n \in Nat, On(patch_disk', phase, n),
             phase = "away" /\ FileAt[patch_order[n]] \in Patch!Once =>
                 patch_spare'.backup = patch_before[FileAt[patch_order[n]]]
      PROVE  Patch!NothingLost'
  <2>1. Told /\ Kept /\ Patch!Once' = Patch!Once
    BY <1>3, <1>a DEF Patch!IInv, Patch!Once
  <2>2. ASSUME NEW f \in Patch!Once, patch_before[f] # None, patch_meant.place[f] \in Patch!Once,
               patch_meant.place[f] = f \/ patch_meant.files[f] = None
        PROVE  Patch!OnDisk(patch_before[f])' \/ Patch!OnDisk(patch_meant.files[patch_meant.place[f]])'
    <3>. DEFINE g == patch_meant.place[f]
                map == patch_staged
                keys == patch_order
                files == patch_meant.files
                old == patch_before
                texts == patch_disk'
                fs == Patch!Once
    <3>1. /\ g \in fs /\ f \in fs /\ files[g] # None /\ old[f] # None /\ (g = f \/ files[f] = None)
          /\ Tells(map, keys, files, old, fs) /\ Written(map, keys, old, texts, phase, n, fs)
          /\ fs \subseteq Files
      BY <1>0, <1>3, <2>1, <2>2 DEF Followed
    <3>. HIDE DEF g, map, keys, files, old, texts, fs
    <3>7. n \in Nat
      BY <1>3
    <3>8. Keeps(keys, files, old, texts, phase, n, f, g)
      BY <1>f, <3>1, <3>7
    <3>2. \/ texts[f] = old[f] \/ texts[g] = files[g]
          \/ phase = "away" /\ n \in 1..Len(keys) /\ FileAt[keys[n]] = f
      BY <3>8 DEF Keeps
    <3>6. f \in Files /\ g \in Files
      BY <3>1
    <3>3. CASE texts[f] = old[f]
      BY <1>3, <3>3, <3>6 DEF Patch!OnDisk, texts, old
    <3>4. CASE texts[g] = files[g]
      BY <1>3, <3>4, <3>6 DEF Patch!OnDisk, texts, files, g
    <3>5. CASE phase = "away" /\ FileAt[keys[n]] = f
      <4>1. patch_spare'.backup = patch_before[f]
        BY <1>3, <3>1, <3>5 DEF keys, fs
      <4>. QED  BY <1>3, <4>1 DEF Patch!OnDisk
    <3>. QED  BY <3>2, <3>3, <3>4, <3>5
  <2>. QED  BY <1>3, <2>1, <2>2 DEF Patch!NothingLost
\* What an action of the application has to keep.
<1>4. ASSUME Patch!IInv, Same, Patch!NothingLost', Patch!MeansItsActions',
             patch_spare' = [temporary |-> patch_spare'.temporary, backup |-> patch_spare'.backup],
             patch_at' \in Patch!Phases \ {"staging"},
             patch_at' \in {"writing", "replacing", "away", "removing", "deleting"} => Patch!Applying'
      PROVE  Patch!IInv'
  <2>1. Patch!Staged' /\ Patch!Meaning'
    <3>1. Patch!Staged /\ Patch!Meaning
      BY <1>4 DEF Patch!IInv
    <3>2. Patch!Staged'
      BY <1>4, <3>1 DEF Patch!Staged, Patch!Once
    <3>3. Patch!Meaning'
      BY <1>4, <3>1 DEF Patch!Meaning, Patch!Once
    <3>. QED  BY <3>2, <3>3
  <2>2. \E input \in Inputs : patch_patch' = input[1] /\ patch_before' = input[2]
    BY <1>4 DEF Patch!IInv
  <2>3. Patch!TypeOK'
    BY <1>4 DEF Patch!IInv, Patch!TypeOK, Patch!Contains
  <2>. QED  BY <1>4, <2>1, <2>2, <2>3 DEF Patch!IInv
<1>5. ASSUME Patch!IInv, Patch!StageFails \/ Patch!Dies
      PROVE  Patch!IInv'
  <2>1. /\ Patch!NothingLost' /\ Same /\ UNCHANGED <<patch_spare, patch_disk>> /\ patch_at' \in {"failed", "dead"}
    BY <1>5 DEF Patch!IInv, Patch!NothingLost, Patch!OnDisk, Patch!StageFails, Patch!Dies, Patch!Once
  <2>2. patch_spare = [temporary |-> patch_spare.temporary, backup |-> patch_spare.backup]
    BY <1>5 DEF Patch!IInv, Patch!TypeOK
  <2>. QED  BY <1>4, <1>5, <2>1, <2>2 DEF Patch!MeansItsActions, Patch!Phases
<1>6. ASSUME Patch!IInv, Patch!StageEnds
      PROVE  Patch!IInv'
  <2>1. /\ Same /\ UNCHANGED <<patch_disk, patch_spare>> /\ patch_at' = "writing" /\ patch_next' = 1
        /\ patch_next > Len(patch_patch) /\ Patch!Staging /\ Told
        /\ Len(patch_patch) \in Nat /\ patch_before = [f \in Files |-> patch_before[f]]
        /\ Patch!Once' = Patch!Once
    BY <1>6, <1>a DEF Patch!IInv, Patch!StageEnds, Patch!PatchAssumption, Patch!Once
  <2>2. On(patch_disk', "writing", 1)
    BY <1>0, <2>1 DEF Written, HeldText, Patch!Staging
  <2>3. Patch!NothingLost'
    BY <1>3, <1>6, <2>1, <2>2
  <2>4. Patch!Applying'
    <3>1. Patch!Wrote(patch_disk, patch_at, patch_next)'
      BY <2>1, <2>2 DEF Written, HeldText, Patch!Wrote, Patch!Text
    <3>2. Len(patch_order) \in Nat
      BY <2>1 DEF Tells
    <3>. QED  BY <2>1, <3>1, <3>2 DEF Patch!Applying, Patch!Staging
  <2>5. patch_spare' = [temporary |-> patch_spare'.temporary, backup |-> patch_spare'.backup]
    BY <1>6, <2>1 DEF Patch!IInv, Patch!TypeOK
  <2>. QED  BY <1>4, <1>6, <2>1, <2>3, <2>4, <2>5 DEF Patch!MeansItsActions, Patch!Phases
\* The entry that is due, and what is known of the disk and of its text.
<1>7. ASSUME Patch!IInv, patch_at \in {"writing", "replacing", "away", "removing", "deleting"}, Same
      PROVE  /\ Told /\ Patch!Applying /\ On(patch_disk, patch_at, patch_next)
             /\ patch_next \in Nat /\ patch_next >= 1 /\ Len(patch_order) \in Nat
             /\ patch_meant'.actions = Len(patch_patch') /\ Patch!Once' = Patch!Once
             /\ patch_spare = [temporary |-> patch_spare.temporary, backup |-> patch_spare.backup]
             /\ patch_next <= Len(patch_order) =>
                   patch_next \in 1..Len(patch_order) /\ Patch!Entry = patch_order[patch_next]
             /\ \A phase, n : On(patch_disk', phase, n) /\ phase = patch_at' /\ n = patch_next'
                                 => Patch!Wrote(patch_disk, patch_at, patch_next)'
  <2>1. Told /\ Patch!Applying /\ On(patch_disk, patch_at, patch_next) /\ Patch!Once' = Patch!Once
    BY <1>7, <1>a, <1>b DEF Patch!IInv, Patch!Applying, Patch!Once
  <2>2. Len(patch_order) \in Nat
    BY <2>1 DEF Tells
  <2>3. ASSUME NEW phase, NEW n, On(patch_disk', phase, n), phase = patch_at', n = patch_next'
        PROVE  Patch!Wrote(patch_disk, patch_at, patch_next)'
    BY <1>7, <2>1, <2>3 DEF Written, HeldText, Patch!Wrote, Patch!Text
  <2>4. patch_spare = [temporary |-> patch_spare.temporary, backup |-> patch_spare.backup]
    BY <1>7 DEF Patch!IInv, Patch!TypeOK
  <2>. QED  BY <1>7, <2>1, <2>2, <2>3, <2>4 DEF Patch!Applying, Patch!Entry
<1>8. ASSUME Patch!IInv, Patch!WriteTemporary
      PROVE  Patch!IInv'
  <2>1. /\ Same /\ UNCHANGED <<patch_disk, patch_next>> /\ patch_at = "writing" /\ patch_at' = "replacing"
        /\ patch_spare' = [Patch!NoSpare EXCEPT !.temporary = patch_staged[Patch!Entry]]
        /\ patch_staged[Patch!Entry] # None /\ patch_next <= Len(patch_order)
    BY <1>8 DEF Patch!WriteTemporary, Patch!Due
  <2>2. On(patch_disk', "replacing", patch_next)
    BY <1>7, <1>8, <2>1 DEF Written, HeldText
  <2>3. Patch!NothingLost'
    BY <1>3, <1>7, <1>8, <2>1, <2>2
  <2>4. Patch!Applying'
    BY <1>7, <1>8, <2>1, <2>2 DEF Patch!Applying, Patch!Entry
  <2>5. patch_spare' = [temporary |-> patch_spare'.temporary, backup |-> patch_spare'.backup]
    BY <2>1 DEF Patch!NoSpare
  <2>. QED  BY <1>4, <1>8, <2>1, <2>3, <2>4, <2>5 DEF Patch!MeansItsActions, Patch!Phases
<1>9. ASSUME Patch!IInv, Patch!RenameAway
      PROVE  Patch!IInv'
  <2>1. /\ Same /\ UNCHANGED patch_next /\ patch_at = "replacing" /\ patch_at' = "away"
        /\ patch_spare' = [patch_spare EXCEPT !.backup = patch_disk[FileAt[Patch!Entry]]]
        /\ patch_disk' = [patch_disk EXCEPT ![FileAt[Patch!Entry]] = None]
        /\ patch_next <= Len(patch_order)
    BY <1>9 DEF Patch!RenameAway, Patch!Due
  <2>2. /\ FileAt[Patch!Entry] \in Patch!Once =>
               patch_disk[FileAt[Patch!Entry]] = patch_before[FileAt[Patch!Entry]]
        /\ patch_staged[Patch!Entry] # None /\ patch_next \in 1..Len(patch_order)
        /\ Patch!Entry = patch_order[patch_next]
    BY <1>7, <1>9, <2>1 DEF Written, HeldText, Patch!Applying
  <2>3. On(patch_disk', "away", patch_next)
    <3>. DEFINE map == patch_staged
                keys == patch_order
                files == patch_meant.files
                old == patch_before
                texts == patch_disk
                n == patch_next
                fs == Patch!Once
    <3>1. /\ Tells(map, keys, files, old, fs) /\ Written(map, keys, old, texts, "replacing", n, fs)
          /\ n \in 1..Len(keys) /\ fs \subseteq Files
          /\ patch_disk' = [texts EXCEPT ![FileAt[keys[n]]] = None]
      BY <1>0, <1>7, <1>9, <2>1, <2>2
    <3>. HIDE DEF map, keys, files, old, texts, n, fs
    <3>2. /\ None = HeldText(map, keys, old, "away", n, n)
          /\ \A i \in 1..Len(keys) : i # n =>
                HeldText(map, keys, old, "away", n, i) = HeldText(map, keys, old, "replacing", n, i)
      BY DEF HeldText
    <3>3. Written(map, keys, old, [texts EXCEPT ![FileAt[keys[n]]] = None], "away", n, fs)
      BY <1>e, <3>1, <3>2
    <3>. QED  BY <3>1, <3>3 DEF map, keys, old, n, fs
  <2>6. /\ patch_spare' = [temporary |-> patch_spare'.temporary, backup |-> patch_spare'.backup]
        /\ patch_spare'.backup = patch_disk[FileAt[Patch!Entry]]
    <3>1. patch_spare = [temporary |-> patch_spare.temporary, backup |-> patch_spare.backup]
      BY <1>7, <1>9, <2>1
    <3>. QED  BY <2>1, <3>1
  <2>4. Patch!NothingLost'
    BY <1>3, <1>7, <1>9, <2>1, <2>2, <2>3, <2>6
  <2>5. Patch!Applying'
    BY <1>7, <1>9, <2>1, <2>2, <2>3, <2>6 DEF Patch!Applying, Patch!Entry
  <2>. QED  BY <1>4, <1>9, <2>1, <2>4, <2>5, <2>6 DEF Patch!MeansItsActions, Patch!Phases
\* The staged text of the entry comes to be in its file, which was the old one's or away.
<1>10. ASSUME Patch!IInv, Same, patch_at \in {"replacing", "away"}, patch_next <= Len(patch_order),
              patch_disk' = [patch_disk EXCEPT ![FileAt[Patch!Entry]] = patch_staged[Patch!Entry]]
       PROVE  On(patch_disk', "writing", patch_next + 1) /\ On(patch_disk', "removing", patch_next)
  <2>. DEFINE map == patch_staged
              keys == patch_order
              files == patch_meant.files
              old == patch_before
              texts == patch_disk
              n == patch_next
              phase == patch_at
              fs == Patch!Once
  <2>1. /\ Tells(map, keys, files, old, fs) /\ Written(map, keys, old, texts, phase, n, fs)
        /\ n \in 1..Len(keys) /\ fs \subseteq Files
        /\ patch_disk' = [texts EXCEPT ![FileAt[keys[n]]] = map[keys[n]]] /\ map[keys[n]] # None
        /\ phase \in {"replacing", "away"}
    BY <1>0, <1>7, <1>10 DEF Patch!Applying
  <2>. HIDE DEF map, keys, files, old, texts, n, phase, fs
  <2>2. /\ map[keys[n]] = HeldText(map, keys, old, "writing", n + 1, n)
        /\ \A i \in 1..Len(keys) : i # n =>
              HeldText(map, keys, old, "writing", n + 1, i) = HeldText(map, keys, old, phase, n, i)
    BY <2>1 DEF HeldText, Tells
  <2>3. /\ map[keys[n]] = HeldText(map, keys, old, "removing", n, n)
        /\ \A i \in 1..Len(keys) : i # n =>
              HeldText(map, keys, old, "removing", n, i) = HeldText(map, keys, old, phase, n, i)
    BY <2>1 DEF HeldText, Tells
  <2>4. Written(map, keys, old, [texts EXCEPT ![FileAt[keys[n]]] = map[keys[n]]], "writing", n + 1, fs)
    BY <1>e, <2>1, <2>2
  <2>5. Written(map, keys, old, [texts EXCEPT ![FileAt[keys[n]]] = map[keys[n]]], "removing", n, fs)
    BY <1>e, <2>1, <2>3
  <2>. QED  BY <2>1, <2>4, <2>5 DEF map, keys, old, n, fs
\* The next entry is due.
<1>11. ASSUME Patch!IInv, Same, patch_at \in {"writing", "replacing", "away", "removing", "deleting"},
              patch_next <= Len(patch_order), patch_next' = patch_next + 1,
              patch_at' \in {"writing", "deleting"}, On(patch_disk', patch_at', patch_next')
       PROVE  Patch!Applying' /\ Patch!NothingLost' /\ Patch!MeansItsActions'
  <2>1. Patch!Wrote(patch_disk, patch_at, patch_next)'
    BY <1>7, <1>11
  <2>2. patch_next' \in 1..(Len(patch_order') + 1) /\ patch_meant'.actions = Len(patch_patch')
    BY <1>7, <1>11
  <2>3. Patch!Applying'
    BY <1>11, <2>1, <2>2 DEF Patch!Applying
  <2>4. Patch!NothingLost'
    BY <1>3, <1>7, <1>11
  <2>. QED  BY <1>11, <2>3, <2>4 DEF Patch!MeansItsActions
<1>12. ASSUME Patch!IInv, Patch!RenameOver
       PROVE  Patch!IInv'
  <2>1. /\ Same /\ patch_at = "replacing" /\ patch_at' = "writing" /\ patch_next' = patch_next + 1
        /\ patch_spare' = Patch!NoSpare /\ patch_next <= Len(patch_order)
        /\ patch_disk' = [patch_disk EXCEPT ![FileAt[Patch!Entry]] = patch_staged[Patch!Entry]]
    BY <1>12 DEF Patch!RenameOver, Patch!Due
  <2>2. On(patch_disk', "writing", patch_next + 1)
    BY <1>10, <1>12, <2>1
  <2>3. Patch!Applying' /\ Patch!NothingLost' /\ Patch!MeansItsActions'
    BY <1>11, <1>12, <2>1, <2>2
  <2>4. patch_spare' = [temporary |-> patch_spare'.temporary, backup |-> patch_spare'.backup]
    BY <2>1 DEF Patch!NoSpare
  <2>. QED  BY <1>4, <1>12, <2>1, <2>3, <2>4 DEF Patch!Phases
<1>13. ASSUME Patch!IInv, Patch!RenameIn
       PROVE  Patch!IInv'
  <2>1. /\ Same /\ patch_at = "away" /\ patch_at' = "removing" /\ UNCHANGED patch_next
        /\ patch_spare' = [patch_spare EXCEPT !.temporary = None] /\ patch_next <= Len(patch_order)
        /\ patch_disk' = [patch_disk EXCEPT ![FileAt[Patch!Entry]] = patch_staged[Patch!Entry]]
    BY <1>13 DEF Patch!RenameIn, Patch!Due
  <2>2. On(patch_disk', "removing", patch_next)
    BY <1>10, <1>13, <2>1
  <2>3. Patch!NothingLost'
    BY <1>3, <1>7, <1>13, <2>1, <2>2
  <2>4. Patch!Applying'
    BY <1>7, <1>13, <2>1, <2>2 DEF Patch!Applying, Patch!Entry
  <2>5. patch_spare' = [temporary |-> patch_spare'.temporary, backup |-> patch_spare'.backup]
    <3>1. patch_spare = [temporary |-> patch_spare.temporary, backup |-> patch_spare.backup]
      BY <1>7, <1>13, <2>1
    <3>. QED  BY <2>1, <3>1
  <2>. QED  BY <1>4, <1>13, <2>1, <2>3, <2>4, <2>5 DEF Patch!MeansItsActions, Patch!Phases
<1>14. ASSUME Patch!IInv, Patch!RemoveBackup
       PROVE  Patch!IInv'
  <2>1. /\ Same /\ patch_at = "removing" /\ patch_at' = "writing" /\ patch_next' = patch_next + 1
        /\ UNCHANGED patch_disk /\ patch_spare' = Patch!NoSpare /\ patch_next <= Len(patch_order)
    BY <1>14 DEF Patch!RemoveBackup, Patch!Due
  <2>2. patch_staged[patch_order[patch_next]] # None /\ patch_next \in 1..Len(patch_order)
        /\ On(patch_disk, "removing", patch_next)
    BY <1>7, <1>14, <2>1 DEF Patch!Applying
  <2>3. On(patch_disk', "writing", patch_next + 1)
    <3>1. ASSUME NEW i \in 1..Len(patch_order)
          PROVE  HeldText(patch_staged, patch_order, patch_before, "writing", patch_next + 1, i)
                    = HeldText(patch_staged, patch_order, patch_before, "removing", patch_next, i)
      BY <2>2 DEF HeldText
    <3>. QED  BY <2>1, <2>2, <3>1 DEF Written
  <2>4. Patch!Applying' /\ Patch!NothingLost' /\ Patch!MeansItsActions'
    BY <1>11, <1>14, <2>1, <2>3
  <2>5. patch_spare' = [temporary |-> patch_spare'.temporary, backup |-> patch_spare'.backup]
    BY <2>1 DEF Patch!NoSpare
  <2>. QED  BY <1>4, <1>14, <2>1, <2>4, <2>5 DEF Patch!Phases
<1>15. ASSUME Patch!IInv, Patch!PutBack
       PROVE  Patch!IInv'
  <2>1. /\ Same /\ patch_at = "away" /\ patch_at' = "failed" /\ patch_next <= Len(patch_order)
    BY <1>15 DEF Patch!PutBack, Patch!Due
  <2>2. PICK left \in {None, patch_spare.temporary} :
           \/ /\ patch_disk' = [patch_disk EXCEPT ![FileAt[Patch!Entry]] = patch_spare.backup]
              /\ patch_spare' = [Patch!NoSpare EXCEPT !.temporary = left]
           \/ UNCHANGED patch_disk /\ patch_spare' = [patch_spare EXCEPT !.temporary = left]
    BY <1>15 DEF Patch!PutBack
  <2>3. /\ FileAt[Patch!Entry] \in Patch!Once => patch_spare.backup = patch_before[FileAt[Patch!Entry]]
        /\ patch_next \in 1..Len(patch_order) /\ Patch!Entry = patch_order[patch_next]
        /\ patch_spare = [temporary |-> patch_spare.temporary, backup |-> patch_spare.backup]
        /\ On(patch_disk, "away", patch_next)
    BY <1>7, <1>15, <2>1 DEF Patch!Applying
  <2>4. patch_spare' = [temporary |-> patch_spare'.temporary, backup |-> patch_spare'.backup]
    BY <2>2, <2>3 DEF Patch!NoSpare
  <2>5. CASE patch_disk' = [patch_disk EXCEPT ![FileAt[Patch!Entry]] = patch_spare.backup]
    <3>. DEFINE map == patch_staged
                keys == patch_order
                files == patch_meant.files
                old == patch_before
                texts == patch_disk
                n == patch_next
                t == patch_spare.backup
                fs == Patch!Once
    <3>1. /\ Tells(map, keys, files, old, fs) /\ Written(map, keys, old, texts, "away", n, fs)
          /\ n \in 1..Len(keys) /\ fs \subseteq Files
          /\ patch_disk' = [texts EXCEPT ![FileAt[keys[n]]] = t]
          /\ FileAt[keys[n]] \in fs => t = old[FileAt[keys[n]]]
      BY <1>0, <1>7, <1>15, <2>1, <2>3, <2>5
    <3>. HIDE DEF map, keys, files, old, texts, n, t, fs
    <3>2. /\ FileAt[keys[n]] \in fs => t = HeldText(map, keys, old, "writing", n, n)
          /\ \A i \in 1..Len(keys) : i # n =>
                HeldText(map, keys, old, "writing", n, i) = HeldText(map, keys, old, "away", n, i)
      BY <3>1 DEF HeldText, Tells
    <3>3. Written(map, keys, old, [texts EXCEPT ![FileAt[keys[n]]] = t], "writing", n, fs)
      BY <1>e, <3>1, <3>2
    <3>4. On(patch_disk', "writing", patch_next)
      BY <3>1, <3>3 DEF map, keys, old, n, fs
    <3>5. Patch!NothingLost'
      BY <1>3, <1>7, <1>15, <2>1, <3>4
    <3>. QED  BY <1>4, <1>15, <2>1, <2>4, <3>5 DEF Patch!MeansItsActions, Patch!Phases
  <2>6. CASE UNCHANGED patch_disk /\ patch_spare' = [patch_spare EXCEPT !.temporary = left]
    <3>1. patch_spare'.backup = patch_spare.backup
      BY <2>3, <2>6
    <3>2. Patch!NothingLost'
      BY <1>3, <1>7, <1>15, <2>1, <2>3, <2>6, <3>1
    <3>. QED  BY <1>4, <1>15, <2>1, <2>4, <3>2 DEF Patch!MeansItsActions, Patch!Phases
  <2>. QED  BY <2>2, <2>5, <2>6
<1>16. ASSUME Patch!IInv, Patch!NotWritten
       PROVE  Patch!IInv'
  <2>1. /\ Same /\ UNCHANGED <<patch_disk, patch_spare>> /\ patch_at = "writing" /\ patch_at' = "writing"
        /\ patch_next' = patch_next + 1 /\ patch_next <= Len(patch_order) /\ patch_staged[Patch!Entry] = None
    BY <1>16 DEF Patch!NotWritten, Patch!Due
  <2>2. patch_next \in 1..Len(patch_order) /\ patch_staged[patch_order[patch_next]] = None
    BY <1>7, <1>16, <2>1
  <2>3. On(patch_disk', "writing", patch_next + 1)
    <3>1. ASSUME NEW i \in 1..Len(patch_order)
          PROVE  HeldText(patch_staged, patch_order, patch_before, "writing", patch_next + 1, i)
                    = HeldText(patch_staged, patch_order, patch_before, "writing", patch_next, i)
      BY <2>2 DEF HeldText
    <3>. QED  BY <1>7, <1>16, <2>1, <3>1 DEF Written
  <2>4. Patch!Applying' /\ Patch!NothingLost' /\ Patch!MeansItsActions'
    BY <1>11, <1>16, <2>1, <2>3
  <2>5. patch_spare' = [temporary |-> patch_spare'.temporary, backup |-> patch_spare'.backup]
    BY <1>7, <1>16, <2>1
  <2>. QED  BY <1>4, <1>16, <2>1, <2>4, <2>5 DEF Patch!Phases
<1>17. ASSUME Patch!IInv, Patch!WritesEnd
       PROVE  Patch!IInv'
  <2>1. /\ Same /\ UNCHANGED <<patch_disk, patch_spare>> /\ patch_at = "writing" /\ patch_at' = "deleting"
        /\ patch_next' = 1 /\ patch_next > Len(patch_order)
    BY <1>17 DEF Patch!WritesEnd
  <2>2. On(patch_disk', "deleting", 1)
    <3>1. ASSUME NEW i \in 1..Len(patch_order)
          PROVE  HeldText(patch_staged, patch_order, patch_before, "deleting", 1, i)
                    = HeldText(patch_staged, patch_order, patch_before, "writing", patch_next, i)
      BY <1>7, <1>17, <2>1 DEF HeldText
    <3>. QED  BY <1>7, <1>17, <2>1, <3>1 DEF Written
  <2>3. Patch!NothingLost'
    BY <1>3, <1>7, <1>17, <2>1, <2>2
  <2>4. Patch!Applying'
    BY <1>7, <1>17, <2>1, <2>2 DEF Patch!Applying
  <2>5. patch_spare' = [temporary |-> patch_spare'.temporary, backup |-> patch_spare'.backup]
    BY <1>7, <1>17, <2>1
  <2>. QED  BY <1>4, <1>17, <2>1, <2>3, <2>4, <2>5 DEF Patch!MeansItsActions, Patch!Phases
<1>18. ASSUME Patch!IInv, Patch!Delete
       PROVE  Patch!IInv'
  <2>1. /\ Same /\ UNCHANGED patch_spare /\ patch_at = "deleting" /\ patch_at' = "deleting"
        /\ patch_next' = patch_next + 1 /\ patch_next <= Len(patch_order)
        /\ patch_disk' = IF patch_staged[Patch!Entry] = None
                         THEN [patch_disk EXCEPT ![FileAt[Patch!Entry]] = None] ELSE patch_disk
    BY <1>18 DEF Patch!Delete, Patch!Due
  <2>2. patch_next \in 1..Len(patch_order) /\ Patch!Entry = patch_order[patch_next]
    BY <1>7, <1>18, <2>1
  <2>3. On(patch_disk', "deleting", patch_next + 1)
    <3>. DEFINE map == patch_staged
                keys == patch_order
                files == patch_meant.files
                old == patch_before
                texts == patch_disk
                n == patch_next
                fs == Patch!Once
    <3>1. /\ Tells(map, keys, files, old, fs) /\ Written(map, keys, old, texts, "deleting", n, fs)
          /\ n \in 1..Len(keys) /\ fs \subseteq Files
          /\ patch_disk' = IF map[keys[n]] = None THEN [texts EXCEPT ![FileAt[keys[n]]] = None] ELSE texts
      BY <1>0, <1>7, <1>18, <2>1, <2>2
    <3>. HIDE DEF map, keys, files, old, texts, n, fs
    <3>2. /\ map[keys[n]] = HeldText(map, keys, old, "deleting", n + 1, n)
          /\ \A i \in 1..Len(keys) : i # n =>
                HeldText(map, keys, old, "deleting", n + 1, i) = HeldText(map, keys, old, "deleting", n, i)
      BY <3>1 DEF HeldText, Tells
    <3>3. CASE map[keys[n]] = None
      <4>1. Written(map, keys, old, [texts EXCEPT ![FileAt[keys[n]]] = None], "deleting", n + 1, fs)
        BY <1>e, <3>1, <3>2, <3>3
      <4>. QED  BY <3>1, <3>3, <4>1 DEF map, keys, old, n, fs
    <3>4. CASE map[keys[n]] # None
      <4>1. \A i \in 1..Len(keys) :
                HeldText(map, keys, old, "deleting", n + 1, i) = HeldText(map, keys, old, "deleting", n, i)
        BY <3>1, <3>2, <3>4 DEF HeldText
      <4>2. Written(map, keys, old, texts, "deleting", n + 1, fs)
        BY <3>1, <4>1 DEF Written
      <4>. QED  BY <3>1, <3>4, <4>2 DEF map, keys, old, n, fs
    <3>. QED  BY <3>3, <3>4
  <2>4. Patch!Applying' /\ Patch!NothingLost' /\ Patch!MeansItsActions'
    BY <1>11, <1>18, <2>1, <2>3
  <2>5. patch_spare' = [temporary |-> patch_spare'.temporary, backup |-> patch_spare'.backup]
    BY <1>7, <1>18, <2>1
  <2>. QED  BY <1>4, <1>18, <2>1, <2>4, <2>5 DEF Patch!Phases
<1>19. ASSUME Patch!IInv, Patch!DeletesEnd
       PROVE  Patch!IInv'
  <2>1. /\ Same /\ UNCHANGED <<patch_disk, patch_spare>> /\ patch_at = "deleting" /\ patch_at' = "done"
        /\ patch_next > Len(patch_order)
    BY <1>19 DEF Patch!DeletesEnd
  <2>2. \A f \in Patch!Once : patch_disk[f] = patch_meant.files[f]
    <3>. DEFINE map == patch_staged
                keys == patch_order
                files == patch_meant.files
                old == patch_before
                texts == patch_disk
                n == patch_next
                fs == Patch!Once
    <3>1. /\ Tells(map, keys, files, old, fs) /\ Written(map, keys, old, texts, "deleting", n, fs)
          /\ n \in Nat /\ n > Len(keys) /\ fs \subseteq Files
      BY <1>0, <1>7, <1>19, <2>1
    <3>. HIDE DEF map, keys, files, old, texts, n, fs
    <3>2. \A f \in fs : texts[f] = files[f]
      BY <1>g, <3>1
    <3>. QED  BY <3>2 DEF texts, files, fs
  <2>3. Patch!MeansItsActions'
    BY <1>7, <1>19, <2>1, <2>2 DEF Patch!MeansItsActions
  <2>4. Patch!NothingLost'
    BY <1>3, <1>7, <1>19, <2>1
  <2>5. patch_spare' = [temporary |-> patch_spare'.temporary, backup |-> patch_spare'.backup]
    BY <1>7, <1>19, <2>1
  <2>. QED  BY <1>4, <1>19, <2>1, <2>3, <2>4, <2>5 DEF Patch!Phases
<1>20. ASSUME Patch!IInv, Patch!Fails
       PROVE  Patch!IInv'
  <2>1. /\ Same /\ UNCHANGED patch_disk /\ patch_at' = "failed"
        /\ patch_at \in {"writing", "replacing", "removing", "deleting"}
        /\ \E left : patch_spare' = [patch_spare EXCEPT !.temporary = left]
    BY <1>20 DEF Patch!Fails, Patch!Due
  <2>2. Patch!NothingLost'
    BY <1>3, <1>7, <1>20, <2>1
  <2>3. patch_spare' = [temporary |-> patch_spare'.temporary, backup |-> patch_spare'.backup]
    <3>1. patch_spare = [temporary |-> patch_spare.temporary, backup |-> patch_spare.backup]
      BY <1>7, <1>20, <2>1
    <3>. QED  BY <2>1, <3>1
  <2>. QED  BY <1>4, <1>20, <2>1, <2>2, <2>3 DEF Patch!MeansItsActions, Patch!Phases
<1>21. ASSUME Patch!IInv, UNCHANGED Patch!vars
       PROVE  Patch!IInv'
  <2>1. Same /\ UNCHANGED <<patch_disk, patch_spare, patch_next, patch_at>>
    BY <1>21 DEF Patch!vars
  <2>2. Patch!Staged' /\ Patch!Meaning'
    <3>1. Patch!Staged /\ Patch!Meaning
      BY <1>21 DEF Patch!IInv
    <3>2. Patch!Staged'
      BY <2>1, <3>1 DEF Patch!Staged, Patch!Once
    <3>3. Patch!Meaning'
      BY <2>1, <3>1 DEF Patch!Meaning, Patch!Once
    <3>. QED  BY <3>2, <3>3
  <2>3. Patch!NothingLost' /\ Patch!MeansItsActions' /\ Patch!TypeOK'
    BY <1>21, <2>1 DEF Patch!IInv, Patch!NothingLost, Patch!OnDisk, Patch!MeansItsActions, Patch!Once,
       Patch!TypeOK, Patch!Contains
  <2>4. (Patch!Staging => Patch!Staging') /\ (Patch!Applying => Patch!Applying')
    <3>1. Patch!Staging => Patch!Staging'
      BY <2>1 DEF Patch!Staging
    <3>2. Patch!Applying => Patch!Applying'
      BY <2>1 DEF Patch!Applying, Patch!Entry, Patch!Wrote, Patch!Text, Patch!Once
    <3>. QED  BY <3>1, <3>2
  <2>. QED  BY <1>21, <2>1, <2>2, <2>3, <2>4 DEF Patch!IInv
<1>22. Patch!IInv /\ [Patch!Next]_(Patch!vars) => Patch!IInv'
  BY <1>2, <1>5, <1>6, <1>8, <1>9, <1>12, <1>13, <1>14, <1>15, <1>16, <1>17, <1>18, <1>19, <1>20, <1>21
     DEF Patch!Next
<1>23. Patch!IInv => Patch!TypeOK /\ Patch!MeansItsActions /\ Patch!NothingLost
  BY DEF Patch!IInv
<1>. QED  BY <1>1, <1>22, <1>23, PTL DEF Patch!Spec

-----------------------------------------------------------------------------
(* The components together *)

\* Who runs alone runs as its own specification says: a step of another component leaves
\* its variables as they are.
LEMMA EachItsOwn ==
    [Next]_allVars => /\ [OAuth!Next]_(OAuth!vars)
                      /\ [Commands!Next]_(Commands!vars)
                      /\ [Archive!Next]_(Archive!vars)
                      /\ [Desktop!Next]_(Desktop!vars)
                      /\ [Emulator!Next]_(Emulator!vars)
                      /\ [Downloads!Next]_(Downloads!vars)
                      /\ [FileOps!Next]_(FileOps!vars)
                      /\ [Incoming!Next]_(Incoming!vars)
                      /\ [Config!Next]_(Config!vars)
                      /\ [Checkpoints!Next]_(Checkpoints!vars)
                      /\ [Workspaces!Next]_(Workspaces!vars)
                      /\ [Migrations!Next]_(Migrations!vars)
                      /\ [Patch!Next]_(Patch!vars)
PROOF
<1>. SUFFICES ASSUME [Next]_allVars
              PROVE  /\ [OAuth!Next]_(OAuth!vars)
                     /\ [Commands!Next]_(Commands!vars)
                     /\ [Archive!Next]_(Archive!vars)
                     /\ [Desktop!Next]_(Desktop!vars)
                     /\ [Emulator!Next]_(Emulator!vars)
                     /\ [Downloads!Next]_(Downloads!vars)
                     /\ [FileOps!Next]_(FileOps!vars)
                     /\ [Incoming!Next]_(Incoming!vars)
                     /\ [Config!Next]_(Config!vars)
                     /\ [Checkpoints!Next]_(Checkpoints!vars)
                     /\ [Workspaces!Next]_(Workspaces!vars)
                     /\ [Migrations!Next]_(Migrations!vars)
                     /\ [Patch!Next]_(Patch!vars)
  OBVIOUS
<1>1. /\ OAuth!Next \/ UNCHANGED oauthVars
      /\ Commands!Next \/ UNCHANGED processVars
      /\ Archive!Next \/ UNCHANGED archiveVars
      /\ Desktop!Next \/ UNCHANGED desktopVars
      /\ Emulator!Next \/ UNCHANGED emulatorVars
      /\ Downloads!Next \/ UNCHANGED downloadsVars
      /\ FileOps!Next \/ UNCHANGED filesVars
      /\ Incoming!Next \/ UNCHANGED incomingVars
      /\ Config!Next \/ UNCHANGED configVars
      /\ Checkpoints!Next \/ UNCHANGED reviewsVars
      /\ Workspaces!Next \/ UNCHANGED workspacesVars
      /\ Migrations!Next \/ UNCHANGED migrationsVars
      /\ Patch!Next \/ UNCHANGED patchVars
  BY DEF Next, Only, allVars
<1>2. /\ UNCHANGED oauthVars => UNCHANGED OAuth!vars
      /\ UNCHANGED processVars => UNCHANGED Commands!vars
      /\ UNCHANGED archiveVars => UNCHANGED Archive!vars
      /\ UNCHANGED desktopVars => UNCHANGED Desktop!vars
      /\ UNCHANGED emulatorVars => UNCHANGED Emulator!vars
      /\ UNCHANGED downloadsVars => UNCHANGED Downloads!vars
      /\ UNCHANGED filesVars => UNCHANGED FileOps!vars
      /\ UNCHANGED incomingVars => UNCHANGED Incoming!vars
      /\ UNCHANGED configVars => UNCHANGED Config!vars
      /\ UNCHANGED reviewsVars => UNCHANGED Checkpoints!vars
      /\ UNCHANGED workspacesVars => UNCHANGED Workspaces!vars
      /\ UNCHANGED migrationsVars => UNCHANGED Migrations!vars
      /\ UNCHANGED patchVars => UNCHANGED Patch!vars
  <2>1. UNCHANGED oauthVars => UNCHANGED OAuth!vars
    BY DEF oauthVars, OAuth!vars
  <2>2. UNCHANGED processVars => UNCHANGED Commands!vars
    BY DEF processVars, Commands!vars
  <2>3. UNCHANGED archiveVars => UNCHANGED Archive!vars
    BY DEF archiveVars, Archive!vars, Archive!plans, Archive!local, Archive!remote
  <2>4. UNCHANGED desktopVars => UNCHANGED Desktop!vars
    BY DEF desktopVars, Desktop!vars, Desktop!desktop, Desktop!call
  <2>5. UNCHANGED emulatorVars => UNCHANGED Emulator!vars
    BY DEF emulatorVars, Emulator!vars, Emulator!world
  <2>6. UNCHANGED downloadsVars => UNCHANGED Downloads!vars
    BY DEF downloadsVars, Downloads!vars
  <2>7. UNCHANGED filesVars => UNCHANGED FileOps!vars
    BY DEF filesVars, FileOps!vars
  <2>8. UNCHANGED incomingVars => UNCHANGED Incoming!vars
    BY DEF incomingVars, Incoming!vars, Incoming!here
  <2>9. UNCHANGED configVars => UNCHANGED Config!vars
    BY DEF configVars, Config!vars, Config!files
  <2>10. UNCHANGED reviewsVars => UNCHANGED Checkpoints!vars
    BY DEF reviewsVars, Checkpoints!vars
  <2>11. UNCHANGED workspacesVars => UNCHANGED Workspaces!vars
    BY DEF workspacesVars, Workspaces!vars
  <2>12. UNCHANGED migrationsVars => UNCHANGED Migrations!vars
    BY DEF migrationsVars, Migrations!vars
  <2>13. UNCHANGED patchVars => UNCHANGED Patch!vars
    BY DEF patchVars, Patch!vars
  <2>. QED
    BY <2>1, <2>2, <2>3, <2>4, <2>5, <2>6, <2>7, <2>8, <2>9, <2>10, <2>11, <2>12, <2>13
<1>. QED  BY <1>1, <1>2

\* A code or a refresh token gives at most one pair and a grant has at most one refresh token,
\* for any processes, calls and scopes (oauth-provider.ts, oauth-store.ts).
THEOREM TokensAreRotated == Spec => []TokensRotate
PROOF
<1>1. Init => OAuth!Init
  BY DEF Init
<1>2. OAuth!Spec => [](OAuth!TypeOK /\ OAuth!TokensRotate)
  BY ServicesAssumption, PairsRotate
<1>3. (OAuth!TypeOK /\ OAuth!TokensRotate) => TokensRotate
  BY DEF TokensRotate
<1>. QED  BY <1>1, <1>2, <1>3, EachItsOwn, PTL DEF Spec, OAuth!Spec

\* The command sessions, of which ProcessSessionsProofs proves the theorem.
Sessions == INSTANCE ProcessSessionsProofs WITH
    Starts <- CommandStarts, Polls <- CommandPolls,
    sessions <- process_sessions, process <- process_process, running <- process_running,
    operation <- process_operation, buffer <- process_buffer, produced <- process_produced,
    got <- process_got, claims <- process_claims, shuttingDown <- process_shuttingDown,
    coordinator <- process_coordinator, stage <- process_stage

\* They are the same component.
LEMMA OneSessions ==
    [Commands!Next]_(Commands!vars) => [Sessions!Next]_(Sessions!vars)
PROOF
<1>1. /\ \A n : Commands!HeadBudget(n) = Sessions!HeadBudget(n) /\ Commands!TailBudget(n) = Sessions!TailBudget(n)
      /\ \A q, n : Commands!TakeHead(q, n) = Sessions!TakeHead(q, n) /\ Commands!TakeTail(q, n) = Sessions!TakeTail(q, n)
      /\ Commands!Gap = Sessions!Gap /\ Commands!Empty = Sessions!Empty
  BY DEF Commands!HeadBudget, Sessions!HeadBudget, Commands!TailBudget, Sessions!TailBudget,
     Commands!TakeHead, Sessions!TakeHead, Commands!TakeTail, Sessions!TakeTail, Commands!Gap,
     Sessions!Gap, Commands!Empty, Sessions!Empty
<1>2. /\ \A b, q : Commands!AppendOutput(b, q) = Sessions!AppendOutput(b, q)
      /\ \A b : Commands!Retained(b) = Sessions!Retained(b)
      /\ \A q : Commands!TruncateOutput(q) = Sessions!TruncateOutput(q)
  BY <1>1 DEF Commands!AppendOutput, Sessions!AppendOutput, Commands!Retained, Sessions!Retained,
     Commands!TruncateOutput, Sessions!TruncateOutput
<1>3. /\ \A c, to : Commands!Goes(c, to) <=> Sessions!Goes(c, to)
      /\ \A c : Commands!ReleaseClaim(c) <=> Sessions!ReleaseClaim(c)
      /\ \A s, how : Commands!EndWorkOperation(s, how) <=> Sessions!EndWorkOperation(s, how)
      /\ \A c, s : Commands!Consume(c, s) <=> Sessions!Consume(c, s)
  BY <1>1, <1>2 DEF Commands!Goes, Sessions!Goes, Commands!ReleaseClaim, Sessions!ReleaseClaim,
     Commands!EndWorkOperation, Sessions!EndWorkOperation, Commands!Consume, Sessions!Consume
<1>4. \A s : Commands!Start(s) => Sessions!Start(s)
  BY <1>3 DEF Commands!Start, Sessions!Start
<1>5. \A s : Commands!StartFails(s) => Sessions!StartFails(s)
  BY <1>3 DEF Commands!StartFails, Sessions!StartFails
<1>6. \A s : Commands!Spawn(s) => Sessions!Spawn(s)
  BY <1>3 DEF Commands!Spawn, Sessions!Spawn
<1>7. \A s : Commands!Finish(s) => Sessions!Finish(s)
  BY <1>3 DEF Commands!Finish, Sessions!Finish
<1>8. \A s : Commands!Expire(s) => Sessions!Expire(s)
  BY <1>3 DEF Commands!Expire, Sessions!Expire
<1>9. \A c : Commands!Poll(c) => Sessions!Poll(c)
  BY <1>3 DEF Commands!Poll, Sessions!Poll
<1>10. \A c : Commands!Answer(c) => Sessions!Answer(c)
  BY <1>3 DEF Commands!Answer, Sessions!Answer
<1>11. \A c : Commands!Mutate(c) => Sessions!Mutate(c)
  BY <1>3 DEF Commands!Mutate, Sessions!Mutate
<1>12. \A c : Commands!MutateEnds(c) => Sessions!MutateEnds(c)
  BY <1>3 DEF Commands!MutateEnds, Sessions!MutateEnds
<1>13. Commands!Shutdown => Sessions!Shutdown
  BY <1>3 DEF Commands!Shutdown, Sessions!Shutdown
<1>14. \A s, n : Commands!Output(s, n) => Sessions!Output(s, n)
  BY <1>2 DEF Commands!Output, Sessions!Output
<1>. QED  BY <1>4, <1>5, <1>6, <1>7, <1>8, <1>9, <1>10, <1>11, <1>12, <1>13, <1>14 DEF
             Commands!Next, Sessions!Next, Commands!vars, Sessions!vars

\* A claim lasts as long as its command, and the answers tell what it wrote, in order and
\* with a mark where some is missing (process-sessions.ts).
THEOREM CommandsAreAccounted == Spec => []CommandsAccounted
PROOF
<1>0. Sessions!ProcessAssumption
  BY ServicesAssumption DEF Sessions!ProcessAssumption, Commands!ProcessAssumption
<1>1. Init => Sessions!Init
  BY DEF Init, Commands!Init, Sessions!Init, Commands!Calls, Sessions!Calls, Commands!Empty,
     Sessions!Empty
<1>2. Sessions!Spec => []Sessions!CommandsAccounted
  BY <1>0, Sessions!CommandsAreAccounted
<1>3. Sessions!CommandsAccounted => CommandsAccounted
  <2>1. Sessions!ClaimsCoverCommands => Commands!ClaimsCoverCommands
    BY DEF Sessions!ClaimsCoverCommands, Commands!ClaimsCoverCommands
  <2>2. \A q, a, b : Sessions!Tells(q, a, b) <=> Commands!Tells(q, a, b)
    BY DEF Sessions!Tells, Commands!Tells, Sessions!Gap, Commands!Gap
  <2>3. \A b : Sessions!Retained(b) = Commands!Retained(b)
    BY DEF Sessions!Retained, Commands!Retained, Sessions!Gap, Commands!Gap
  <2>4. Sessions!OutputAccounted => Commands!OutputAccounted
    BY <2>2, <2>3 DEF Sessions!OutputAccounted, Commands!OutputAccounted
  <2>. QED
    BY <2>1, <2>4 DEF CommandsAccounted, Sessions!CommandsAccounted, Commands!CommandsAccounted
<1>. QED  BY <1>1, <1>2, <1>3, EachItsOwn, OneSessions, PTL DEF Spec, Sessions!Spec

\* What the ledger says of a thread is what the provider has, and no turn runs on a thread that
\* is archived or being archived (project-archive.ts).
THEOREM ArchiveIsTrue == Spec => []ArchiveTrue
PROOF
<1>1. Init => Archive!Init
  BY DEF Init
<1>2. Archive!Spec => [](Archive!TypeOK /\ Archive!ArchiveTrue)
  BY ServicesAssumption, BatchesTell
<1>3. (Archive!TypeOK /\ Archive!ArchiveTrue) => ArchiveTrue
  BY DEF ArchiveTrue
<1>. QED  BY <1>1, <1>2, <1>3, EachItsOwn, PTL DEF Spec, Archive!Spec

\* A registration takes no thread from another project that it could see, and a process opens
\* one link for a workspace (codex-projects.ts).
THEOREM ThreadsStayInPlace == Spec => []ThreadsStay
PROOF
<1>1. Init => Desktop!Init
  BY DEF Init
<1>2. Desktop!Spec => [](Desktop!TypeOK /\ Desktop!ThreadsStay)
  BY RegistrationsSpare
<1>3. (Desktop!TypeOK /\ Desktop!ThreadsStay) => ThreadsStay
  BY DEF ThreadsStay
<1>. QED  BY <1>1, <1>2, <1>3, EachItsOwn, PTL DEF Spec, Desktop!Spec

\* A recovery stops the emulator of its proof or none, unless the serial has changed hands
\* (emulator-session-recovery.ts).
THEOREM RecoveryStopsTheRecorded == Spec => []StopsTheRecorded
PROOF
<1>1. Init => Emulator!Init
  BY DEF Init
<1>2. Emulator!Spec => [](Emulator!TypeOK /\ Emulator!StopsTheRecorded)
  BY ServicesAssumption, RecoveryStops
<1>3. (Emulator!TypeOK /\ Emulator!StopsTheRecorded) => StopsTheRecorded
  BY DEF StopsTheRecorded
<1>. QED  BY <1>1, <1>2, <1>3, EachItsOwn, PTL DEF Spec, Emulator!Spec

\* A destination holds a whole file, and a call that has ended leaves no partial one
\* (artifact-tools.ts).
THEOREM FilesAreWhole == Spec => []WholeFiles
PROOF
<1>1. Init => Downloads!Init
  BY DEF Init
<1>2. Downloads!Spec => [](Downloads!TypeOK /\ Downloads!WholeFiles /\ Downloads!NothingLeft)
  BY ServicesAssumption, DownloadsAreWhole
<1>3. (Downloads!TypeOK /\ Downloads!WholeFiles /\ Downloads!NothingLeft) => WholeFiles
  BY DEF WholeFiles
<1>. QED  BY <1>1, <1>2, <1>3, EachItsOwn, PTL DEF Spec, Downloads!Spec

\* No body of a response stays open, and a source contradicts nothing that its reference says
\* (incoming-artifacts.ts).
THEOREM NothingStaysOpen == Spec => []NothingHangs
PROOF
<1>1. Init => Incoming!Init
  BY DEF Init
<1>2. Incoming!Spec => [](Incoming!TypeOK /\ Incoming!NothingHangs)
  BY ServicesAssumption, BodiesAreClosed
<1>3. (Incoming!TypeOK /\ Incoming!NothingHangs) => NothingHangs
  BY DEF NothingHangs
<1>. QED  BY <1>1, <1>2, <1>3, EachItsOwn, PTL DEF Spec, Incoming!Spec

\* A user who upgrades runs with the old settings and what has been set since (user-config.ts).
THEOREM UpgradesKeepSettings == Spec => []UpgradeKeepsSettings
PROOF
<1>1. Init => Config!Init
  BY DEF Init
<1>2. Config!Spec => [](Config!TypeOK /\ Config!UpgradeKeepsSettings)
  BY ServicesAssumption, SettingsAreKept
<1>3. (Config!TypeOK /\ Config!UpgradeKeepsSettings) => UpgradeKeepsSettings
  BY DEF UpgradeKeepsSettings
<1>. QED  BY <1>1, <1>2, <1>3, EachItsOwn, PTL DEF Spec, Config!Spec

\* The baseline of a review descends from the open checkpoint (review-checkpoints.ts).
THEOREM BaselinesDescend == Spec => []BaselineDescends
PROOF
<1>1. Init => Checkpoints!Init
  BY DEF Init
<1>2. Checkpoints!Spec => [](Checkpoints!TypeOK /\ Checkpoints!BaselineDescends)
  BY ServicesAssumption, ReviewsLieBetween
<1>3. (Checkpoints!TypeOK /\ Checkpoints!BaselineDescends) => BaselineDescends
  BY DEF BaselineDescends
<1>. QED  BY <1>1, <1>2, <1>3, EachItsOwn, PTL DEF Spec, Checkpoints!Spec

\* No operation on a file and no download makes a text disappear that its caller did not name
\* (filesystem-operations.ts, artifact-tools.ts).
THEOREM NothingIsOverwritten == Spec => NothingOverwritten
PROOF
<1>1. Init => FileOps!Init /\ Downloads!Init
  BY DEF Init
<1>2. FileOps!Spec => []FileOps!TypeOK /\ FileOps!NothingOverwritten
  BY ServicesAssumption, OperationsSpareTexts
<1>3. Downloads!Spec => Downloads!NeverReplaces
  BY ServicesAssumption, DownloadsNeverReplace
<1>. QED
  BY <1>1, <1>2, <1>3, EachItsOwn, PTL DEF Spec, FileOps!Spec, Downloads!Spec, NothingOverwritten

\* A conversation keeps its workspace unless the directory has been missing, and is told the one
\* it is bound to (workspaces.ts).
THEOREM BindingsAreKept == Spec => BindingsKept
PROOF
<1>1. Init => Workspaces!Init
  BY DEF Init
<1>2. Workspaces!Spec => []Workspaces!TypeOK /\ Workspaces!BindingsStable /\ Workspaces!AnswersBound
  BY ServicesAssumption, ConversationsKeepWorkspaces
<1>. QED  BY <1>1, <1>2, EachItsOwn, PTL DEF Spec, Workspaces!Spec, BindingsKept

\* Whoever opens the database, whatever build wrote it, however many processes open it at once
\* and wherever they die, finds it migrated and every level under its new name
\* (db/migrations.ts).
THEOREM DatabasesAreMigrated == Spec => []OpenIsMigrated
PROOF
<1>1. Init => Migrations!Init
  BY DEF Init
<1>2. Migrations!Spec => [](Migrations!TypeOK /\ Migrations!OpenIsMigrated)
  BY ServicesAssumption, OpenersFindTheirSchema
<1>3. (Migrations!TypeOK /\ Migrations!OpenIsMigrated) => OpenIsMigrated
  BY DEF OpenIsMigrated
<1>. QED  BY <1>1, <1>2, <1>3, EachItsOwn, PTL DEF Spec, Migrations!Spec

\* A patch that is applied means its actions in their order, and one that fails or dies half
\* way loses no text, of every file that the actions do not use under two names
\* (apply-patch.ts).
THEOREM PatchesMeanTheirActions == Spec => []PatchesMean
PROOF
<1>1. Init => Patch!Init
  BY DEF Init
<1>2. Patch!Spec => [](Patch!TypeOK /\ Patch!MeansItsActions /\ Patch!NothingLost)
  BY ServicesAssumption, PatchesApply
<1>3. (Patch!TypeOK /\ Patch!MeansItsActions /\ Patch!NothingLost) => PatchesMean
  BY DEF PatchesMean
<1>. QED  BY <1>1, <1>2, <1>3, EachItsOwn, PTL DEF Spec, Patch!Spec

\* Every variable of the thirteen components keeps its type: among it the cache of workspaces
\* its limit (workspaces.ts), the size of a download its limit (artifact-tools.ts) and the
\* stream of a source a body that is open (incoming-artifacts.ts).
THEOREM TypesAreRight == Spec => []TypesOK
PROOF
<1>1. Init => /\ OAuth!Init /\ Downloads!Init /\ Incoming!Init /\ Sessions!Init /\ Workspaces!Init
              /\ Checkpoints!Init /\ Archive!Init /\ Patch!Init /\ FileOps!Init /\ Migrations!Init
              /\ Desktop!Init /\ Config!Init /\ Emulator!Init
  BY DEF Init, Commands!Init, Sessions!Init, Commands!Calls, Sessions!Calls, Commands!Empty,
     Sessions!Empty
<1>2. /\ OAuth!Spec => [](OAuth!TypeOK /\ OAuth!TokensRotate)
      /\ Downloads!Spec => [](Downloads!TypeOK /\ Downloads!WholeFiles /\ Downloads!NothingLeft)
      /\ Incoming!Spec => [](Incoming!TypeOK /\ Incoming!NothingHangs)
      /\ Workspaces!Spec => []Workspaces!TypeOK /\ Workspaces!BindingsStable /\ Workspaces!AnswersBound
      /\ Checkpoints!Spec => [](Checkpoints!TypeOK /\ Checkpoints!BaselineDescends)
      /\ Archive!Spec => [](Archive!TypeOK /\ Archive!ArchiveTrue)
      /\ Patch!Spec => [](Patch!TypeOK /\ Patch!MeansItsActions /\ Patch!NothingLost)
      /\ FileOps!Spec => []FileOps!TypeOK /\ FileOps!NothingOverwritten
      /\ Migrations!Spec => [](Migrations!TypeOK /\ Migrations!OpenIsMigrated)
      /\ Desktop!Spec => [](Desktop!TypeOK /\ Desktop!ThreadsStay)
      /\ Config!Spec => [](Config!TypeOK /\ Config!UpgradeKeepsSettings)
      /\ Emulator!Spec => [](Emulator!TypeOK /\ Emulator!StopsTheRecorded)
  BY ServicesAssumption, PairsRotate, DownloadsAreWhole, BodiesAreClosed,
     ConversationsKeepWorkspaces, ReviewsLieBetween, BatchesTell, PatchesApply,
     OperationsSpareTexts, OpenersFindTheirSchema, RegistrationsSpare, SettingsAreKept,
     RecoveryStops
<1>3. Sessions!Spec => []Sessions!IInv
  <2>1. Sessions!ProcessAssumption
    BY ServicesAssumption DEF Sessions!ProcessAssumption, Commands!ProcessAssumption
  <2>. QED  BY <2>1, Sessions!Invariance
<1>4. Sessions!IInv => Commands!TypeOK
  BY DEF Sessions!IInv, Sessions!TypeOK, Commands!TypeOK, Sessions!Calls, Commands!Calls
<1>5. /\ OAuth!TypeOK /\ Downloads!TypeOK /\ Incoming!TypeOK /\ Commands!TypeOK /\ Workspaces!TypeOK
      /\ Checkpoints!TypeOK /\ Archive!TypeOK /\ Patch!TypeOK /\ FileOps!TypeOK /\ Migrations!TypeOK
      /\ Desktop!TypeOK /\ Config!TypeOK /\ Emulator!TypeOK
      => TypesOK
  BY DEF TypesOK
<1>. QED
  BY <1>1, <1>2, <1>3, <1>4, <1>5, EachItsOwn, OneSessions, PTL DEF Spec, OAuth!Spec,
     Downloads!Spec,
     Incoming!Spec, Sessions!Spec, Workspaces!Spec, Checkpoints!Spec, Archive!Spec, Patch!Spec,
     FileOps!Spec, Migrations!Spec, Desktop!Spec, Config!Spec, Emulator!Spec
=============================================================================
