--------------------------- MODULE ProjectArchive ---------------------------
(***************************************************************************)
(* src/project-archive.ts over src/codex-thread-control.ts: batches that   *)
(* archive or restore the provider's threads of one project.               *)
(*                                                                         *)
(* One execute call treats one entry.  It holds a claim on the checkout    *)
(* that excludes agents and other steps, and awaits the provider three     *)
(* times: to inspect, to act and to verify.  The process may die in        *)
(* between; its claim stays until someone reconciles it.  An answer may be *)
(* lost or late while the request still takes effect.  A plan reads the    *)
(* revisions before it asks the provider, so it is one step here.  Usage,  *)
(* identity and descendants are reasons that never change: left out, as    *)
(* are the expiry of a plan and the confirmation hash.  The provider's     *)
(* threads are external.                                                   *)
(***************************************************************************)
EXTENDS Naturals, FiniteSets

CONSTANTS
    Threads,
    Batches,
    Mode,          \* Mode[b]: "archive" or "restore"
    None,
    MaxTurns, MaxCrashes    \* bounds of the model

\* A claim tells a batch from an agent.
ArchiveAssumption == Threads \cap Batches = {}

VARIABLES
    state,         \* console_threads.archive_state
    flagged,       \* external_activity
    guarded,       \* protected
    open,          \* threads with a work run attached that is not finished and accepted
    agent,         \* the turn of the thread's agent
    claims,        \* execution claims on the checkout: threads' agents and batches
    batch,         \* console_archive_batches.status
    entry, seen, changed,   \* its entries: status, snapshot, revision moved since
    step,          \* the execute call under way
    away, turns, foreign,   \* the provider: archived threads, their turns, foreign turns
    asked,         \* requests that have not taken effect
    sent,          \* sent[b]: threads for which the provider was asked
    crashes

plans == <<batch, entry, seen>>
local == <<flagged, guarded, open, agent>>
remote == <<away, turns, foreign>>
vars == <<state, local, claims, plans, changed, step, remote, asked, sent, crashes>>

NoStep == [batch |-> None, thread |-> None, at |-> "none", again |-> FALSE]

Init ==
    /\ state = [t \in Threads |-> "active"] /\ flagged = {} /\ guarded = {} /\ open = {}
    /\ agent = [t \in Threads |-> "idle"] /\ claims = {}
    /\ batch = [b \in Batches |-> "none"] /\ changed = [b \in Batches |-> {}]
    /\ entry = [b \in Batches |-> [t \in Threads |-> "none"]]
    /\ seen = [b \in Batches |-> [t \in Threads |-> None]]
    /\ step = NoStep /\ away = {} /\ turns = [t \in Threads |-> 1] /\ foreign = {}
    /\ asked = {} /\ sent = [b \in Batches |-> {}] /\ crashes = 0

Archives(b) == Mode[b] = "archive"
Target(b) == IF Archives(b) THEN "archived" ELSE "active"
Revise(ts) == changed' = [b \in Batches |-> IF batch[b] = "none" THEN {} ELSE changed[b] \union ts]
SetState(t, s) == state' = [state EXCEPT ![t] = s] /\ Revise({t})
SetEntry(b, t, s) == entry' = [entry EXCEPT ![b][t] = s]

\* localReason; an archive is only taken back if it was done here.  The session of a turn that
\* has begun does not say so before the turn is queued or has its claim.
Eligible(b, t, again) ==
    /\ t \notin flagged /\ t \notin open /\ agent[t] \in {"idle", "begun"}
    /\ Archives(b) => t \notin guarded
    /\ ~again => state[t] = IF Archives(b) THEN "active" ELSE "archived"
    /\ ~Archives(b) => \E d \in Batches : Archives(d) /\ entry[d][t] = "succeeded"
Snapshot(t) == <<turns[t], t \in away>>

(***************************************************************************)
(* plan                                                                    *)
(***************************************************************************)
Plan(b) ==
    /\ batch[b] = "none" /\ batch' = [batch EXCEPT ![b] = "planned"]
    /\ \E fails \in SUBSET Threads :
         LET asks == {t \in Threads : Eligible(b, t, FALSE) /\ claims = {}}
             ready == {t \in asks \ (fails \union foreign) : (t \in away) = ~Archives(b)}
         IN /\ entry' = [entry EXCEPT ![b] = [t \in Threads |->
                           IF t \in ready THEN "ready" ELSE "skipped"]]
            /\ seen' = [seen EXCEPT ![b] = [t \in Threads |->
                           IF t \in ready THEN Snapshot(t) ELSE None]]
            /\ flagged' = flagged \union ((asks \cap foreign) \ fails)
            /\ Revise((asks \cap foreign) \ fails)
    /\ UNCHANGED <<state, guarded, open, agent, claims, step, remote, asked, sent, crashes>>

(***************************************************************************)
(* execute                                                                 *)
(***************************************************************************)
\* The end of every step: the status of the batch, and the claim.
Finishes(b) ==
    /\ batch' = [batch EXCEPT ![b] =
         LET states == {entry'[b][t] : t \in Threads}
         IN IF states \cap {"reconciliation_required", "executing"} # {}
            THEN "reconciliation_required"
            ELSE IF "ready" \in states THEN "executing"
            ELSE IF states = {"succeeded"} THEN "succeeded" ELSE "partial"]
    /\ step' = NoStep /\ claims' = claims \ {b}

Unsettled(b) == {t \in Threads : entry[b][t] \in {"executing", "reconciliation_required"}}
Ready(b) == {t \in Threads : entry[b][t] = "ready"}
Refused(again) == IF again THEN "reconciliation_required" ELSE "skipped"

\* Entries of unknown outcome come first.
Execute(b) ==
    /\ batch[b] \notin {"none", "succeeded"} /\ claims = {}
    /\ LET due == IF Unsettled(b) # {} THEN Unsettled(b) ELSE Ready(b)
       IN \/ due = {} /\ UNCHANGED <<entry, seen, changed>> /\ Finishes(b)
          \/ \E t \in due :
               LET again == entry[b][t] # "ready"
               IN IF Eligible(b, t, again) /\ (again \/ t \notin changed[b])
                  THEN /\ step' = [batch |-> b, thread |-> t, at |-> "inspecting", again |-> again]
                       /\ claims' = claims \union {b}
                       /\ batch' = [batch EXCEPT ![b] = "executing"]
                       /\ UNCHANGED <<entry, seen, changed>>
                  ELSE SetEntry(b, t, Refused(again)) /\ Finishes(b) /\ UNCHANGED <<seen, changed>>
    /\ UNCHANGED <<state, local, remote, asked, sent, crashes>>

At(where) == step.at = where
B == step.batch
T == step.thread
MarkSucceeded == SetEntry(B, T, "succeeded") /\ SetState(T, Target(B)) /\ Finishes(B)
Goes(where) == step' = [step EXCEPT !.at = where]
Act ==
    /\ SetEntry(B, T, "executing")
    /\ SetState(T, IF Archives(B) THEN "archiving" ELSE "restoring")
    /\ asked' = asked \union {<<B, T>>} /\ sent' = [sent EXCEPT ![B] = @ \union {T}]
    /\ Goes("asked") /\ UNCHANGED <<claims, batch>>

\* The provider cannot be inspected, or lists turns that are not ours.
InspectFails ==
    /\ At("inspecting") /\ SetEntry(B, T, Refused(step.again)) /\ Finishes(B)
    /\ \/ UNCHANGED <<flagged, changed>>
       \/ T \in foreign /\ flagged' = flagged \union {T} /\ Revise({T})
    /\ UNCHANGED <<state, guarded, open, agent, seen, remote, asked, sent, crashes>>

\* A request of unknown outcome is not repeated.
Inspected ==
    /\ At("inspecting") /\ T \notin foreign
    /\ IF step.again
       THEN /\ UNCHANGED <<asked, sent>>
            /\ IF (T \in away) = Archives(B) THEN MarkSucceeded
               ELSE /\ SetEntry(B, T, "reconciliation_required") /\ Finishes(B)
                    /\ UNCHANGED <<state, changed>>
       ELSE IF Snapshot(T) # seen[B][T]
       THEN SetEntry(B, T, "skipped") /\ Finishes(B) /\ UNCHANGED <<state, changed, asked, sent>>
       ELSE Act
    /\ UNCHANGED <<local, seen, remote, crashes>>

Acknowledged ==
    /\ At("asked") /\ <<B, T>> \notin asked /\ Goes("verifying")
    /\ UNCHANGED <<state, local, claims, plans, changed, remote, asked, sent, crashes>>

Unknown == SetState(T, "unknown") /\ SetEntry(B, T, "reconciliation_required") /\ Finishes(B)
RolledBack ==    \* a fault: the thread is as it was before the request
    /\ At("asked") /\ SetState(T, IF Archives(B) THEN "active" ELSE "archived")
    /\ SetEntry(B, T, "reconciliation_required") /\ Finishes(B)
    /\ UNCHANGED <<local, seen, remote, asked, sent, crashes>>
AnswerLost ==
    /\ At("asked") /\ Unknown
    /\ UNCHANGED <<local, seen, remote, asked, sent, crashes>>

Verified ==
    /\ At("verifying") /\ T \notin foreign /\ (T \in away) = Archives(B) /\ MarkSucceeded
    /\ UNCHANGED <<local, seen, remote, asked, sent, crashes>>
VerifyFails ==
    /\ At("verifying") /\ Unknown
    /\ flagged' \in {flagged, IF T \in foreign THEN flagged \union {T} ELSE flagged}
    /\ UNCHANGED <<guarded, open, agent, seen, remote, asked, sent, crashes>>

Crash ==
    /\ step # NoStep /\ crashes < MaxCrashes /\ crashes' = crashes + 1 /\ step' = NoStep
    /\ UNCHANGED <<state, local, claims, plans, changed, remote, asked, sent>>

\* Someone looks and removes the claim of a process that is gone.
ReconcileClaim ==
    /\ step = NoStep /\ \E b \in Batches : b \in claims /\ claims' = claims \ {b}
    /\ UNCHANGED <<state, local, plans, changed, step, remote, asked, sent, crashes>>

(***************************************************************************)
(* The agents of the threads, in local-agent-manager.ts.                   *)
(***************************************************************************)
AgentGoes(t, from, to) == agent[t] = from /\ agent' = [agent EXCEPT ![t] = to]

\* assertAgentUsable, and beginExecution; the claim, or a ticket that waits for it.
BeginTurn(t) ==
    /\ turns[t] < MaxTurns /\ state[t] = "active" /\ AgentGoes(t, "idle", "begun")
    /\ UNCHANGED <<state, flagged, guarded, open, claims, plans, changed, step, remote, asked, sent, crashes>>
QueueTurn(t) ==
    /\ claims # {} /\ AgentGoes(t, "begun", "queued")
    /\ UNCHANGED <<state, flagged, guarded, open, claims, plans, changed, step, remote, asked, sent, crashes>>
AdmitTurn(t) ==
    /\ claims \cap Batches = {} /\ (AgentGoes(t, "begun", "admitted") \/ AgentGoes(t, "queued", "admitted"))
    /\ claims' = claims \union {t}
    /\ UNCHANGED <<state, flagged, guarded, open, plans, changed, step, remote, asked, sent, crashes>>

EndsTurn(t) == agent' = [agent EXCEPT ![t] = "idle"] /\ claims' = claims \ {t}
\* attachThread: the work run is one of the thread's.
InvokesProvider(t) ==
    /\ agent' = [agent EXCEPT ![t] = "running"] /\ open' = open \union {t}
    /\ turns' = [turns EXCEPT ![t] = @ + 1] /\ UNCHANGED claims

\* runTurn and attachThread look again before the provider is invoked; the claim keeps what
\* they see.  A turn may fail before that.
RunTurnAtOnce(t) ==    \* a fault: trusts the look of BeginTurn
    /\ agent[t] = "admitted" /\ InvokesProvider(t)
    /\ UNCHANGED <<state, flagged, guarded, plans, changed, step, away, foreign, asked, sent, crashes>>
RunTurn(t) ==
    /\ agent[t] = "admitted"
    /\ \/ state[t] = "active" /\ InvokesProvider(t)
       \/ EndsTurn(t) /\ UNCHANGED <<open, turns>>
    /\ UNCHANGED <<state, flagged, guarded, plans, changed, step, away, foreign, asked, sent, crashes>>
EndTurn(t) ==
    /\ agent[t] \in {"queued", "running"} /\ EndsTurn(t)
    /\ UNCHANGED <<state, flagged, guarded, open, plans, changed, step, remote, asked, sent, crashes>>
\* finish, when no claim is left; a turn that waits may be one of another run.
FinishRun(t) ==
    /\ t \in open /\ claims = {} /\ open' = open \ {t}
    /\ UNCHANGED <<state, flagged, guarded, agent, claims, plans, changed, step, remote, asked, sent, crashes>>

Protect(t) ==
    /\ guarded' = IF t \in guarded THEN guarded \ {t} ELSE guarded \union {t}
    /\ Revise({t})
    /\ UNCHANGED <<state, flagged, open, agent, claims, plans, step, remote, asked, sent, crashes>>

(***************************************************************************)
(* The provider, and other applications that use its threads.              *)
(***************************************************************************)
TakesEffect(b, t) ==
    /\ <<b, t>> \in asked /\ asked' = asked \ {<<b, t>>}
    /\ away' = IF Archives(b) THEN away \union {t} ELSE away \ {t}
    /\ UNCHANGED <<state, local, claims, plans, changed, step, turns, foreign, sent, crashes>>
ForeignTurn(t) ==
    /\ t \notin foreign /\ foreign' = foreign \union {t}
    /\ UNCHANGED <<state, local, claims, plans, changed, step, away, turns, asked, sent, crashes>>

Next ==
    \/ \E b \in Batches : Plan(b) \/ Execute(b)
    \/ InspectFails \/ Inspected \/ Acknowledged \/ AnswerLost \/ Verified \/ VerifyFails
    \/ Crash \/ ReconcileClaim
    \/ \E t \in Threads :
         \/ BeginTurn(t) \/ QueueTurn(t) \/ AdmitTurn(t) \/ RunTurn(t) \/ EndTurn(t) \/ FinishRun(t)
         \/ Protect(t) \/ ForeignTurn(t) \/ \E b \in Batches : TakesEffect(b, t)

Spec == Init /\ [][Next]_vars

-----------------------------------------------------------------------------
TypeOK ==
    /\ state \in [Threads -> {"active", "archiving", "archived", "restoring", "unknown"}]
    /\ away \cup flagged \cup guarded \cup open \cup foreign \subseteq Threads
    /\ agent \in [Threads -> {"idle", "begun", "queued", "admitted", "running"}]
    /\ claims \subseteq Threads \union Batches
    /\ batch \in [Batches -> {"none", "planned", "executing", "reconciliation_required",
                              "succeeded", "partial"}]
    /\ entry \in [Batches -> [Threads -> {"none", "ready", "skipped", "executing",
                                          "reconciliation_required", "succeeded"}]]
    /\ asked \subseteq Batches \X Threads
    /\ step = NoStep \/ step \in [batch : Batches, thread : Threads,
                                 at : {"inspecting", "asked", "verifying"}, again : BOOLEAN]

\* What the ledger says of a thread is what the provider has, whatever answer was
\* lost, late or never verified, and however often a batch is executed again.
StatesTrue ==
    \A t \in Threads : /\ state[t] = "archived" => t \in away
                       /\ state[t] = "active" => t \notin away

\* No turn runs on a thread that is being archived or is archived, although agents
\* look at its state before they are admitted and steps before they await.
NoTurnAway == \A t \in Threads : agent[t] = "running" => state[t] = "active" /\ t \notin away
ArchiveTrue == StatesTrue /\ NoTurnAway

\* What makes it so.  While the outcome of an entry is open its thread is neither active nor
\* archived, and no other batch has one open for it; a request that has not taken effect is
\* of such an entry, and the thread is where it was before.
Open ==
    /\ \A b \in Batches : batch[b] = "none" => \A t \in Threads : entry[b][t] = "none"
    /\ \A b \in Batches : \A t \in Unsettled(b) :
          state[t] \notin {"active", "archived"} /\ \A d \in Batches \ {b} : t \notin Unsettled(d)
Asked ==
    \A b \in Batches, t \in Threads :
        <<b, t>> \in asked => t \in Unsettled(b) /\ (t \in away) = ~Archives(b)
\* A step holds the checkout, and what it found is still so after each await.
Stepping ==
    step # NoStep =>
        /\ B \in claims
        /\ At("inspecting") =>
              IF step.again THEN T \in Unsettled(B)
              ELSE entry[B][T] = "ready" /\ state[T] = IF Archives(B) THEN "active" ELSE "archived"
        /\ ~At("inspecting") => T \in Unsettled(B)
        /\ At("verifying") => <<B, T>> \notin asked
Excluded ==
    /\ \A t \in Threads : agent[t] \in {"admitted", "running"} => t \in claims
    /\ claims \cap Batches = {} \/ claims \cap Threads = {}
IInv == TypeOK /\ Open /\ Asked /\ Stepping /\ Excluded /\ ArchiveTrue
=============================================================================
