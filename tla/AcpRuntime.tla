----------------------------- MODULE AcpRuntime -----------------------------
(***************************************************************************)
(* local-agent-acp.ts and local-agent-grok.ts: one provider process that   *)
(* speaks the agent client protocol, from spawn to close, and the turns    *)
(* that run on its sessions.                                               *)
(*                                                                         *)
(* What the process writes is a FIFO wire of updates, responses and        *)
(* private completions; the continuation of an awaited promise is a step   *)
(* of its own.  The pool (RuntimePool) releases a session only when no     *)
(* turn runs on it.  The provider is external: an update of a prompt comes *)
(* before its response and its completion, and either may be missing; a    *)
(* completion may come without the identifier of its prompt.               *)
(***************************************************************************)
EXTENDS Integers, Sequences, FiniteSets, Functions

CONSTANTS Calls,       \* turns asked of the runtime; a call names its prompt
          Sessions,    \* session identifiers of the provider
          Want,        \* the session a call resumes, or None for a new one
          Override,    \* the calls that ask for a model or an effort explicitly
          None,
          Grok,        \* the provider is grok: prompts have identifiers
          Resume,      \* the provider advertises session/resume
          MaxUpdates,  \* updates the provider writes for a prompt
          QueueLimit,  \* MAX_ACP_QUEUE_ITEMS
          MemoryLimit  \* COMPLETED_PROMPT_ID_LIMIT

AcpAssumption ==
  /\ Want \in [Calls -> Sessions \cup {None}] /\ None \notin Sessions \cup Calls
  /\ MaxUpdates \in Nat /\ QueueLimit \in Nat \ {0} /\ MemoryLimit \in Nat

VARIABLES boot, child, alive, closed, connected,
          live, metadata, routed, queue, active, pending, completed,
          stage, session, answer, spoiled, wire, written
node == <<live, metadata, routed, queue, active, pending, completed>>
process == <<boot, child, alive, closed, connected>>
turns == <<stage, session, answer>>
vars == <<process, node, turns, spoiled, wire, written>>

Messages == [kind : {"update", "response", "error", "completion"}, prompt : Calls, id : BOOLEAN]
Over == {"done", "failed"}
Waiting == {"opening", "configuring", "prompting"}

TypeOK ==
  /\ boot \in {"none", "starting", "ready", "stopping", "failed", "closing", "closed"}
  /\ child \in {"none", "up", "term", "killed", "gone"}
  /\ {alive, closed, connected} \subseteq BOOLEAN
  /\ live \subseteq Sessions /\ metadata \subseteq Sessions /\ active \subseteq Sessions
  /\ routed \subseteq Sessions /\ queue \in [Sessions -> Seq(Calls)]
  /\ pending \subseteq Calls /\ completed \in Seq(Calls) /\ spoiled \subseteq Sessions
  /\ stage \in [Calls -> Over \cup Waiting \cup {"idle", "answered", "completed", "yielded"}]
  /\ session \in [Calls -> Sessions \cup {None}]
  /\ answer \in [Calls -> Seq(Calls)] /\ wire \in Seq(Messages)
  /\ written \in [Calls -> [sent : BOOLEAN, updates : 0..MaxUpdates, noted : BOOLEAN, answered : BOOLEAN]]

Init ==
  /\ boot = "none" /\ child = "none" /\ alive = FALSE /\ closed = FALSE /\ connected = FALSE
  /\ live = {} /\ metadata = {} /\ active = {} /\ pending = {} /\ completed = <<>>
  /\ routed = {} /\ queue = [s \in Sessions |-> <<>>]
  /\ stage = [c \in Calls |-> "idle"] /\ session = [c \in Calls |-> None]
  /\ answer = [c \in Calls |-> <<>>] /\ spoiled = {} /\ wire = <<>>
  /\ written = [c \in Calls |-> [sent |-> FALSE, updates |-> 0, noted |-> FALSE, answered |-> FALSE]]

IsAlive == alive /\ ~closed /\ child = "up"
Terminated == IF child = "up" THEN "term" ELSE child

-----------------------------------------------------------------------------
(* createRuntime: spawn, initialize within its time, or take it all down.  *)
Start ==
  /\ boot = "none" /\ boot' = "starting" /\ child' = "up" /\ connected' = TRUE
  /\ UNCHANGED <<alive, closed, node, turns, spoiled, wire, written>>

Initialized ==
  /\ boot = "starting" /\ connected /\ child = "up"
  /\ boot' = "ready" /\ alive' = TRUE
  /\ UNCHANGED <<child, closed, connected, node, turns, spoiled, wire, written>>

(* An error of the process, of the protocol, or the initialize timeout.    *)
StartFails ==
  /\ boot = "starting" /\ boot' = "stopping" /\ connected' = FALSE /\ child' = Terminated
  /\ UNCHANGED <<alive, closed, node, turns, spoiled, wire, written>>

StoppedAlone ==   \* a fault: no SIGKILL after the wait
  /\ boot \in {"stopping", "closing"}
  /\ boot' = IF boot = "stopping" THEN "failed" ELSE "closed"
  /\ UNCHANGED <<child, alive, closed, connected, node, turns, spoiled, wire, written>>

(* waitForProcessExit ends: the process left, or is killed after a second. *)
Stopped ==
  /\ boot \in {"stopping", "closing"}
  /\ boot' = IF boot = "stopping" THEN "failed" ELSE "closed"
  /\ child' = IF child = "gone" THEN "gone" ELSE "killed"
  /\ UNCHANGED <<alive, closed, connected, node, turns, spoiled, wire, written>>

(* Every request of a closed connection, and every completion, rejects.    *)
RejectAll(doomed) ==
  /\ stage' = [c \in Calls |-> IF c \in doomed THEN "failed" ELSE stage[c]]
  /\ pending' = {}
Doomed == {c \in Calls : stage[c] \in Waiting}
Unlock(cs) == active \ {session[c] : c \in {x \in cs : stage[x] = "prompting"}}

Exit ==
  /\ child \in {"up", "term", "killed"} /\ child' = "gone"
  /\ IF boot \in {"ready", "closing", "closed"}
     THEN /\ alive' = FALSE /\ connected' = FALSE /\ RejectAll(Doomed)
          /\ active' = Unlock(Doomed)
     ELSE UNCHANGED <<alive, connected, stage, pending, active>>
  /\ UNCHANGED <<boot, closed, live, metadata, routed, queue, completed, session, answer, spoiled, wire, written>>

Close ==
  /\ boot = "ready" /\ ~closed
  /\ closed' = TRUE /\ alive' = FALSE /\ connected' = FALSE /\ boot' = "closing"
  /\ child' = Terminated /\ live' = {} /\ metadata' = {} /\ active' = {}
  /\ routed' = {} /\ RejectAll(Doomed)
  /\ UNCHANGED <<queue, completed, session, answer, spoiled, wire, written>>

-----------------------------------------------------------------------------
(* run: open or resume the session, configure it, prompt, take the answer. *)
(* A claim on its thread key gives a session one turn at a time.           *)
InFlight(c) == stage[c] \notin Over \cup {"idle"}
Call(c) ==
  /\ stage[c] = "idle" /\ boot \notin {"none", "starting", "stopping", "failed"}
  /\ \A d \in Calls : InFlight(d) => Want[c] = None \/ Want[c] \notin {Want[d], session[d]}
  /\ \/ /\ IsAlive /\ Want[c] \in live
        /\ stage' = [stage EXCEPT ![c] = "configuring"]
        /\ session' = [session EXCEPT ![c] = Want[c]]
     \/ /\ IsAlive /\ Want[c] \notin live /\ (Want[c] = None \/ Resume)
        /\ stage' = [stage EXCEPT ![c] = "opening"] /\ UNCHANGED session
     \/ /\ ~IsAlive \/ (Want[c] \notin live \cup {None} /\ ~Resume)
        /\ stage' = [stage EXCEPT ![c] = "failed"] /\ UNCHANGED session
  /\ UNCHANGED <<process, node, answer, spoiled, wire, written>>

(* session/new or session/resume answers, with or without its options.     *)
Opened(c) ==
  /\ stage[c] = "opening" /\ connected
  /\ \E s \in IF Want[c] = None THEN Sessions \ (live \cup Range(Want) \cup Range(session))
                                ELSE {Want[c]} :
       /\ session' = [session EXCEPT ![c] = s] /\ live' = live \cup {s}
       /\ routed' = routed \cup {s} /\ queue' = [queue EXCEPT ![s] = <<>>]
       /\ metadata' \in {metadata, metadata \cup {s}}
  /\ stage' = [stage EXCEPT ![c] = "configuring"]
  /\ UNCHANGED <<process, active, pending, completed, answer, spoiled, wire, written>>

CanConfigure(c) == Want[c] = None \/ session[c] \in metadata

Prompt(c) ==
  /\ stage[c] = "configuring" /\ connected
  /\ CanConfigure(c) \/ c \notin Override
  /\ session[c] \notin active
  /\ stage' = [stage EXCEPT ![c] = "prompting"]
  /\ active' = active \cup {session[c]}
  /\ routed' = routed \cup {session[c]}
  /\ queue' = [queue EXCEPT ![session[c]] = <<>>]
  /\ pending' = IF Grok THEN pending \cup {c} ELSE pending
  /\ written' = [written EXCEPT ![c].sent = TRUE]
  /\ UNCHANGED <<process, live, metadata, completed, session, answer, spoiled, wire>>

Gives(c) ==
  /\ stage' = [stage EXCEPT ![c] = "failed"]
  /\ pending' = pending \ {c} /\ active' = Unlock({c})
  /\ UNCHANGED <<process, live, metadata, routed, queue, completed, session, answer>>

(* A refused session or option, a missing override, a busy session.        *)
Refused(c) ==
  /\ stage[c] \in {"opening", "configuring"} /\ Gives(c) /\ UNCHANGED <<spoiled, wire, written>>

(* No completion in time: the provider still works on the prompt.          *)
TimesOut(c) ==
  /\ c \in pending /\ stage[c] = "prompting" /\ Gives(c)
  /\ spoiled' = spoiled \cup {session[c]} /\ UNCHANGED <<wire, written>>

Remember(c) ==
  IF c \in Range(completed) THEN completed
  ELSE LET all == Append(completed, c)
       IN IF Len(all) > MemoryLimit THEN Tail(all) ELSE all

(* The turn takes what its queue holds; without text it is an error.       *)
Take(c) ==
  /\ stage[c] \in {"answered", "yielded"}
  /\ answer' = [answer EXCEPT ![c] = queue[session[c]]]
  /\ stage' = [stage EXCEPT ![c] = IF answer'[c] = <<>> THEN "failed" ELSE "done"]
  /\ queue' = [queue EXCEPT ![session[c]] = <<>>]
  /\ active' = active \ {session[c]} /\ pending' = pending \ {c}
  /\ completed' = IF Grok /\ stage[c] = "answered" THEN Remember(c) ELSE completed
  /\ UNCHANGED <<process, live, metadata, routed, session, spoiled, wire, written>>

Yield(c) ==
  /\ stage[c] = "completed" /\ stage' = [stage EXCEPT ![c] = "yielded"]
  /\ UNCHANGED <<process, node, session, answer, spoiled, wire, written>>

(* releaseSession, by the pool: no turn runs on the session.               *)
Release(s) ==
  /\ boot = "ready" /\ s \in live
  /\ \A c \in Calls : session[c] = s => stage[c] \in Over
  /\ live' = live \ {s} /\ metadata' = metadata \ {s} /\ routed' = routed \ {s}
  /\ UNCHANGED <<process, queue, active, pending, completed, turns, spoiled, wire, written>>

-----------------------------------------------------------------------------
(* The provider: what it writes for a prompt it has been sent.             *)
Writes(m) == wire' = Append(wire, m)
ProviderStep == UNCHANGED <<process, node, turns, spoiled>>

Update(c) ==
  /\ child = "up" /\ written[c].sent /\ written[c].updates < MaxUpdates
  /\ ~written[c].noted /\ ~written[c].answered
  /\ written' = [written EXCEPT ![c].updates = @ + 1]
  /\ Writes([kind |-> "update", prompt |-> c, id |-> TRUE]) /\ ProviderStep

Respond(c) ==
  /\ child = "up" /\ written[c].sent /\ ~written[c].answered
  /\ written' = [written EXCEPT ![c].answered = TRUE]
  /\ \E kind \in {"response", "error"} : Writes([kind |-> kind, prompt |-> c, id |-> TRUE])
  /\ ProviderStep

Complete(c) ==
  /\ child = "up" /\ Grok /\ written[c].sent /\ ~written[c].noted
  /\ written' = [written EXCEPT ![c].noted = TRUE]
  /\ \E known \in BOOLEAN : Writes([kind |-> "completion", prompt |-> c, id |-> known])
  /\ ProviderStep

-----------------------------------------------------------------------------
(* What the node does with the next message of the wire.                   *)
Delivers(kind) == wire # <<>> /\ Head(wire).kind = kind /\ wire' = Tail(wire)
It == Head(wire).prompt
Fit(q) == IF Len(q) > QueueLimit THEN Tail(q) ELSE q

UpdateArrives ==
  /\ Delivers("update")
  /\ queue' = IF session[It] \in routed
              THEN [queue EXCEPT ![session[It]] = Fit(Append(@, It))] ELSE queue
  /\ UNCHANGED <<process, live, metadata, routed, active, pending, completed, turns, spoiled, written>>

ResponseArrives ==
  /\ Delivers("response")
  /\ stage' = IF stage[It] = "prompting" THEN [stage EXCEPT ![It] = "answered"] ELSE stage
  /\ UNCHANGED <<process, node, session, answer, spoiled, written>>

(* The prompt is answered by an error: the turn rejects.                   *)
ErrorArrives ==
  /\ Delivers("error")
  /\ IF stage[It] = "prompting" THEN Gives(It)
     ELSE UNCHANGED <<process, node, turns>>
  /\ UNCHANGED <<spoiled, written>>

(* GrokPromptCompletionRegistry.resolve.                                   *)
SettledAny(m) == {c \in pending : session[c] = session[m.prompt]}   \* a fault: whatever its id
Settled(m) ==
  IF m.id THEN pending \cap {m.prompt}
          ELSE {c \in pending : session[c] = session[m.prompt]}

CompletionArrives ==
  /\ Delivers("completion")
  /\ LET settled == Settled(Head(wire)) IN
       IF settled = {} \/ (Head(wire).id /\ It \in Range(completed))
       THEN UNCHANGED <<stage, pending, completed, spoiled>>
       ELSE \E c \in settled :
              /\ pending' = pending \ {c}
              /\ completed' = Remember(IF Head(wire).id THEN It ELSE c)
              /\ stage' = IF stage[c] = "prompting" THEN [stage EXCEPT ![c] = "completed"] ELSE stage
              /\ spoiled' = IF Head(wire).id THEN spoiled ELSE spoiled \cup {session[c]}
  /\ UNCHANGED <<process, live, metadata, routed, queue, active, session, answer, written>>

Continues(c) ==
  \/ Call(c) \/ Opened(c) \/ Prompt(c) \/ Refused(c)
  \/ TimesOut(c) \/ Yield(c) \/ Take(c)
Provider(c) == Update(c) \/ Respond(c) \/ Complete(c)
Arrival == UpdateArrives \/ ResponseArrives \/ ErrorArrives \/ CompletionArrives
Next ==
  \/ Start \/ Initialized \/ StartFails \/ Stopped \/ Exit \/ Close
  \/ \E c \in Calls : Continues(c) \/ Provider(c)
  \/ \E s \in Sessions : Release(s)
  \/ Arrival

Spec == Init /\ [][Next]_vars
(* The event loop runs what is ready; the second of waitForProcessExit passes. *)
Fairness ==
  /\ WF_vars(Stopped)
  /\ \A c \in Calls : WF_vars(Yield(c)) /\ WF_vars(Take(c))
FairSpec == Spec /\ Fairness

-----------------------------------------------------------------------------
(* A finished turn returns every update of its own prompt that its queue   *)
(* can hold, and none of another, although turns follow one another on a   *)
(* session and completions arrive late: unless a turn of that session was  *)
(* given up in time, or settled by a completion that does not name its     *)
(* prompt (AcpRuntime.run, GrokPromptCompletionRegistry.resolve).          *)
AnswersOwn ==
  \A c \in Calls : stage[c] = "done" /\ session[c] \notin spoiled =>
    /\ Range(answer[c]) = {c}
    /\ written[c].noted \/ written[c].answered
    /\ Len(answer[c]) = IF written[c].updates > QueueLimit THEN QueueLimit ELSE written[c].updates

(* What makes it so: a session has one turn in flight, and a runtime that  *)
(* has lost its connection takes no other.                                 *)
Exclusive ==
  /\ alive => connected /\ boot = "ready"
  /\ boot \in {"none", "starting", "stopping", "failed"} => \A c \in Calls : stage[c] = "idle"
  /\ ~connected => \A c \in Calls : stage[c] \notin Waiting
  /\ \A c \in Calls :
       /\ session[c] \in {None, Want[c]} \/ Want[c] = None
       /\ stage[c] \in {"idle", "opening"} => session[c] = None
       /\ InFlight(c) /\ stage[c] # "opening" => session[c] # None
  /\ \A c, d \in Calls : c # d /\ InFlight(c) /\ InFlight(d) =>
       {Want[c], session[c]} \cap {Want[d], session[d]} \subseteq {None}

(* The provider writes of prompts it was sent, and no update of one after  *)
(* its response or its completion.                                         *)
Sent ==
  \A c \in Calls :
    /\ written[c].sent => session[c] # None /\ stage[c] \notin {"idle", "opening", "configuring"}
    /\ ~written[c].sent => written[c].updates = 0 /\ ~written[c].noted /\ ~written[c].answered
    /\ stage[c] \in {"prompting", "answered", "completed", "yielded", "done"} => written[c].sent
Ordered ==
  /\ \A i \in 1..Len(wire) :
       /\ written[wire[i].prompt].sent
       /\ wire[i].kind = "completion" => written[wire[i].prompt].noted
       /\ wire[i].kind \in {"response", "error"} => written[wire[i].prompt].answered
  /\ \A i, j \in 1..Len(wire) :
       i < j /\ wire[i].kind # "update" /\ wire[j].kind = "update" => wire[i].prompt # wire[j].prompt

(* A turn has queued what it can hold of the updates that have been read.  *)
Unread(c) == {i \in 1..Len(wire) : wire[i].kind = "update" /\ wire[i].prompt = c}
Ended(c) == written[c].noted \/ written[c].answered
Least(m, n) == IF m <= n THEN m ELSE n
OnlyOf(c, q) == \A i \in 1..Len(q) : q[i] = c
Settling == {"answered", "completed", "yielded"}
Queued ==
  /\ \A c \in Calls : Cardinality(Unread(c)) <= written[c].updates
  /\ \A c \in Calls : stage[c] \in Settling \cup {"prompting"} /\ session[c] \notin spoiled =>
       /\ OnlyOf(c, queue[session[c]])
       /\ Len(queue[session[c]]) = Least(QueueLimit, written[c].updates - Cardinality(Unread(c)))
       /\ stage[c] = "prompting" => session[c] \in routed
       /\ stage[c] # "prompting" => Unread(c) = {} /\ Ended(c)

(* The turns before it on its session are silent.                          *)
Silent ==
  \A d \in Calls : stage[d] \in Over /\ written[d].sent /\ session[d] \notin spoiled =>
    \/ Unread(d) = {} /\ Ended(d)
    \/ ~connected /\ \A c \in Calls : session[c] = session[d] => stage[c] \notin Settling
Taken ==
  \A c \in Calls : stage[c] = "done" /\ session[c] \notin spoiled =>
    /\ OnlyOf(c, answer[c]) /\ answer[c] # <<>> /\ Ended(c)
    /\ Len(answer[c]) = Least(QueueLimit, written[c].updates)
IInv == TypeOK /\ Exclusive /\ Sent /\ Ordered /\ Queued /\ Silent /\ Taken

(* Once the runtime is being taken down, after a failed start or by close, *)
(* its process ends and every turn it took settles (close, createRuntime). *)
TakenDown ==
  (boot \in {"stopping", "closing"}) ~>
    (child \in {"killed", "gone"} /\ \A c \in Calls : stage[c] \in Over \cup {"idle"})

=============================================================================
