---------------------------- MODULE CodexRuntime ----------------------------
(***************************************************************************)
(* local-agent-codex.ts: the JSON-RPC connection to one codex app-server   *)
(* and the turns that run over it.                                         *)
(*                                                                         *)
(* The wire holds what the app-server has written and the node has not     *)
(* read: answers to turn/start and events of turns.  A turn of the server  *)
(* is named by the call that started it.  The requests before turn/start   *)
(* (quota, configuration, thread, identity, name, registration) are phases *)
(* with the outcomes their errors are given; an uncaught rejection ends    *)
(* the daemon.  The app-server is external.                                *)
(***************************************************************************)
EXTENDS Naturals, Sequences, FiniteSets, Functions

CONSTANTS
    Calls,         \* turns asked of the runtime
    Threads,
    Thread,        \* Thread[c]: the thread of a call
    None,
    MaxEvents,     \* bound of the model: usage and item events of a turn, each
    PendingLimit   \* usage held until the turn has its identifier

CodexAssumption ==
    /\ Thread \in [Calls -> Threads] /\ None \notin Calls
    /\ MaxEvents \in Nat /\ PendingLimit \in Nat \ {0}

VARIABLES
    child, alive, fatal,     \* the process, alive, fatalError
    phase,         \* phase[c]: what run awaits
    current,       \* turns: the call whose accumulator a thread has
    known,         \* accumulators whose turn has its identifier
    items, held, ended, snapshot,   \* items, pendingUsage, completed, its copy of items
    recent,        \* recentUsage: turns whose late usage still has its callback
    answer, usage, \* what run returned, what onUsage was given
    wire, server,  \* server[c]: how far the app-server is with the turn
    spoiled,       \* threads on which a turn/start was given up in time
    unhandled      \* a rejected promise that nobody awaits

accumulators == <<current, known, items, held, ended, snapshot, recent>>
process == <<child, alive, fatal>>
vars == <<process, phase, accumulators, answer, usage, wire, server, spoiled, unhandled>>

Init ==
    /\ child = "up" /\ alive = TRUE /\ fatal = FALSE
    /\ phase = [c \in Calls |-> "idle"]
    /\ current = [t \in Threads |-> None] /\ known = {} /\ recent = {}
    /\ items = [c \in Calls |-> <<>>] /\ held = [c \in Calls |-> <<>>]
    /\ ended = [c \in Calls |-> None] /\ snapshot = [c \in Calls |-> None]
    /\ answer = [c \in Calls |-> None] /\ usage = [c \in Calls |-> <<>>]
    /\ wire = <<>> /\ spoiled = {} /\ unhandled = FALSE
    /\ server = [c \in Calls |-> [state |-> "none", usage |-> 0, items |-> 0]]

Goes(c, to) == phase' = [phase EXCEPT ![c] = to]
Current(c) == current[Thread[c]] = c
Drop(c) == IF Current(c) THEN [current EXCEPT ![Thread[c]] = None] ELSE current
Server(c, state) == server' = [server EXCEPT ![c].state = state]

(***************************************************************************)
(* run, up to turn/start.                                                  *)
(***************************************************************************)
Run(c) ==
    /\ phase[c] = "idle"
    /\ Goes(c, IF alive /\ child = "up" THEN "quota" ELSE "failed")
    /\ UNCHANGED <<process, accumulators, answer, usage, wire, server, spoiled, unhandled>>

\* Missing quota metadata and a failed name are no errors; a provider that blocks,
\* a refused registration, configuration, sandbox or thread are.
Prepare(c) ==
    /\ \/ phase[c] = "quota" /\ phase' \in {[phase EXCEPT ![c] = p] : p \in {"opening", "failed"}}
       \/ phase[c] = "opening" /\ ~fatal
          /\ phase' \in {[phase EXCEPT ![c] = p] : p \in {"telling", "failed"}}
       \/ phase[c] \in {"opening", "telling"} /\ fatal /\ Goes(c, "failed")
    /\ UNCHANGED <<process, accumulators, answer, usage, wire, server, spoiled, unhandled>>

\* runTurn: a thread has one turn.
StartTurn(c) ==
    /\ phase[c] = "telling" /\ ~fatal
    /\ IF current[Thread[c]] = None
       THEN /\ Goes(c, "starting") /\ Server(c, "asked")
            /\ current' = [current EXCEPT ![Thread[c]] = c]
       ELSE Goes(c, "failed") /\ UNCHANGED <<current, server>>
    /\ UNCHANGED <<process, known, items, held, ended, snapshot, recent,
                   answer, usage, wire, spoiled, unhandled>>

\* The finally of runTurn, on the way out with an error.
Ends(c, to) ==
    /\ Goes(c, to) /\ current' = Drop(c)
    /\ recent' = IF c \in known THEN recent \union {c} ELSE recent

\* 30 s without an answer: the server may still run the turn.
StartTimesOut(c) ==
    /\ phase[c] = "starting" /\ Ends(c, "failed")
    /\ spoiled' = spoiled \union {Thread[c]}
    /\ UNCHANGED <<process, known, items, held, ended, snapshot, answer, usage, wire, server, unhandled>>

Whole(c, s) == s    \* a fault: whatever turn it is about
Own(c, s) == [i \in 1..Cardinality({j \in DOMAIN s : s[j] = c}) |-> c]

\* onTurnStarted has returned: the usage held so far is sorted, and a turn that
\* has already completed is not waited for.
TurnTold(c) ==
    /\ phase[c] = "telling turn"
    /\ usage' = [usage EXCEPT ![c] = @ \o Own(c, held[c])]
    /\ held' = [held EXCEPT ![c] = <<>>]
    /\ IF ended[c] = None /\ fatal THEN Ends(c, "failed")
       ELSE /\ Goes(c, IF ended[c] = None THEN "running" ELSE "settling")
            /\ UNCHANGED <<current, recent>>
    /\ UNCHANGED <<process, known, items, ended, snapshot, answer, wire, server, spoiled, unhandled>>

\* 150 ms after the completion; parseCompletedTurn prefers the items of the event.
Settle(c) ==
    /\ phase[c] = "settling"
    /\ \E inline \in BOOLEAN :
         LET result == IF inline THEN <<ended[c]>>
                       ELSE IF snapshot[c] # None THEN snapshot[c] ELSE items[c]
         IN /\ answer' = [answer EXCEPT ![c] = result]
            /\ Ends(c, IF result = <<>> THEN "failed" ELSE "done")
    /\ UNCHANGED <<process, known, items, held, ended, snapshot, usage, wire, server, spoiled, unhandled>>

\* A minute later the callback of a turn is forgotten.
Forget(c) ==
    /\ c \in recent /\ recent' = recent \ {c}
    /\ UNCHANGED <<process, phase, current, known, items, held, ended, snapshot,
                   answer, usage, wire, server, spoiled, unhandled>>

(***************************************************************************)
(* handleLine, which goes on after fail: by then the thread has no turn.   *)
(***************************************************************************)
Reads(kind) == wire # <<>> /\ Head(wire).kind = kind /\ wire' = Tail(wire)
It == Head(wire).turn
At == current[Thread[It]]
Matches == At # None /\ (At \notin known \/ At = It)    \* turnMatchesEvent

StartAnswered ==
    /\ Reads("started")
    /\ IF phase[It] = "starting"
       THEN Goes(It, "telling turn") /\ known' = known \union {It}
       ELSE UNCHANGED <<phase, known>>
    /\ UNCHANGED <<process, current, items, held, ended, snapshot, recent,
                   answer, usage, server, spoiled, unhandled>>

StartRefused ==
    /\ Reads("refused")
    /\ IF phase[It] = "starting" THEN Ends(It, "failed") ELSE UNCHANGED <<phase, current, recent>>
    /\ UNCHANGED <<process, known, items, held, ended, snapshot, answer, usage, server, spoiled, unhandled>>

UsageArrives ==
    /\ Reads("usage")
    /\ IF It \in recent
       THEN usage' = [usage EXCEPT ![It] = Append(@, It)] /\ UNCHANGED held
       ELSE IF At = None THEN UNCHANGED <<usage, held>>
       ELSE IF At \in known
       THEN /\ usage' = IF At = It THEN [usage EXCEPT ![It] = Append(@, It)] ELSE usage
            /\ UNCHANGED held
       ELSE /\ held' = [held EXCEPT ![At] =
                          IF Len(@) = PendingLimit THEN Append(Tail(@), It) ELSE Append(@, It)]
            /\ UNCHANGED usage
    /\ UNCHANGED <<process, phase, current, known, items, ended, snapshot, recent,
                   answer, server, spoiled, unhandled>>

ItemArrives ==
    /\ Reads("item")
    /\ items' = IF At = None THEN items ELSE [items EXCEPT ![At] = Append(@, It)]
    /\ UNCHANGED <<process, phase, current, known, held, ended, snapshot, recent,
                   answer, usage, server, spoiled, unhandled>>

CompletedArrives ==
    /\ Reads("completed")
    /\ IF Matches
       THEN /\ ended' = [ended EXCEPT ![At] = It]
            /\ IF phase[At] = "running"
               THEN Goes(At, "settling") /\ snapshot' = [snapshot EXCEPT ![At] = items[At]]
               ELSE UNCHANGED <<phase, snapshot>>
       ELSE UNCHANGED <<phase, ended, snapshot>>
    /\ UNCHANGED <<process, current, known, items, held, recent, answer, usage, server, spoiled, unhandled>>

(***************************************************************************)
(* fail: every request and every turn rejects, once.  Nobody awaits the    *)
(* completion of a turn whose turn/start is still unanswered.              *)
(***************************************************************************)
Fail ==
    IF fatal THEN UNCHANGED <<fatal, phase, current, recent, unhandled>>
    ELSE /\ fatal' = TRUE
         /\ phase' = [c \in Calls |-> IF phase[c] \in {"starting", "running"} THEN "failed" ELSE phase[c]]
         /\ current' = [t \in Threads |-> None]
         /\ recent' = {c \in known : phase[c] = "running"}
         /\ unhandled' = (unhandled \/ \E c \in Calls : phase[c] = "starting" /\ ended[c] = None)

Exit ==
    /\ child \in {"up", "term"} /\ child' = "gone" /\ alive' = FALSE /\ Fail
    /\ UNCHANGED <<known, items, held, ended, snapshot, answer, usage, wire, server, spoiled>>

Malformed ==
    /\ child = "up" /\ ~fatal /\ Fail
    /\ UNCHANGED <<child, alive, known, items, held, ended, snapshot, answer, usage, wire, server, spoiled>>

\* close, once; the pool closes a runtime that it has no turn on, or that is dead.
Close ==
    /\ alive /\ \A c \in Calls : phase[c] \in {"idle", "done", "failed"}
    /\ alive' = FALSE /\ child' = "term" /\ Fail
    /\ UNCHANGED <<known, items, held, ended, snapshot, answer, usage, wire, server, spoiled>>

(***************************************************************************)
(* The app-server: it may refuse a turn on a busy thread or queue it, and  *)
(* says of a turn what it has to say before it says that it has completed. *)
(***************************************************************************)
Writes(kind, c) == wire' = Append(wire, [kind |-> kind, turn |-> c])
Serves == /\ child = "up"
          /\ UNCHANGED <<process, phase, accumulators, answer, usage, spoiled, unhandled>>

Accept(c) == server[c].state = "asked" /\ Server(c, "running") /\ Writes("started", c) /\ Serves
Refuse(c) == server[c].state = "asked" /\ Server(c, "refused") /\ Writes("refused", c) /\ Serves
SayUsage(c) ==
    /\ server[c].state \in {"running", "over"} /\ server[c].usage < MaxEvents
    /\ server' = [server EXCEPT ![c].usage = @ + 1] /\ Writes("usage", c) /\ Serves
SayItem(c) ==
    /\ server[c].state = "running" /\ server[c].items < MaxEvents
    /\ server' = [server EXCEPT ![c].items = @ + 1] /\ Writes("item", c) /\ Serves
Complete(c) == server[c].state = "running" /\ Server(c, "over") /\ Writes("completed", c) /\ Serves

Turn(c) == Run(c) \/ Prepare(c) \/ StartTurn(c) \/ StartTimesOut(c) \/ TurnTold(c) \/ Settle(c) \/ Forget(c)
Line == StartAnswered \/ StartRefused \/ UsageArrives \/ ItemArrives \/ CompletedArrives
AppServer(c) == Accept(c) \/ Refuse(c) \/ SayUsage(c) \/ SayItem(c) \/ Complete(c)
Next == /\ ~unhandled
        /\ \/ \E c \in Calls : Turn(c) \/ AppServer(c)
           \/ Line \/ Exit \/ Malformed \/ Close
Spec == Init /\ [][Next]_vars

-----------------------------------------------------------------------------
Lines == [kind : {"started", "refused", "usage", "item", "completed"}, turn : Calls]
TypeOK ==
    /\ child \in {"up", "term", "gone"}
    /\ alive \in BOOLEAN /\ fatal \in BOOLEAN /\ unhandled \in BOOLEAN
    /\ phase \in [Calls -> {"idle", "quota", "opening", "telling", "starting", "telling turn",
                            "running", "settling", "done", "failed"}]
    /\ current \in [Threads -> Calls \union {None}] /\ known \subseteq Calls /\ recent \subseteq Calls
    /\ items \in [Calls -> Seq(Calls)] /\ held \in [Calls -> Seq(Calls)] /\ usage \in [Calls -> Seq(Calls)]
    /\ ended \in [Calls -> Calls \union {None}] /\ snapshot \in [Calls -> Seq(Calls) \union {None}]
    /\ answer \in [Calls -> Seq(Calls) \union {None}] /\ spoiled \subseteq Threads
    /\ wire \in Seq(Lines)
    /\ server \in [Calls -> [state : {"none", "asked", "refused", "running", "over"}, usage : Nat, items : Nat]]

\* Usage is given to the turn it is about, although it may come before turn/start
\* is answered, after the turn has ended, and among turns that follow one another on
\* a thread; and the answer of a turn holds items of that turn, unless a turn/start
\* of its thread was given up in time and may have left a turn running (runTurn,
\* handleLine).
TurnsApart ==
    \A c \in Calls :
        /\ Range(usage[c]) \subseteq {c}
        /\ phase[c] = "done" /\ Thread[c] \notin spoiled => ended[c] = c /\ Range(answer[c]) = {c}

\* What makes it so.  The app-server says of a turn what it has to say before it says that
\* it has completed, and nothing before it has accepted it.
Unasked == \A c \in Calls : phase[c] \in {"idle", "quota", "opening", "telling"} => server[c].state = "none"
Sent ==
    /\ \A i \in 1..Len(wire) :
          server[wire[i].turn].state \in CASE wire[i].kind = "refused"   -> {"refused"}
                                          [] wire[i].kind = "completed" -> {"over"}
                                          [] OTHER                      -> {"running", "over"}
    /\ \A i, j \in 1..Len(wire) : wire[i].kind = "completed" /\ i < j /\ wire[j].turn = wire[i].turn
                                  => wire[j].kind \notin {"item", "completed"}
\* While the app-server has a turn, or more to be read about it, it is the one of its thread.
Unread(c) == \E i \in 1..Len(wire) : wire[i].turn = c /\ wire[i].kind \in {"item", "completed"}
Followed ==
    /\ \A t \in Threads : current[t] # None => Thread[current[t]] = t
    /\ ~fatal => \A c \in Calls : Thread[c] \notin spoiled =>
          /\ server[c].state \in {"asked", "running"} \/ Unread(c) => Current(c)
          /\ ended[c] # None => server[c].state = "over" /\ ~Unread(c)
\* What a turn has gathered is its own.
OnlyOf(c, s) == \A i \in 1..Len(s) : s[i] = c
Gathered ==
    \A c \in Calls :
        /\ OnlyOf(c, usage[c]) /\ (phase[c] = "settling" => ended[c] # None)
        /\ Thread[c] \notin spoiled =>
              /\ ended[c] \in {None, c} /\ OnlyOf(c, items[c])
              /\ snapshot[c] # None => OnlyOf(c, snapshot[c])
              /\ phase[c] \in {"settling", "done"} => ended[c] = c
              /\ phase[c] = "done" => answer[c] \in Seq(Calls) \ {<<>>} /\ OnlyOf(c, answer[c])
IInv == TypeOK /\ Unasked /\ Sent /\ Followed /\ Gathered
\* After fail no thread has a turn again, so that lines still to be read reach none.
Cleared == fatal => current = [t \in Threads |-> None]

\* A provider that fails gives its turns an error and nothing else: no rejection
\* is left that would end the daemon (docs/local-agent-daemon.md:29).
RejectionsHandled == ~unhandled
=============================================================================
