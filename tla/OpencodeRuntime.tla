-------------------------- MODULE OpencodeRuntime --------------------------
(***************************************************************************)
(* local-agent-opencode.ts: turns on the sessions of one OpenCode server,  *)
(* which all agents share.  A turn prompts its session and then polls the  *)
(* history of the session and the set of active sessions, one after the    *)
(* other, until the turn has completed or its time is over.                *)
(*                                                                         *)
(* The server is external: it works off the prompts of a session in their  *)
(* order, and completes each with a text, or with an error and none.       *)
(***************************************************************************)
EXTENDS Naturals, Sequences, FiniteSets, Functions

CONSTANTS
    Calls,         \* turns; a call names its prompt
    Sessions,
    Session,       \* Session[c]
    None,
    Page           \* messages of a page: limit

OpencodeAssumption ==
    Session \in [Calls -> Sessions] /\ None \notin Calls /\ Page \in Nat \ {0}

VARIABLES
    alive, closed, healthy,   \* the runtime; whether its server answers
    named,         \* the server says which message a prompt is
    history,       \* history[s]: messages [role, turn, state]
    active,        \* active[s]: the turn the server works on, or None
    stage, read, observed,   \* of each call: the history it has read, whether it saw the session active
    answer,
    spoiled        \* sessions with a turn that was given up

runtime == <<alive, closed, healthy, named>>
vars == <<runtime, history, active, stage, read, observed, answer, spoiled>>

Init ==
    /\ alive = TRUE /\ closed = FALSE /\ healthy = TRUE /\ named \in BOOLEAN
    /\ history = [s \in Sessions |-> <<>>] /\ active = [s \in Sessions |-> None]
    /\ stage = [c \in Calls |-> "idle"] /\ read = [c \in Calls |-> <<>>]
    /\ observed = {} /\ answer = [c \in Calls |-> None] /\ spoiled = {}

Message(role, c, state) == [role |-> role, turn |-> c, state |-> state]
Goes(c, to) == stage' = [stage EXCEPT ![c] = to]

(***************************************************************************)
(* The server.                                                             *)
(***************************************************************************)
Works(s) ==
    /\ healthy /\ active[s] = None
    /\ LET asked == {c \in Calls : Session[c] = s /\ Message("user", c, "done") \in Range(history[s])}
           begun == {c \in Calls : \E m \in Range(history[s]) : m.role = "assistant" /\ m.turn = c}
           at(c) == CHOOSE i \in DOMAIN history[s] : history[s][i] = Message("user", c, "done")
       IN \E c \in asked \ begun :
            /\ \A d \in asked \ begun : at(c) <= at(d)
            /\ active' = [active EXCEPT ![s] = c]
            /\ history' = [history EXCEPT ![s] = Append(@, Message("assistant", c, "open"))]
    /\ UNCHANGED <<runtime, stage, read, observed, answer, spoiled>>

Completes(s) ==
    /\ healthy /\ active[s] # None /\ active' = [active EXCEPT ![s] = None]
    /\ \E state \in {"text", "error"} :
         history' = [history EXCEPT ![s] =
             [i \in DOMAIN @ |-> IF @[i] = Message("assistant", active[s], "open")
                                 THEN Message("assistant", active[s], state) ELSE @[i]]]
    /\ UNCHANGED <<runtime, stage, read, observed, answer, spoiled>>

Dies == healthy /\ healthy' = FALSE
        /\ UNCHANGED <<alive, closed, named, history, active, stage, read, observed, answer, spoiled>>

(***************************************************************************)
(* run.                                                                    *)
(***************************************************************************)
\* A transport failure ends the runtime with the turn.
Breaks(c) ==
    /\ ~healthy /\ stage[c] \in {"opening", "reading", "asking", "taking"}
    /\ Goes(c, "failed") /\ alive' = FALSE
    /\ spoiled' = IF stage[c] = "opening" THEN spoiled ELSE spoiled \union {Session[c]}
    /\ UNCHANGED <<closed, healthy, named, history, active, read, observed, answer>>

\* The health check, the session, its agent and its model; a claim on its thread key gives
\* a session one turn at a time.
Run(c) ==
    /\ stage[c] = "idle"
    /\ \A d \in Calls : Session[d] = Session[c] => stage[d] \in {"idle", "done", "failed"}
    /\ Goes(c, IF alive /\ ~closed THEN "opening" ELSE "failed")
    /\ UNCHANGED <<runtime, history, active, read, observed, answer, spoiled>>

Prompt(c) ==
    /\ stage[c] = "opening" /\ healthy
    /\ \/ Goes(c, "failed") /\ UNCHANGED history
       \/ /\ Goes(c, "reading")
          /\ history' = [history EXCEPT ![Session[c]] = Append(@, Message("user", c, "done"))]
    /\ UNCHANGED <<runtime, active, read, observed, answer, spoiled>>

\* hasCompletedOpenCodeTurn: an assistant message that is over, after the prompt if
\* that is known.
CompletedAnyTurn(c, messages) ==    \* a fault: the prompt is not looked for
    \E i \in DOMAIN messages : messages[i].role = "assistant" /\ messages[i].state # "open"
Completed(c, messages) ==
    \E i \in DOMAIN messages :
        /\ messages[i].role = "assistant" /\ messages[i].state # "open"
        /\ named => \E j \in 1..(i - 1) : messages[j] = Message("user", c, "done")

\* readOpencodeMessages: pages from the beginning, up to the one in which a known
\* prompt has completed.
Pages(c) ==
    LET all == history[Session[c]]
        upTo(n) == SubSeq(all, 1, IF n * Page < Len(all) THEN n * Page ELSE Len(all))
        over == {n \in 1..Len(all) : named /\ Completed(c, upTo(n))}
    IN IF over = {} THEN all ELSE upTo(CHOOSE n \in over : \A m \in over : n <= m)

Reads(c) ==
    /\ stage[c] = "reading" /\ healthy /\ Goes(c, "asking")
    /\ read' = [read EXCEPT ![c] = Pages(c)]
    /\ UNCHANGED <<runtime, history, active, observed, answer, spoiled>>

\* session.active, asked after the history was read; when the time is over and the turn
\* is not, it is given up.
Running(c) == active[Session[c]] # None
Seen(c) == IF Running(c) THEN observed \union {c} ELSE observed
IsOver(c) == Completed(c, read[c]) /\ (named \/ (c \in Seen(c) /\ ~Running(c)))
Asks(c) ==
    /\ stage[c] = "asking" /\ healthy /\ observed' = Seen(c)
    /\ Goes(c, IF IsOver(c) THEN "taking" ELSE "reading")
    /\ UNCHANGED <<runtime, history, active, read, answer, spoiled>>
GivesUp(c) ==
    /\ stage[c] = "asking" /\ healthy /\ observed' = Seen(c)
    /\ ~IsOver(c) /\ Goes(c, "failed") /\ spoiled' = spoiled \union {Session[c]}
    /\ UNCHANGED <<runtime, history, active, read, answer>>

\* The last assistant text of what is read once more.
Takes(c) ==
    /\ stage[c] = "taking" /\ healthy
    /\ LET messages == Pages(c)
           texts == {i \in DOMAIN messages : messages[i].role = "assistant" /\ messages[i].state = "text"}
       IN IF texts = {} THEN Goes(c, "failed") /\ UNCHANGED answer
          ELSE /\ Goes(c, "done")
               /\ answer' = [answer EXCEPT ![c] = messages[CHOOSE i \in texts : \A j \in texts : j <= i].turn]
    /\ UNCHANGED <<runtime, history, active, read, observed, spoiled>>

Close ==
    /\ ~closed /\ closed' = TRUE /\ alive' = FALSE /\ healthy' = FALSE
    /\ UNCHANGED <<named, history, active, stage, read, observed, answer, spoiled>>

Next ==
    \/ \E s \in Sessions : Works(s) \/ Completes(s)
    \/ \E c \in Calls : Breaks(c) \/ Run(c) \/ Prompt(c) \/ Reads(c) \/ Asks(c) \/ GivesUp(c) \/ Takes(c)
    \/ Dies \/ Close
Spec == Init /\ [][Next]_vars

-----------------------------------------------------------------------------
Failed(c) == Message("assistant", c, "error") \in Range(history[Session[c]])

\* A turn that the server has completed with a text returns that text and not one of
\* an earlier or a later turn of its session, unless a turn of the session was given
\* up before; a turn whose own message is an error may return an earlier text
\* (waitForOpencodeSession, extractOpenCodeFinalResponse).
AnswersOwn ==
    \A c \in Calls : stage[c] = "done" /\ Session[c] \notin spoiled /\ ~Failed(c) => answer[c] = c

Messages == [role : {"user", "assistant"}, turn : Calls, state : {"done", "open", "text", "error"}]
TypeOK ==
    /\ alive \in BOOLEAN /\ closed \in BOOLEAN /\ healthy \in BOOLEAN /\ named \in BOOLEAN
    /\ stage \in [Calls -> {"idle", "opening", "reading", "asking", "taking", "done", "failed"}]
    /\ answer \in [Calls -> Calls \union {None}] /\ active \in [Sessions -> Calls \union {None}]
    /\ observed \subseteq Calls /\ spoiled \subseteq Sessions
    /\ history \in [Sessions -> Seq(Messages)] /\ read \in [Calls -> Seq(Messages)]

\* What makes it so.  A session has one turn, and the server works on a turn of the session.
Alone ==
    \A c, d \in Calls : c # d /\ Session[c] = Session[d] /\ stage[c] \in {"opening", "reading", "asking", "taking"}
                        => stage[d] \in {"idle", "done", "failed"}
Worked == \A s \in Sessions : active[s] # None => Session[active[s]] = s
\* The prompt of the turn that a session has is at p, and nothing but its own message follows.
Past(c) == history[Session[c]]
Under(c, p) ==
    /\ p \in 1..Len(Past(c)) /\ Past(c)[p] = Message("user", c, "done")
    /\ \A i \in 1..(p - 1) : Past(c)[i].turn # c
    /\ \/ Len(Past(c)) = p /\ active[Session[c]] = None
       \/ /\ Len(Past(c)) = p + 1 /\ Past(c)[p + 1] = Message("assistant", c, "open")
          /\ active[Session[c]] = c
       \/ /\ Len(Past(c)) = p + 1 /\ Past(c)[p + 1] \in {Message("assistant", c, state) : state \in {"text", "error"}}
          /\ active[Session[c]] = None
Asked(c) == \E i \in 1..Len(Past(c)) : Past(c)[i] = Message("user", c, "done")
Begun(c) == \E i \in 1..Len(Past(c)) : Past(c)[i].role = "assistant" /\ Past(c)[i].turn = c
Finished(c) ==
    \E i \in 1..Len(Past(c)) : Past(c)[i] \in {Message("assistant", c, state) : state \in {"text", "error"}}
InOrder ==
    \A c \in Calls : Session[c] \notin spoiled =>
        /\ stage[c] \in {"idle", "opening"} => \A i \in 1..Len(Past(c)) : Past(c)[i].turn # c
        /\ stage[c] \in {"reading", "asking", "taking"} => \E p \in 1..Len(Past(c)) : Under(c, p)
        /\ stage[c] \in {"done", "failed"} /\ Asked(c) => Begun(c)
        /\ stage[c] \in {"idle", "opening", "done", "failed"} => active[Session[c]] # c
\* What a turn has seen of its session is so.
Told ==
    \A c \in Calls : Session[c] \notin spoiled =>
        /\ c \in observed => Begun(c)
        /\ stage[c] = "asking" /\ named /\ Completed(c, read[c]) => Finished(c)
        /\ stage[c] = "taking" => Finished(c)
        /\ stage[c] = "done" => Failed(c) \/ answer[c] = c
IInv == TypeOK /\ Alone /\ Worked /\ InOrder /\ Told
=============================================================================
