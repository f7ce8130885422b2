---------------------------- MODULE ClaudeRuntime ----------------------------
(***************************************************************************)
(* local-agent-claude.ts: the turns of one agent over one long-lived       *)
(* streaming query.  A turn sets the authority of the query, pushes its    *)
(* prompt into the input queue and reads the output stream up to a result. *)
(*                                                                         *)
(* The query is external: it takes the prompts in their order, works on    *)
(* each under the authority of the moment, and ends each with a result or  *)
(* an error.  A restricted runtime serves read-only and writing turns; the *)
(* key of a runtime keeps full access apart (runtimeKey).                  *)
(***************************************************************************)
EXTENDS Sequences, FiniteSets, SequencesExt

CONSTANTS
    Calls,         \* turns; a call names its prompt
    Mode,          \* Mode[c]: "read_only" or "allowed"
    None

ClaudeAssumption == Mode \in [Calls -> {"read_only", "allowed"}] /\ None \notin Calls

VARIABLES
    alive, closed, \* the runtime
    input,         \* AsyncInputQueue: prompts that the query has not taken
    inputClosed,
    authority,     \* what the query may do: the settings in force
    working,       \* the prompt the query works on, or None
    stream,        \* messages <<kind, prompt>> not yet read
    stage, answer, \* of each turn
    worked,        \* <<prompt, authority>> under which the query has worked
    spoiled        \* a turn has left its prompt behind

runtime == <<alive, closed, input, inputClosed, authority>>
query == <<working, stream, worked>>
turns == <<stage, answer, spoiled>>
vars == <<runtime, query, turns>>

Init ==
    /\ alive = TRUE /\ closed = FALSE
    /\ input = <<>> /\ inputClosed = FALSE /\ authority = "read_only"
    /\ working = None /\ stream = <<>> /\ worked = {}
    /\ stage = [c \in Calls |-> "idle"] /\ answer = [c \in Calls |-> None] /\ spoiled = FALSE

Goes(c, to) == stage' = [stage EXCEPT ![c] = to]
IsAlive == alive /\ ~closed
Over == {"idle", "done", "failed"}

(***************************************************************************)
(* The query.                                                              *)
(***************************************************************************)
Takes ==
    /\ ~closed /\ working = None /\ input # <<>>
    /\ working' = Head(input) /\ input' = Tail(input)
    /\ UNCHANGED <<alive, closed, inputClosed, authority, stream, worked, turns>>

Works ==
    /\ ~closed /\ working # None
    /\ worked' = worked \union {<<working, authority>>}
    /\ UNCHANGED <<runtime, working, stream, turns>>

Says ==
    /\ ~closed /\ working # None
    /\ \E kind \in {"message", "result", "error"} :
         /\ stream' = Append(stream, <<kind, working>>)
         /\ working' = IF kind = "message" THEN working ELSE None
         /\ kind = "message" => <<kind, working>> \notin Range(stream)
    /\ UNCHANGED <<runtime, worked, turns>>

(***************************************************************************)
(* run: the manager gives an agent one turn at a time.                     *)
(***************************************************************************)
Run(c) ==
    /\ stage[c] = "idle" /\ \A d \in Calls : stage[d] \in Over
    /\ Goes(c, IF IsAlive THEN "configuring" ELSE "failed")
    /\ UNCHANGED <<runtime, query, answer, spoiled>>

\* applyFlagSettings, setPermissionMode and setModel, each awaited; then the prompt.
Push(c) == input' = Append(input, c) /\ Goes(c, "reading")
ConfigureLater(c) ==    \* a fault: the prompt does not wait for the settings
    /\ stage[c] = "configuring" /\ ~inputClosed /\ Push(c) /\ authority' \in {authority, Mode[c]}
    /\ UNCHANGED <<alive, closed, inputClosed, query, answer, spoiled>>
Configure(c) ==
    /\ stage[c] = "configuring" /\ ~inputClosed
    /\ authority' = Mode[c] /\ Push(c)
    /\ UNCHANGED <<alive, closed, inputClosed, query, answer, spoiled>>

\* The settings are refused, the session cannot be reserved, or the queue is closed.
Refused(c) ==
    /\ stage[c] = "configuring" /\ Goes(c, "failed")
    /\ authority' \in {authority, Mode[c]}
    /\ UNCHANGED <<alive, closed, input, inputClosed, query, answer, spoiled>>

\* The next message.  Any of them may name a session that is not the known one; it is
\* reserved, which may be refused in the middle of the turn.
Reads(c) ==
    /\ stage[c] = "reading" /\ stream # <<>> /\ stream' = Tail(stream)
    /\ LET kind == Head(stream)[1] IN
         \/ /\ Goes(c, "failed") /\ spoiled' = (spoiled \/ kind = "message")
            /\ UNCHANGED answer
         \/ /\ Goes(c, [message |-> "reading", result |-> "done", error |-> "failed"][kind])
            /\ answer' = IF kind = "result" THEN [answer EXCEPT ![c] = Head(stream)[2]] ELSE answer
            /\ UNCHANGED spoiled
    /\ UNCHANGED <<alive, closed, input, inputClosed, authority, working, worked>>

\* The stream fails or ends: the runtime is no longer alive.
Breaks(c) ==
    /\ stage[c] = "reading" /\ Goes(c, "failed") /\ alive' = FALSE
    /\ UNCHANGED <<closed, input, inputClosed, authority, query, answer, spoiled>>

Close ==
    /\ ~closed /\ closed' = TRUE /\ alive' = FALSE /\ inputClosed' = TRUE
    /\ UNCHANGED <<input, authority, query, turns>>

Next == \/ Takes \/ Works \/ Says \/ Close
        \/ \E c \in Calls : Run(c) \/ Configure(c) \/ Refused(c) \/ Reads(c) \/ Breaks(c)
Spec == Init /\ [][Next]_vars

-----------------------------------------------------------------------------
TypeOK ==
    /\ alive \in BOOLEAN /\ closed \in BOOLEAN
    /\ inputClosed \in BOOLEAN /\ spoiled \in BOOLEAN
    /\ authority \in {"read_only", "allowed"} /\ working \in Calls \union {None}
    /\ input \in Seq(Calls) /\ stream \in Seq({"message", "result", "error"} \X Calls)
    /\ stage \in [Calls -> Over \union {"configuring", "reading"}]
    /\ answer \in [Calls -> Calls \union {None}] /\ worked \subseteq Calls \X {"read_only", "allowed"}

\* On the warm query of an agent a turn returns its own result, and the query works on
\* its prompt under its own write mode only, whatever turns come before and after,
\* unless a turn was refused in the middle and has left its prompt to the query
\* (ClaudeQueryRuntime.run).
TurnsApart ==
    ~spoiled =>
        /\ \A c \in Calls : stage[c] = "done" => answer[c] = c
        /\ \A w \in worked : w[2] = Mode[w[1]]

\* What makes it so.  One turn is under way, and its prompt is the only one: in the queue,
\* with the query, or over with a result that is the last of the stream; nobody changes the
\* authority until then, nor when the turn has broken off and no other can begin.
Alone == \A c, d \in Calls : stage[c] \notin Over /\ stage[d] \notin Over => c = d
Quiet == input = <<>> /\ working = None /\ stream = <<>> /\ \A c \in Calls : stage[c] # "reading"
Whereabouts(c) ==
    \/ input = <<c>> /\ working = None /\ stream = <<>>
    \/ input = <<>> /\ working = c /\ stream \in {<<>>, <<<<"message", c>>>>}
    \/ /\ input = <<>> /\ working = None
       /\ \E last \in {"result", "error"} :
             stream \in {<<<<last, c>>>>, <<<<"message", c>>, <<last, c>>>>}
Under(c) ==
    /\ Whereabouts(c) /\ authority = Mode[c] /\ (stage[c] = "reading" \/ ~alive)
    /\ \A d \in Calls : stage[d] # "configuring" /\ (stage[d] = "reading" => d = c)
IInv == TypeOK /\ Alone /\ (spoiled \/ Quiet \/ \E c \in Calls : Under(c)) /\ TurnsApart
=============================================================================
