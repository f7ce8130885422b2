------------------------------ MODULE PiRuntime ------------------------------
(***************************************************************************)
(* local-agent-pi.ts: one agent over one Pi session in the daemon's own    *)
(* process, with the tools that local-agent-pi-sandbox.ts gives to it.     *)
(* PiSandbox has what the sessions share.                                  *)
(*                                                                         *)
(* The session is external: while it works on a prompt it uses tools,      *)
(* emits events, adds messages, and may compact what it has, which leaves  *)
(* a summary and the latest messages.  Events also come between prompts.   *)
(***************************************************************************)
EXTENDS Naturals, Sequences, FiniteSets

CONSTANTS
    Calls,         \* turns; a call names its prompt
    Mode,          \* Mode[c]: "read_only", "allowed" or "full_access"
    Resumes,       \* the agent has a session from before
    MaxMessages,   \* bound: messages of the session
    None

Modes == {"read_only", "allowed", "full_access"}
PiAssumption ==
    /\ Mode \in [Calls -> Modes] /\ None \notin Calls /\ MaxMessages \in Nat

VARIABLES
    runtime,       \* "none", "opening", "registering", "ready", "closing", "closed", "failed"
    session,       \* "none", "open" or "disposed"
    held,          \* the session counts as one that needs the sandbox
    modeRef, tools,    \* the write mode of the tools; the active ones
    messages,      \* <<turn, kind>>, kind: "text", "empty" or "error"; <<None, "old">>
    events,        \* of the events of the prompt, the last error; or None
    collecting,
    start,         \* messageStart
    stage, answer, \* of each turn; what it returned: <<turn, kind>>, or None
    prompting,     \* the turn whose prompt the session works on, or None
    used           \* <<turn, how>>: tools that write, "confined" or "free"

here == <<runtime, session, held>>
pi == <<messages, prompting, used>>
turns == <<stage, answer, start, collecting>>
vars == <<here, modeRef, tools, pi, events, turns>>

ReadOnlyTools == {"read", "grep", "find", "ls"}
WorkspaceTools == ReadOnlyTools \union {"edit", "write", "bash"}
PiToolsForWriteMode(m) == IF m = "read_only" THEN ReadOnlyTools ELSE WorkspaceTools

Init ==
    /\ runtime = "none" /\ session = "none" /\ held = FALSE
    /\ modeRef = "allowed" /\ tools = WorkspaceTools
    /\ messages = IF Resumes THEN <<<<None, "old">>>> ELSE <<>>
    /\ events = None /\ collecting = FALSE /\ start = 0
    /\ stage = [c \in Calls |-> "idle"] /\ answer = [c \in Calls |-> None]
    /\ prompting = None /\ used = {}

Goes(c, to) == stage' = [stage EXCEPT ![c] = to]
Over == {"idle", "done", "failed"}
IsAlive == runtime = "ready"

(***************************************************************************)
(* createRuntime: for the mode of the first turn.                          *)
(***************************************************************************)
Create ==
    /\ runtime = "none"
    /\ \/ runtime' = "opening"
       \/ runtime' = "failed"   \* the session or the model is not there
    /\ UNCHANGED <<session, held, modeRef, tools, pi, events, turns>>
OpensSession(m) ==
    /\ runtime = "opening"
    /\ \/ runtime' = "registering" /\ session' = "open" /\ modeRef' = m
       \/ runtime' = "failed" /\ UNCHANGED <<session, modeRef>>
    /\ UNCHANGED <<held, tools, pi, events, turns>>
\* registerPiSandboxSession; when the sandbox refuses, the session is disposed of.
Registers ==
    /\ runtime = "registering"
    /\ \/ /\ runtime' = "ready" /\ held' = (modeRef # "full_access")
          /\ tools' = PiToolsForWriteMode(modeRef) /\ UNCHANGED session
       \/ /\ modeRef # "full_access" /\ runtime' = "failed" /\ session' = "disposed"
          /\ UNCHANGED <<held, tools>>
    /\ UNCHANGED <<modeRef, pi, events, turns>>

(***************************************************************************)
(* run and applyOverrides.                                                 *)
(***************************************************************************)
Run(c) ==
    /\ stage[c] = "idle" /\ \A d \in Calls : stage[d] \in Over
    /\ runtime \in {"ready", "closing", "closed"}
    /\ Goes(c, IF IsAlive THEN "naming" ELSE "failed")
    /\ UNCHANGED <<here, modeRef, tools, pi, events, answer, start, collecting>>
Names(c) ==             \* onSessionId is awaited, and may refuse
    /\ stage[c] = "naming" /\ (Goes(c, "updating") \/ Goes(c, "failed"))
    /\ UNCHANGED <<here, modeRef, tools, pi, events, answer, start, collecting>>
\* updatePiSandboxSession: the mode is set, then the sandbox acquired if it is needed; a
\* session that has been released is left as it is.
Updates(c) ==
    /\ stage[c] = "updating"
    /\ modeRef' = IF runtime = "ready" THEN Mode[c] ELSE modeRef
    /\ LET needs == runtime = "ready" /\ Mode[c] # "full_access" /\ ~held IN
       \/ Goes(c, "configuring") /\ held' = (held \/ needs)
       \/ needs /\ Goes(c, "failed") /\ UNCHANGED held
    /\ UNCHANGED <<runtime, session, tools, pi, events, answer, start, collecting>>

\* The active tools, the model and the effort; then the prompt, from the message reached.
StartsAtOnce(c) ==      \* a fault: what is there before the prompt is not marked
    /\ stage[c] = "configuring" /\ tools' = PiToolsForWriteMode(Mode[c])
    /\ \/ /\ session = "open" /\ Goes(c, "prompting") /\ prompting' = c
          /\ start' = 0 /\ events' = None /\ collecting' = TRUE
       \/ Goes(c, "failed") /\ UNCHANGED <<prompting, start, events, collecting>>
    /\ UNCHANGED <<here, modeRef, messages, used, answer>>
Configures(c) ==
    /\ stage[c] = "configuring" /\ tools' = PiToolsForWriteMode(Mode[c])
    /\ \/ /\ session = "open" /\ Goes(c, "prompting") /\ prompting' = c
          /\ start' = Len(messages) /\ events' = None /\ collecting' = TRUE
       \/ Goes(c, "failed") /\ UNCHANGED <<prompting, start, events, collecting>>
    /\ UNCHANGED <<here, modeRef, messages, used, answer>>

(***************************************************************************)
(* The session at work.                                                    *)
(***************************************************************************)
\* dynamicTool: how a tool works is decided when it is used.
UsesTool(tool) ==
    /\ prompting # None /\ tool \in tools \ ReadOnlyTools /\ modeRef # "read_only"
    /\ used' = used \union {<<prompting, IF modeRef = "full_access" THEN "free"
                                                                   ELSE "confined">>}
    /\ UNCHANGED <<here, modeRef, tools, messages, prompting, events, turns>>
Says(kind) ==
    /\ prompting # None /\ Len(messages) < MaxMessages
    /\ messages' = Append(messages, <<prompting, kind>>)
    /\ events' = IF collecting /\ runtime = "ready" /\ kind = "error" THEN <<prompting, kind>> ELSE events
    /\ UNCHANGED <<here, modeRef, tools, prompting, used, turns>>
Compacts(n) ==
    /\ prompting # None /\ n < Len(messages) - 1
    /\ messages' = <<<<None, "old">>>> \o SubSeq(messages, Len(messages) - n + 1, Len(messages))
    /\ UNCHANGED <<here, modeRef, tools, prompting, used, events, turns>>

(***************************************************************************)
(* The prompt settles.  extractPiFinalResponse takes the last text of the  *)
(* messages from messageStart on; without one extractPiProviderError looks *)
(* for the last error among the events, then among those messages.         *)
(***************************************************************************)
LastOf(s, kind) == LET at == {i \in 1..Len(s) : s[i][2] = kind}
                   IN IF at = {} THEN None ELSE s[CHOOSE i \in at : \A j \in at : j <= i]
Current == SubSeq(messages, start + 1, Len(messages))
Error == IF events # None THEN events ELSE LastOf(Current, "error")
Settles(c) ==
    /\ stage[c] = "prompting" /\ prompting = c
    /\ LET text == LastOf(Current, "text") IN
       /\ Goes(c, IF text # None THEN "done" ELSE "failed")
       /\ answer' = [answer EXCEPT ![c] = IF text # None THEN text ELSE Error]
    /\ prompting' = None /\ collecting' = FALSE
    /\ UNCHANGED <<here, modeRef, tools, messages, used, events, start>>
Rejects(c) ==
    /\ stage[c] = "prompting" /\ prompting = c /\ Goes(c, "failed")
    /\ prompting' = None /\ collecting' = FALSE
    /\ UNCHANGED <<here, modeRef, tools, messages, used, events, answer, start>>

(***************************************************************************)
(* close: the sandbox is released, and the session disposed of even when   *)
(* the release fails.                                                      *)
(***************************************************************************)
Close ==
    /\ runtime = "ready" /\ runtime' = "closing" /\ held' = FALSE
    /\ UNCHANGED <<session, modeRef, tools, pi, events, turns>>
Closed ==
    /\ runtime = "closing" /\ runtime' = "closed" /\ session' = "disposed"
    /\ UNCHANGED <<held, modeRef, tools, pi, events, turns>>

Next == \/ Create \/ Registers \/ Close \/ Closed
        \/ \E m \in {Mode[c] : c \in Calls} : OpensSession(m)
        \/ \E tool \in WorkspaceTools : UsesTool(tool)
        \/ \E kind \in {"text", "empty", "error"} : Says(kind)
        \/ \E n \in 0..MaxMessages : Compacts(n)
        \/ \E c \in Calls : \/ Run(c) \/ Names(c) \/ Updates(c) \/ Configures(c)
                            \/ Settles(c) \/ Rejects(c)
Spec == Init /\ [][Next]_vars

-----------------------------------------------------------------------------
Entries == (Calls \X {"text", "empty", "error"}) \union {<<None, "old">>}
TypeOK ==
    /\ runtime \in {"none", "opening", "registering", "ready", "closing", "closed", "failed"}
    /\ session \in {"none", "open", "disposed"} /\ held \in BOOLEAN /\ collecting \in BOOLEAN
    /\ modeRef \in Modes /\ tools \in {ReadOnlyTools, WorkspaceTools}
    /\ messages \in Seq(Entries) /\ events \in Entries \union {None} /\ start \in Nat
    /\ stage \in [Calls -> Over \union {"naming", "updating", "configuring", "prompting"}]
    /\ answer \in [Calls -> Entries \union {None}]
    /\ prompting \in Calls \union {None} /\ used \subseteq Calls \X {"free", "confined"}

\* On the warm session of an agent a turn returns, or fails with, something of its own
\* prompt, and uses tools as its own write mode lets it, whatever turns came before,
\* also when the session is compacted while it works; but a turn that the shutdown meets
\* before it has set the mode works in the mode of the one before (PiSessionRuntime.run).
TurnsApart ==
    /\ \A c \in Calls : answer[c] = None \/ answer[c][1] = c
    /\ \/ runtime \in {"closing", "closed"}
       \/ \A u \in used : Mode[u[1]] = IF u[2] = "free" THEN "full_access" ELSE "allowed"

\* What makes it so.  One turn is under way, in a runtime that is ready or was;
Alone ==
    /\ \A c, d \in Calls : stage[c] \notin Over /\ stage[d] \notin Over => c = d
    /\ prompting # None => stage[prompting] = "prompting"
    /\ runtime \notin {"ready", "closing", "closed"} => \A c \in Calls : stage[c] \in Over
\* what the session says from the mark on is of its prompt, or a summary, and the tools
\* have its mode.
OwnSince ==
    prompting # None =>
        /\ events = None \/ events[1] = prompting
        /\ \A i \in 1..Len(messages) : i > start => messages[i] = <<None, "old">> \/ messages[i][1] = prompting
Moded ==
    \/ runtime \in {"closing", "closed"}
    \/ \A c \in Calls : stage[c] \in {"configuring", "prompting"} => modeRef = Mode[c]
IInv == TypeOK /\ Alone /\ OwnSince /\ Moded /\ TurnsApart
=============================================================================
