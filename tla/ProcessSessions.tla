--------------------------- MODULE ProcessSessions ---------------------------
(***************************************************************************)
(* ProcessSessionManager, src/process-sessions.ts: commands that outlive   *)
(* the call that started them, polled by later calls, and the claims and   *)
(* the output that they hold.                                              *)
(*                                                                         *)
(* One event loop: an action is what runs between two awaits.  A session   *)
(* is named by the call that starts it; characters are numbered in the     *)
(* order in which the process writes them.  What a command does, the size  *)
(* of the terminal and the environment are left out, a signal is the exit  *)
(* that it may cause.  The coordinator grants every claim, its own modules *)
(* say when it does not.                                                   *)
(***************************************************************************)
EXTENDS Integers, Sequences, FiniteSets

CONSTANTS
    Starts,      \* calls of start, and their sessions
    Polls,       \* calls of write
    Mutations,   \* calls of mutate and of readWorkspace
    Of,          \* Of[c]: the session that a poll is about
    Terminals,   \* sessions with a pseudo-terminal
    BufferLimit, \* maxBufferCharacters
    ReadLimit,   \* the characters one answer may carry
    MaxOutput    \* bound of the model: characters that a command writes

ProcessAssumption ==
    /\ Starts \cap Polls = {} /\ Starts \cap Mutations = {} /\ Polls \cap Mutations = {}
    /\ Of \in [Polls -> Starts] /\ BufferLimit \in Nat /\ ReadLimit \in Nat \ {0} /\ MaxOutput \in Nat

VARIABLES
    sessions,    \* the sessions in the manager's map
    process,     \* process[s]: "none", "alive" or "exited"
    running,     \* the flag of a session
    operation,   \* its operation in the work ledger
    buffer,      \* head, tail and totalCharacters of its HeadTailBuffer
    produced,    \* how many characters it has written
    got,         \* what the calls about it have been answered, one after the other
    claims,      \* sessions and mutations that hold a claim
    shuttingDown, coordinator,
    stage        \* where each call is

vars == <<sessions, process, running, operation, buffer, produced, got, claims,
          shuttingDown, coordinator, stage>>

Calls == Starts \union Polls \union Mutations

\* The text that says that characters were omitted.
Gap == 0

(* HeadTailBuffer: what is over the limit is dropped from the middle. *)
TakeHead(q, n) == SubSeq(q, 1, IF n < Len(q) THEN n ELSE Len(q))
TakeTail(q, n) == SubSeq(q, IF n < Len(q) THEN Len(q) - n + 1 ELSE 1, Len(q))

HeadBudget(n) == (n + 1) \div 2
TailBudget(n) == n \div 2

Empty == [head |-> <<>>, tail |-> <<>>, total |-> 0]

\* Fault: the characters that come after the limit are counted only once.
AppendUncounted(b, q) ==
    IF b.total + Len(q) <= BufferLimit
    THEN [b EXCEPT !.head = @ \o q, !.total = @ + Len(q)]
    ELSE [b EXCEPT !.tail = TakeTail(@ \o q, TailBudget(BufferLimit)), !.total = BufferLimit]

AppendOutput(b, q) ==
    LET total == b.total + Len(q)
    IN  IF total <= BufferLimit
        THEN [head |-> b.head \o q, tail |-> b.tail, total |-> total]
        ELSE IF b.total <= BufferLimit
        THEN [head  |-> TakeHead(b.head \o q, HeadBudget(BufferLimit)),
              tail  |-> TakeTail(b.head \o q, TailBudget(BufferLimit)), total |-> total]
        ELSE [head  |-> b.head, tail  |-> TakeTail(b.tail \o q, TailBudget(BufferLimit)), total |-> total]

Retained(b) ==
    IF b.total > Len(b.head) + Len(b.tail) THEN b.head \o <<Gap>> \o b.tail ELSE b.head \o b.tail

TruncateOutput(q) ==
    IF Len(q) <= ReadLimit THEN q
    ELSE TakeHead(q, HeadBudget(ReadLimit - 1)) \o <<Gap>> \o TakeTail(q, TailBudget(ReadLimit - 1))

-----------------------------------------------------------------------------
Init ==
    /\ sessions = {} /\ claims = {} /\ shuttingDown = FALSE /\ coordinator = "open"
    /\ process   = [s \in Starts |-> "none"]
    /\ running   = [s \in Starts |-> TRUE]
    /\ operation = [s \in Starts |-> "none"]
    /\ buffer    = [s \in Starts |-> Empty]
    /\ produced  = [s \in Starts |-> 0]
    /\ got       = [s \in Starts |-> <<>>]
    /\ stage     = [c \in Calls |-> "idle"]

Goes(c, to) == stage' = [stage EXCEPT ![c] = to]

\* releaseClaim: the last claim that is released after the shutdown closes the
\* coordinator.
ReleaseClaim(c) ==
    /\ claims' = claims \ {c}
    /\ coordinator' = IF shuttingDown /\ claims \ {c} = {} THEN "closed" ELSE coordinator

\* endWorkOperation: an operation that cannot be ended says so in the output.
EndWorkOperation(s, how) ==
    IF operation[s] # "running" THEN UNCHANGED <<operation, buffer, produced>>
    ELSE \/ operation' = [operation EXCEPT ![s] = how] /\ UNCHANGED <<buffer, produced>>
         \/ /\ buffer'   = [buffer EXCEPT ![s] = AppendOutput(@, <<produced[s] + 1>>)]
            /\ produced' = [produced EXCEPT ![s] = @ + 1]
            /\ UNCHANGED operation

\* start, up to its first await: the claim, the session, the operation in the
\* ledger, and a process unless node-pty must be imported first.
Start(s) ==
    /\ stage[s] = "idle"
    /\ IF shuttingDown
       THEN Goes(s, "refused") /\ UNCHANGED <<sessions, process, operation, claims>>
       ELSE \E accounted \in {"none", "running"} :
                /\ claims'    = claims \union {s}
                /\ sessions'  = sessions \union {s}
                /\ operation' = [operation EXCEPT ![s] = accounted]
                /\ IF s \in Terminals THEN Goes(s, "importing") /\ UNCHANGED process
                   ELSE Goes(s, "waiting") /\ process' = [process EXCEPT ![s] = "alive"]
    /\ UNCHANGED <<running, buffer, produced, got, shuttingDown, coordinator>>

\* A start whose scope or command is refused, before or after the import.
StartFails(s) ==
    /\ stage[s] = "importing" \/ (stage[s] = "idle" /\ ~shuttingDown)
    /\ EndWorkOperation(s, "failed")
    /\ sessions' = sessions \ {s}
    /\ ReleaseClaim(s)
    /\ Goes(s, "failed")
    /\ UNCHANGED <<process, running, got, shuttingDown>>

Spawn(s) ==
    /\ stage[s] = "importing"
    /\ process' = [process EXCEPT ![s] = "alive"]
    /\ Goes(s, "waiting")
    /\ UNCHANGED <<sessions, running, operation, buffer, produced, got, claims, shuttingDown, coordinator>>

\* The process writes; what a terminal has written may be read after its exit.
Output(s, n) ==
    /\ process[s] = "alive" \/ (process[s] = "exited" /\ s \in Terminals)
    /\ produced[s] + n <= MaxOutput
    /\ buffer'   = [buffer EXCEPT ![s] = AppendOutput(@, [i \in 1..n |-> produced[s] + i])]
    /\ produced' = [produced EXCEPT ![s] = @ + n]
    /\ UNCHANGED <<sessions, process, running, operation, got, claims, shuttingDown, coordinator, stage>>

\* Fault: the claim is released when the session is removed from the map.
FinishKeepingClaim(s) ==
    /\ process[s] = "alive"
    /\ process' = [process EXCEPT ![s] = "exited"]
    /\ running' = [running EXCEPT ![s] = FALSE]
    /\ \E how \in {"completed", "failed"} : EndWorkOperation(s, how)
    /\ UNCHANGED <<sessions, got, claims, shuttingDown, coordinator, stage>>

\* finish: the exit of the process, of its own or after a signal.
Finish(s) ==
    /\ process[s] = "alive"
    /\ process' = [process EXCEPT ![s] = "exited"]
    /\ running' = [running EXCEPT ![s] = FALSE]
    /\ \E how \in {"completed", "failed"} : EndWorkOperation(s, how)
    /\ ReleaseClaim(s)
    /\ UNCHANGED <<sessions, got, shuttingDown, stage>>

\* Fault: the buffer is read but not emptied.
ConsumeWithoutDrain(c, s) ==
    /\ got' = [got EXCEPT ![s] = @ \o TruncateOutput(Retained(buffer[s]))]
    /\ sessions' = IF running[s] THEN sessions ELSE sessions \ {s}
    /\ UNCHANGED buffer

\* consume and removeSession: the answer takes what has been retained.
Consume(c, s) ==
    /\ got'      = [got EXCEPT ![s] = @ \o TruncateOutput(Retained(buffer[s]))]
    /\ buffer'   = [buffer EXCEPT ![s] = Empty]
    /\ sessions' = IF running[s] THEN sessions ELSE sessions \ {s}

\* write: a poll that has something to say waits only when it was asked to.
Poll(c) ==
    /\ stage[c] = "idle"
    /\ \/ /\ Of[c] \notin sessions
          /\ Goes(c, "refused") /\ UNCHANGED <<got, buffer, sessions>>
       \/ /\ Of[c] \in sessions /\ running[Of[c]]
          /\ Goes(c, "waiting") /\ UNCHANGED <<got, buffer, sessions>>
       \/ /\ Of[c] \in sessions
          /\ buffer[Of[c]].total > 0 \/ ~running[Of[c]]
          /\ Consume(c, Of[c]) /\ Goes(c, "done")
    /\ UNCHANGED <<process, running, operation, produced, claims, shuttingDown, coordinator>>

\* waitForExit: the exit, or the timer of this call, whatever else is waiting.
Answer(c) ==
    /\ stage[c] = "waiting"
    /\ Consume(c, IF c \in Starts THEN c ELSE Of[c])
    /\ Goes(c, "done")
    /\ UNCHANGED <<process, running, operation, produced, claims, shuttingDown, coordinator>>

\* The timer of a session that has ended.
Expire(s) ==
    /\ s \in sessions /\ ~running[s]
    /\ sessions' = sessions \ {s}
    /\ UNCHANGED <<process, running, operation, buffer, produced, got, claims, shuttingDown, coordinator, stage>>

\* mutate and readWorkspace hold a claim for as long as their operation runs.
Mutate(c) ==
    /\ stage[c] = "idle"
    /\ IF shuttingDown THEN Goes(c, "refused") /\ UNCHANGED claims
       ELSE Goes(c, "waiting") /\ claims' = claims \union {c}
    /\ UNCHANGED <<sessions, process, running, operation, buffer, produced, got, shuttingDown, coordinator>>

MutateEnds(c) ==
    /\ stage[c] = "waiting"
    /\ ReleaseClaim(c) /\ Goes(c, "done")
    /\ UNCHANGED <<sessions, process, running, operation, buffer, produced, got, shuttingDown>>

\* Fault: the coordinator is closed although claims are held.
ShutdownClosing ==
    /\ shuttingDown' = TRUE /\ sessions' = {} /\ coordinator' = "closed"
    /\ UNCHANGED <<process, running, operation, buffer, produced, got, claims, stage>>

\* shutdown, by the server or by the failure of a background task: the processes
\* are signalled and the coordinator waits for the claims.
Shutdown ==
    /\ shuttingDown' = TRUE /\ sessions' = {}
    /\ coordinator' = IF claims = {} THEN "closed" ELSE coordinator
    /\ UNCHANGED <<process, running, operation, buffer, produced, got, claims, stage>>

Next ==
    \/ \E s \in Starts : \/ Start(s) \/ StartFails(s) \/ Spawn(s) \/ Finish(s) \/ Expire(s)
                         \/ \E n \in 1..MaxOutput : Output(s, n)
    \/ \E c \in Polls : Poll(c)
    \/ \E c \in Starts \union Polls : Answer(c)
    \/ \E c \in Mutations : Mutate(c) \/ MutateEnds(c)
    \/ Shutdown

Spec == Init /\ [][Next]_vars

-----------------------------------------------------------------------------
TypeOK ==
    /\ sessions \subseteq Starts /\ claims \subseteq Starts \union Mutations
    /\ process \in [Starts -> {"none", "alive", "exited"}] /\ running \in [Starts -> BOOLEAN]
    /\ operation \in [Starts -> {"none", "running", "completed", "failed"}]
    /\ produced \in [Starts -> Nat] /\ got \in [Starts -> Seq(Nat)]
    /\ buffer \in [Starts -> [head : Seq(Nat), tail : Seq(Nat), total : Nat]]
    /\ shuttingDown \in BOOLEAN /\ coordinator \in {"open", "closed"}
    /\ stage \in [Calls -> {"idle", "importing", "waiting", "done", "failed", "refused"}]

\* A claim lasts exactly as long as what it protects: from before the process, or
\* the operation, begins until it has ended, in the map or not, whether or not a
\* call still waits; and the coordinator is closed by a shutdown once no claim is
\* left, never before.
ClaimsCoverCommands ==
    /\ \A s \in Starts : s \in claims <=> process[s] = "alive" \/ stage[s] = "importing"
    /\ \A c \in Mutations : c \in claims <=> stage[c] = "waiting"
    /\ coordinator = "closed" <=> shuttingDown /\ claims = {}

\* A text that tells the characters after the a-th, up to the b-th: each at most once, in
\* order, and with a gap wherever one is missing.
Tells(q, a, b) ==
    /\ \A i \in 1..Len(q) : q[i] # Gap => a < q[i] /\ q[i] <= b
    /\ \A i, j \in 1..Len(q) : i < j /\ q[i] # Gap /\ q[j] # Gap => q[i] < q[j]
    /\ \A i \in 1..(Len(q) - 1) : q[i] # Gap /\ q[i + 1] # Gap => q[i + 1] = q[i] + 1
    /\ IF Len(q) = 0 THEN a = b ELSE q[1] \in {Gap, a + 1} /\ q[Len(q)] \in {Gap, b}

\* The answers about a command, one after the other and followed by what is still
\* in the buffer, are what the command wrote: every character once and in order,
\* and where some are missing the answer says so.
OutputAccounted ==
    \A s \in Starts : Tells(got[s] \o Retained(buffer[s]), 0, produced[s])
CommandsAccounted == ClaimsCoverCommands /\ OutputAccounted

\* What makes it so: a process begins when its start leaves the import; and the answers tell
\* what came before the buffer, which has the first and the last of what came since.
Begun == \A s \in Starts : process[s] # "none" => stage[s] \notin {"idle", "importing"}
Run(a, n) == [i \in 1..n |-> a + i]
Buffered(b, end) ==
    /\ b.total <= end
    /\ IF b.total <= BufferLimit
       THEN b.head = Run(end - b.total, b.total) /\ b.tail = <<>>
       ELSE /\ b.head = Run(end - b.total, HeadBudget(BufferLimit))
            /\ b.tail = Run(end - TailBudget(BufferLimit), TailBudget(BufferLimit))
Told ==
    \A s \in Starts : /\ Buffered(buffer[s], produced[s])
                      /\ Tells(got[s], 0, produced[s] - buffer[s].total)
IInv == TypeOK /\ ClaimsCoverCommands /\ Begun /\ Told
=============================================================================
