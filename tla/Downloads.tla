------------------------------ MODULE Downloads ------------------------------
(***************************************************************************)
(* Downloads of files that the host hands over: src/artifact-tools.ts and  *)
(* the opening of a source in src/incoming-artifacts.ts.                   *)
(*                                                                         *)
(* Several calls, of one process or several, download to one path of a     *)
(* workspace in which the user works too.  An action is one operation on   *)
(* the directory, on the open file or on the stream.  An inode is named by *)
(* the call whose partial file it is, User is any file of the user's.      *)
(* Bytes are counted in chunks; URLs, redirects and the recognition of a   *)
(* reference are left out but for their failing.                           *)
(***************************************************************************)
EXTENDS Naturals, FiniteSets

CONSTANTS
    Calls,
    Length,      \* Length[c]: the chunks that the stream yields unless it fails
    Declared,    \* Declared[c]: the size that the source declares, or None
    MaxBytes,    \* artifactMaxFileBytes
    MayCrash,    \* bound of the model: calls whose process may die
    User, None

DownloadsAssumption == MaxBytes \in Nat /\ Calls \intersect {User, None} = {}

VARIABLES
    dest,        \* the inode at the destination, or None
    partial,     \* the calls whose partial file is in the directory
    aged,        \* partial files not written to for a day
    size,        \* chunks in the inode of each call
    doomed,      \* stale files that a call has inspected and is going to remove
    stage        \* where each call is

vars == <<dest, partial, aged, size, doomed, stage>>

Ended == {"done", "failed", "crashed"}

Goes(c, to) == stage' = [stage EXCEPT ![c] = to]

Init ==
    /\ dest \in {None, User} /\ partial = {} /\ aged = {}
    /\ size = [c \in Calls |-> 0] /\ doomed = [c \in Calls |-> {}]
    /\ stage = [c \in Calls |-> "idle"]

\* The registry opens the source; a file that is declared too large is refused,
\* then the parents of the destination are created or opened.
Open(c) ==
    /\ stage[c] = "idle"
    /\ \/ Goes(c, IF Declared[c] # None /\ Declared[c] > MaxBytes THEN "failing" ELSE "cleaning")
       \/ Goes(c, "failing")
    /\ UNCHANGED <<dest, partial, aged, size, doomed>>

\* cleanupStalePartials: a bounded number of entries is inspected ...
Inspect(c) ==
    /\ stage[c] = "cleaning"
    /\ doomed' \in {[doomed EXCEPT ![c] = D] : D \in SUBSET (partial \intersect aged)}
    /\ Goes(c, "creating")
    /\ UNCHANGED <<dest, partial, aged, size>>

\* ... and removed by name.
RemoveStale(c, d) ==
    /\ d \in doomed[c]
    /\ partial' = partial \ {d}
    /\ doomed'  = [doomed EXCEPT ![c] = @ \ {d}]
    /\ UNCHANGED <<dest, aged, size, stage>>

\* The exclusive creation of the partial file, whose name nobody else has.
Create(c) ==
    /\ stage[c] = "creating" /\ doomed[c] = {}
    /\ \/ partial' = partial \union {c} /\ Goes(c, "writing")
       \/ Goes(c, "failing") /\ UNCHANGED partial
    /\ UNCHANGED <<dest, aged, size, doomed>>

\* A chunk arrives and is written unless it is one too many.
Write(c) ==
    /\ stage[c] = "writing" /\ size[c] < Length[c]
    /\ IF size[c] + 1 > MaxBytes
       THEN Goes(c, "failing") /\ UNCHANGED <<size, aged>>
       ELSE size' = [size EXCEPT ![c] = @ + 1] /\ aged' = aged \ {c} /\ UNCHANGED stage
    /\ UNCHANGED <<dest, partial, doomed>>

\* Fault: what has arrived is not compared with what was declared.
SyncUnchecked(c) ==
    /\ stage[c] = "writing" /\ size[c] = Length[c]
    /\ Goes(c, "synced")
    /\ UNCHANGED <<dest, partial, aged, size, doomed>>

\* The stream ends; what it has yielded must be what was declared.  The file is
\* synchronized and its size verified.
Sync(c) ==
    /\ stage[c] = "writing" /\ size[c] = Length[c]
    /\ Goes(c, IF Declared[c] # None /\ Declared[c] # size[c] THEN "failing" ELSE "synced")
    /\ UNCHANGED <<dest, partial, aged, size, doomed>>

\* The stream, or an operation on the open file, fails.
Break(c) ==
    /\ stage[c] \in {"writing", "synced"}
    /\ Goes(c, "failing")
    /\ UNCHANGED <<dest, partial, aged, size, doomed>>

\* The partial file is looked at by its name.
Recheck(c) ==
    /\ stage[c] = "synced"
    /\ Goes(c, IF c \in partial THEN "checked" ELSE "failing")
    /\ UNCHANGED <<dest, partial, aged, size, doomed>>

\* Faults: the file is renamed to its destination; it is linked at once.
PublishByRename(c) ==
    /\ stage[c] = "checked"
    /\ IF c \in partial
       THEN dest' = c /\ partial' = partial \ {c} /\ Goes(c, "linked")
       ELSE Goes(c, "failing") /\ UNCHANGED <<dest, partial>>
    /\ UNCHANGED <<aged, size, doomed>>

\* publishDestination: a link fails when the source is gone or the destination is
\* there.
Publish(c) ==
    /\ stage[c] = "checked"
    /\ IF c \in partial /\ dest = None
       THEN dest' = c /\ Goes(c, "linked")
       ELSE Goes(c, "failing") /\ UNCHANGED dest
    /\ UNCHANGED <<partial, aged, size, doomed>>

\* The destination is looked at by its name; nothing is undone.
Verify(c) ==
    /\ stage[c] = "linked"
    /\ Goes(c, IF dest = c THEN "published" ELSE "failing")
    /\ UNCHANGED <<dest, partial, aged, size, doomed>>

\* Fault: a failed call leaves its partial file to a later cleanup.
FinishOnly(c) ==
    /\ \/ stage[c] = "published" /\ partial' = partial \ {c} /\ Goes(c, "done")
       \/ stage[c] = "failing" /\ UNCHANGED partial /\ Goes(c, "failed")
    /\ UNCHANGED <<dest, aged, size, doomed>>

\* The partial file is removed in either case.
Finish(c) ==
    /\ \/ stage[c] = "published" /\ Goes(c, "done")
       \/ stage[c] = "failing" /\ Goes(c, "failed")
    /\ partial' = partial \ {c}
    /\ UNCHANGED <<dest, aged, size, doomed>>

Crash(c) ==
    /\ c \in MayCrash /\ stage[c] \notin Ended \union {"idle"}
    /\ Goes(c, "crashed")
    /\ doomed' = [doomed EXCEPT ![c] = {}]
    /\ UNCHANGED <<dest, partial, aged, size>>

\* A day passes, for files nobody has written to meanwhile: their process has died,
\* or the machine was asleep.
Age ==
    /\ aged' \in {aged \union D : D \in SUBSET partial}
    /\ UNCHANGED <<dest, partial, size, doomed, stage>>

\* The user creates, replaces or removes the file at the destination.
Edit ==
    /\ dest' \in {None, User}
    /\ UNCHANGED <<partial, aged, size, doomed, stage>>

Next ==
    \/ \E c \in Calls :
          \/ Open(c) \/ Inspect(c) \/ Create(c) \/ Write(c) \/ Sync(c) \/ Break(c)
          \/ Recheck(c) \/ Publish(c) \/ Verify(c) \/ Finish(c) \/ Crash(c)
          \/ \E d \in Calls : RemoveStale(c, d)
    \/ Age \/ Edit

Spec == Init /\ [][Next]_vars

-----------------------------------------------------------------------------
TypeOK ==
    /\ dest \in Calls \union {User, None}
    /\ partial \subseteq Calls /\ aged \subseteq Calls
    /\ size   \in [Calls -> 0..MaxBytes]
    /\ doomed \in [Calls -> SUBSET Calls]
    /\ stage  \in [Calls -> Ended \union {"idle", "cleaning", "creating", "writing", "synced", "checked",
                                          "linked", "published", "failing"}]

\* What is at the destination is never a part of a file: all the chunks are there
\* and as many as were declared, whatever fails, dies or is cleaned up meanwhile.
WholeFiles ==
    dest \in Calls =>
        /\ size[dest] = Length[dest] /\ size[dest] <= MaxBytes
        /\ Declared[dest] \in {None, size[dest]}

\* A call that answers leaves no partial file behind, and one that answers with an
\* error has not left its file at the destination either.
NothingLeft ==
    \A c \in Calls :
        /\ stage[c] \in {"done", "failed"} => c \notin partial
        /\ stage[c] = "failed" => dest # c

\* A download never replaces a file, neither the user's nor another download's,
\* even if it appears while the download is under way.
NeverReplaces == [][dest' \in Calls /\ dest' # dest => dest = None]_vars
\* The inductive invariant of the proofs in ServiceProofs.
Complete(c) ==
    size[c] = Length[c] /\ size[c] <= MaxBytes /\ Declared[c] \in {None, size[c]}
Completed ==      \* a file is synchronized when it is complete, and published after that
    /\ \A c \in Calls : stage[c] \in {"synced", "checked", "linked", "published"} => Complete(c)
    /\ dest \in Calls => Complete(dest) /\ stage[dest] \in {"linked", "published", "done", "crashed"}
    /\ \A c \in Calls : stage[c] \in {"done", "failed"} => c \notin partial
IInv == TypeOK /\ Completed
=============================================================================
