----------------------------- MODULE ApplyPatch -----------------------------
(***************************************************************************)
(* src/apply-patch.ts: a parsed patch is staged in memory, action by       *)
(* action, then its texts are written, then its deletions are done.        *)
(*                                                                         *)
(* Several paths may name one file: where the file system ignores case, or *)
(* through a link to a directory.  A text is a sequence of lines, and a    *)
(* line is compared in three ways, ever more loosely.  Every call of the   *)
(* file system may fail, those that clean up included, and the process may *)
(* die between any two of them.  Left out: the syntax of patches, modes,   *)
(* line ends, the summary, paths outside the root, links to files.         *)
(***************************************************************************)
EXTENDS Naturals, Sequences, SequencesExt

CONSTANTS
    Paths, Files,
    File,          \* File[p]: the file a path names
    Folded,        \* Folded[p]: the path in lower case
    Normal,        \* Normal[k]: what line is compared at the k-th attempt
    Inputs,        \* <<patch, texts of the files>> with which the program may begin
    Windows,       \* whether an existing file is renamed away first
    None

VARIABLES
    patch, before,     \* the input
    disk,              \* text of each file, or None
    spare,             \* [temporary, backup]: their texts, where they are there
    next,              \* the action or the entry that comes next
    staged, order,     \* what the paths shall hold, a map; its keys in insertion order
    meant,             \* a history variable: what the actions staged so far mean,
                       \* [actions, files, place, names, twice]
    at

vars == <<patch, before, disk, spare, next, staged, order, meant, at>>

(***************************************************************************)
(* applyHunks                                                              *)
(***************************************************************************)
Matches(k, hay, needle, i) ==
    \A j \in 1 .. Len(needle) : Normal[k][hay[i + j - 1]] = Normal[k][needle[j]]

\* The places, from `from` on, where the needle begins; 0 when there is none.
FindSequence(hay, needle, from, atEnd) ==
    LET last == Len(hay) - Len(needle) + 1
        found(k) == {i \in (IF atEnd THEN last ELSE from) .. last :
                       i >= from /\ Matches(k, hay, needle, i)}
        levels == {k \in DOMAIN Normal : found(k) # {}}
    IN IF needle = <<>> THEN from ELSE IF levels = {} THEN 0 ELSE Min(found(Min(levels)))

Failed == [lines |-> None, cursor |-> 0]
ApplyHunk(acc, hunk) ==
    LET hint == IF hunk.hint = None THEN acc.cursor
                ELSE 1 + FindSequence(acc.lines, <<hunk.hint>>, acc.cursor, FALSE)
        place == IF hunk.atEnd /\ hunk.old = <<>> THEN Len(acc.lines) + 1
                 ELSE FindSequence(acc.lines, hunk.old, hint, hunk.atEnd)
    IN IF acc.lines = None THEN Failed
       ELSE IF hunk.hint # None /\ hint = 1 THEN Failed
       ELSE IF place = 0 THEN Failed
       ELSE [lines |-> SubSeq(acc.lines, 1, place - 1) \o hunk.new
                       \o SubSeq(acc.lines, place + Len(hunk.old), Len(acc.lines)),
             cursor |-> place + Len(hunk.new)]
ApplyHunks(text, hunks) == FoldLeft(ApplyHunk, [lines |-> text, cursor |-> 1], hunks).lines

(***************************************************************************)
(* The stage.                                                              *)
(***************************************************************************)
NoSpare == [temporary |-> None, backup |-> None]
Init ==
    /\ \E input \in Inputs : patch = input[1] /\ before = input[2]
    /\ disk = before /\ spare = NoSpare /\ next = 1 /\ at = "staging"
    /\ staged = [p \in {} |-> None] /\ order = <<>>
    /\ meant = [actions |-> 0, files |-> before, place |-> [f \in Files |-> f],
                names |-> {}, twice |-> {}]

IsSameName(p, q) == p = q    \* a fault: does not ask the file system
IsSamePatchFile(p, q) ==     \* a file that is not there yet has no identity
    \/ p = q
    \/ Folded[p] = Folded[q] /\ File[p] = File[q] /\ disk[File[p]] # None
Read(p) == IF p \in DOMAIN staged THEN staged[p] ELSE disk[File[p]]
Put(gone, pairs) ==
    staged' = [p \in (DOMAIN staged \ gone) \union DOMAIN pairs |->
                  IF p \in DOMAIN pairs THEN pairs[p] ELSE staged[p]]
Insert(s, p)  == IF Contains(s, p) THEN s ELSE Append(s, p)
Without(s, p) == IF Contains(s, p) THEN RemoveAt(s, CHOOSE i \in DOMAIN s : s[i] = p) ELSE s

StageAdd(a) ==
    /\ a.kind = "add" /\ Put({}, [p \in {a.path} |-> a.text]) /\ order' = Insert(order, a.path)
StageDelete(a) ==
    /\ a.kind = "delete" /\ Read(a.path) # None
    /\ Put({}, [p \in {a.path} |-> None]) /\ order' = Insert(order, a.path)
Updated(a) == ApplyHunks(Read(a.path), a.hunks)
StageUpdate(a) ==
    /\ a.kind = "update" /\ Read(a.path) # None /\ Updated(a) # None
    /\ Put({}, [p \in {a.path} |-> Updated(a)]) /\ order' = Insert(order, a.path)
StageMove(a) ==
    /\ a.kind = "move" /\ Read(a.path) # None /\ Updated(a) # None
    /\ IF IsSamePatchFile(a.path, a.to)
       THEN /\ Put({a.path}, [p \in {a.to} |-> Updated(a)])
            /\ order' = Insert(Without(order, a.path), a.to)
       ELSE /\ Put({}, [p \in {a.path, a.to} |-> IF p = a.to THEN Updated(a) ELSE None])
            /\ order' = Insert(Insert(order, a.path), a.to)

\* The paths of an action.
Touches(a) == {a.path} \union IF a.kind = "move" THEN {a.to} ELSE {}
\* What a patch means: its actions, one after the other, on the files themselves.
Act(files, a) ==
    LET f == File[a.path]
        text == IF files[f] = None \/ a.kind \in {"add", "delete"} THEN None
                ELSE ApplyHunks(files[f], a.hunks)
    IN CASE a.kind = "add" -> [files EXCEPT ![f] = a.text]
         [] a.kind = "delete" -> [files EXCEPT ![f] = None]
         [] a.kind = "update" -> [files EXCEPT ![f] = text]
         [] a.kind = "move" -> [[files EXCEPT ![f] = None] EXCEPT ![File[a.to]] = text]
\* The file in which the text that was in each file is then; None when it is removed.
Follow(place, a) ==
    LET from == File[a.path]
    IN [f \in Files |->
          CASE place[f] = from /\ a.kind = "move" -> File[a.to]
            [] place[f] = from /\ a.kind \in {"add", "delete"} -> None
            [] place[f] # from /\ a.kind = "move" /\ place[f] = File[a.to] -> None
            [] OTHER -> place[f]]
\* The names in use.  A move to another spelling of an existing file takes its name away; a
\* file that is in use under two names otherwise is one of which the code stages two texts.
Respells(a) ==
    /\ a.kind = "move" /\ Folded[a.path] = Folded[a.to] /\ File[a.path] = File[a.to]
    /\ before[File[a.path]] # None
Named(a) == IF Respells(a) THEN (meant.names \ {a.path}) \union {a.to}
            ELSE meant.names \union Touches(a)
Shared(names) == {f \in Files : \E p, q \in names : p # q /\ File[p] = f /\ File[q] = f}
Twice(a) ==       \* what is moved from such a file is its text in one of two versions
    LET shared == meant.twice \union Shared(meant.names \union {a.path}) \union Shared(Named(a))
    IN shared \union IF a.kind = "move" /\ File[a.path] \in shared THEN {File[a.to]} ELSE {}
Mean(a) == meant' = [actions |-> meant.actions + 1, files |-> Act(meant.files, a),
                     place |-> Follow(meant.place, a), names |-> Named(a), twice |-> Twice(a)]

Stage ==
    /\ at = "staging" /\ next <= Len(patch) /\ next' = next + 1
    /\ LET a == patch[next]
       IN (StageAdd(a) \/ StageDelete(a) \/ StageUpdate(a) \/ StageMove(a)) /\ Mean(a)
    /\ UNCHANGED <<patch, before, disk, spare, at>>
\* A text that is not there or does not match, a path that cannot be read.
StageFails == at = "staging" /\ at' = "failed"
              /\ UNCHANGED <<patch, before, disk, spare, next, staged, order, meant>>
StageEnds == at = "staging" /\ next > Len(patch) /\ at' = "writing" /\ next' = 1
             /\ UNCHANGED <<patch, before, disk, spare, staged, order, meant>>

(***************************************************************************)
(* writeTextFile, replaceFile, and the deletions.                          *)
(***************************************************************************)
Entry == order[next]
DueBefore(phase) ==    \* a fault: deletes before it writes
    /\ at = IF phase = "deleting" THEN "writing" ELSE IF phase = "writing" THEN "deleting" ELSE phase
    /\ next <= Len(order)
Due(phase) == at = phase /\ next <= Len(order)

WriteTemporary ==
    /\ Due("writing") /\ staged[Entry] # None
    /\ spare' = [NoSpare EXCEPT !.temporary = staged[Entry]] /\ at' = "replacing"
    /\ UNCHANGED <<patch, before, disk, next, staged, order, meant>>
Exists == disk[File[Entry]] # None
RenameAway ==
    /\ Due("replacing") /\ Windows /\ Exists
    /\ spare' = [spare EXCEPT !.backup = disk[File[Entry]]] /\ at' = "away"
    /\ disk' = [disk EXCEPT ![File[Entry]] = None]
    /\ UNCHANGED <<patch, before, next, staged, order, meant>>
RenameOver ==
    /\ Due("replacing") /\ ~(Windows /\ Exists)
    /\ disk' = [disk EXCEPT ![File[Entry]] = staged[Entry]] /\ spare' = NoSpare
    /\ at' = "writing" /\ next' = next + 1
    /\ UNCHANGED <<patch, before, staged, order, meant>>
RenameIn ==
    /\ Due("away") /\ at' = "removing"
    /\ disk' = [disk EXCEPT ![File[Entry]] = staged[Entry]]
    /\ spare' = [spare EXCEPT !.temporary = None]
    /\ UNCHANGED <<patch, before, next, staged, order, meant>>
RemoveBackup ==
    /\ Due("removing") /\ spare' = NoSpare /\ at' = "writing" /\ next' = next + 1
    /\ UNCHANGED <<patch, before, disk, staged, order, meant>>
\* The rename fails, and so may the one that puts the backup back and the removal of the
\* temporary file.
PutBack ==
    /\ Due("away") /\ at' = "failed"
    /\ \E left \in {None, spare.temporary} :
          \/ /\ disk' = [disk EXCEPT ![File[Entry]] = spare.backup]
             /\ spare' = [NoSpare EXCEPT !.temporary = left]
          \/ UNCHANGED disk /\ spare' = [spare EXCEPT !.temporary = left]
    /\ UNCHANGED <<patch, before, next, staged, order, meant>>
NotWritten ==
    /\ Due("writing") /\ staged[Entry] = None /\ next' = next + 1
    /\ UNCHANGED <<patch, before, disk, spare, staged, order, meant, at>>
WritesEnd ==
    /\ at = "writing" /\ next > Len(order) /\ next' = 1 /\ at' = "deleting"
    /\ UNCHANGED <<patch, before, disk, spare, staged, order, meant>>
Delete ==
    /\ Due("deleting") /\ next' = next + 1
    /\ disk' = IF staged[Entry] = None THEN [disk EXCEPT ![File[Entry]] = None] ELSE disk
    /\ UNCHANGED <<patch, before, spare, staged, order, meant, at>>
DeletesEnd ==
    /\ at = "deleting" /\ next > Len(order) /\ at' = "done"
    /\ UNCHANGED <<patch, before, disk, spare, next, staged, order, meant>>
Fails ==           \* a call that writes, renames or removes; the temporary file may stay
    /\ \/ Due("writing") /\ staged[Entry] # None
       \/ Due("replacing") \/ Due("removing")
       \/ Due("deleting") /\ staged[Entry] = None
    /\ at' = "failed"
    /\ \E left \in {None, spare.temporary} : spare' = [spare EXCEPT !.temporary = left]
    /\ UNCHANGED <<patch, before, disk, next, staged, order, meant>>
Dies ==
    /\ at \notin {"done", "failed", "dead"} /\ at' = "dead"
    /\ UNCHANGED <<patch, before, disk, spare, next, staged, order, meant>>

Next ==
    \/ Stage \/ StageFails \/ StageEnds \/ WriteTemporary \/ RenameAway \/ RenameOver \/ RenameIn
    \/ RemoveBackup \/ PutBack \/ NotWritten \/ WritesEnd \/ Delete \/ DeletesEnd \/ Fails \/ Dies

Spec == Init /\ [][Next]_vars

-----------------------------------------------------------------------------
Phases == {"staging", "writing", "replacing", "away", "removing", "deleting", "done", "failed", "dead"}
TypeOK ==
    /\ at \in Phases
    /\ \A p \in Paths : Contains(order, p) <=> p \in DOMAIN staged
    /\ spare = [temporary |-> spare.temporary, backup |-> spare.backup]

\* A patch that is applied means all of its actions in their order: the order of writes and
\* deletes makes no difference, and neither does a move that only changes how a file's name is
\* spelled.  The exception are files that the actions use under two names, with what is moved
\* from them: of such a file two texts are staged, and the last one written, or a deletion, wins.
Once == Files \ meant.twice
MeansItsActions ==
    at = "done" => meant.actions = Len(patch) /\ \A f \in Once : disk[f] = meant.files[f]

\* However the patch ends, a text that it was not to remove is on the disk, as it
\* was or as the patch leaves it; unless it moves away and another takes its place, or it
\* is of a file that is used under two names.
OnDisk(text) == (\E g \in Files : disk[g] = text) \/ text \in {spare.temporary, spare.backup}
NothingLost ==
    \A f \in Once :
        LET g == meant.place[f]
        IN before[f] # None /\ g \in Once /\ (g = f \/ meant.files[f] = None) =>
               OnDisk(before[f]) \/ OnDisk(meant.files[g])

PatchAssumption ==
    /\ None \notin Files /\ File \in [Paths -> Files]
    /\ \A input \in Inputs :
          /\ input[2] = [f \in Files |-> input[2][f]]
          /\ Len(input[1]) \in Nat /\ DOMAIN input[1] = 1..Len(input[1])
          /\ \A i \in DOMAIN input[1] :
                LET a == input[1][i]
                IN /\ a.kind \in {"add", "delete", "update", "move"} /\ Touches(a) \subseteq Paths
                   /\ a.kind = "add" => a.text # None

\* The inductive invariant of the proofs in ServiceProofs: what is staged is what the
\* actions so far mean, and the disk has what has been written of it.
Staged ==
    /\ staged = [p \in DOMAIN staged |-> staged[p]] /\ DOMAIN staged \subseteq Paths
    /\ order \in Seq(Paths) /\ DOMAIN staged = {order[i] : i \in 1..Len(order)}
    /\ \A i, j \in 1..Len(order) : order[i] = order[j] => i = j
    /\ \A p, q \in DOMAIN staged : File[p] = File[q] /\ File[p] \in Once => p = q
    /\ meant.names = DOMAIN staged
Meaning ==
    /\ meant.files = [f \in Files |-> meant.files[f]]
    /\ \A p \in DOMAIN staged : File[p] \in Once => meant.files[File[p]] = staged[p]
    /\ \A f \in Once : (\A p \in DOMAIN staged : File[p] # f) => meant.files[f] = before[f]
    /\ meant.place \in [Files -> Files \union {None}]
    /\ \A f \in Files : before[f] # None /\ meant.place[f] \in Once => meant.files[meant.place[f]] # None
Staging ==
    /\ next \in 1..(Len(patch) + 1) /\ meant.actions = next - 1 /\ disk = before /\ spare = NoSpare
\* What the file of the i-th entry holds when those before the n-th have been dealt with.
Text(phase, n, i) ==
    IF phase = "away" /\ i = n THEN None
    ELSE IF \/ staged[order[i]] # None /\ (i < n \/ phase = "deleting" \/ (phase = "removing" /\ i = n))
            \/ phase = "deleting" /\ i < n
    THEN staged[order[i]] ELSE before[File[order[i]]]
Wrote(texts, phase, n) ==
    /\ texts = [f \in Files |-> texts[f]]
    /\ \A f \in Once : (\A p \in DOMAIN staged : File[p] # f) => texts[f] = before[f]
    /\ \A i \in 1..Len(order) : File[order[i]] \in Once => texts[File[order[i]]] = Text(phase, n, i)
Applying ==
    /\ meant.actions = Len(patch) /\ next \in 1..(Len(order) + 1) /\ Wrote(disk, at, next)
    /\ at \in {"replacing", "away", "removing"} => next <= Len(order) /\ staged[Entry] # None
    /\ at = "away" /\ File[Entry] \in Once => spare.backup = before[File[Entry]]
IInv ==
    /\ TypeOK
    /\ \E input \in Inputs : patch = input[1] /\ before = input[2]
    /\ Staged /\ Meaning /\ NothingLost
    /\ at = "staging" => Staging
    /\ at \in {"writing", "replacing", "away", "removing", "deleting"} => Applying
    /\ MeansItsActions
=============================================================================
