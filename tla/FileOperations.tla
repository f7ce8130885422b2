--------------------------- MODULE FileOperations ---------------------------
(***************************************************************************)
(* src/filesystem-operations.ts: the operations on one file by a workspace *)
(* command, while programs that know nothing of claims use the directory.  *)
(*                                                                         *)
(* The claim of a mutation keeps other operations out, so they follow each *)
(* other; an operation awaits the file system between any two of its       *)
(* steps.  A name refers to a file (an inode) and a file has a version of  *)
(* its text.  Ancestors, links to a file from elsewhere, encodings, sizes  *)
(* and permission bits are left out; an edit is a replacement.             *)
(***************************************************************************)
EXTENDS Naturals, FiniteSets

CONSTANTS
    Names,
    Operations,     \* [action, path, destination, expected]
    None,
    MaxFiles        \* bound of the model: files that ever exist

FilesAssumption ==
    /\ None \notin Nat \union Operations
    /\ \A o \in Operations : o.path \in Names /\ (o.action = "move" => o.destination \in Names)

VARIABLES
    name,           \* name[n]: the file, or None
    version,        \* version[i]: its text; a new file's version is its own number
    temporary,      \* the staged file, or None
    op, at, opened, \* the operation under way, its next step, the file it has read
    done,           \* what became of the operations
    disturbed       \* another program has replaced or deleted a file since it began

vars == <<name, version, temporary, op, at, opened, done, disturbed>>
Idle == at = "idle"
Known == DOMAIN version
New == Cardinality(Known) + 1
Partial == 0        \* a text that is not wholly written
Room == New <= MaxFiles
Adds(i, v) == version' = [j \in Known \union {i} |-> IF j = i THEN v ELSE version[j]]

Init ==
    /\ \E used \in Names : name = [n \in Names |-> IF n = used THEN 1 ELSE None]
    /\ version = [i \in {1} |-> 1] /\ temporary = None
    /\ op = None /\ at = "idle" /\ opened = None /\ done = {}
    /\ disturbed = FALSE

Begin ==
    /\ Idle /\ \E o \in Operations :
         /\ \A d \in done : d.op # o
         /\ op' = o /\ at' = IF o.action = "create" THEN "missing" ELSE "opening"
    /\ disturbed' = FALSE
    /\ UNCHANGED <<name, version, temporary, opened, done>>

Ends(status) ==
    /\ done' = done \union {[op |-> op, status |-> status]}
    /\ at' = "idle" /\ op' = None /\ opened' = None
Steps(to) == at' = to /\ UNCHANGED <<op, opened, done>>
File == name[op.path]
Points(n, i) == name' = [name EXCEPT ![n] = i]

(***************************************************************************)
(* create: the name is missing, then it is opened exclusively.             *)
(***************************************************************************)
RequireMissing ==
    /\ at = "missing"
    /\ LET n == IF op.action = "create" THEN op.path ELSE op.destination
           to == IF op.action = "create" THEN "creating" ELSE "verifying"
       IN IF name[n] = None THEN Steps(to) ELSE Ends("exists")
    /\ UNCHANGED <<name, version, temporary, disturbed>>
CreateExclusive ==
    /\ at = "creating" /\ Room
    /\ IF File = None
       THEN /\ Points(op.path, New) /\ Adds(New, Partial)
            /\ at' = "filling" /\ opened' = New /\ UNCHANGED <<op, done>>
       ELSE UNCHANGED <<name, version>> /\ Ends("exists")
    /\ UNCHANGED <<temporary, disturbed>>
Fill ==
    /\ at = "filling"
    /\ version' \in {version, [version EXCEPT ![opened] = opened]}
    /\ Ends(IF version' = version THEN "partial" ELSE "created")
    /\ UNCHANGED <<name, temporary, disturbed>>

(***************************************************************************)
(* read, delete, move, replace and edit.                                   *)
(***************************************************************************)
AfterOpen == CASE op.action = "delete" -> "verifying" [] op.action = "move" -> "missing"
               [] OTHER -> "staging"
\* The text is read from the opened file and must be the expected version.
OpenExisting ==
    /\ at = "opening"
    /\ IF File = None THEN Ends("missing")
       ELSE IF op.action = "read" THEN Ends("read")
       ELSE IF version[File] # op.expected THEN Ends("changed")
       ELSE at' = AfterOpen /\ opened' = File /\ UNCHANGED <<op, done>>
    /\ UNCHANGED <<name, version, temporary, disturbed>>
StageTemporary ==
    /\ Room /\ at = "staging" /\ temporary' = New /\ Adds(New, New) /\ Steps("verifying")
    /\ UNCHANGED <<name, disturbed>>
StageFails ==
    /\ at = "staging" /\ Ends("failed") /\ UNCHANGED <<name, version, temporary, disturbed>>
VerifyIdentity ==
    /\ at = "verifying"
    /\ IF File = opened THEN Steps("acting") /\ UNCHANGED temporary
       ELSE Ends("identity") /\ temporary' = None
    /\ UNCHANGED <<name, version, disturbed>>

Unlink ==
    /\ at = "acting" /\ op.action = "delete" /\ Ends("deleted") /\ Points(op.path, None)
    /\ UNCHANGED <<version, temporary, disturbed>>
RenameOver ==
    /\ at = "acting" /\ op.action = "replace" /\ Ends("updated")
    /\ Points(op.path, temporary) /\ temporary' = None /\ UNCHANGED <<version, disturbed>>
Rename ==     \* a fault: a rename, which takes the place of what is there
    /\ at = "acting" /\ op.action = "move" /\ File # None /\ Ends("moved")
    /\ name' = [name EXCEPT ![op.destination] = File, ![op.path] = None]
    /\ UNCHANGED <<version, temporary, disturbed>>
Link ==
    /\ at = "acting" /\ op.action = "move"
    /\ IF File = None \/ name[op.destination] # None THEN Ends("failed") /\ UNCHANGED name
       ELSE Points(op.destination, File) /\ Steps("unlinking")
    /\ UNCHANGED <<version, temporary, disturbed>>
UnlinkSource ==
    /\ at = "unlinking"
    /\ \/ Points(op.path, None) /\ Ends("moved")
       \/ UNCHANGED name /\ Ends("both names")
    /\ UNCHANGED <<version, temporary, disturbed>>

Dies ==
    /\ ~Idle /\ op' = None /\ at' = "idle" /\ opened' = None
    /\ done' = done \union {[op |-> op, status |-> "dead"]}
    /\ UNCHANGED <<name, version, temporary, disturbed>>

\* Other programs create a file, replace one by renaming a new one over it, or delete one.
OtherCreates(n) ==
    /\ name[n] = None /\ Room /\ Points(n, New) /\ Adds(New, New)
    /\ UNCHANGED <<temporary, op, at, opened, done, disturbed>>
OtherTakes(n) ==
    /\ name[n] # None /\ disturbed' = ~Idle
    /\ \/ Room /\ Points(n, New) /\ Adds(New, New)
       \/ Points(n, None) /\ UNCHANGED version
    /\ UNCHANGED <<temporary, op, at, opened, done>>

Next ==
    \/ Begin \/ RequireMissing \/ CreateExclusive \/ Fill \/ OpenExisting \/ StageTemporary
    \/ StageFails \/ VerifyIdentity \/ Unlink \/ RenameOver \/ Link \/ UnlinkSource \/ Dies
    \/ \E n \in Names : OtherCreates(n) \/ OtherTakes(n)

Spec == Init /\ [][Next]_vars

-----------------------------------------------------------------------------
TypeOK == /\ name \in [Names -> Known \union {None}]
          /\ Idle <=> op = None

\* Unless another program replaces or deletes files meanwhile, no operation makes a text
\* disappear but the one whose caller named that very version: not a create or a move
\* that finds its place taken after it looked, nor one that fails or dies half way.
Named(i) == \E n \in Names : name[n] = i
NothingOverwritten ==
    [][\A i \in Known : ~Idle /\ ~disturbed' /\ Named(i) /\ ~Named(i)' =>
           op.action \in {"delete", "replace"} /\ op.expected = version[i]]_vars
\* The inductive invariant of the proofs in ServiceProofs: an operation that has read a file
\* acts on that file and that version.
Numbered == IsFiniteSet(Known) /\ Known = 1..Cardinality(Known)
UnderWay ==
    /\ ~Idle => op \in Operations
    /\ at \in {"staging", "verifying", "acting"} \/ (at = "missing" /\ op.action # "create") =>
          opened \in Known /\ version[opened] = op.expected
    /\ at \in {"acting", "unlinking"} /\ ~disturbed => File # None
    /\ at = "acting" /\ ~disturbed => File = opened
    /\ at = "unlinking" => op.action = "move"
    /\ at = "unlinking" /\ ~disturbed => op.path # op.destination /\ name[op.destination] = File
IInv == TypeOK /\ temporary \in Known \union {None} /\ Numbered /\ UnderWay
=============================================================================
