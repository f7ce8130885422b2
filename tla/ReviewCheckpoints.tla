-------------------------- MODULE ReviewCheckpoints --------------------------
(***************************************************************************)
(* The review checkpoints of one workspace, src/review-checkpoints.ts: two *)
(* git refs, open and baseline, between which every review that was shown  *)
(* is a commit.                                                            *)
(*                                                                         *)
(* Several calls of one server run at the same time; an action is one      *)
(* invocation of git or what runs between two awaits.  Commits are         *)
(* numbered, 0 is HEAD; a tree is the number of edits made before it.      *)
(* Patches, statistics and the commands' texts are left out.               *)
(***************************************************************************)
EXTENDS Naturals, Sequences

CONSTANTS
    Opens,       \* calls of initializeWorkspace
    Reviews,     \* calls of reviewChanges
    Since,       \* Since[c]: "last_shown" or "workspace_open"
    Marking,     \* reviews with markReviewed
    Reopens,     \* calls of reviewByRef
    Ref,         \* Ref[c]: the review whose reference it presents
    MaxEdits,    \* bound of the model: edits of the working tree
    MaxRestarts, \* bound of the model: restarts of the server
    None

ReviewAssumption == None \notin Nat \union Opens \union Reviews \union Reopens /\ MaxEdits \in Nat

Calls == Opens \union Reviews \union Reopens

VARIABLES
    tree,        \* the working tree
    commits,     \* commits[i]: parent and tree
    open, baseline,       \* refs, or None
    ready, openKnown, baselineKnown,      \* the state of the manager
    pending,     \* the call whose initialization is under way
    stage, base, mine,    \* of each call: what it compares with, and its commit
    restarts

Commits == 1..Len(commits) \union {None}
vars == <<tree, commits, open, baseline, ready, openKnown, baselineKnown, pending, stage, base, mine, restarts>>
state == <<ready, openKnown, baselineKnown>>

Init ==
    /\ tree = 0 /\ commits = <<>> /\ open = None /\ baseline = None
    /\ ready = FALSE /\ openKnown = FALSE /\ baselineKnown = FALSE /\ pending = None
    /\ stage = [c \in Calls |-> "idle"]
    /\ base = [c \in Calls |-> None] /\ mine = [c \in Calls |-> None]
    /\ restarts = 0

\* merge-base --is-ancestor: a commit is after those it descends from and itself, so in
\* every set that has it and the parents of those in the set.
IsAncestor(a, b) ==
    \A S \in SUBSET (0..Len(commits)) :
        b \in S /\ (\A i \in S \ {0} : commits[i].parent \in S) => a \in S

Goes(c, to) == stage' = [stage EXCEPT ![c] = to]

\* createWorkingTreeSnapshot
Snapshot(c, parent) ==
    /\ commits' = Append(commits, [parent |-> parent, tree |-> tree])
    /\ mine' = [mine EXCEPT ![c] = Len(commits) + 1]

\* Fault: every call initializes for itself.
EnterAlone(c) ==
    /\ stage[c] = "idle"
    /\ Goes(c, IF ready THEN "ready" ELSE "looking")
    /\ UNCHANGED <<tree, commits, open, baseline, state, pending, base, mine, restarts>>

\* Every call first sees to it that the workspace is initialized, or waits for the
\* call that does.
Enter(c) ==
    /\ stage[c] = "idle"
    /\ IF ready THEN Goes(c, "ready") /\ UNCHANGED pending
       ELSE IF pending # None THEN Goes(c, "joined") /\ UNCHANGED pending
       ELSE Goes(c, "looking") /\ pending' = c
    /\ UNCHANGED <<tree, commits, open, baseline, state, base, mine, restarts>>

\* The end of an initialization, for those that have joined it too.
Initialized(c, to) ==
    /\ stage' = [d \in Calls |-> IF d = c \/ stage[d] = "joined" THEN to ELSE stage[d]]
    /\ pending' = None

\* initializeWorkspaceState: refs that are there are kept, even one of the two.
Look(c) ==
    /\ stage[c] = "looking"
    /\ IF open = None /\ baseline = None
       THEN Goes(c, "snapshot") /\ UNCHANGED <<pending, state>>
       ELSE /\ Initialized(c, "ready")
            /\ ready' = TRUE /\ openKnown' = (open # None) /\ baselineKnown' = (baseline # None)
    /\ UNCHANGED <<tree, commits, open, baseline, base, mine, restarts>>

FirstSnapshot(c) ==
    /\ stage[c] = "snapshot"
    /\ Snapshot(c, 0) /\ Goes(c, "opening")
    /\ UNCHANGED <<tree, open, baseline, state, pending, base, restarts>>

SetOpen(c) ==
    /\ stage[c] = "opening"
    /\ open' = mine[c] /\ Goes(c, "basing")
    /\ UNCHANGED <<tree, commits, baseline, state, pending, base, mine, restarts>>

SetBaseline(c) ==
    /\ stage[c] = "basing"
    /\ baseline' = mine[c] /\ Initialized(c, "ready")
    /\ ready' = TRUE /\ openKnown' = TRUE /\ baselineKnown' = TRUE
    /\ UNCHANGED <<tree, commits, open, base, mine, restarts>>

\* git fails: the workspace has a diagnostic and is not ready.
InitializationFails(c) ==
    /\ stage[c] \in {"looking", "snapshot", "opening", "basing"}
    /\ Initialized(c, "failed")
    /\ UNCHANGED <<tree, commits, open, baseline, state, base, mine, restarts>>

Opened(c) ==
    /\ c \in Opens /\ stage[c] = "ready" /\ Goes(c, "done")
    /\ UNCHANGED <<tree, commits, open, baseline, state, pending, base, mine, restarts>>

\* reviewChanges: a missing baseline is replaced by the open checkpoint.
Compare(c) ==
    LET ref == IF Since[c] = "workspace_open" \/ ~baselineKnown THEN open ELSE baseline
    IN  /\ c \in Reviews /\ stage[c] = "ready"
        /\ base' = [base EXCEPT ![c] = ref]
        /\ Goes(c, IF ref = None THEN "failed" ELSE "comparing")
        /\ UNCHANGED <<tree, commits, open, baseline, state, pending, mine, restarts>>

TakeSnapshot(c) ==
    /\ stage[c] = "comparing"
    /\ Snapshot(c, base[c]) /\ Goes(c, "compared")
    /\ UNCHANGED <<tree, open, baseline, state, pending, base, restarts>>

\* The differences are read and, for a review that is marked, the baseline moves.
Answer(c) ==
    /\ c \in Reviews /\ stage[c] = "compared"
    /\ \/ Goes(c, "failed") /\ UNCHANGED <<baseline, baselineKnown>>
       \/ /\ Goes(c, "done")
          /\ IF c \in Marking THEN baseline' = mine[c] /\ baselineKnown' = TRUE
             ELSE UNCHANGED <<baseline, baselineKnown>>
    /\ UNCHANGED <<tree, commits, open, ready, openKnown, pending, base, mine, restarts>>

\* reviewByRef finds a commit that lies between the two refs.
Known(i) ==
    /\ open # None /\ baseline # None /\ i # open
    /\ IsAncestor(open, i) /\ IsAncestor(i, baseline)

Reopen(c) ==
    /\ c \in Reopens /\ stage[c] = "ready"
    /\ stage[Ref[c]] = "done"
    /\ Goes(c, IF Known(mine[Ref[c]]) THEN "done" ELSE "failed")
    /\ UNCHANGED <<tree, commits, open, baseline, state, pending, base, mine, restarts>>

Edit ==
    /\ tree < MaxEdits /\ tree' = tree + 1
    /\ UNCHANGED <<commits, open, baseline, state, pending, stage, base, mine, restarts>>

\* The user prunes one of the refs (bound: while a restart is to come).
Prune ==
    /\ restarts < MaxRestarts
    /\ \/ baseline # None /\ baseline' = None /\ UNCHANGED open
       \/ open # None /\ open' = None /\ UNCHANGED baseline
    /\ UNCHANGED <<tree, commits, state, pending, stage, base, mine, restarts>>

Restart ==
    /\ restarts < MaxRestarts /\ restarts' = restarts + 1
    /\ stage' = [c \in Calls |-> IF stage[c] \in {"idle", "done"} THEN stage[c] ELSE "failed"]
    /\ pending' = None /\ ready' = FALSE
    /\ UNCHANGED <<tree, commits, open, baseline, openKnown, baselineKnown, base, mine>>

Next ==
    \/ \E c \in Calls : \/ Enter(c) \/ Look(c) \/ FirstSnapshot(c) \/ SetOpen(c) \/ SetBaseline(c)
                        \/ InitializationFails(c) \/ Opened(c) \/ Compare(c) \/ TakeSnapshot(c)
                        \/ Answer(c) \/ Reopen(c)
    \/ Edit \/ Prune \/ Restart

Spec == Init /\ [][Next]_vars

-----------------------------------------------------------------------------
TypeOK ==
    /\ tree \in 0..MaxEdits
    /\ \A i \in 1..Len(commits) : commits[i].parent \in 0..(i - 1) /\ commits[i].tree \in 0..tree
    /\ open \in 1..Len(commits) \union {None} /\ baseline \in 1..Len(commits) \union {None}
    /\ \A c \in Calls : base[c] \in 1..Len(commits) \union {None} /\ mine[c] \in 1..Len(commits) \union {None}
    /\ pending \in Calls \union {None}

\* The baseline descends from the open checkpoint, so that the reviews in between
\* can be reopened, whatever calls initialize at once, fail half-way or are cut off
\* by a restart.
BaselineDescends == open # None /\ baseline # None => IsAncestor(open, baseline)

\* src/review-checkpoints.test.ts:80: "historical review refs survive later reviews
\* and manager restarts".  The reference of a review that was shown and marked
\* is known for as long as nobody prunes the refs.
RefsSurvive == \A c \in Reviews \intersect Marking : stage[c] = "done" => Known(mine[c])
\* The inductive invariant of the proofs in ServiceProofs: one call initializes, while nobody
\* reviews, and a review goes on from what descends from the open checkpoint.
Initializing == {"looking", "snapshot", "opening", "basing"}
Shapes ==
    /\ commits \in Seq([parent : Nat, tree : Nat]) /\ open \in Commits /\ baseline \in Commits
    /\ \A i \in 1..Len(commits) : commits[i].parent \in 0..(i - 1)
    /\ base \in [Calls -> Commits] /\ mine \in [Calls -> Commits] /\ tree \in Nat
    /\ stage \in [Calls -> Initializing \union {"idle", "joined", "ready", "comparing", "compared",
                                                "done", "failed"}]
Descends(i) == open # None => IsAncestor(open, i)
OneInitializes ==
    /\ \A c \in Calls : stage[c] \in Initializing => pending = c /\ ~ready
    /\ \A c \in Calls : stage[c] = "joined" => ~ready
    /\ \A c \in Calls : stage[c] \in {"ready", "comparing", "compared"} => ready
    /\ \A c \in Calls :
          /\ stage[c] \in {"snapshot", "opening", "basing"} => baseline = None
          /\ stage[c] \in {"snapshot", "opening"} => open = None
          /\ stage[c] = "opening" => mine[c] # None
          /\ stage[c] = "basing" => mine[c] # None /\ open \in {None, mine[c]}
Reviewing ==
    \A c \in Calls :
       /\ stage[c] = "comparing" => base[c] # None /\ Descends(base[c])
       /\ stage[c] = "compared" => mine[c] # None /\ Descends(mine[c])
Between == Shapes /\ OneInitializes /\ Reviewing /\ BaselineDescends
Bounded == tree <= MaxEdits /\ pending \in Calls \union {None} /\ \A i \in 1..Len(commits) : commits[i].tree <= tree
IInv == Between /\ Bounded
=============================================================================
