----------------------------- MODULE Workspaces -----------------------------
(***************************************************************************)
(* WorkspaceRegistry and its store, src/workspaces.ts,                     *)
(* src/workspace-store.ts, and the creation of managed worktrees,          *)
(* src/git-worktrees.ts.                                                   *)
(*                                                                         *)
(* One server opens workspaces on one directory for several conversations. *)
(* An action is what runs between two awaits.  A workspace is named by the *)
(* call that creates it.  The sessions and the bindings are in the         *)
(* database and survive a restart; the cache, least recently used first,   *)
(* and the opens that are under way do not.  Skills, profiles, instruction *)
(* files and the roots that the owner allows are left out but for their    *)
(* failing.                                                                *)
(***************************************************************************)
EXTENDS Naturals, Sequences, SequencesExt

CONSTANTS
    Opens,       \* calls of openWorkspace, and the workspaces they create
    Scope,       \* Scope[c]: the conversation of a call, or None
    Worktrees,   \* calls in mode "worktree"
    Creating,    \* calls with createDirectory
    MaxCached,   \* MAX_CACHED_WORKSPACES
    None

WorkspacesAssumption == None \notin Opens /\ MaxCached \in Nat

Scopes == {Scope[c] : c \in Opens} \ {None}

VARIABLES
    present,     \* the directory exists
    gone,        \* history: workspaces whose directory has been missing since
    sessions,    \* rows of workspace_sessions
    binding,     \* binding[k]: the workspace of a conversation on the directory
    cache,       \* workspaces, in the order of their last use
    pending,     \* pendingCheckoutOpens: the open that is under way for k
    stage, previous, missing, answer      \* of each call

vars == <<present, gone, sessions, binding, cache, pending, stage, previous, missing, answer>>

Init ==
    /\ present \in BOOLEAN /\ gone = {} /\ sessions = {} /\ cache = <<>>
    /\ binding = [k \in Scopes |-> None] /\ pending = [k \in Scopes |-> None]
    /\ stage    = [c \in Opens |-> "idle"]
    /\ previous = [c \in Opens |-> None]
    /\ missing  = [c \in Opens |-> FALSE]
    /\ answer   = [c \in Opens |-> None]

Goes(c, to) == stage' = [stage EXCEPT ![c] = to]

Without(w) == IF Contains(cache, w) THEN RemoveAt(cache, CHOOSE i \in DOMAIN cache : cache[i] = w) ELSE cache

\* Fault: the workspaces that were used long ago are kept.
RememberAll(w) == cache' = Append(Without(w), w)

\* rememberWorkspace, and the move to the end that getWorkspace makes.
Remember(w) ==
    LET q == Append(Without(w), w)
    IN  cache' = SubSeq(q, IF Len(q) > MaxCached THEN Len(q) - MaxCached + 1 ELSE 1, Len(q))

\* The end of an open: those that have joined it have its outcome.
Ends(c, how, w) ==
    LET joined == {d \in Opens : stage[d] = "joined" /\ Scope[d] = Scope[c]}
    IN  /\ stage'  = [d \in Opens |-> IF d = c \/ (d \in joined /\ c \notin Worktrees) THEN how ELSE stage[d]]
        /\ answer' = [d \in Opens |-> IF d = c \/ (d \in joined /\ c \notin Worktrees) THEN w ELSE answer[d]]
        /\ pending' = IF c \in Worktrees \/ Scope[c] = None THEN pending
                      ELSE [pending EXCEPT ![Scope[c]] = None]

Fails(c) == Ends(c, "failed", None)

\* Fault: every call opens for itself.
EnterAlone(c) ==
    /\ stage[c] = "idle"
    /\ previous' = [previous EXCEPT ![c] = IF Scope[c] # None /\ c \notin Worktrees THEN binding[Scope[c]] ELSE None]
    /\ Goes(c, IF c \in Worktrees \/ Scope[c] = None THEN "preparing" ELSE "stat")
    /\ UNCHANGED <<present, gone, sessions, binding, cache, pending, missing, answer>>

\* openWorkspace: a checkout of a conversation joins the open that is under way,
\* or looks at the binding and goes on.
Enter(c) ==
    /\ stage[c] = "idle"
    /\ IF c \in Worktrees \/ Scope[c] = None
       THEN Goes(c, "preparing") /\ UNCHANGED <<pending, previous>>
       ELSE IF pending[Scope[c]] # None
       THEN Goes(c, "joined") /\ UNCHANGED <<pending, previous>>
       ELSE /\ pending'  = [pending EXCEPT ![Scope[c]] = c]
            /\ previous' = [previous EXCEPT ![c] = binding[Scope[c]]]
            /\ Goes(c, "stat")
    /\ UNCHANGED <<present, gone, sessions, binding, cache, missing, answer>>

\* prepareConversationCheckout: is the directory there?
Stat(c) ==
    /\ stage[c] = "stat"
    /\ missing' = [missing EXCEPT ![c] = ~present]
    /\ Goes(c, "preparing")
    /\ UNCHANGED <<present, gone, sessions, binding, cache, pending, previous, answer>>

\* prepareProjectRoots: a missing directory is created if the call says so.
Prepare(c) ==
    /\ stage[c] = "preparing"
    /\ IF present \/ c \in Creating
       THEN /\ present' = TRUE
            /\ Goes(c, IF c \in Worktrees THEN "worktree" ELSE IF Scope[c] = None THEN "creating" ELSE "binding")
            /\ UNCHANGED <<pending, answer>>
       ELSE Fails(c) /\ UNCHANGED present
    /\ UNCHANGED <<gone, sessions, binding, cache, previous, missing>>

\* Fault: the session of a directory that was missing is used again.
BindAgain(c) ==
    /\ stage[c] = "binding"
    /\ Goes(c, IF binding[Scope[c]] = None THEN "creating" ELSE "reusing")
    /\ UNCHANGED <<present, gone, sessions, binding, cache, pending, previous, missing, answer>>

\* openConversationCheckout: the binding that was seen when the directory was
\* missing is dropped, another one may be used.
Bind(c) ==
    LET b == binding[Scope[c]]
    IN  /\ stage[c] = "binding"
        /\ IF b # None /\ ~(missing[c] /\ b = previous[c])
           THEN Goes(c, "reusing") /\ UNCHANGED <<binding, cache>>
           ELSE /\ Goes(c, "creating")
                /\ binding' = [binding EXCEPT ![Scope[c]] = None]
                /\ cache' = Without(b)
        /\ UNCHANGED <<present, gone, sessions, pending, previous, missing, answer>>

\* findReusableCheckoutWorkspace: its directory is looked at, the workspace is
\* taken from the cache or restored from its session.
Reuse(c) ==
    LET b == binding[Scope[c]]
    IN  /\ stage[c] = "reusing"
        /\ IF present /\ b \in sessions
           THEN Goes(c, "reused") /\ Remember(b) /\ UNCHANGED binding
           ELSE /\ Goes(c, "creating")
                /\ binding' = [binding EXCEPT ![Scope[c]] = None]
                /\ cache' = Without(b)
        /\ UNCHANGED <<present, gone, sessions, pending, previous, missing, answer>>

\* reusedWorkspaceContext: the context is read again.
Reused(c) ==
    /\ stage[c] = "reused"
    /\ Fails(c) \/ Ends(c, "answered", binding[Scope[c]])
    /\ UNCHANGED <<present, gone, sessions, binding, cache, previous, missing>>

\* createManagedWorktree: what git has left of a failure is removed.
CreateWorktree(c) ==
    /\ stage[c] = "worktree"
    /\ \/ present /\ Goes(c, "creating") /\ UNCHANGED <<answer, pending>>
       \/ Fails(c)
    /\ UNCHANGED <<present, gone, sessions, binding, cache, previous, missing>>

\* createWorkspaceContext, up to the session and the cache.
Create(c) ==
    /\ stage[c] = "creating"
    /\ \/ /\ present \/ c \in Worktrees
          /\ sessions' = sessions \union {c}
          /\ Remember(c)
          /\ Goes(c, "created") /\ UNCHANGED <<answer, pending>>
       \/ Fails(c) /\ UNCHANGED <<sessions, cache>>
    /\ UNCHANGED <<present, gone, binding, previous, missing>>

\* The instruction files are read, then a conversation's checkout is bound.
Created(c) ==
    /\ stage[c] = "created"
    /\ \/ Fails(c) /\ UNCHANGED binding
       \/ /\ Ends(c, "answered", c)
          /\ binding' = IF c \in Worktrees \/ Scope[c] = None THEN binding
                        ELSE [binding EXCEPT ![Scope[c]] = c]
    /\ UNCHANGED <<present, gone, sessions, cache, previous, missing>>

\* getWorkspace, by any tool with an answered identifier.
Use(w) ==
    /\ w \in sessions /\ \E c \in Opens : answer[c] = w
    /\ Remember(w)
    /\ UNCHANGED <<present, gone, sessions, binding, pending, stage, previous, missing, answer>>

\* The user removes the directory, or creates it.
UserEdits ==
    /\ present' = ~present
    /\ gone' = IF present THEN gone \union (sessions \ Worktrees) ELSE gone
    /\ UNCHANGED <<sessions, binding, cache, pending, stage, previous, missing, answer>>

\* The server ends and is started again.
Restart ==
    /\ cache' = <<>> /\ pending' = [k \in Scopes |-> None]
    /\ stage' = [c \in Opens |-> IF stage[c] \in {"idle", "answered"} THEN stage[c] ELSE "failed"]
    /\ UNCHANGED <<present, gone, sessions, binding, previous, missing, answer>>

Next ==
    \/ \E c \in Opens : \/ Enter(c) \/ Stat(c) \/ Prepare(c) \/ Bind(c) \/ Reuse(c) \/ Reused(c)
                        \/ CreateWorktree(c) \/ Create(c) \/ Created(c) \/ Use(c)
    \/ UserEdits \/ Restart

Spec == Init /\ [][Next]_vars

-----------------------------------------------------------------------------
TypeOK ==
    /\ present \in BOOLEAN /\ gone \subseteq Opens /\ sessions \subseteq Opens
    /\ binding \in [Scopes -> Opens \union {None}] /\ pending \in [Scopes -> Opens \union {None}]
    /\ cache \in Seq(Opens) /\ Len(cache) <= MaxCached
    /\ stage \in [Opens -> {"idle", "joined", "stat", "preparing", "binding", "reusing", "reused", "worktree",
                            "creating", "created", "answered", "failed"}]
    /\ missing \in [Opens -> BOOLEAN]
    /\ previous \in [Opens -> Opens \union {None}] /\ answer \in [Opens -> Opens \union {None}]

\* A conversation keeps its workspace, with all that is recorded about it, whatever
\* opens overlap, fail or are cut off by a restart: it is bound to another one, or
\* to none, only if the directory has been missing since.
BindingsStable ==
    [][\A k \in Scopes : binding[k] \notin {None, binding'[k]} => binding[k] \in gone]_vars

\* The checkout that a conversation is answered is the one it is bound to, and not
\* the one of a directory that the open, or the open it has joined, had to create.
AnswersBound ==
    [][\A c \in Opens \ Worktrees :
          stage[c] # "answered" /\ stage'[c] = "answered" /\ Scope[c] # None =>
              /\ answer'[c] = binding'[Scope[c]]
              /\ LET o == IF stage[c] = "joined" THEN pending[Scope[c]] ELSE c
                 IN  missing[o] => answer'[c] # previous[o]]_vars
\* The inductive invariant of the proofs in ServiceProofs.
Active == {"stat", "preparing", "binding", "reusing", "reused", "creating", "created"}
Bound(c) == c \notin Worktrees /\ Scope[c] # None   \* the open of a conversation's checkout
Records ==        \* what a conversation is bound to has a session
    /\ ~present => sessions \ Worktrees \subseteq gone
    /\ \A k \in Scopes : binding[k] \in (sessions \ Worktrees) \union {None}
    /\ \A c \in Opens : c \in sessions => stage[c] \in {"created", "answered", "failed"}
OneOpens ==
    \A c \in Opens :
       /\ stage[c] = "joined" => Bound(c)
       /\ stage[c] \in {"stat", "binding", "reusing", "reused"} => Bound(c)
       /\ stage[c] = "worktree" => c \in Worktrees
       /\ stage[c] \in Active /\ Bound(c) => pending[Scope[c]] = c
       /\ stage[c] \in {"creating", "created"} /\ Bound(c) => binding[Scope[c]] = None
       /\ stage[c] = "created" => c \in sessions
Remembered ==
    \A c \in Opens :
       /\ previous[c] # c /\ previous[c] \in (sessions \ Worktrees) \union {None}
       /\ stage[c] \in Active \ {"stat"} /\ Bound(c) /\ missing[c] => previous[c] \in gone \union {None}
       /\ stage[c] \in {"reusing", "reused"} =>
             binding[Scope[c]] # None /\ (missing[c] => binding[Scope[c]] # previous[c])
Shapes ==
    /\ present \in BOOLEAN /\ gone \subseteq Opens /\ sessions \subseteq Opens
    /\ binding \in [Scopes -> Opens \union {None}] /\ pending \in [Scopes -> Opens \union {None}]
    /\ stage \in [Opens -> Active \union {"idle", "joined", "worktree", "answered", "failed"}]
    /\ missing \in [Opens -> BOOLEAN]
    /\ previous \in [Opens -> Opens \union {None}] /\ answer \in [Opens -> Opens \union {None}]
Bindings == Shapes /\ Records /\ OneOpens /\ Remembered
Cached   == cache \in Seq(Opens) /\ Len(cache) <= MaxCached
IInv == Bindings /\ Cached
=============================================================================
