--------------------------- MODULE DesktopProjects ---------------------------
(***************************************************************************)
(* codex-projects.ts, codex-desktop-open.ts and codex-desktop-catalog.ts:  *)
(* ensureDesktopProject registers a workspace with the Codex Desktop       *)
(* application and places its threads in the project.                      *)
(*                                                                         *)
(* Desktop is external.  It owns the catalog of saved projects, which is   *)
(* only read here, and its app-server owns the projects and the placement  *)
(* of the threads, which are changed by requests; the user changes both at *)
(* any time.  A request is done or not done when its answer does not come. *)
(* Each registration has an app-server process of its own, but the         *)
(* registrations of one process share the opening of a link (pending).     *)
(***************************************************************************)
EXTENDS Naturals, FiniteSets

CONSTANTS
    Callers,       \* calls of ensureDesktopProject, for one set of roots
    Process,       \* Process[c]: the process of the call
    Threads,
    Cwd,           \* Cwd[t]: the thread works in the roots
    Projects,      \* projects of the app-server
    MaxMoves,      \* bound: what the user does
    None

VARIABLES
    covers,        \* projects whose roots cover the requested ones
    place,         \* the project of each thread, or None
    saved, mapped, \* the catalog: a project is saved; its app-server project, or None
    assigned,      \* the catalog: threads that the client counts to the saved project
    moves,
    link,          \* calls whose process has a link opened for these roots
    stage, status, \* of each call
    catalog,       \* [project, threads] read by the call, or None
    matches,       \* projects that the call saw to cover its roots
    before,        \* the placement of each thread that the call saw
    left,          \* threads that the call has yet to place
    thread,        \* the thread it is placing, or None
    since,         \* threads the user has moved since the call read them again
    taken          \* a call has taken a thread from where it saw that it was not

desktop == <<covers, place, saved, mapped, assigned, moves>>
call == <<catalog, matches, before, left, thread>>
vars == <<desktop, link, stage, status, call, since, taken>>

NoCatalog == [project |-> None, threads |-> {}]
Init ==
    /\ covers \in SUBSET Projects /\ saved \in BOOLEAN
    /\ mapped \in IF saved THEN covers \union {None} ELSE {None}
    /\ assigned \in IF saved THEN SUBSET Threads ELSE {{}}
    /\ place \in [Threads -> Projects \union {None}] /\ moves = 0
    /\ link = {} /\ since = {} /\ taken = FALSE
    /\ stage = [c \in Callers |-> "idle"] /\ status = [c \in Callers |-> None]
    /\ catalog = [c \in Callers |-> NoCatalog] /\ matches = [c \in Callers |-> {}]
    /\ before = [c \in Callers |-> [t \in Threads |-> None]]
    /\ left = [c \in Callers |-> Threads] /\ thread = [c \in Callers |-> None]

Goes(c, to) == stage' = [stage EXCEPT ![c] = to]
Ends(c, result) == Goes(c, "done") /\ status' = [status EXCEPT ![c] = result]
At(c, where) == stage[c] = where /\ UNCHANGED <<desktop, taken>>

(***************************************************************************)
(* Desktop and its user.                                                   *)
(***************************************************************************)
Places(t, p) ==         \* the user moves a thread
    /\ moves < MaxMoves /\ moves' = moves + 1 /\ place[t] # p
    /\ place' = [place EXCEPT ![t] = p]
    /\ since' = since \union {<<c, t>> : c \in Callers}
    /\ UNCHANGED <<covers, saved, mapped, assigned, link, stage, status, call, taken>>
Maps(p) ==              \* the client saves or migrates the project of an opened workspace
    /\ moves < MaxMoves /\ moves' = moves + 1 /\ (saved \/ link # {}) /\ mapped # p
    /\ saved' = TRUE /\ mapped' = p /\ covers' = covers \union {p}
    /\ UNCHANGED <<place, assigned, link, stage, status, call, since, taken>>
Changes(p) ==           \* the user changes the roots of a project
    /\ moves < MaxMoves /\ moves' = moves + 1 /\ p \in covers
    /\ covers' = covers \ {p}
    /\ UNCHANGED <<place, saved, mapped, assigned, link, stage, status, call, since, taken>>

(***************************************************************************)
(* ensureSavedDesktopProject: the catalog, and the link of a project that  *)
(* is not saved.                                                           *)
(***************************************************************************)
Catalog == [project |-> mapped, threads |-> assigned]
Joined(c) == \E d \in link : Process[d] = Process[c]

Connect(c) ==
    /\ At(c, "idle") /\ Goes(c, "ensuring")
    /\ UNCHANGED <<link, status, call, since>>
Existing(c) ==
    /\ At(c, "ensuring") /\ ~Joined(c) /\ saved
    /\ IF mapped = None THEN Ends(c, "partial") /\ UNCHANGED catalog
                        ELSE Goes(c, "listing") /\ UNCHANGED status
                             /\ catalog' = [catalog EXCEPT ![c] = Catalog]
    /\ UNCHANGED <<link, matches, before, left, thread, since>>
OpensAnyway(c) ==       \* a fault: a call does not look for the link of another
    /\ At(c, "ensuring") /\ ~saved /\ link' = link \union {c} /\ Goes(c, "waiting")
    /\ UNCHANGED <<status, call, since>>
Opens(c) ==
    /\ At(c, "ensuring") /\ ~Joined(c) /\ ~saved
    /\ link' = link \union {c} /\ Goes(c, "waiting")
    /\ UNCHANGED <<status, call, since>>
Joins(c) ==
    /\ At(c, "ensuring") /\ Joined(c) /\ Goes(c, "joined")
    /\ UNCHANGED <<link, status, call, since>>

\* The loop of the call that has opened the link, and all that have joined it: the
\* mapping is there, or the deadline comes.
Resolved(c) ==
    /\ At(c, "waiting") /\ link' = link \ {c}
    /\ LET all == {c} \union {d \in Callers : stage[d] = "joined" /\ Process[d] = Process[c]}
       IN \/ /\ mapped # None
             /\ stage' = [d \in Callers |-> IF d \in all THEN "listing" ELSE stage[d]]
             /\ catalog' = [d \in Callers |-> IF d \in all THEN Catalog ELSE catalog[d]]
             /\ UNCHANGED status
          \/ /\ stage' = [d \in Callers |-> IF d \in all THEN "done" ELSE stage[d]]
             /\ status' = [d \in Callers |-> IF d \in all THEN "partial" ELSE status[d]]
             /\ UNCHANGED catalog
    /\ UNCHANGED <<matches, before, left, thread, since>>

(***************************************************************************)
(* registerProject: what is there is read and compared, then the threads   *)
(* are placed one by one.                                                  *)
(***************************************************************************)
Project(c) == catalog[c].project
Lists(c) ==
    /\ At(c, "listing") /\ matches' = [matches EXCEPT ![c] = covers]
    /\ IF Project(c) \in covers THEN Goes(c, "reading") /\ UNCHANGED status
                                ELSE Ends(c, "partial")
    /\ UNCHANGED <<link, catalog, before, left, thread, since>>

\* A thread is left alone when it works elsewhere, or belongs to a project that the
\* catalog does not say to be a former one of this workspace.
Foreign(c, t) ==
    /\ place[t] \notin {None, Project(c)}
    /\ ~(t \in catalog[c].threads /\ place[t] \in matches[c])
ReadsThreads(c) ==
    /\ At(c, "reading") /\ before' = [before EXCEPT ![c] = place]
    /\ IF \A t \in Threads : Cwd[t] /\ ~Foreign(c, t)
       THEN Goes(c, "verifying") /\ UNCHANGED status ELSE Ends(c, "partial")
    /\ UNCHANGED <<link, catalog, matches, left, thread, since>>
Verifies(c) ==
    /\ At(c, "verifying")
    /\ IF Project(c) \in covers THEN Goes(c, "choosing") /\ UNCHANGED status
                                ELSE Ends(c, "partial")
    /\ UNCHANGED <<link, call, since>>

RereadsAnything(c, t) ==    \* a fault: what the second reading shows is not compared
    /\ At(c, "choosing") /\ t \in left[c]
    /\ left' = [left EXCEPT ![c] = @ \ {t}] /\ thread' = [thread EXCEPT ![c] = t]
    /\ since' = since \ {<<c, t>>}
    /\ Goes(c, IF place[t] = Project(c) THEN "confirming" ELSE "placing")
    /\ UNCHANGED <<link, status, catalog, matches, before>>
Rereads(c, t) ==
    /\ At(c, "choosing") /\ t \in left[c]
    /\ left' = [left EXCEPT ![c] = @ \ {t}] /\ thread' = [thread EXCEPT ![c] = t]
    /\ since' = since \ {<<c, t>>}
    /\ IF place[t] # before[c][t] THEN Ends(c, "partial")
       ELSE /\ Goes(c, IF place[t] = Project(c) THEN "confirming" ELSE "placing")
            /\ UNCHANGED status
    /\ UNCHANGED <<link, catalog, matches, before>>

\* thread/metadata/update, with an answer or without one.
Assigns(c) ==
    /\ stage[c] = "placing"
    /\ LET t == thread[c] IN
       /\ place' = [place EXCEPT ![t] = Project(c)]
       /\ since' = since \union {<<d, t>> : d \in Callers \ {c}}
       /\ taken' = (taken \/ (<<c, t>> \notin since /\ Foreign(c, t)))
    /\ \/ Goes(c, "confirming") /\ UNCHANGED status
       \/ Ends(c, "partial")
    /\ UNCHANGED <<covers, saved, mapped, assigned, moves, link, call>>
Confirms(c) ==
    /\ At(c, "confirming")
    /\ IF place[thread[c]] = Project(c) THEN Goes(c, "choosing") /\ UNCHANGED status
                                        ELSE Ends(c, "partial")
    /\ UNCHANGED <<link, call, since>>

\* All threads are placed: the catalog is read once more.
Rechecks(c) ==
    /\ At(c, "choosing") /\ left[c] = {}
    /\ Ends(c, IF saved /\ mapped = Project(c) THEN "persisted" ELSE "partial")
    /\ UNCHANGED <<link, call, since>>

\* A request that is not done, is not answered in ten seconds, or whose app-server ends.
Unanswered(c) ==
    /\ stage[c] \in {"idle", "ensuring", "listing", "reading", "verifying", "choosing", "placing",
                      "confirming"}
    /\ At(c, stage[c]) /\ Ends(c, "partial")
    /\ UNCHANGED <<link, call, since>>

Next == \/ \E p \in Projects : Maps(p) \/ Changes(p)
        \/ \E t \in Threads, p \in Projects : Places(t, p)
        \/ \E c \in Callers :
             \/ Connect(c) \/ Existing(c) \/ Opens(c) \/ Joins(c) \/ Resolved(c)
             \/ Lists(c) \/ ReadsThreads(c) \/ Verifies(c) \/ Assigns(c) \/ Confirms(c)
             \/ Rechecks(c) \/ Unanswered(c) \/ \E t \in Threads : Rereads(c, t)
Spec == Init /\ [][Next]_vars

-----------------------------------------------------------------------------
Stages == {"idle", "ensuring", "waiting", "joined", "listing", "reading", "verifying",
           "choosing", "placing", "confirming", "done"}
TypeOK ==
    /\ covers \subseteq Projects /\ place \in [Threads -> Projects \union {None}]
    /\ saved \in BOOLEAN /\ assigned \subseteq Threads /\ mapped \in Projects \union {None} /\ link \subseteq Callers
    /\ stage \in [Callers -> Stages] /\ status \in [Callers -> {None, "partial", "persisted"}]
    /\ catalog \in [Callers -> [project : Projects \union {None}, threads : SUBSET Threads]]
    /\ matches \in [Callers -> SUBSET Projects]
    /\ before \in [Callers -> [Threads -> Projects \union {None}]]
    /\ left \in [Callers -> SUBSET Threads] /\ since \subseteq Callers \X Threads
    /\ thread \in [Callers -> Threads \union {None}] /\ taken \in BOOLEAN

\* A registration never takes a thread from a project that is not its own and that it
\* could see when it last read the thread, whatever the user and other registrations do
\* meanwhile (registerProject reads every thread again before it places it).
NoThreadTaken == ~taken

\* Two registrations of one process never have two links open for the same workspace
\* (ensureSavedDesktopProject shares the pending one).
OneLink == \A c, d \in link : Process[c] = Process[d] => c = d
ThreadsStay == NoThreadTaken /\ OneLink

\* What makes it so: a call that has read the threads has seen none that is another
\* project's, and the thread it is about to place is where it saw it, unless somebody has
\* moved it since the call read it again.
Seen ==
    \A c \in Callers : stage[c] \in {"verifying", "choosing", "placing", "confirming"} =>
        \A t \in Threads : \/ before[c][t] \in {None, Project(c)}
                           \/ t \in catalog[c].threads /\ before[c][t] \in matches[c]
InPlace ==
    \A c \in Callers : stage[c] = "placing" =>
        /\ thread[c] \in Threads
        /\ <<c, thread[c]>> \notin since => place[thread[c]] = before[c][thread[c]]
IInv == TypeOK /\ Seen /\ InPlace /\ ThreadsStay
=============================================================================
