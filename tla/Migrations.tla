------------------------------ MODULE Migrations ------------------------------
(***************************************************************************)
(* db/migrations.ts, db/client.ts and db/schema.ts: every process that     *)
(* opens the state directory (server, daemon, command line) first brings   *)
(* the database up to the schema that its queries name.                    *)
(*                                                                         *)
(* The database starts as an earlier build may have left it.  Columns are  *)
(* told apart in the tables that a later migration alters; any other table *)
(* is one unit.  Of the rows one is kept: an agent that was given a level  *)
(* of thinking, the value that migration 6 renames.                        *)
(***************************************************************************)
EXTENDS Naturals, FiniteSets

CONSTANTS
    Procs,         \* processes that open the database
    None

VARIABLES
    db,            \* [applied, columns, thinking, effort]: what is committed
    holder,        \* the process with the write lock, or None
    stage,         \* of each process
    work,          \* the transaction of the holder: db, changed; or None
    next,          \* the next migration of the holder
    seen,          \* of each process, the versions it found applied
    given          \* the value that the agent had when the first process came

vars == <<db, holder, stage, work, next, seen, given>>

Latest == 13

(***************************************************************************)
(* SQL.  A statement that fails leaves None.                               *)
(***************************************************************************)
HasTable(d, t) == \E c \in d.columns : c[1] = t
With(d, t, cs) == [d EXCEPT !.columns = @ \union ({t} \X cs)]
Create(d, ts) == IF \E t \in ts : HasTable(d, t) THEN None
                 ELSE [d EXCEPT !.columns = @ \union (ts \X {"*"})]
CreateIfMissing(d, t, cs) == IF HasTable(d, t) THEN d ELSE With(d, t, cs)
AddColumnIfMissing(d, t, c) ==
    IF d = None \/ ~HasTable(d, t) THEN None ELSE With(d, t, {c})

Ws == "workspace_sessions"
Las == "local_agent_sessions"
Claims == "execution_claims"

(***************************************************************************)
(* The migrations.                                                         *)
(***************************************************************************)
WorkspaceColumns == {"mode", "source_root", "base_ref", "base_sha", "managed"}
MigrateWorkspaceState(d) ==
    LET tables == CreateIfMissing(CreateIfMissing(d, Ws, {"*"} \union WorkspaceColumns),
                                  "loaded_agent_files", {"*"})
    IN With(tables, Ws, WorkspaceColumns)

MigrateOAuthState(d) ==
    CreateIfMissing(CreateIfMissing(CreateIfMissing(d, "oauth_clients", {"*"}),
        "oauth_access_tokens", {"*"}), "oauth_refresh_tokens", {"*"})

MigrateLocalAgentSessions(d) ==
    AddColumnIfMissing(CreateIfMissing(d, Las, {"*", "effort"}), Las, "effort")

MigrateBindings(d) == CreateIfMissing(d, "workspace_conversation_bindings", {"*"})

MigrateStructuredErrors(d) ==
    AddColumnIfMissing(AddColumnIfMissing(d, Las, "error_code"), Las, "error_retryable")

\* An effort column may exist before its values do: they are copied, not renamed.
RenameOnly(d) ==        \* a fault: a column that is there is taken to hold the values
    IF <<Las, "effort">> \in d.columns THEN d
    ELSE IF <<Las, "thinking">> \notin d.columns THEN AddColumnIfMissing(d, Las, "effort")
    ELSE [With(d, Las, {"effort"}) EXCEPT !.columns = @ \ {<<Las, "thinking">>},
                                          !.effort = d.thinking, !.thinking = None]
MigrateEffortRename(d) ==
    IF <<Las, "effort">> \in d.columns
    THEN IF <<Las, "thinking">> \in d.columns /\ d.effort = None
         THEN [d EXCEPT !.effort = d.thinking] ELSE d
    ELSE IF <<Las, "thinking">> \notin d.columns THEN AddColumnIfMissing(d, Las, "effort")
    ELSE [With(d, Las, {"effort"}) EXCEPT !.columns = @ \ {<<Las, "thinking">>},
                                          !.effort = d.thinking, !.thinking = None]

MigrateCoordination(d) == CreateIfMissing(d, Claims, {"*"})
MigrateTaskKeys(d) == CreateIfMissing(d, "agent_task_keys", {"*"})
MigrateUsageSnapshots(d) == CreateIfMissing(d, "agent_usage_snapshots", {"*"})

AffinityColumns == {"context_key", "context_signature", "work_item_id"}
MigrateAffinity(d) ==
    IF ~HasTable(d, Claims) \/ ~HasTable(d, Las) THEN None
    ELSE Create(With(With(d, Claims, {"access_mode", "thread_key"}), Las, AffinityColumns),
                {"execution_waiters", "agent_continue_keys"})

ConsoleTables ==
    {"console_projects", "console_work_items", "console_work_runs", "console_operations",
     "console_threads", "console_executions", "console_archive_batches",
     "console_archive_entries"}
MigrateProjectConsole(d) == Create(d, ConsoleTables)
MigrateProgress(d) == AddColumnIfMissing(d, Las, "progress")
MigrateReceipts(d) == Create(d, {"web_command_receipts"})

Up(d, v) == CASE v = 1 -> MigrateWorkspaceState(d)     [] v = 2 -> MigrateOAuthState(d)
              [] v = 3 -> MigrateLocalAgentSessions(d) [] v = 4 -> MigrateBindings(d)
              [] v = 5 -> MigrateStructuredErrors(d)   [] v = 6 -> MigrateEffortRename(d)
              [] v = 7 -> MigrateCoordination(d)       [] v = 8 -> MigrateTaskKeys(d)
              [] v = 9 -> MigrateUsageSnapshots(d)     [] v = 10 -> MigrateAffinity(d)
              [] v = 11 -> MigrateProjectConsole(d)    [] v = 12 -> MigrateProgress(d)
              [] v = 13 -> MigrateReceipts(d)

(***************************************************************************)
(* What an earlier build may have left.                                    *)
(***************************************************************************)
Fresh == [applied |-> {}, columns |-> {}, thinking |-> None, effort |-> None]
Upgraded(d, v) == [Up(d, v) EXCEPT !.applied = @ \union {v}]
After1  == Upgraded(Fresh, 1)
After2  == Upgraded(After1, 2)
After3  == Upgraded(After2, 3)
After4  == Upgraded(After3, 4)
After5  == Upgraded(After4, 5)
After6  == Upgraded(After5, 6)
After7  == Upgraded(After6, 7)
After8  == Upgraded(After7, 8)
After9  == Upgraded(After8, 9)
After10 == Upgraded(After9, 10)
After11 == Upgraded(After10, 11)
After12 == Upgraded(After11, 12)
After13 == Upgraded(After12, 13)

\* Before migration 6 the level was a column named thinking.
Thinking(d, versions) ==
    [d EXCEPT !.applied = versions, !.thinking = "high",
              !.columns = (@ \ {<<Las, "effort">>}) \union {<<Las, "thinking">>}]
\* Before migrations were recorded a workspace had no mode.
Unversioned == Thinking(With(With(Fresh, Ws, {"*"}), Las, {"*"}), {})
Versioned == {Fresh, After1, After2, After3, After4, After5, After6, After7, After8, After9,
              After10, After11, After12, After13}
Legacy ==
    Versioned \union {Thinking(After3, 1..3), Thinking(After4, 1..4), Thinking(After5, 1..5)}
        \union {Thinking(After4, {1, 2, 4}), Unversioned}
        \union {[After6 EXCEPT !.effort = "low"], [After9 EXCEPT !.effort = "low"]}

Init ==
    /\ db \in Legacy
    /\ given = IF db.thinking # None THEN db.thinking ELSE db.effort
    /\ holder = None /\ work = None /\ next = 0
    /\ stage = [p \in Procs |-> "closed"] /\ seen = [p \in Procs |-> {}]

(***************************************************************************)
(* openDatabase and migrateDatabase: one immediate transaction.            *)
(***************************************************************************)
Goes(p, to) == stage' = [stage EXCEPT ![p] = to]

\* A fault: the versions are read before the transaction holds the lock.
BeginEarly(p) ==
    \/ /\ stage[p] = "closed" /\ Goes(p, "opening") /\ seen' = [seen EXCEPT ![p] = db.applied]
       /\ UNCHANGED <<db, holder, work, next, given>>
    \/ /\ stage[p] = "opening" /\ holder = None /\ Goes(p, "migrating")
       /\ holder' = p /\ work' = db /\ next' = 1
       /\ UNCHANGED <<db, seen, given>>
Begin(p) ==
    /\ stage[p] = "closed" /\ holder = None
    /\ holder' = p /\ work' = db /\ next' = 1
    /\ seen' = [seen EXCEPT ![p] = db.applied]
    /\ Goes(p, "migrating")
    /\ UNCHANGED <<db, given>>

\* The lock is not given within the busy timeout.
Busy(p) ==
    /\ stage[p] = "closed" /\ holder # None /\ Goes(p, "busy")
    /\ UNCHANGED <<db, holder, work, next, seen, given>>

Migrate(p) ==
    /\ stage[p] = "migrating" /\ holder = p /\ next <= Latest
    /\ IF next \in seen[p] THEN next' = next + 1 /\ UNCHANGED <<db, holder, stage, work>>
       ELSE LET d == Up(work, next) IN
            IF d = None
            THEN Goes(p, "broken") /\ holder' = None /\ work' = None /\ next' = 0 /\ UNCHANGED db
            ELSE /\ work' = [d EXCEPT !.applied = @ \union {next}] /\ next' = next + 1
                 /\ UNCHANGED <<db, holder, stage>>
    /\ UNCHANGED <<seen, given>>

Commit(p) ==
    /\ stage[p] = "migrating" /\ holder = p /\ next > Latest
    /\ db' = work /\ holder' = None /\ work' = None /\ next' = 0 /\ Goes(p, "open")
    /\ UNCHANGED <<seen, given>>

\* The process ends; a transaction that it had begun is rolled back.
Ends(p) ==
    /\ stage[p] # "closed" /\ Goes(p, "closed")
    /\ IF holder = p THEN holder' = None /\ work' = None /\ next' = 0
                     ELSE UNCHANGED <<holder, work, next>>
    /\ UNCHANGED <<db, seen, given>>

Next == \E p \in Procs : Begin(p) \/ Busy(p) \/ Migrate(p) \/ Commit(p) \/ Ends(p)
Spec == Init /\ [][Next]_vars

-----------------------------------------------------------------------------
(***************************************************************************)
(* What the queries name: db/schema.ts, and the receipts of the commands.  *)
(***************************************************************************)
SessionSchema ==
    ({Ws} \X ({"*"} \union WorkspaceColumns))
        \union ({"loaded_agent_files", "workspace_conversation_bindings", "oauth_clients",
                 "oauth_access_tokens", "oauth_refresh_tokens"} \X {"*"})
AgentSchema ==
    {Las} \X ({"*", "effort", "error_code", "error_retryable", "progress"} \union AffinityColumns)
CoordinationSchema ==
    ({Claims} \X {"*", "access_mode", "thread_key"})
        \union ({"execution_waiters", "agent_continue_keys", "agent_task_keys",
                 "agent_usage_snapshots", "web_command_receipts"} \X {"*"})
ConsoleSchema == ConsoleTables \X {"*"}
Schema == SessionSchema \union AgentSchema \union CoordinationSchema \union ConsoleSchema

Columns   == Schema \union {<<Las, "thinking">>}
Levels    == {"high", "low", None}
Databases == [applied : SUBSET (1..Latest), columns : SUBSET Columns, thinking : Levels, effort : Levels]
\* None is no database: it is what a statement that fails leaves.
MigrationsAssumption == None \notin Databases /\ None \notin Procs /\ None \notin {"high", "low"}

TypeOK ==
    /\ db.applied \subseteq 1..Latest /\ holder \in Procs \union {None}
    /\ stage \in [Procs -> {"closed", "opening", "busy", "migrating", "open", "broken"}]
    /\ next \in 0..(Latest + 1) /\ (work = None <=> holder = None)

\* From whatever an earlier build has left, with processes that open the database at the
\* same time or end in the middle: a process that has it open finds every table and
\* column that its queries name and the level of every earlier agent under its new name,
\* and no migration fails on what another process has done (migrateDatabase).
OpenIsMigrated ==
    \A p \in Procs :
        /\ stage[p] # "broken"
        /\ stage[p] = "open" => Schema \subseteq db.columns /\ db.effort = given

\* The inductive invariant of the proofs in ServiceProofs: what each recorded migration
\* has promised is there, and the level is where the versions say.
Promised(v) ==
    CASE v = 1 -> {Ws} \X ({"*"} \union WorkspaceColumns) \union {<<"loaded_agent_files", "*">>}
      [] v = 2 -> {"oauth_clients", "oauth_access_tokens", "oauth_refresh_tokens"} \X {"*"}
      [] v = 3 -> {<<Las, "*">>}
      [] v = 4 -> {<<"workspace_conversation_bindings", "*">>}
      [] v = 5 -> {Las} \X {"error_code", "error_retryable"}
      [] v = 6 -> {<<Las, "effort">>}
      [] v = 7 -> {<<Claims, "*">>}
      [] v = 8 -> {<<"agent_task_keys", "*">>}
      [] v = 9 -> {<<"agent_usage_snapshots", "*">>}
      [] v = 10 -> ({Claims} \X {"access_mode", "thread_key"}) \union ({Las} \X AffinityColumns)
                      \union ({"execution_waiters", "agent_continue_keys"} \X {"*"})
      [] v = 11 -> ConsoleTables \X {"*"}
      [] v = 12 -> {<<Las, "progress">>}
      [] v = 13 -> {<<"web_command_receipts", "*">>}
\* The migrations that create tables without asking whether they are there.
Creates(v) == CASE v = 10 -> {"execution_waiters", "agent_continue_keys"}
                [] v = 11 -> ConsoleTables
                [] v = 13 -> {"web_command_receipts"}
Level(d, level) ==
    IF 6 \in d.applied THEN d.effort = level
    ELSE /\ d.effort = None /\ d.thinking = level
         /\ d.thinking # None => <<Las, "thinking">> \in d.columns
Sound(d, level) ==
    /\ d \in Databases
    /\ \A c \in d.columns : <<c[1], "*">> \in d.columns
    /\ \A v \in d.applied : Promised(v) \subseteq d.columns
    /\ \A v \in {10, 11, 13} \ d.applied : \A t \in Creates(v) : ~HasTable(d, t)
    /\ Level(d, level)
Opening ==
    /\ seen \in [Procs -> SUBSET (1..Latest)]
    /\ \A p \in Procs : stage[p] = "migrating" <=> holder = p
    /\ holder # None =>
          /\ Sound(work, given) /\ next \in 1..(Latest + 1)
          /\ work.applied = seen[holder] \union 1..(next - 1)
IInv ==
    /\ TypeOK /\ Sound(db, given) /\ Opening
    /\ \A p \in Procs : stage[p] # "broken" /\ (stage[p] = "open" => db.applied = 1..Latest)
=============================================================================
