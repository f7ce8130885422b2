------------------------------ MODULE Services -------------------------------
(***************************************************************************)
(* The components of the server that share no state with one another, each *)
(* in an instance of its own.  A behaviour is one of a single component,   *)
(* which `part` names; the others stay as they begin.  MCServices gives    *)
(* the constants their values.                                             *)
(***************************************************************************)
EXTENDS Naturals, Sequences, FiniteSets

CONSTANTS
    Parts,    \* the components that run
    None

-----------------------------------------------------------------------------
\* Authorization codes and token pairs (oauth-provider.ts, oauth-store.ts).
CONSTANTS Processes, Grants, TokenCalls, TokenScopes, Consent, Client, MaxExpired
VARIABLES oauth_code, oauth_home, oauth_stage, oauth_proc, oauth_given, oauth_scopes,
          oauth_grant, oauth_access, oauth_refresh, oauth_old
oauthVars == <<oauth_code, oauth_home, oauth_stage, oauth_proc, oauth_given, oauth_scopes,
               oauth_grant, oauth_access, oauth_refresh, oauth_old>>
OAuth == INSTANCE OAuthTokens WITH
    Calls <- TokenCalls, Scopes <- TokenScopes,
    code <- oauth_code, home <- oauth_home, stage <- oauth_stage, proc <- oauth_proc, given <- oauth_given,
    scopes <- oauth_scopes, grant <- oauth_grant, access <- oauth_access, refresh <- oauth_refresh,
    old <- oauth_old

-----------------------------------------------------------------------------
\* Downloads of an incoming artifact (artifact-tools.ts).
CONSTANTS Downloaders, Length, Declared, MaxBytes, MayCrash, User
VARIABLES downloads_dest, downloads_partial, downloads_aged, downloads_size, downloads_doomed,
          downloads_stage
downloadsVars == <<downloads_dest, downloads_partial, downloads_aged, downloads_size,
                   downloads_doomed, downloads_stage>>
Downloads == INSTANCE Downloads WITH
    Calls <- Downloaders, dest <- downloads_dest, partial <- downloads_partial, aged <- downloads_aged,
    size <- downloads_size, doomed <- downloads_doomed, stage <- downloads_stage

-----------------------------------------------------------------------------
\* Command sessions (process-sessions.ts).
CONSTANTS CommandStarts, CommandPolls, Mutations, Of, Terminals, BufferLimit, ReadLimit, MaxOutput
VARIABLES process_sessions, process_process, process_running, process_operation,
          process_buffer, process_produced, process_got, process_claims, process_shuttingDown,
          process_coordinator, process_stage
processVars == <<process_sessions, process_process, process_running, process_operation,
                 process_buffer, process_produced, process_got, process_claims,
                 process_shuttingDown, process_coordinator, process_stage>>
Commands == INSTANCE ProcessSessions WITH
    Starts <- CommandStarts, Polls <- CommandPolls,
    sessions <- process_sessions, process <- process_process, running <- process_running,
    operation <- process_operation, buffer <- process_buffer, produced <- process_produced,
    got <- process_got, claims <- process_claims, shuttingDown <- process_shuttingDown,
    coordinator <- process_coordinator, stage <- process_stage

-----------------------------------------------------------------------------
\* Workspaces and their conversations (workspaces.ts, workspace-store.ts).
CONSTANTS WorkspaceOpens, Scope, Worktrees, Creating, MaxCached
VARIABLES workspaces_present, workspaces_gone, workspaces_sessions, workspaces_binding,
          workspaces_cache, workspaces_pending, workspaces_stage, workspaces_previous,
          workspaces_missing, workspaces_answer
workspacesVars == <<workspaces_present, workspaces_gone, workspaces_sessions,
                    workspaces_binding, workspaces_cache, workspaces_pending, workspaces_stage,
                    workspaces_previous, workspaces_missing, workspaces_answer>>
Workspaces == INSTANCE Workspaces WITH
    Opens <- WorkspaceOpens,
    present <- workspaces_present, gone <- workspaces_gone, sessions <- workspaces_sessions,
    binding <- workspaces_binding, cache <- workspaces_cache, pending <- workspaces_pending,
    stage <- workspaces_stage, previous <- workspaces_previous, missing <- workspaces_missing,
    answer <- workspaces_answer

-----------------------------------------------------------------------------
\* Review checkpoints (review-checkpoints.ts).
CONSTANTS ReviewOpens, Reviews, Since, Marking, Reopens, Ref, MaxEdits, MaxRestarts
VARIABLES reviews_tree, reviews_commits, reviews_open, reviews_baseline, reviews_ready,
          reviews_openKnown, reviews_baselineKnown, reviews_pending, reviews_stage,
          reviews_base, reviews_mine, reviews_restarts
reviewsVars == <<reviews_tree, reviews_commits, reviews_open, reviews_baseline, reviews_ready,
                 reviews_openKnown, reviews_baselineKnown, reviews_pending, reviews_stage,
                 reviews_base, reviews_mine, reviews_restarts>>
Checkpoints == INSTANCE ReviewCheckpoints WITH
    Opens <- ReviewOpens, tree <- reviews_tree, commits <- reviews_commits, open <- reviews_open,
    baseline <- reviews_baseline, ready <- reviews_ready, openKnown <- reviews_openKnown,
    baselineKnown <- reviews_baselineKnown, pending <- reviews_pending, stage <- reviews_stage,
    base <- reviews_base, mine <- reviews_mine, restarts <- reviews_restarts

-----------------------------------------------------------------------------
\* Batches that archive or restore threads (project-archive.ts).
CONSTANTS Threads, Batches, Mode, MaxTurns, MaxCrashes
VARIABLES archive_state, archive_flagged, archive_guarded, archive_open, archive_agent,
          archive_claims, archive_batch, archive_entry, archive_seen, archive_changed,
          archive_step, archive_away, archive_turns, archive_foreign, archive_asked,
          archive_sent, archive_crashes
archiveVars == <<archive_state, archive_flagged, archive_guarded, archive_open, archive_agent,
                 archive_claims, archive_batch, archive_entry, archive_seen, archive_changed,
                 archive_step, archive_away, archive_turns, archive_foreign, archive_asked,
                 archive_sent, archive_crashes>>
Archive == INSTANCE ProjectArchive WITH
    state <- archive_state, flagged <- archive_flagged, guarded <- archive_guarded,
    open <- archive_open, agent <- archive_agent, claims <- archive_claims, batch <- archive_batch,
    entry <- archive_entry, seen <- archive_seen, changed <- archive_changed, step <- archive_step,
    away <- archive_away, turns <- archive_turns, foreign <- archive_foreign, asked <- archive_asked,
    sent <- archive_sent, crashes <- archive_crashes

-----------------------------------------------------------------------------
\* Operations on files (filesystem-operations.ts).
CONSTANTS FileNames, Operations, MaxFiles
VARIABLES files_name, files_version, files_temporary, files_op, files_at, files_opened,
          files_done, files_disturbed
filesVars == <<files_name, files_version, files_temporary, files_op, files_at, files_opened,
               files_done, files_disturbed>>
FileOps == INSTANCE FileOperations WITH
    Names <- FileNames,
    name <- files_name, version <- files_version, temporary <- files_temporary, op <- files_op,
    at <- files_at, opened <- files_opened, done <- files_done, disturbed <- files_disturbed

-----------------------------------------------------------------------------
\* The database and its migrations (db/migrations.ts).
CONSTANT Migrators
VARIABLES migrations_db, migrations_holder, migrations_stage, migrations_work, migrations_next,
          migrations_seen, migrations_given
migrationsVars == <<migrations_db, migrations_holder, migrations_stage, migrations_work,
                    migrations_next, migrations_seen, migrations_given>>
Migrations == INSTANCE Migrations WITH
    Procs <- Migrators,
    db <- migrations_db, holder <- migrations_holder, stage <- migrations_stage,
    work <- migrations_work, next <- migrations_next, seen <- migrations_seen, given <- migrations_given

-----------------------------------------------------------------------------
\* Projects of the desktop application (codex-projects.ts).
CONSTANTS Callers, Process, Cwd, Projects, MaxMoves
VARIABLES desktop_covers, desktop_place, desktop_saved, desktop_mapped, desktop_assigned,
          desktop_moves, desktop_link, desktop_stage, desktop_status, desktop_catalog,
          desktop_matches, desktop_before, desktop_left, desktop_thread, desktop_since,
          desktop_taken
desktopVars == <<desktop_covers, desktop_place, desktop_saved, desktop_mapped,
                 desktop_assigned, desktop_moves, desktop_link, desktop_stage, desktop_status,
                 desktop_catalog, desktop_matches, desktop_before, desktop_left,
                 desktop_thread, desktop_since, desktop_taken>>
Desktop == INSTANCE DesktopProjects WITH
    covers <- desktop_covers, place <- desktop_place, saved <- desktop_saved, mapped <- desktop_mapped,
    assigned <- desktop_assigned, moves <- desktop_moves, link <- desktop_link, stage <- desktop_stage,
    status <- desktop_status, catalog <- desktop_catalog, matches <- desktop_matches,
    before <- desktop_before, left <- desktop_left, thread <- desktop_thread, since <- desktop_since,
    taken <- desktop_taken

-----------------------------------------------------------------------------
\* Configuration files (user-config.ts, config-migration.ts).
CONSTANTS Loaders, Editors, RenameFails
VARIABLES config_config, config_legacy, config_backup, config_auth, config_stage, config_mine,
          config_upgrade, config_undone
configVars == <<config_config, config_legacy, config_backup, config_auth, config_stage,
                config_mine, config_upgrade, config_undone>>
Config == INSTANCE ConfigFiles WITH
    config <- config_config, legacy <- config_legacy, backup <- config_backup, auth <- config_auth,
    stage <- config_stage, mine <- config_mine, upgrade <- config_upgrade, undone <- config_undone

-----------------------------------------------------------------------------
\* Recovery of an emulator session (emulator-session-recovery.ts).
CONSTANTS Recorded, Others
VARIABLES emulator_running, emulator_pid, emulator_serial, emulator_claim, emulator_stage,
          emulator_apply, emulator_stopped, emulator_replaced
emulatorVars == <<emulator_running, emulator_pid, emulator_serial, emulator_claim,
                  emulator_stage, emulator_apply, emulator_stopped, emulator_replaced>>
Emulator == INSTANCE EmulatorRecovery WITH
    running <- emulator_running, pid <- emulator_pid, serial <- emulator_serial,
    claim <- emulator_claim, stage <- emulator_stage, apply <- emulator_apply,
    stopped <- emulator_stopped, replaced <- emulator_replaced

-----------------------------------------------------------------------------
\* Patches (apply-patch.ts).
CONSTANTS Paths, Files, FileAt, Folded, Normal, Inputs, Windows
VARIABLES patch_patch, patch_before, patch_disk, patch_spare, patch_next, patch_staged,
          patch_order, patch_meant, patch_at
patchVars == <<patch_patch, patch_before, patch_disk, patch_spare, patch_next, patch_staged,
               patch_order, patch_meant, patch_at>>
Patch == INSTANCE ApplyPatch WITH
    File <- FileAt,
    patch <- patch_patch, before <- patch_before, disk <- patch_disk, spare <- patch_spare,
    next <- patch_next, staged <- patch_staged, order <- patch_order, meant <- patch_meant,
    at <- patch_at

-----------------------------------------------------------------------------
\* Incoming artifacts (incoming-artifacts.ts).
CONSTANTS Adapters, RedirectLimit
VARIABLES incoming_reference, incoming_asked, incoming_matching, incoming_url,
          incoming_requests, incoming_bodies, incoming_response, incoming_source,
          incoming_stage
incomingVars == <<incoming_reference, incoming_asked, incoming_matching, incoming_url,
                  incoming_requests, incoming_bodies, incoming_response, incoming_source,
                  incoming_stage>>
Incoming == INSTANCE IncomingFiles WITH
    reference <- incoming_reference, asked <- incoming_asked, matching <- incoming_matching,
    url <- incoming_url, requests <- incoming_requests, bodies <- incoming_bodies,
    response <- incoming_response, source <- incoming_source, stage <- incoming_stage

-----------------------------------------------------------------------------
ASSUME ServicesAssumption ==
    /\ OAuth!OAuthAssumption /\ Commands!ProcessAssumption
    /\ Archive!ArchiveAssumption /\ Emulator!EmulatorAssumption
    /\ Downloads!DownloadsAssumption /\ FileOps!FilesAssumption /\ Incoming!IncomingAssumption
    /\ Config!ConfigAssumption /\ Checkpoints!ReviewAssumption /\ Workspaces!WorkspacesAssumption
    /\ Migrations!MigrationsAssumption /\ Patch!PatchAssumption

VARIABLE part    \* the component that runs; it does not change

allVars == <<part, oauthVars, downloadsVars, processVars, workspacesVars, reviewsVars,
               archiveVars, filesVars, migrationsVars, desktopVars, configVars, emulatorVars,
               patchVars, incomingVars>>

AnyFile      == CHOOSE n \in FileNames : TRUE
AnyLegacy    == CHOOSE d \in Migrations!Legacy : TRUE
AnyPatch     == CHOOSE i \in Inputs : TRUE
AnyReference == CHOOSE r \in Incoming!References : TRUE

\* The other components stay as they begin; where they may begin in several ways, in one.
Init ==
    /\ part \in Parts
    /\ OAuth!Init
    /\ Downloads!Init /\ (part = "downloads" \/ downloads_dest = None)
    /\ Commands!Init
    /\ Workspaces!Init /\ (part = "workspaces" \/ workspaces_present)
    /\ Checkpoints!Init
    /\ Archive!Init
    /\ FileOps!Init /\ (part = "files" \/ files_name[AnyFile] = 1)
    /\ Migrations!Init /\ (part = "migrations" \/ migrations_db = AnyLegacy)
    /\ Desktop!Init /\ (part = "desktop" \/ (/\ desktop_covers = {} /\ ~desktop_saved
                                                /\ desktop_place = [t \in Threads |-> None]))
    /\ Config!Init /\ (part = "config" \/ (config_config = None /\ config_legacy = None /\ config_backup))
    /\ Emulator!Init /\ (part = "emulator" \/ emulator_apply)
    /\ Patch!Init /\ (part = "patch" \/ <<patch_patch, patch_before>> = AnyPatch)
    /\ Incoming!Init /\ (part = "incoming" \/ incoming_reference = AnyReference)

Only(p) ==
    /\ part = p /\ UNCHANGED part
    /\ p = "oauth" \/ UNCHANGED oauthVars
    /\ p = "downloads" \/ UNCHANGED downloadsVars
    /\ p = "process" \/ UNCHANGED processVars
    /\ p = "workspaces" \/ UNCHANGED workspacesVars
    /\ p = "reviews" \/ UNCHANGED reviewsVars
    /\ p = "archive" \/ UNCHANGED archiveVars
    /\ p = "files" \/ UNCHANGED filesVars
    /\ p = "migrations" \/ UNCHANGED migrationsVars
    /\ p = "desktop" \/ UNCHANGED desktopVars
    /\ p = "config" \/ UNCHANGED configVars
    /\ p = "emulator" \/ UNCHANGED emulatorVars
    /\ p = "patch" \/ UNCHANGED patchVars
    /\ p = "incoming" \/ UNCHANGED incomingVars

Next ==
    \/ part = "oauth" /\ OAuth!Next /\ Only("oauth")
    \/ part = "downloads" /\ Downloads!Next /\ Only("downloads")
    \/ part = "process" /\ Commands!Next /\ Only("process")
    \/ part = "workspaces" /\ Workspaces!Next /\ Only("workspaces")
    \/ part = "reviews" /\ Checkpoints!Next /\ Only("reviews")
    \/ part = "archive" /\ Archive!Next /\ Only("archive")
    \/ part = "files" /\ FileOps!Next /\ Only("files")
    \/ part = "migrations" /\ Migrations!Next /\ Only("migrations")
    \/ part = "desktop" /\ Desktop!Next /\ Only("desktop")
    \/ part = "config" /\ Config!Next /\ Only("config")
    \/ part = "emulator" /\ Emulator!Next /\ Only("emulator")
    \/ part = "patch" /\ Patch!Next /\ Only("patch")
    \/ part = "incoming" /\ Incoming!Next /\ Only("incoming")

Spec == Init /\ [][Next]_allVars

-----------------------------------------------------------------------------
TypesOK ==
    /\ part = "oauth" => OAuth!TypeOK
    /\ part = "downloads" => Downloads!TypeOK
    /\ part = "incoming" => Incoming!TypeOK
    /\ part = "process" => Commands!TypeOK
    /\ part = "workspaces" => Workspaces!TypeOK
    /\ part = "reviews" => Checkpoints!TypeOK
    /\ part = "archive" => Archive!TypeOK
    /\ part = "patch" => Patch!TypeOK
    /\ part = "files" => FileOps!TypeOK
    /\ part = "migrations" => Migrations!TypeOK
    /\ part = "desktop" => Desktop!TypeOK
    /\ part = "config" => Config!TypeOK
    /\ part = "emulator" => Emulator!TypeOK

\* A code or a refresh token is exchanged once, whatever processes race for it, and a pair
\* never reaches further than the owner's consent or to another client (oauth-store.ts).
TokensRotate == part = "oauth" => OAuth!TokensRotate

\* Whatever fails, dies or is cleaned up meanwhile, a destination holds a whole file, and a
\* call that has ended leaves no partial one (artifact-tools.ts).
WholeFiles ==
    /\ part = "downloads" => Downloads!WholeFiles
    /\ part = "downloads" => Downloads!NothingLeft

\* However an incoming file is refused, no body of a response stays open, and a source
\* contradicts nothing that its reference says (incoming-artifacts.ts).
NothingHangs == part = "incoming" => Incoming!NothingHangs

\* A claim lasts as long as its command, and the answers about a command are its output in
\* order, with every gap told (process-sessions.ts).
CommandsAccounted == part = "process" => Commands!CommandsAccounted

\* A conversation keeps its workspace unless the directory has been missing, and is told
\* the one it is bound to, whatever opens overlap (workspaces.ts).
BindingsKept == Workspaces!BindingsStable /\ Workspaces!AnswersBound

\* The baseline of a review descends from the open checkpoint, whatever initializations
\* overlap or are cut off (review-checkpoints.ts).
BaselineDescends == part = "reviews" => Checkpoints!BaselineDescends

\* The ledger's archive state of a thread is the provider's, and no turn runs on a thread
\* that is away, whatever answer is lost (project-archive.ts).
ArchiveTrue == part = "archive" => Archive!ArchiveTrue

\* A patch that is applied means its actions in their order, and one that fails or dies
\* half way loses no text: of every file that the actions do not use under two names, since of
\* such a file the code stages two texts and keeps one (applyPatch, isSamePatchFile).
PatchesMean ==
    /\ part = "patch" => Patch!MeansItsActions
    /\ part = "patch" => Patch!NothingLost

\* No file operation and no download makes a text disappear that its caller did not name
\* (filesystem-operations.ts, artifact-tools.ts).
NothingOverwritten == FileOps!NothingOverwritten /\ Downloads!NeverReplaces

\* Whoever opens the database finds it migrated, and every level of an earlier agent under
\* its new name (db/migrations.ts).
OpenIsMigrated == part = "migrations" => Migrations!OpenIsMigrated

\* A registration takes no thread from a project of the user's, and a process opens one
\* link for a workspace (codex-projects.ts).
ThreadsStay == part = "desktop" => Desktop!ThreadsStay

\* A user who upgrades runs with the old settings and what has been set since
\* (user-config.ts).
UpgradeKeepsSettings == part = "config" => Config!UpgradeKeepsSettings

\* A recovery stops the emulator of the proof or none (emulator-session-recovery.ts).
StopsTheRecorded == part = "emulator" => Emulator!StopsTheRecorded

\* src/review-checkpoints.test.ts:80: "historical review refs survive later reviews and
\* manager restarts", also when two reviews are marked at once (markReviewed).
RefsSurvive == part = "reviews" => Checkpoints!RefsSurvive
=============================================================================
