----------------------------- MODULE ConfigFiles -----------------------------
(***************************************************************************)
(* user-config.ts and config-migration.ts: the configuration files of a    *)
(* user, which servers load at their start and the command line edits.     *)
(*                                                                         *)
(* The first load after an upgrade moves config.json to config.jsonc: the  *)
(* migrated text is published by a link that replaces nothing, then the    *)
(* old file is renamed to a backup; when that fails the published file is  *)
(* removed.  Nothing locks the files: the processes interleave between any *)
(* two calls of the file system.  A configuration is told apart by the     *)
(* settings it starts from and by the edits in it.                         *)
(***************************************************************************)
EXTENDS FiniteSets

CONSTANTS
    Loaders,       \* processes that load the files
    Editors,       \* processes that load the files and set one value
    RenameFails,   \* the old file may refuse to be renamed
    None

Procs == Loaders \union Editors

Configs == [base : {"default", "own", "legacy"}, edits : SUBSET Editors]
ConfigAssumption == None \notin Configs

VARIABLES
    config,        \* config.jsonc: [base, edits], or None
    legacy,        \* config.json: "plain", "unsupported" (keys it may not have), or None
    backup,        \* config.json.v1.0.bak exists
    auth,          \* auth.json: "whole" or "torn"
    stage, mine,   \* of each process, and the configuration that it holds
    upgrade,       \* at first there were old settings and no new ones
    undone         \* a migration has removed what it had published

files == <<config, legacy, backup, auth>>
vars == <<files, stage, mine, upgrade, undone>>

Default == [base |-> "default", edits |-> {}]
Own == [base |-> "own", edits |-> {}]

Init ==
    /\ config \in {None, Own} /\ legacy \in {None, "plain", "unsupported"}
    /\ backup \in BOOLEAN /\ auth = "whole"
    /\ stage = [p \in Procs |-> "idle"] /\ mine = [p \in Procs |-> None]
    /\ upgrade = (config = None /\ legacy # None) /\ undone = FALSE

Goes(p, to) == stage' = [stage EXCEPT ![p] = to]
Holds(p, c) == mine' = [mine EXCEPT ![p] = c]
At(p, where) == stage[p] = where /\ UNCHANGED <<upgrade>>

(***************************************************************************)
(* loadDevspaceFiles.                                                      *)
(***************************************************************************)
Looks(p) ==
    /\ At(p, "idle") /\ Goes(p, IF config # None THEN "loading" ELSE "looking")
    /\ UNCHANGED <<files, mine, undone>>
LooksForLegacy(p) ==
    /\ At(p, "looking") /\ Goes(p, IF legacy # None THEN "migrating" ELSE "loading")
    /\ UNCHANGED <<files, mine, undone>>
Loads(p) ==
    /\ At(p, "loading")
    /\ \/ config # None /\ Goes(p, "reading") /\ UNCHANGED mine
       \/ config = None /\ Holds(p, Default) /\ Goes(p, "authenticating")
    /\ UNCHANGED <<files, undone>>
Reads(p) ==
    /\ At(p, "reading")
    /\ IF config = None THEN Goes(p, "failed") /\ UNCHANGED mine
                        ELSE Holds(p, config) /\ Goes(p, "authenticating")
    /\ UNCHANGED <<files, undone>>
ReadsAuth(p) ==
    /\ At(p, "authenticating")
    /\ Goes(p, IF auth = "torn" THEN "failed" ELSE IF p \in Editors THEN "editing" ELSE "loaded")
    /\ UNCHANGED <<files, mine, undone>>

(***************************************************************************)
(* migrateLegacyConfigFile.                                                *)
(***************************************************************************)
ChecksBackup(p) ==
    /\ At(p, "migrating") /\ Goes(p, IF backup THEN "failed" ELSE "converting")
    /\ UNCHANGED <<files, mine, undone>>
\* migrateLegacyConfig keeps every setting, and refuses a file with keys it does not know.
MigrateLegacyConfig(text) == IF text = "plain" THEN [base |-> "legacy", edits |-> {}] ELSE None
Converts(p) ==
    /\ At(p, "converting") /\ Holds(p, MigrateLegacyConfig(legacy))
    /\ Goes(p, IF legacy = "plain" THEN "publishing" ELSE "failed")
    /\ UNCHANGED <<files, undone>>

PublishesByRename(p) == \* a fault: the file of the process that came first is replaced
    /\ At(p, "publishing") /\ config' = mine[p] /\ Goes(p, "retiring")
    /\ UNCHANGED <<legacy, backup, auth, mine, undone>>
Publishes(p) ==
    /\ At(p, "publishing")
    /\ IF config # None THEN Goes(p, "yielding") /\ UNCHANGED config
                        ELSE config' = mine[p] /\ Goes(p, "retiring")
    /\ UNCHANGED <<legacy, backup, auth, mine, undone>>
Yields(p) ==
    /\ At(p, "yielding") /\ Goes(p, IF config = None THEN "failed" ELSE "loading")
    /\ UNCHANGED <<files, mine, undone>>
Retires(p) ==
    /\ At(p, "retiring")
    /\ \/ /\ legacy # None /\ legacy' = None /\ backup' = TRUE /\ Goes(p, "loading")
       \/ /\ RenameFails \/ legacy = None
          /\ Goes(p, "undoing") /\ UNCHANGED <<legacy, backup>>
    /\ UNCHANGED <<config, auth, mine, undone>>
Undoes(p) ==
    /\ At(p, "undoing") /\ Goes(p, "failed")
    /\ IF legacy # None THEN config' = None /\ undone' = TRUE ELSE UNCHANGED <<config, undone>>
    /\ UNCHANGED <<legacy, backup, auth, mine>>

(***************************************************************************)
(* setDevspaceConfigValues: a file that was there is read again, then it   *)
(* is replaced.  The set-up command writes auth.json after it, in place,   *)
(* so that this file is torn meanwhile.                                    *)
(***************************************************************************)
Edits(p) ==
    /\ At(p, "editing")
    /\ LET source == IF mine[p] = Default THEN Default ELSE config
       IN  IF source = None THEN Goes(p, "failed") /\ UNCHANGED mine
           ELSE Holds(p, [source EXCEPT !.edits = @ \union {p}]) /\ Goes(p, "writing")
    /\ UNCHANGED <<files, undone>>
Writes(p) ==
    /\ At(p, "writing") /\ config' = mine[p]
    /\ \E to \in {"truncating", "edited"} : Goes(p, to)
    /\ UNCHANGED <<legacy, backup, auth, mine, undone>>
Truncates(p) ==
    /\ At(p, "truncating") /\ auth' = "torn" /\ Goes(p, "filling")
    /\ UNCHANGED <<config, legacy, backup, mine, undone>>
Fills(p) ==
    /\ At(p, "filling") /\ auth' = "whole" /\ Goes(p, "edited")
    /\ UNCHANGED <<config, legacy, backup, mine, undone>>

\* The process ends between two calls.
Crashes(p) ==
    /\ stage[p] \notin {"idle", "loaded", "edited", "failed"} /\ At(p, stage[p])
    /\ Goes(p, "failed")
    /\ UNCHANGED <<files, mine, undone>>

Next == \E p \in Procs :
    \/ Looks(p) \/ LooksForLegacy(p) \/ Loads(p) \/ Reads(p) \/ ReadsAuth(p)
    \/ ChecksBackup(p) \/ Converts(p) \/ Publishes(p) \/ Yields(p) \/ Retires(p) \/ Undoes(p)
    \/ Edits(p) \/ Writes(p) \/ Truncates(p) \/ Fills(p) \/ Crashes(p)
Spec == Init /\ [][Next]_vars

-----------------------------------------------------------------------------
Stages == {"idle", "looking", "migrating", "converting", "publishing", "yielding", "retiring",
           "undoing", "loading", "reading", "authenticating", "loaded", "editing", "writing",
           "truncating", "filling", "edited", "failed"}
TypeOK ==
    /\ config \in Configs \union {None} /\ legacy \in {None, "plain", "unsupported"}
    /\ auth \in {"whole", "torn"} /\ {backup, upgrade, undone} \subseteq BOOLEAN
    /\ stage \in [Procs -> Stages] /\ mine \in [Procs -> Configs \union {None}]

\* A user who upgrades never runs with other settings than the old ones and what has been
\* set since: no process that starts while another migrates, edits or ends in the middle
\* takes the defaults, and what an editor has set is not lost to a migration
\* (loadDevspaceFiles).  A migration that was undone is the exception.
UpgradeKeepsSettings ==
    upgrade /\ ~undone =>
        /\ config # None => config.base = "legacy"
        /\ \A p \in Procs : stage[p] \in {"loaded", "editing"} => mine[p].base = "legacy"
        /\ \A p \in Editors : stage[p] = "edited" /\ config # None => config.edits # {}
\* The inductive invariant of the proofs in ServiceProofs: once the old settings are
\* published there is a file with them, and whoever has passed it holds them.
Migrated ==
    upgrade /\ ~undone =>
        /\ config # None => config.base = "legacy"
        /\ legacy = None => config # None
        /\ \A p \in Procs :
              /\ stage[p] \in {"yielding", "retiring", "undoing", "loading", "reading"} => config # None
              /\ stage[p] \in {"publishing", "authenticating", "loaded", "editing", "writing"} =>
                     mine[p] # None /\ mine[p].base = "legacy"
              /\ stage[p] = "writing" => mine[p].edits # {}
              /\ stage[p] \in {"truncating", "filling", "edited"} => config # None /\ config.edits # {}
Editing == \A p \in Procs : stage[p] = "editing" => p \in Editors
IInv == TypeOK /\ Editing /\ Migrated
=============================================================================
