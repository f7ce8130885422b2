--------------------------- MODULE EmulatorRecovery ---------------------------
(***************************************************************************)
(* emulator-session-recovery.ts: a command line stops an emulator whose    *)
(* launcher has exited while the emulator keeps the command's output, and  *)
(* with it the claim of the command, open.  It works for one recorded      *)
(* process; the claim is left to the manager that holds it.                *)
(*                                                                         *)
(* Processes, adb and the manager are external.  A process number and a    *)
(* serial name, once free, may come to name another emulator.              *)
(***************************************************************************)
EXTENDS Naturals, FiniteSets

CONSTANTS
    Recorded,      \* the emulator of the proof
    Others,        \* emulators that come later with its process number and its AVD
    None

\* They are different emulators.
EmulatorAssumption == Recorded \notin Others /\ None \notin {Recorded} \union Others

VARIABLES
    running,       \* emulators that run
    pid, serial,   \* what the recorded process number and serial name, or None
    claim,         \* the claim of the command is held by a live manager
    stage,
    apply,         \* not a dry run
    stopped,       \* what the stop has reached, or None
    replaced       \* the serial has changed hands since the second inspection

world == <<running, pid, serial, claim>>
vars == <<world, stage, apply, stopped, replaced>>

Init ==
    /\ running = {Recorded} /\ pid = Recorded /\ serial = Recorded /\ claim = TRUE
    /\ stage = "scoping" /\ apply \in BOOLEAN /\ stopped = None /\ replaced = FALSE

Goes(to) == stage' = to /\ UNCHANGED <<world, apply, stopped>>
Freed(name, e) == IF name = e THEN None ELSE name

(***************************************************************************)
(* The machine.                                                            *)
(***************************************************************************)
Exits(e) ==
    /\ e \in running /\ running' = running \ {e}
    /\ pid' = Freed(pid, e) /\ serial' = Freed(serial, e)
    /\ replaced' = (replaced \/ serial = e)
    /\ UNCHANGED <<claim, stage, apply, stopped>>
Starts(e) ==
    /\ e \in Others \ running /\ running' = running \union {e}
    /\ pid' \in IF pid = None THEN {e, None} ELSE {pid}
    /\ serial' = IF serial = None THEN e ELSE serial
    /\ UNCHANGED <<claim, stage, apply, stopped, replaced>>
Releases ==             \* the manager sees the end of the output
    /\ Recorded \notin running /\ claim /\ claim' = FALSE
    /\ UNCHANGED <<running, pid, serial, stage, apply, stopped, replaced>>

(***************************************************************************)
(* recoverEmulator.                                                        *)
(***************************************************************************)
\* scopedClaim: the run, its only command and its claim, and the owner is alive.
ScopedClaim == claim
\* validateEmulatorIdentity: the time of its creation tells the recorded process.
Identified == pid = Recorded

Scopes ==
    /\ stage = "scoping" /\ Goes(IF ScopedClaim THEN "inspecting" ELSE "refused")
    /\ UNCHANGED replaced
Inspects ==
    /\ stage = "inspecting" /\ Goes(IF Identified THEN "asking" ELSE "refused")
    /\ UNCHANGED replaced
\* adb names the AVD behind the serial, which other emulators share.
AsksAdb ==
    /\ stage = "asking"
    /\ Goes(IF serial = None THEN "refused" ELSE IF apply THEN "rechecking" ELSE "reporting")
    /\ UNCHANGED replaced
RechecksNothing ==      \* a fault: the process is taken to be what it was
    /\ stage = "rechecking" /\ Goes("stopping") /\ replaced' = FALSE
Rechecks ==
    /\ stage = "rechecking" /\ Goes(IF Identified /\ ScopedClaim THEN "stopping" ELSE "refused")
    /\ replaced' = FALSE

\* adb emu kill: whatever has the serial is asked to stop, and stops later.
Stops ==
    /\ stage = "stopping" /\ stopped' = serial
    /\ stage' = IF serial = None THEN "refused" ELSE "polling"
    /\ UNCHANGED <<world, apply, replaced>>
Polls ==
    /\ stage = "polling" /\ Goes(IF pid = None THEN "reporting" ELSE "unverified")
    /\ UNCHANGED replaced
Reports == stage = "reporting" /\ Goes("reported") /\ UNCHANGED replaced

Next == \/ \E e \in {Recorded} \union Others : Exits(e) \/ Starts(e)
        \/ Releases \/ Scopes \/ Inspects \/ AsksAdb \/ Rechecks \/ Stops \/ Polls \/ Reports
Spec == Init /\ [][Next]_vars

-----------------------------------------------------------------------------
TypeOK ==
    /\ {pid, serial} \subseteq {Recorded, None} \union Others
    /\ running \subseteq {Recorded} \union Others /\ {claim, apply, replaced} \subseteq BOOLEAN
    /\ stopped \in {Recorded, None} \union Others
    /\ stage \in {"scoping", "inspecting", "asking", "rechecking", "stopping", "polling",
                  "reporting", "reported", "refused", "unverified"}

\* However long adb takes, and whatever takes over the process number and the serial
\* meanwhile, the stop reaches the recorded emulator or nothing, unless the serial has
\* changed hands after the second inspection; and what is reported as stopped has exited
\* (recoverEmulator).
StopsTheRecorded ==
    /\ ~replaced => stopped \in {Recorded, None}
    /\ stage = "reported" /\ apply => Recorded \notin running

\* What makes it so.  Nothing has the number or the serial of the recorded emulator while
\* it runs, and nothing is stopped before the second inspection, so that the serial is
\* its own from there until it changes hands; and a stop is reported when the number is free.
Named ==
    /\ Recorded \in running => pid = Recorded /\ serial = Recorded
    /\ pid = Recorded => Recorded \in running
Stopping ==
    /\ stage \in {"scoping", "inspecting", "asking", "rechecking", "stopping"} => stopped = None
    /\ stage = "stopping" /\ ~replaced => serial = Recorded
    /\ ~replaced => stopped \in {Recorded, None}
    /\ stage \in {"reporting", "reported"} /\ apply => Recorded \notin running
IInv == TypeOK /\ Named /\ Stopping
=============================================================================
