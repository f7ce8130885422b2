--------------------------- MODULE MCRuntimePool ---------------------------
(* Instances of RuntimePool for TLC. *)
EXTENDS RuntimePool, TLC

\* All calls ask for one runtime and work on one session, which "again" resumes by
\* name and the others report while they run.
OneKey      == [q \in Runs |-> "k"]
MCSession   == [q \in Runs |-> "s"]

\* Although turns may be stuck, calls reach their provider or end, and a close of the pool
\* comes to its end (acquire, closeEntry, close).
EverythingSettles == CallsSettle /\ ShutdownSettles
=============================================================================
