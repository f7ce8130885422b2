---------------------------- MODULE MCWebCommands ----------------------------
(* Instances of WebCommands for TLC. *)
EXTENDS WebCommands, TLC

\* A request that is sent twice, to two processes, one with its key and other
\* inputs, and another request.
MCKey   == [c \in Calls |-> IF c = "other" THEN "j" ELSE "k"]
MCInput == [c \in Calls |-> IF c = "changed" THEN "y" ELSE "x"]
MCSent  == [c \in Calls |-> IF c = "again" THEN {"p2"} ELSE {"p1"}]

\* Calls are answered, and the sessions of the accepted commands settle, although a call
\* that loses its race starts again and results may be impossible to save (start, finish).
EverythingSettles == CallsAnswered /\ CommandsSettle
=============================================================================
