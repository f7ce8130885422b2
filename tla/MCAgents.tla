------------------------------ MODULE MCAgents -------------------------------
(***************************************************************************)
(* The instances of the components in Agents that TLC checks.              *)
(***************************************************************************)
EXTENDS Agents, TLC

\* Two clients with a call each find a daemon of an older version that runs a turn.
MCVersion == [p \in Clients |-> 2]
MCCaller  == ("c" :> "p") @@ ("d" :> "q")

\* Two prompts of Grok on one session, the second of which asks for a model; two turns of
\* one thread of Codex, and of one session of OpenCode.
MCWant    == [c \in Calls |-> "s"]
MCThread  == [c \in Calls |-> "t"]

\* Three turns of one warm query of Claude and two of one warm session of Pi, of different
\* write modes.
MCMode    == [c \in Prompts |-> IF c = "d" THEN "allowed" ELSE "read_only"]
MCTools   == ("c" :> "full_access") @@ ("d" :> "allowed")

\* Two sessions in different workspaces with a command each.
MCWorkspace == ("s" :> "v") @@ ("z" :> "w")
MCOf        == ("c" :> "s") @@ ("d" :> "z")

\* Two executions of two runs on one thread.
MCRunOf   == <<"r", "s">>
=============================================================================
