---------------------------- MODULE MCAgentTurns ----------------------------
(* Instances of AgentTurns for TLC. *)
EXTENDS AgentTurns, TLC

\* One agent of context k that is continued, a second start in the same context,
\* and a command whose claim conflicts with both agents, as they do with each
\* other: one checkout.
MCTarget == "continue" :> "first"
MCContext == "first" :> "k" @@ "second" :> "k"
OneCheckout == {pair \in Claimants \X Claimants : pair[1] # pair[2]}
SharedReads == {pair \in OneCheckout : "command" \in {pair[1], pair[2]}}
=============================================================================
