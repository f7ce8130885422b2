----------------------- MODULE MCExecutionCoordinator -----------------------
(* Instances of ExecutionCoordinator for TLC. *)
EXTENDS ExecutionCoordinator, TLC

\* A checkout p, a directory inside it, a repository nested in it, and a linked
\* worktree q beside it.
P       == <<"p">>
InsideP == <<"p", "src">>
Nested  == <<"p", "vendor">>
Q       == <<"q">>
MCGitRoots == {P, Nested, Q}

AgentInput(owner, root, access, id, agents, readers) ==
    [ owner |-> owner, workspaceRoot |-> root, kind |-> "agent", access |-> access,
      agentId |-> id, threadKey |-> None, reported |-> {}, resources |-> {},
      maxConcurrentAgents |-> agents, maxConcurrentReaders |-> readers ]

\* Two processes with two agents each, the second agent of one of them resuming
\* a provider thread that a new session may report too, and a command whose
\* device is also a resource of an agent in the other worktree.  There is a slot
\* for two of the three agents, and the processes differ in how many readers
\* they allow.
ExclusionInput ==
    "reader"  :> AgentInput("o1", InsideP, "read", "a1", 2, 2) @@
    "resumed" :> [AgentInput("o1", Q, "write", "a2", 2, 2) EXCEPT !.threadKey = "t1",
                                                                  !.resources = {"device"}] @@
    "fresh"   :> [AgentInput("o2", P, "read", "a3", 2, 1) EXCEPT !.reported = {"t1"}] @@
    "command" :> [AgentInput("o2", Nested, "write", None, 2, 2) EXCEPT !.kind = "command",
                                                                  !.resources = {"device"}]

\* Readers that keep coming and a writer that waits for them, a second writer in
\* the same checkout, and a read of the host's own tools that never queues long.
QueueInput ==
    "reader"  :> AgentInput("o1", InsideP, "read", "a1", 4, 4) @@
    "second"  :> AgentInput("o2", P, "read", "a2", 4, 4) @@
    "writer"  :> AgentInput("o1", P, "write", "a3", 4, 4) @@
    "command" :> [AgentInput("o2", Nested, "write", None, 4, 4) EXCEPT !.kind = "command"]
=============================================================================
