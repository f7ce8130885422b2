---------------------------- MODULE MCServices ------------------------------
(***************************************************************************)
(* The instances of the components in Services that TLC checks.            *)
(***************************************************************************)
EXTENDS Services, TLC

\* One grant, three calls of its client and one of another client, in two processes.
MCConsent == [g \in Grants |-> TokenScopes]
MCClient  == [x \in Grants \union TokenCalls |-> IF x = "f" THEN "other" ELSE "own"]

\* Three downloads to one name: one is right, one is shorter than declared, one is too long.
MCLength   == ("c" :> 1) @@ ("d" :> 0) @@ ("e" :> 2)
MCDeclared == [c \in Downloaders |-> IF c = "d" THEN 1 ELSE None]

\* Two commands, one in a terminal, a poll and a mutation; a buffer of one character.
MCOf == [p \in CommandPolls |-> "s"]

\* Two opens of one conversation, one of which may create the directory, and a worktree.
MCScope == ("a" :> "k") @@ ("b" :> "k") @@ ("w" :> None)

\* An open, two reviews and the reopening of one of them.
MCSince == [c \in Reviews |-> "last_shown"]
MCRef   == [c \in Reopens |-> "r"]

\* Two batches that archive a thread and one that restores it.
MCMode == [b \in Batches |-> IF b = "r" THEN "restore" ELSE "archive"]

\* Requests that create, move, replace and delete, beside another program.
Asks(action, path, destination, expected) ==
    [action |-> action, path |-> path, destination |-> destination, expected |-> expected]
MCOperations == {Asks("create", "a", None, None), Asks("move", "a", "b", 1),
                 Asks("replace", "a", None, 1), Asks("delete", "b", None, 1)}

\* Two registrations of one process, a thread in the roots and two projects.
MCProcess == [c \in Callers |-> "server"]
MCCwd     == [t \in Threads |-> TRUE]

\* Every patch of one or two actions.  Three of the paths name one file, two in different
\* case and one through a link to its directory; another file that is not there has two.
\* Lines are compared as they are, then without spaces at the end.
MCFile   == [p \in Paths |-> CASE p \in {"A", "l/a"} -> "a" [] p = "C" -> "c" [] OTHER -> p]
MCFolded == [p \in Paths |-> CASE p = "A" -> "a" [] p = "C" -> "c" [] OTHER -> p]
Lines    == {"x", "y", "z", "x "}
MCNormal == << [l \in Lines |-> l], [l \in Lines |-> IF l = "x " THEN "x" ELSE l] >>
Hunk(old, new, hint, atEnd) == << [old |-> old, new |-> new, hint |-> hint, atEnd |-> atEnd] >>
Change == Hunk(<<"x">>, <<"y">>, None, FALSE)
Hunks  == {Change, Hunk(<<>>, <<"z">>, None, TRUE), Hunk(<<"z">>, <<>>, "x", FALSE)}
PatchActions ==
    [kind : {"add"}, path : {"A", "b", "c"}, text : {<<"z">>}]
        \union [kind : {"delete"}, path : {"a", "b"}]
        \union [kind : {"update"}, path : {"a", "A", "b"}, hunks : Hunks]
        \union [kind : {"move"}, path : {"a", "b", "c"}, to : {"A", "l/a", "b", "C"}, hunks : {<<>>, Change}]
Texts == [f \in Files |-> CASE f = "a" -> <<"x ", "z">> [] f = "b" -> <<"x", "x">> [] OTHER -> None]
MCInputs == (UNION {[1..n -> PatchActions] : n \in 1..2}) \X {Texts}
=============================================================================
