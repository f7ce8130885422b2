---------------------------- MODULE SourceClaims ----------------------------
(***************************************************************************)
(* What execution claims promise to the code that works in a checkout,     *)
(* without queue, owners, limits or clock: a set of activities that do not *)
(* disturb each other.  An activity starts only when it excludes none of   *)
(* those that run, learns its provider thread later, and ends.             *)
(***************************************************************************)
CONSTANTS
    Requests,       \* the activities
    Threads,        \* the provider threads
    None,           \* no provider thread
    InitialThread,  \* the thread an activity resumes, or None
    Exclusive       \* the pairs of activities that may never run together

VARIABLES
    held,           \* the activities that run
    key             \* the provider thread of each of them

vars == <<held, key>>

Init == held = {} /\ key = [r \in Requests |-> None]

Start(r) ==
    /\ r \notin held
    /\ \A h \in held : /\ <<r, h>> \notin Exclusive
                       /\ InitialThread[r] = None \/ InitialThread[r] # key[h]
    /\ held' = held \union {r}
    /\ key' = [key EXCEPT ![r] = InitialThread[r]]

Bind(r, t) ==
    /\ r \in held
    /\ \A h \in held \ {r} : key[h] # t
    /\ key' = [key EXCEPT ![r] = t]
    /\ UNCHANGED held

End(r) ==
    /\ r \in held
    /\ held' = held \ {r}
    /\ key' = [key EXCEPT ![r] = None]

Next == \E r \in Requests : Start(r) \/ End(r) \/ \E t \in Threads : Bind(r, t)

Spec == Init /\ [][Next]_vars
=============================================================================
