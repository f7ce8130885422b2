----------------------------- MODULE OAuthTokens -----------------------------
(***************************************************************************)
(* Authorization codes and token pairs of the server's own OAuth provider: *)
(* src/oauth-provider.ts and src/oauth-store.ts.                           *)
(*                                                                         *)
(* Codes live in the memory of the process that issued them, tokens in the *)
(* database that several processes share.  A code is exchanged by two      *)
(* calls of the provider, between which the framework verifies the client; *)
(* a refresh reads the row and then replaces it in a transaction, and      *)
(* another process may commit in between.                                  *)
(*                                                                         *)
(* A pair of tokens is named by the call that obtains it, and a refused    *)
(* call that changes nothing is no step.  Hashes, forms, redirects and the *)
(* registration of clients are left out.                                   *)
(***************************************************************************)
EXTENDS Naturals, FiniteSets

CONSTANTS
    Processes,
    Grants,      \* approvals by the owner
    Calls,       \* calls of the token endpoint
    Scopes,
    Consent,     \* Consent[g]: the scopes that were approved
    Client,      \* Client[x]: the client of a grant or of a call
    MaxExpired,  \* a bound: so many rows of the tables expire
    None

VARIABLES
    code,        \* code of each grant: none, live, old (expired), used or lost
    home,        \* the process in whose memory the code is
    stage,       \* where each call is
    proc,        \* the process that has received it
    given,       \* what it presents: a grant (its code) or a pair (its refresh token)
    scopes,      \* the scopes it asks for, those of its pair once it has one
    grant,       \* history: the approval from which what it presents descends
    access,      \* rows of oauth_access_tokens
    refresh,     \* rows of oauth_refresh_tokens
    old          \* the rows <<table, pair>> that have expired

vars == <<code, home, stage, proc, given, scopes, grant, access, refresh, old>>

\* What the instances satisfy.
OAuthAssumption ==
    /\ Grants \intersect Calls = {}
    /\ None \notin Grants \union Calls
    /\ Consent \in [Grants -> SUBSET Scopes]

Busy(p) == \E c \in Calls : proc[c] = p /\ stage[c] = "looked"

Init ==
    /\ code = [g \in Grants |-> "none"] /\ home = [g \in Grants |-> None]
    /\ stage = [c \in Calls |-> "idle"] /\ proc = [c \in Calls |-> None]
    /\ given = [c \in Calls |-> None] /\ scopes = [c \in Calls |-> {}]
    /\ grant = [c \in Calls |-> None]
    /\ access = {} /\ refresh = {} /\ old = {}

\* The owner submits the form with the password: a code is issued.
Authorize(g, p) ==
    /\ code[g] = "none" /\ ~Busy(p)
    /\ code' = [code EXCEPT ![g] = "live"]
    /\ home' = [home EXCEPT ![g] = p]
    /\ UNCHANGED <<stage, proc, given, scopes, grant, access, refresh, old>>

\* validCodeRecord
ValidCode(g, c, p) == code[g] = "live" /\ home[g] = p /\ Client[g] = Client[c]

Receives(c, p, what, asked, next) ==
    /\ stage[c] = "idle" /\ ~Busy(p)
    /\ stage'  = [stage EXCEPT ![c] = next]
    /\ proc'   = [proc EXCEPT ![c] = p]
    /\ given'  = [given EXCEPT ![c] = what]
    /\ scopes' = [scopes EXCEPT ![c] = asked]
    /\ grant'  = [grant EXCEPT ![c] = IF what \in Grants THEN what ELSE grant[what]]
    /\ UNCHANGED <<code, home, access, refresh, old>>

\* challengeForAuthorizationCode, then the framework verifies.
Challenge(c, g, p) == ValidCode(g, c, p) /\ Receives(c, p, g, Consent[g], "challenged")

Ends(c, how) == stage' = [stage EXCEPT ![c] = how]

\* saveTokenPair, or an error of the database.
SavePair(c, rows) ==
    \/ Ends(c, "granted") /\ access' = access \union {c} /\ refresh' = rows \union {c}
    \/ Ends(c, "failed") /\ UNCHANGED <<access, refresh>>

\* Fault: the code is deleted when the tokens have been saved.
ExchangeThenDelete(c) ==
    LET g == given[c]
    IN  /\ stage[c] = "challenged" /\ ~Busy(proc[c])
        /\ IF ValidCode(g, c, proc[c])
           THEN SavePair(c, refresh) /\ UNCHANGED code
           ELSE Ends(c, "refused") /\ UNCHANGED <<code, access, refresh>>
        /\ UNCHANGED <<home, proc, given, scopes, grant, old>>

\* exchangeAuthorizationCode: the record is looked up again and deleted before
\* the tokens are saved.
Exchange(c) ==
    LET g == given[c]
    IN  /\ stage[c] = "challenged" /\ ~Busy(proc[c])
        /\ IF ValidCode(g, c, proc[c])
           THEN code' = [code EXCEPT ![g] = "used"] /\ SavePair(c, refresh)
           ELSE Ends(c, "refused") /\ UNCHANGED <<code, access, refresh>>
        /\ UNCHANGED <<home, proc, given, scopes, grant, old>>

\* Fault: the scopes are compared with what the owner has approved.
LookAtConsent(c, d, asked, p) ==
    /\ d \in refresh /\ <<"refresh", d>> \notin old
    /\ Client[d] = Client[c]
    /\ asked \subseteq Consent[grant[d]]
    /\ Receives(c, p, d, asked, "looked")

\* exchangeRefreshToken: the row is read and checked; asked are the scopes of the
\* row unless the client names fewer, and its client is the one that was given the pair.
Look(c, d, asked, p) ==
    /\ d \in refresh /\ <<"refresh", d>> \notin old
    /\ Client[d] = Client[c]
    /\ asked \subseteq scopes[d]
    /\ Receives(c, p, d, asked, "looked")

\* Fault: nobody looks whether the row has been deleted.
RotateAnyway(c) ==
    /\ stage[c] = "looked"
    /\ SavePair(c, refresh \ {given[c]})
    /\ UNCHANGED <<code, home, proc, given, scopes, grant, old>>

\* The transaction deletes the row that is consumed, or refuses.
Rotate(c) ==
    /\ stage[c] = "looked"
    /\ IF given[c] \in refresh
       THEN SavePair(c, refresh \ {given[c]})
       ELSE Ends(c, "refused") /\ UNCHANGED <<access, refresh>>
    /\ UNCHANGED <<code, home, proc, given, scopes, grant, old>>

\* revokeToken: the token is deleted from the table it is in.
Revoke(c) ==
    /\ \/ c \in access /\ access' = access \ {c} /\ UNCHANGED refresh
       \/ c \in refresh /\ refresh' = refresh \ {c} /\ UNCHANGED access
    /\ UNCHANGED <<code, home, stage, proc, given, scopes, grant, old>>

\* Time passes for a code, an access token (and sooner or later for the refresh
\* token).
Expire ==
    /\ \/ \E g \in Grants : code[g] = "live" /\ code' = [code EXCEPT ![g] = "old"] /\ UNCHANGED old
       \/ \E t \in {"access", "refresh"}, c \in access \union refresh :
              /\ <<t, c>> \notin old /\ Cardinality(old) < MaxExpired
              /\ old' = old \union {<<t, c>>} /\ UNCHANGED code
    /\ UNCHANGED <<home, stage, proc, given, scopes, grant, access, refresh>>

\* A process ends, by itself or not, and is started again: its codes are gone,
\* and opening the store deletes the rows that have expired.
Restart(p) ==
    /\ code'    = [g \in Grants |-> IF home[g] = p /\ code[g] \in {"live", "old"} THEN "lost" ELSE code[g]]
    /\ stage'   = [c \in Calls |-> IF proc[c] = p /\ stage[c] \in {"challenged", "looked"} THEN "failed" ELSE stage[c]]
    /\ access'  = {c \in access : <<"access", c>> \notin old}
    /\ refresh' = {c \in refresh : <<"refresh", c>> \notin old}
    /\ UNCHANGED <<home, proc, given, scopes, grant, old>>

Next ==
    \/ \E p \in Processes :
          \/ \E g \in Grants : Authorize(g, p)
          \/ \E c \in Calls :
                \/ \E g \in Grants : Challenge(c, g, p)
                \/ \E d \in refresh : \E asked \in (SUBSET Scopes) \ {{}} : Look(c, d, asked, p)
          \/ Restart(p)
    \/ \E c \in Calls : Exchange(c) \/ Rotate(c) \/ Revoke(c)
    \/ Expire

Spec == Init /\ [][Next]_vars

-----------------------------------------------------------------------------
TypeOK ==
    /\ code    \in [Grants -> {"none", "live", "old", "used", "lost"}]
    /\ home    \in [Grants -> Processes \union {None}]
    /\ stage   \in [Calls -> {"idle", "challenged", "looked", "granted", "refused", "failed"}]
    /\ proc    \in [Calls -> Processes \union {None}]
    /\ given   \in [Calls -> Calls \union Grants \union {None}]
    /\ scopes  \in [Calls -> SUBSET Scopes]
    /\ grant   \in [Calls -> Grants \union {None}]
    /\ access \subseteq Calls /\ refresh \subseteq Calls
    /\ old \subseteq {"access", "refresh"} \X Calls

Granted == {c \in Calls : stage[c] = "granted"}

\* A code or a refresh token gives at most one pair, and a grant never has more
\* than one refresh token, whatever processes exchange, refresh, revoke and restart
\* at the same time (codes.delete, saveTokenPair).
Rotation ==
    /\ \A c, d \in Granted : given[c] = given[d] => c = d
    /\ \A c, d \in refresh : grant[c] = grant[d] => c = d

\* A pair never reaches further than the pair it replaces, nor than what the owner
\* has approved, nor to another client.
WithinConsent ==
    \A c \in Granted :
        /\ Client[c] = Client[grant[c]] /\ scopes[c] \subseteq Consent[grant[c]]
        /\ given[c] \in Calls => scopes[c] \subseteq scopes[given[c]]

\* A token is exchanged once, for no more than what it stands for.
TokensRotate == Rotation /\ WithinConsent

\* What TokensRotate rests on: a call presents something that was given before, a pair
\* in the tables was granted, and its code or the token it replaced is gone.
Presents == {c \in Calls : stage[c] \in {"challenged", "looked", "granted"}}
Lineage ==
    /\ \A c \in Calls :
          /\ stage[c] = "challenged" => given[c] \in Grants
          /\ stage[c] = "looked" => given[c] \in Granted
    /\ access \union refresh \subseteq Granted
    /\ \A c \in Granted :
          \/ given[c] \in Grants
          \/ given[c] \in Granted \ refresh
    /\ \A c \in Granted : code[grant[c]] = "used"
    /\ \A c \in Presents :
          /\ grant[c] \in Grants
          /\ grant[c] = IF given[c] \in Grants THEN given[c] ELSE grant[given[c]]
          /\ Client[c] = Client[grant[c]] /\ scopes[c] \subseteq Consent[grant[c]]
          /\ given[c] \in Calls => scopes[c] \subseteq scopes[given[c]]

IInv == TypeOK /\ Lineage /\ Rotation
=============================================================================
