----------------------------- MODULE AgentClient -----------------------------
(***************************************************************************)
(* Clients of the agent daemon, src/local-agent-client.ts, and how the     *)
(* daemon serves them, src/local-agent-daemon.ts: finding a daemon,        *)
(* starting one, replacing one that speaks an older protocol, and sending  *)
(* it a request.                                                           *)
(*                                                                         *)
(* A request travels on a connection of its own: it is on the wire until   *)
(* the daemon serves it or is gone, whether or not its sender still waits. *)
(* The lock file is a variable here, DaemonLock has its steps; what an     *)
(* accepted request starts is a turn, AgentTurns says what becomes of it.  *)
(* Credentials and the encoding of messages are left out.                  *)
(***************************************************************************)
EXTENDS Naturals, Sequences

CONSTANTS
    Clients,     \* processes with a LocalAgentClient
    Version,     \* Version[p]: the protocol a client speaks
    Calls,       \* calls of agent.start or agent.continue
    Client,      \* Client[c]: the client that makes it
    Daemons,     \* processes of the daemon; Older is one that runs from the start
    Older, OlderVersion,
    OlderTurns,  \* turns that Older runs at first
    None

ClientAssumption ==
    /\ Client \in [Calls -> Clients] /\ Clients \intersect Calls = {}
    /\ Older \in Daemons /\ None \notin Daemons

VARIABLES
    daemon,      \* daemon[d]: where the process is
    speaks,      \* the protocol it speaks
    lock,        \* the daemon that holds the lock, or None
    turns,       \* turns[d]: calls whose turn it runs
    wire,        \* requests <<sender, what, version, daemon>>
    startup,     \* ensureReady of each client
    spawned,     \* the startup has spawned a daemon
    upgraded,    \* daemons spawned by a client that had replaced an older one
    refused,     \* refused[d]: the holder of the lock when d wanted it
    call, ran    \* of each call: where it is, and the daemons that have run it

vars == <<daemon, speaks, lock, turns, wire, startup, spawned, upgraded, refused, call, ran>>

Init ==
    /\ daemon = [d \in Daemons |-> IF d = Older THEN "ready" ELSE "none"]
    /\ speaks = [d \in Daemons |-> IF d = Older THEN OlderVersion ELSE 0]
    /\ lock = Older
    /\ turns = [d \in Daemons |-> IF d = Older THEN OlderTurns ELSE {}]
    /\ wire = {} /\ upgraded = {} /\ refused = [d \in Daemons |-> None]
    /\ startup = [p \in Clients |-> "none"] /\ spawned = [p \in Clients |-> FALSE]
    /\ call = [c \in Calls |-> "idle"] /\ ran = [c \in Calls |-> <<>>]

Listening == {d \in Daemons : daemon[d] \in {"ready", "stopping"}}

StartupGoes(p, to) == startup' = [startup EXCEPT ![p] = to]

\* sendRequest: nobody listens, or the request is on its way.
Requests(sender, what, version) ==
    \E d \in Listening : wire' = wire \union {<<sender, what, version, d>>}

\* ensureReady ends, with the same result for the calls that wait for it.
EndStartup(p, to) ==
    /\ StartupGoes(p, "none")
    /\ call' = [c \in Calls |-> IF Client[c] = p /\ call[c] = "starting" THEN to ELSE call[c]]

Unserved == UNCHANGED <<daemon, speaks, lock, turns, refused, ran>>

\* request: the call joins the startup of its client or begins one.
Begin(c) ==
    LET p == Client[c]
    IN  /\ call[c] = "idle" /\ call' = [call EXCEPT ![c] = "starting"]
        /\ IF startup[p] = "none"
           THEN StartupGoes(p, "greeting") /\ spawned' = [spawned EXCEPT ![p] = FALSE]
           ELSE UNCHANGED <<startup, spawned>>
        /\ UNCHANGED <<wire, upgraded>> /\ Unserved

\* tryHello
Greet(p) ==
    /\ startup[p] = "greeting"
    /\ IF Listening # {} THEN Requests(p, "hello", Version[p]) /\ StartupGoes(p, "greeted")
       ELSE StartupGoes(p, "absent") /\ UNCHANGED wire
    /\ UNCHANGED <<spawned, upgraded, call>> /\ Unserved

\* spawnDaemon, once; then every 40 ms another hello until the deadline.
Spawn(p) ==
    /\ startup[p] \in {"absent", "replaced"}
    /\ IF spawned[p] THEN UNCHANGED <<daemon, speaks, upgraded, spawned>>
       ELSE \E d \in {x \in Daemons : daemon[x] = "none"} :
                /\ daemon' = [daemon EXCEPT ![d] = "spawned"]
                /\ speaks' = [speaks EXCEPT ![d] = Version[p]]
                /\ upgraded' = IF startup[p] = "replaced" THEN upgraded \union {d} ELSE upgraded
                /\ spawned' = [spawned EXCEPT ![p] = TRUE]
    /\ StartupGoes(p, "greeting")
    /\ UNCHANGED <<lock, turns, wire, refused, call, ran>>

\* replaceIdleOlderDaemon: the older daemon is asked for its turns, then to stop.
AskOlder(p) ==
    /\ startup[p] \in {"older", "idle"}
    /\ IF Listening # {}
       THEN /\ Requests(p, IF startup[p] = "older" THEN "turns" ELSE "stop", OlderVersion)
            /\ StartupGoes(p, IF startup[p] = "older" THEN "asked" ELSE "told")
            /\ UNCHANGED call
       ELSE EndStartup(p, "failed") /\ UNCHANGED wire
    /\ UNCHANGED <<spawned, upgraded>> /\ Unserved

\* Fault: the endpoint that is gone is taken for the daemon.
ProbeEndpoint(p) ==
    /\ startup[p] = "probing"
    /\ Listening = {} /\ StartupGoes(p, "replaced")
    /\ UNCHANGED <<wire, spawned, upgraded, call>> /\ Unserved

\* Until the endpoint and the lock of the older daemon are gone, or another client
\* has replaced it.
Probe(p) ==
    /\ startup[p] = "probing"
    /\ \/ Listening = {} /\ lock = None /\ StartupGoes(p, "replaced")
       \/ Listening = {} /\ daemon[Older] = "exited" /\ StartupGoes(p, "replaced")
       \/ \E d \in Listening : speaks[d] >= Version[p] /\ StartupGoes(p, "greeting")
    /\ UNCHANGED <<wire, spawned, upgraded, call>> /\ Unserved

\* The deadline of the hello loop or of the replacement.
GiveUp(p) ==
    /\ (startup[p] \in {"greeting", "absent"} /\ spawned[p]) \/ startup[p] = "probing"
    /\ EndStartup(p, "failed")
    /\ UNCHANGED <<wire, spawned, upgraded>> /\ Unserved

\* The request itself; it is sent once.
Send(c) ==
    /\ call[c] = "ready"
    /\ IF Listening # {}
       THEN Requests(c, "start", Version[Client[c]]) /\ call' = [call EXCEPT ![c] = "sent"]
       ELSE call' = [call EXCEPT ![c] = "failed"] /\ UNCHANGED wire
    /\ UNCHANGED <<startup, spawned, upgraded>> /\ Unserved

\* The timeout of a request, or its connection is lost: what it was about may
\* have been done, or be done later.
Unanswered(p) ==
    /\ \/ startup[p] = "greeted" /\ StartupGoes(p, "absent") /\ UNCHANGED call
       \/ startup[p] \in {"asked", "told"} /\ EndStartup(p, "failed")
    /\ wire' \in {wire, {w \in wire : w[1] # p}}
    /\ UNCHANGED <<spawned, upgraded>> /\ Unserved

\* Fault: a request that is not answered is sent again.
SendAgain(c) ==
    /\ call[c] = "sent" /\ call' = [call EXCEPT ![c] = "ready"]
    /\ UNCHANGED <<wire, startup, spawned, upgraded>> /\ Unserved

CallUnanswered(c) ==
    /\ call[c] = "sent" /\ call' = [call EXCEPT ![c] = "unknown"]
    /\ UNCHANGED <<wire, startup, spawned, upgraded>> /\ Unserved

(***************************************************************************)
(* The daemon: handleLine and dispatch, with what the sender makes of the  *)
(* answer if it still waits for it.                                        *)
(***************************************************************************)
Serve(w) == daemon[w[4]] \in {"ready", "stopping"} /\ wire' = wire \ {w}

Speaks(w) == w[3] = speaks[w[4]]

ServeHello(w) ==
    /\ Serve(w) /\ w[2] = "hello"
    /\ LET awaited == startup[w[1]] = "greeted"
           serving == daemon[w[4]] = "ready"
       IN  \/ ~awaited /\ UNCHANGED <<startup, call>>
           \/ awaited /\ Speaks(w) /\ serving /\ EndStartup(w[1], "ready")
           \/ awaited /\ Speaks(w) /\ ~serving /\ StartupGoes(w[1], "absent") /\ UNCHANGED call
           \/ awaited /\ speaks[w[4]] < w[3] /\ StartupGoes(w[1], "older") /\ UNCHANGED call
           \/ awaited /\ speaks[w[4]] > w[3] /\ EndStartup(w[1], "failed")
    /\ UNCHANGED <<daemon, speaks, lock, turns, spawned, upgraded, refused, ran>>

ServeTurns(w) ==
    /\ Serve(w) /\ w[2] = "turns"
    /\ IF startup[w[1]] # "asked" THEN UNCHANGED <<startup, call>>
       ELSE IF Speaks(w) /\ turns[w[4]] = {} THEN StartupGoes(w[1], "idle") /\ UNCHANGED call
       ELSE EndStartup(w[1], "failed")
    /\ UNCHANGED <<daemon, speaks, lock, turns, spawned, upgraded, refused, ran>>

ServeStop(w) ==
    /\ Serve(w) /\ w[2] = "stop"
    /\ LET stops == Speaks(w) /\ daemon[w[4]] = "ready"
       IN  /\ daemon' = IF stops THEN [daemon EXCEPT ![w[4]] = "stopping"] ELSE daemon
           /\ IF startup[w[1]] # "told" THEN UNCHANGED <<startup, call>>
              ELSE IF stops THEN StartupGoes(w[1], "probing") /\ UNCHANGED call
              ELSE EndStartup(w[1], "failed")
    /\ UNCHANGED <<speaks, lock, turns, spawned, upgraded, refused, ran>>

ServeStart(w) ==
    /\ Serve(w) /\ w[2] = "start"
    /\ IF Speaks(w) /\ daemon[w[4]] = "ready"
       THEN /\ ran' = [ran EXCEPT ![w[1]] = Append(@, w[4])]
            /\ turns' = [turns EXCEPT ![w[4]] = @ \union {w[1]}]
            /\ call' = IF call[w[1]] = "sent" THEN [call EXCEPT ![w[1]] = "done"] ELSE call
       ELSE /\ call' = IF call[w[1]] = "sent" THEN [call EXCEPT ![w[1]] = "refused"] ELSE call
            /\ UNCHANGED <<turns, ran>>
    /\ UNCHANGED <<daemon, speaks, lock, startup, spawned, upgraded, refused>>

TurnEnds(d) ==
    /\ \E t \in turns[d] : turns' = [turns EXCEPT ![d] = @ \ {t}]
    /\ UNCHANGED <<daemon, speaks, lock, wire, startup, spawned, upgraded, refused, call, ran>>

\* start: a daemon that finds the lock held ends.
Start(d) ==
    /\ daemon[d] = "spawned"
    /\ IF lock = None
       THEN daemon' = [daemon EXCEPT ![d] = "ready"] /\ lock' = d /\ UNCHANGED refused
       ELSE daemon' = [daemon EXCEPT ![d] = "exited"] /\ refused' = [refused EXCEPT ![d] = lock] /\ UNCHANGED lock
    /\ UNCHANGED <<speaks, turns, wire, startup, spawned, upgraded, call, ran>>

\* close, after a stop or when maintainIdle has found no turn and no connection:
\* the endpoint and the connections are gone at once ...
Close(d) ==
    /\ \/ daemon[d] = "stopping"
       \/ daemon[d] = "ready" /\ turns[d] = {} /\ \A w \in wire : w[4] # d
    /\ daemon' = [daemon EXCEPT ![d] = "closing"]
    /\ wire' = {w \in wire : w[4] # d}
    /\ UNCHANGED <<speaks, lock, turns, startup, spawned, upgraded, refused, call, ran>>

\* ... the lock when the manager has closed.
Exit(d) ==
    /\ daemon[d] = "closing"
    /\ daemon' = [daemon EXCEPT ![d] = "exited"]
    /\ lock' = None /\ turns' = [turns EXCEPT ![d] = {}]
    /\ UNCHANGED <<speaks, wire, startup, spawned, upgraded, refused, call, ran>>

Next ==
    \/ \E c \in Calls : Begin(c) \/ Send(c) \/ CallUnanswered(c)
    \/ \E p \in Clients : Greet(p) \/ Spawn(p) \/ AskOlder(p) \/ Probe(p) \/ GiveUp(p) \/ Unanswered(p)
    \/ \E w \in wire : ServeHello(w) \/ ServeTurns(w) \/ ServeStop(w) \/ ServeStart(w)
    \/ \E d \in Daemons : TurnEnds(d) \/ Start(d) \/ Close(d) \/ Exit(d)

Spec == Init /\ [][Next]_vars

-----------------------------------------------------------------------------
TypeOK ==
    /\ daemon \in [Daemons -> {"none", "spawned", "ready", "stopping", "closing", "exited"}]
    /\ speaks \in [Daemons -> {Version[p] : p \in Clients} \union {0, OlderVersion}]
    /\ lock \in Daemons \union {None}
    /\ upgraded \subseteq Daemons /\ refused \in [Daemons -> Daemons \union {None}]
    /\ \A w \in wire : w[1] \in Clients \union Calls /\ w[2] \in {"hello", "turns", "stop", "start"} /\ w[4] \in Daemons
    /\ startup \in [Clients -> {"none", "greeting", "greeted", "absent", "older", "asked", "idle", "told",
                                "probing", "replaced"}]
    /\ call \in [Calls -> {"idle", "starting", "ready", "sent", "done", "refused", "failed", "unknown"}]
    /\ ran \in [Calls -> Seq(Daemons)]

\* An upgrade is not in its own way: a daemon that a client spawns after it has
\* replaced an older one never ends because the older one still holds the lock,
\* which it does for as long as its runtimes take to close.
UpgradeNotRefused == \A d \in upgraded : refused[d] # Older

\* A call runs at most once, in a daemon that speaks its protocol, if it is
\* answered exactly once; one that is refused or has failed has not run and will
\* not, while of one whose answer is lost nothing is known.
RunsTold ==
    \A c \in Calls :
        /\ Len(ran[c]) <= 1 /\ \A i \in 1..Len(ran[c]) : speaks[ran[c][i]] = Version[Client[c]]
        /\ call[c] = "done" => ran[c] # <<>>
        /\ call[c] \in {"refused", "failed"} => ran[c] = <<>> /\ \A w \in wire : w[1] # c

-----------------------------------------------------------------------------
(* Both, strengthened to an inductive invariant. *)

\* The older daemon never starts again, so that whoever has seen its lock gone, or its
\* process, meets it no more.
Replaced ==
    /\ daemon[Older] \notin {"none", "spawned"}
    /\ lock = Older => daemon[Older] # "exited"
    /\ (upgraded # {} \/ \E p \in Clients : startup[p] = "replaced") => lock # Older
    /\ \A d \in Daemons : daemon[d] = "none" => refused[d] = None

\* A call has one request on the wire, or none; it has run in one daemon, or none.
Asked ==
    /\ \A w \in wire : IF w[2] = "start" THEN w[1] \in Calls /\ w[3] = Version[Client[w[1]]]
                                        ELSE w[1] \in Clients
    /\ \A w \in wire : w[1] \in Calls =>
           /\ call[w[1]] \in {"sent", "unknown"} /\ ran[w[1]] = <<>>
           /\ \A v \in wire : v[1] = w[1] => v = w
Ran ==
    \A c \in Calls :
        /\ call[c] \notin {"done", "unknown"} => ran[c] = <<>>
        /\ call[c] = "done" => ran[c] # <<>>
        /\ \/ ran[c] = <<>>
           \/ \E d \in Daemons : ran[c] = <<d>> /\ daemon[d] # "none" /\ speaks[d] = Version[Client[c]]

IInv == TypeOK /\ Replaced /\ Asked /\ Ran /\ UpgradeNotRefused
=============================================================================
