---------------------------- MODULE IncomingFiles ----------------------------
(***************************************************************************)
(* incoming-artifacts.ts: a reference to a file becomes a source that      *)
(* Downloads reads.  The registry asks every adapter whether it knows the  *)
(* reference, and the only one that does opens it.  The adapter of ChatGPT *)
(* files requests a URL, follows redirects within the trusted hosts, and   *)
(* compares what the reference and the answer say of the size.             *)
(*                                                                         *)
(* The file servers are external.  A body that is neither cancelled nor    *)
(* handed on keeps its connection.                                         *)
(***************************************************************************)
EXTENDS Naturals, FiniteSets

CONSTANTS
    Adapters,      \* adapters besides the one of ChatGPT files
    RedirectLimit, \* OPENAI_FILE_REDIRECT_LIMIT
    None

IncomingAssumption == RedirectLimit \in Nat /\ None \notin {"hidden", "a", "b", "id"}

OpenAI == "openai-file"
Names == {None, "hidden", "a", "b"}     \* "hidden": a name that is not taken over
Sizes == {None, 1, 2}

VARIABLES
    reference,     \* [name, alias, size, shape]: what the caller gives
    asked, matching,   \* adapters that were asked; those that know the reference
    url,           \* the URL to request next is "trusted" or "other"
    requests,      \* requests made
    bodies,        \* requests whose body is open
    response,      \* the last answer: [status, body, size, location]; or None
    source,        \* [name, size, stream]: what the caller gets; or None
    stage

here == <<asked, matching, url, requests, bodies, response, source>>
vars == <<reference, here, stage>>

References == [name : Names, alias : Names, size : Sizes, shape : {"file", "malformed", "other"}]
Responses == [status : {"redirect", "ok", "error"}, body : BOOLEAN, size : Sizes,
              location : {None, "trusted", "other"}]

Init ==
    /\ reference \in References
    /\ asked = {} /\ matching = {} /\ url = None /\ requests = 0 /\ bodies = {}
    /\ response = None /\ source = None /\ stage = "asking"

Fails == stage' = "failed"

(***************************************************************************)
(* IncomingArtifactAdapterRegistry.open.                                   *)
(***************************************************************************)
\* isOpenAIFileReferenceCandidate; the other adapters are external.
CanHandle(a, knows) == IF a = OpenAI THEN knows = (reference.shape # "other") ELSE TRUE
Asks(a) ==
    /\ stage = "asking" /\ a \notin asked /\ asked' = asked \union {a}
    /\ \/ \E knows \in BOOLEAN : /\ CanHandle(a, knows)
                                 /\ matching' = IF knows THEN matching \union {a} ELSE matching
          /\ UNCHANGED stage
       \/ a # OpenAI /\ Fails /\ UNCHANGED matching
    /\ UNCHANGED <<reference, url, requests, bodies, response, source>>
Chooses ==
    /\ stage = "asking" /\ asked = Adapters \union {OpenAI}
    /\ IF Cardinality(matching) # 1 THEN Fails
       ELSE stage' = IF matching = {OpenAI} THEN "normalizing" ELSE "delegating"
    /\ UNCHANGED <<reference, here>>
\* Another adapter gives a source, which is checked, or fails.
Delegates ==
    /\ stage = "delegating"
    /\ \/ Fails /\ UNCHANGED <<bodies, source, requests>>
       \/ /\ requests' = 1 /\ bodies' = {1} /\ stage' = "validating"
          /\ source' \in [name : {None, "a"}, size : Sizes, stream : {1}]
    /\ UNCHANGED <<reference, asked, matching, url, response>>
Validates ==
    /\ stage = "validating"
    /\ IF source.name # None THEN stage' = "opened" /\ UNCHANGED <<bodies, source>>
       ELSE Fails /\ bodies' = bodies \ {source.stream} /\ source' = None
    /\ UNCHANGED <<reference, asked, matching, url, requests, response>>

(***************************************************************************)
(* The adapter of ChatGPT files.                                           *)
(***************************************************************************)
Supplied(name) == IF name = "hidden" THEN None ELSE name
FileName(r) == IF Supplied(r.name) # None THEN Supplied(r.name) ELSE Supplied(r.alias)
Conflict(r) == {Supplied(r.name), Supplied(r.alias)} = {"a", "b"}
Normalizes ==
    /\ stage = "normalizing"
    /\ IF reference.shape = "malformed" \/ Conflict(reference) THEN Fails /\ UNCHANGED url
       ELSE stage' = "requesting" /\ url' \in {"trusted", "other"}
    /\ UNCHANGED <<reference, asked, matching, requests, bodies, response, source>>

Trusted(u) == u = "trusted"      \* validateOpenAIFileUrl: https, and a host that is known

\* A request that does not follow redirects itself.
Requests ==
    /\ stage = "requesting"
    /\ \/ ~Trusted(url) /\ Fails /\ UNCHANGED <<requests, bodies, response>>
       \/ /\ Trusted(url) /\ requests' = requests + 1
          /\ \/ /\ response' \in Responses /\ stage' = "answered"
                /\ bodies' = IF response'.body THEN bodies \union {requests'} ELSE bodies
             \/ Fails /\ UNCHANGED <<bodies, response>>
    /\ UNCHANGED <<reference, asked, matching, url, source>>
Cancelled == bodies' = bodies \ {requests}

Redirected ==
    /\ stage = "answered" /\ response.status = "redirect" /\ Cancelled
    /\ IF response.location = None \/ requests > RedirectLimit THEN Fails /\ UNCHANGED url
       ELSE url' = response.location /\ stage' = "requesting"
    /\ UNCHANGED <<reference, asked, matching, requests, response, source>>
Refused ==
    /\ stage = "answered" /\ response.status # "redirect"
    /\ response.status # "ok" \/ ~response.body
    /\ Cancelled /\ Fails
    /\ UNCHANGED <<reference, asked, matching, url, requests, response, source>>

Differ == reference.size # None /\ response.size # None /\ reference.size # response.size
TakesUnchecked ==       \* a fault: a body of another size is dropped, not cancelled
    /\ stage = "answered" /\ response.status = "ok" /\ response.body
    /\ \/ Differ /\ Fails /\ UNCHANGED source
       \/ /\ ~Differ /\ stage' = "validating"
          /\ source' = [name |-> FileName(reference), size |-> response.size, stream |-> requests]
    /\ UNCHANGED <<reference, asked, matching, url, requests, bodies, response>>
\* A file without a name is named after its id and its type.
Takes ==
    /\ stage = "answered" /\ response.status = "ok" /\ response.body
    /\ \/ Differ /\ Cancelled /\ Fails /\ UNCHANGED source
       \/ /\ ~Differ /\ stage' = "validating" /\ UNCHANGED bodies
          /\ source' = [name |-> IF FileName(reference) = None THEN "id" ELSE FileName(reference),
                        size |-> IF response.size # None THEN response.size ELSE reference.size,
                        stream |-> requests]
    /\ UNCHANGED <<reference, asked, matching, url, requests, response>>

Next == \/ \E a \in Adapters \union {OpenAI} : Asks(a)
        \/ Chooses \/ Delegates \/ Validates \/ Normalizes \/ Requests \/ Redirected
        \/ Refused \/ Takes
Spec == Init /\ [][Next]_vars

-----------------------------------------------------------------------------
TypeOK ==
    /\ reference \in References /\ matching \subseteq asked
    /\ url \in {None, "trusted", "other"} /\ bodies \subseteq 1..requests
    /\ response \in Responses \union {None}
    /\ source = None \/ source.stream \in bodies

\* However a file is refused, on whatever step and after however many redirects, no body
\* stays open; a source that is opened is the only one left, and its name and size
\* contradict nothing that the reference says (IncomingArtifactAdapterRegistry.open and
\* createOpenAIIncomingArtifactAdapter).
NothingHangs ==
    /\ stage = "failed" => bodies = {}
    /\ stage = "opened" =>
        /\ bodies = {source.stream}
        /\ matching = {OpenAI} =>
            /\ reference.size \in {None, source.size}
            /\ \A n \in {reference.name, reference.alias} : n \in {None, "hidden", source.name}
    /\ requests <= RedirectLimit + 1
\* The inductive invariant of the proofs in ServiceProofs.
Agrees ==         \* the source and the reference, when the file is one of ChatGPT's
    matching = {OpenAI} =>
        /\ reference.size \in {None, source.size}
        /\ \A n \in {reference.name, reference.alias} : n \in {None, "hidden", source.name}
Progress ==
    /\ requests \in Nat /\ requests <= RedirectLimit + 1
    /\ reference \in References
    /\ stage \in {"asking", "normalizing", "delegating", "requesting", "failed"} => bodies = {}
    /\ stage \in {"asking", "normalizing"} => requests = 0
    /\ stage = "delegating" => matching # {OpenAI}
    /\ stage = "requesting" => requests <= RedirectLimit
    /\ stage \in {"requesting", "answered"} => ~Conflict(reference)
    /\ stage = "answered" =>
          response \in Responses /\ bodies = IF response.body THEN {requests} ELSE {}
    /\ stage \in {"validating", "opened"} => bodies = {source.stream} /\ Agrees
Streams ==        \* a source is there while it is checked and when it is opened
    /\ TypeOK
    /\ stage \notin {"validating", "opened"} => source = None
IInv == Progress /\ Streams
=============================================================================
