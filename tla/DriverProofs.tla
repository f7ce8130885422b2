---------------------------- MODULE DriverProofs -----------------------------
(***************************************************************************)
(* Theorems about the drivers of the providers, for any number of turns    *)
(* and of messages: each by its own specification first, then as parts of  *)
(* Agents, of which TLC checks small instances.                            *)
(***************************************************************************)
EXTENDS Agents, SequenceTheorems, FiniteSetTheorems, WellFoundedInduction, TLAPS

-----------------------------------------------------------------------------
(* Numbers and sequences *)

\* A set of numbers has a least one.
LEMMA LeastNatural == ASSUME NEW T, T \subseteq Nat, T # {} PROVE \E x \in T : \A y \in T : x <= y
PROOF
<1>. DEFINE R == {ss \in Nat \X Nat : ss[1] < ss[2]}
<1>1. IsWellFoundedOn(R, Nat)
  BY NatLessThanWellFounded DEF OpToRel
<1>2. \E x \in T : \A y \in T : <<y, x>> \notin R
  <2>. HIDE DEF R
  <2>. QED  BY <1>1, WFMin
<1>3. PICK x \in T : \A y \in T : <<y, x>> \notin R
  BY <1>2
<1>4. ASSUME NEW y \in T PROVE x <= y
  <2>1. <<y, x>> \notin R
    BY <1>3
  <2>2. x \in Nat /\ y \in Nat
    OBVIOUS
  <2>3. ~(y < x)
    BY <2>1, <2>2
  <2>. QED  BY <2>2, <2>3
<1>. QED  BY <1>4

\* Places in a sequence have a last one.
LEMMA LastPlace ==
    ASSUME NEW n \in Nat, NEW T, T \subseteq 1..n, T # {}
    PROVE  \E x \in T : \A y \in T : y <= x
PROOF
<1>. DEFINE U == {n - x : x \in T}
<1>1. \A x \in T : x \in Nat /\ n - x \in Nat
  OBVIOUS
<1>2. U \subseteq Nat /\ U # {}
  BY <1>1
<1>3. PICK u \in U : \A v \in U : u <= v
  <2>. HIDE DEF U
  <2>. QED  BY <1>2, LeastNatural
<1>4. PICK x \in T : u = n - x
  OBVIOUS
<1>5. ASSUME NEW y \in T PROVE y <= x
  <2>1. u <= n - y
    BY <1>3
  <2>2. x \in 1..n /\ y \in 1..n
    OBVIOUS
  <2>. QED  BY <1>4, <2>1, <2>2
<1>. QED  BY <1>5

LEMMA AppendToOne == \A a, b : Append(<<a>>, b) = <<a, b>>
PROOF
<1>. SUFFICES ASSUME NEW S, NEW a \in S, NEW b \in S PROVE Append(<<a>>, b) = <<a, b>>
  <2>1. \A a, b : a \in {a, b} /\ b \in {a, b}
    OBVIOUS
  <2>. QED  BY <2>1
<1>1. <<a>> \in Seq(S) /\ Len(<<a>>) = 1
  OBVIOUS
<1>2. /\ Append(<<a>>, b) \in Seq(S) /\ Len(Append(<<a>>, b)) = 2
      /\ <<a, b>> \in Seq(S) /\ Len(<<a, b>>) = 2
  BY <1>1
<1>3. \A i \in 1..2 : Append(<<a>>, b)[i] = <<a, b>>[i]
  BY <1>1
<1>. QED  BY <1>2, <1>3, SeqEqual

-----------------------------------------------------------------------------
(* Pi *)

LEMMA PiBegins == Pi!PiAssumption /\ Pi!Init => Pi!IInv
PROOF
<1>. SUFFICES ASSUME Pi!PiAssumption, Pi!Init PROVE Pi!IInv
  OBVIOUS
<1>1. Pi!TypeOK
  <2>1. <<None, "old">> \in Pi!Entries
    BY DEF Pi!Entries
  <2>2. pi_messages \in Seq(Pi!Entries)
    BY <2>1 DEF Pi!Init
  <2>. QED  BY <2>2 DEF Pi!Init, Pi!TypeOK, Pi!Modes, Pi!Over
<1>2. Pi!Alone /\ Pi!OwnSince /\ Pi!Moded /\ Pi!TurnsApart
  BY DEF Pi!PiAssumption, Pi!Init, Pi!Alone, Pi!OwnSince, Pi!Moded, Pi!TurnsApart, Pi!Over
<1>. QED  BY <1>1, <1>2 DEF Pi!IInv

\* What the turn takes is one of the messages, of the kind that it looks for.
LEMMA PiLast ==
    ASSUME NEW s \in Seq(Pi!Entries), NEW kind
    PROVE  Pi!LastOf(s, kind) = None \/ \E i \in 1..Len(s) : Pi!LastOf(s, kind) = s[i] /\ s[i][2] = kind
PROOF
<1>. DEFINE at == {i \in 1..Len(s) : s[i][2] = kind}
<1>1. at = {} \/ \E i \in at : \A j \in at : j <= i
  <2>1. Len(s) \in Nat /\ at \subseteq 1..Len(s)
    OBVIOUS
  <2>. HIDE DEF at
  <2>. QED  BY <2>1, LastPlace
<1>. QED  BY <1>1 DEF Pi!LastOf

\* The runtime opens and closes.
LEMMA PiOpens ==
    ASSUME Pi!PiAssumption, Pi!IInv,
           \/ Pi!Create \/ Pi!Registers \/ Pi!Close \/ Pi!Closed
           \/ \E m \in {Tools[c] : c \in Calls} : Pi!OpensSession(m)
    PROVE  Pi!IInv'
PROOF
<1>1. /\ UNCHANGED <<pi_messages, pi_prompting, pi_used, pi_events, pi_stage, pi_answer, pi_start, pi_collecting>>
      /\ pi_runtime' \in {"none", "opening", "registering", "ready", "closing", "closed", "failed"}
      /\ pi_session' \in {"none", "open", "disposed"}
      /\ pi_runtime \in {"ready", "closing", "closed"} => pi_runtime' \in {"closing", "closed"}
  <2>. USE DEF Pi!turns, Pi!pi, Pi!IInv, Pi!TypeOK
  <2>1. CASE Pi!Create
    BY <2>1 DEF Pi!Create
  <2>2. CASE Pi!Registers
    BY <2>2 DEF Pi!Registers
  <2>3. CASE Pi!Close \/ Pi!Closed
    BY <2>3 DEF Pi!Close, Pi!Closed
  <2>4. CASE \E m \in {Tools[c] : c \in Calls} : Pi!OpensSession(m)
    BY <2>4 DEF Pi!OpensSession
  <2>. QED  BY <2>1, <2>2, <2>3, <2>4
<1>5. /\ pi_held' \in BOOLEAN /\ pi_modeRef' \in Pi!Modes
      /\ pi_tools' \in {Pi!ReadOnlyTools, Pi!WorkspaceTools}
  <2>. USE DEF Pi!IInv, Pi!TypeOK
  <2>1. CASE Pi!Create
    BY <2>1 DEF Pi!Create
  <2>2. CASE Pi!Registers
    BY <2>2 DEF Pi!Registers, Pi!PiToolsForWriteMode
  <2>3. CASE Pi!Close \/ Pi!Closed
    BY <2>3 DEF Pi!Close, Pi!Closed
  <2>4. CASE \E m \in {Tools[c] : c \in Calls} : Pi!OpensSession(m)
    BY <2>4 DEF Pi!OpensSession, Pi!PiAssumption
  <2>. QED  BY <2>1, <2>2, <2>3, <2>4
<1>2. Pi!TypeOK'
  BY <1>1, <1>5 DEF Pi!IInv, Pi!TypeOK
<1>3. Pi!Alone' /\ Pi!OwnSince'
  BY <1>1 DEF Pi!IInv, Pi!Alone, Pi!OwnSince, Pi!Over
<1>4. Pi!Moded' /\ Pi!TurnsApart'
  BY <1>1 DEF Pi!IInv, Pi!Alone, Pi!Moded, Pi!TurnsApart, Pi!Over
<1>. QED  BY <1>2, <1>3, <1>4 DEF Pi!IInv

\* A turn goes on up to its prompt.
LEMMA PiTurns ==
    ASSUME Pi!PiAssumption, Pi!IInv, NEW c \in Calls,
           Pi!Run(c) \/ Pi!Names(c) \/ Pi!Updates(c) \/ Pi!Configures(c) \/ Pi!Rejects(c)
    PROVE  Pi!IInv'
PROOF
<1>. USE DEF Pi!Over
<1>1. /\ UNCHANGED <<pi_messages, pi_used, pi_answer, pi_runtime, pi_session>>
      /\ \E to \in Pi!Over \union {"naming", "updating", "configuring", "prompting"} :
            pi_stage' = [pi_stage EXCEPT ![c] = to]
  BY DEF Pi!Run, Pi!Names, Pi!Updates, Pi!Configures, Pi!Rejects, Pi!Goes, Pi!here, Pi!pi
<1>10. /\ pi_stage' \in [Calls -> Pi!Over \union {"naming", "updating", "configuring", "prompting"}]
       /\ \A d \in Calls : d # c => pi_stage'[d] = pi_stage[d]
  <2>. HIDE DEF Pi!Over
  <2>. QED  BY <1>1 DEF Pi!IInv, Pi!TypeOK
<1>11. pi_held' \in BOOLEAN /\ pi_modeRef' \in Pi!Modes
  <2>1. CASE Pi!Updates(c)
    <3>1. pi_held' = pi_held \/ pi_held' = TRUE \/ pi_held' = FALSE
      BY <2>1, Zenon DEF Pi!Updates
    <3>2. pi_modeRef' \in {pi_modeRef, Tools[c]}
      BY <2>1 DEF Pi!Updates
    <3>3. Tools[c] \in Pi!Modes /\ pi_modeRef \in Pi!Modes
      BY DEF Pi!PiAssumption, Pi!IInv, Pi!TypeOK
    <3>4. pi_held \in BOOLEAN
      BY DEF Pi!IInv, Pi!TypeOK
    <3>5. pi_held' \in BOOLEAN
      BY <3>1, <3>4
    <3>. QED  BY <3>2, <3>3, <3>5
  <2>2. CASE ~Pi!Updates(c)
    <3>1. pi_held' = pi_held /\ pi_modeRef' = pi_modeRef
      BY <2>2 DEF Pi!Run, Pi!Names, Pi!Configures, Pi!Rejects, Pi!here
    <3>. QED  BY <3>1 DEF Pi!IInv, Pi!TypeOK
  <2>. QED  BY <2>1, <2>2
<1>12. pi_tools' \in {Pi!ReadOnlyTools, Pi!WorkspaceTools}
  BY DEF Pi!IInv, Pi!TypeOK, Pi!Run, Pi!Names, Pi!Updates, Pi!Configures, Pi!Rejects, Pi!PiToolsForWriteMode
<1>2. \A d \in Calls : d # c => pi_stage[d] \in Pi!Over
  BY DEF Pi!IInv, Pi!Alone, Pi!TypeOK, Pi!Run, Pi!Names, Pi!Updates, Pi!Configures, Pi!Rejects, Pi!Over
<1>3. pi_runtime \in {"ready", "closing", "closed"}
  BY DEF Pi!IInv, Pi!Alone, Pi!TypeOK, Pi!Run, Pi!Names, Pi!Updates, Pi!Configures, Pi!Rejects, Pi!Over
<1>4. \/ pi_prompting' = pi_prompting /\ pi_prompting = None /\ pi_events' = pi_events /\ pi_start' = pi_start
          /\ pi_collecting' = pi_collecting /\ pi_stage'[c] # "prompting"
      \/ pi_prompting' = None /\ pi_events' = pi_events /\ pi_start' = pi_start /\ pi_collecting' = FALSE
          /\ pi_stage'[c] = "failed"
      \/ pi_prompting' = c /\ pi_stage'[c] = "prompting" /\ pi_start' = Len(pi_messages) /\ pi_events' = None
          /\ pi_collecting' = TRUE
  BY <1>2 DEF Pi!PiAssumption, Pi!IInv, Pi!TypeOK, Pi!Alone, Pi!Run, Pi!Names, Pi!Updates, Pi!Configures,
     Pi!Rejects, Pi!Goes, Pi!pi, Pi!Over
<1>5. Pi!TypeOK'
  <2>1. pi_messages \in Seq(Pi!Entries) /\ Len(pi_messages) \in Nat
    BY DEF Pi!IInv, Pi!TypeOK
  <2>2. /\ pi_events' \in Pi!Entries \union {None} /\ pi_start' \in Nat /\ pi_collecting' \in BOOLEAN
        /\ pi_prompting' \in Calls \union {None}
    BY <1>4, <2>1 DEF Pi!IInv, Pi!TypeOK
  <2>. QED  BY <1>1, <1>10, <1>11, <1>12, <2>2 DEF Pi!IInv, Pi!TypeOK
<1>6. Pi!Alone'
  BY <1>1, <1>10, <1>2, <1>3, <1>4 DEF Pi!IInv, Pi!TypeOK, Pi!Alone
<1>7. Pi!OwnSince'
  BY <1>1, <1>4 DEF Pi!IInv, Pi!TypeOK, Pi!OwnSince
<1>8. Pi!Moded'
  <2>1. \A d \in Calls : d # c => pi_stage'[d] \notin {"configuring", "prompting"}
    BY <1>10, <1>2
  <2>2. \/ pi_runtime' \in {"closing", "closed"}
        \/ pi_stage'[c] \in {"configuring", "prompting"} => pi_modeRef' = Tools[c]
    <3>1. pi_stage'[c] \in {"configuring", "prompting"} => Pi!Updates(c) \/ Pi!Configures(c)
      BY DEF Pi!IInv, Pi!TypeOK, Pi!Run, Pi!Names, Pi!Updates, Pi!Configures, Pi!Rejects, Pi!Goes
    <3>2. CASE Pi!Updates(c)
      BY <1>1, <1>3, <3>2 DEF Pi!Updates
    <3>3. CASE Pi!Configures(c)
      BY <1>1, <3>3 DEF Pi!Configures, Pi!here, Pi!IInv, Pi!Moded
    <3>. QED  BY <3>1, <3>2, <3>3
  <2>. QED  BY <2>1, <2>2 DEF Pi!Moded
<1>9. Pi!TurnsApart'
  BY <1>1 DEF Pi!IInv, Pi!TurnsApart
<1>. QED  BY <1>5, <1>6, <1>7, <1>8, <1>9 DEF Pi!IInv

\* The prompt settles with a message from the mark on, or an error of its own.
LEMMA PiSettles ==
    ASSUME Pi!PiAssumption, Pi!IInv, NEW c \in Calls, Pi!Settles(c)
    PROVE  Pi!IInv'
PROOF
<1>. DEFINE text == Pi!LastOf(Pi!Current, "text")
            result == IF text # None THEN text ELSE Pi!Error
<1>1. /\ Pi!Current \in Seq(Pi!Entries)
      /\ \A i \in 1..Len(Pi!Current) : Pi!Current[i] \in Pi!Entries
                                      /\ (Pi!Current[i] = <<None, "old">> \/ Pi!Current[i][1] = c)
  <2>1. pi_messages \in Seq(Pi!Entries) /\ pi_start \in Nat /\ pi_prompting = c /\ c # None
    BY DEF Pi!PiAssumption, Pi!IInv, Pi!TypeOK, Pi!Settles
  <2>2. \A i \in 1..Len(pi_messages) : i > pi_start => pi_messages[i] = <<None, "old">> \/ pi_messages[i][1] = c
    BY <2>1 DEF Pi!IInv, Pi!OwnSince
  <2>. QED  BY <2>1, <2>2 DEF Pi!Current
<1>2. \A kind \in {"text", "error"} : \/ Pi!LastOf(Pi!Current, kind) = None
                                     \/ /\ Pi!LastOf(Pi!Current, kind) \in Pi!Entries
                                        /\ Pi!LastOf(Pi!Current, kind)[1] = c
  BY <1>1, PiLast
<1>3. pi_events = None \/ (pi_events \in Pi!Entries /\ pi_events[1] = c)
  BY DEF Pi!PiAssumption, Pi!IInv, Pi!TypeOK, Pi!OwnSince, Pi!Settles
<1>4. result = None \/ (result \in Pi!Entries /\ result[1] = c)
  BY <1>2, <1>3 DEF Pi!Error
<1>5. /\ UNCHANGED <<pi_messages, pi_used, pi_runtime, pi_session, pi_held, pi_modeRef, pi_tools, pi_events, pi_start>>
      /\ pi_answer' = [pi_answer EXCEPT ![c] = result] /\ pi_prompting' = None /\ pi_collecting' = FALSE
      /\ pi_stage' = [pi_stage EXCEPT ![c] = IF text # None THEN "done" ELSE "failed"]
  BY DEF Pi!Settles, Pi!Goes, Pi!here
<1>. HIDE DEF result, text
<1>6. /\ pi_stage' \in [Calls -> Pi!Over \union {"naming", "updating", "configuring", "prompting"}]
      /\ pi_stage'[c] \in Pi!Over /\ \A d \in Calls : d # c => pi_stage'[d] = pi_stage[d]
  BY <1>5 DEF Pi!IInv, Pi!TypeOK, Pi!Over
<1>7. /\ pi_answer' \in [Calls -> Pi!Entries \union {None}]
      /\ \A d \in Calls : pi_answer'[d] = None \/ pi_answer'[d][1] = d
  BY <1>4, <1>5 DEF Pi!IInv, Pi!TypeOK, Pi!TurnsApart
<1>8. Pi!TypeOK'
  BY <1>5, <1>6, <1>7 DEF Pi!IInv, Pi!TypeOK
<1>9. Pi!Alone' /\ Pi!OwnSince' /\ Pi!Moded'
  BY <1>5, <1>6 DEF Pi!IInv, Pi!TypeOK, Pi!Alone, Pi!OwnSince, Pi!Moded, Pi!Over
<1>10. Pi!TurnsApart'
  BY <1>5, <1>7 DEF Pi!IInv, Pi!TurnsApart
<1>. QED  BY <1>8, <1>9, <1>10 DEF Pi!IInv

\* The session works on the prompt.
LEMMA PiWorks ==
    ASSUME Pi!PiAssumption, Pi!IInv,
           \/ \E tool \in Pi!WorkspaceTools : Pi!UsesTool(tool)
           \/ \E kind \in {"text", "empty", "error"} : Pi!Says(kind)
           \/ \E n \in 0..MaxMessages : Pi!Compacts(n)
    PROVE  Pi!IInv'
PROOF
<1>1. CASE \E tool \in Pi!WorkspaceTools : Pi!UsesTool(tool)
  <2>1. /\ pi_prompting \in Calls /\ pi_modeRef # "read_only" /\ pi_modeRef \in Pi!Modes
        /\ pi_used' = pi_used \union {<<pi_prompting, IF pi_modeRef = "full_access" THEN "free" ELSE "confined">>}
        /\ UNCHANGED <<pi_runtime, pi_session, pi_held, pi_modeRef, pi_tools, pi_messages, pi_prompting, pi_events,
                       pi_stage, pi_answer, pi_start, pi_collecting>>
    BY <1>1 DEF Pi!IInv, Pi!TypeOK, Pi!UsesTool, Pi!here, Pi!turns
  <2>2. pi_runtime \in {"closing", "closed"} \/ pi_modeRef = Tools[pi_prompting]
    BY <2>1 DEF Pi!PiAssumption, Pi!IInv, Pi!Alone, Pi!Moded
  <2>3. Pi!TypeOK'
    BY <2>1 DEF Pi!IInv, Pi!TypeOK
  <2>4. Pi!Alone' /\ Pi!OwnSince' /\ Pi!Moded'
    BY <2>1 DEF Pi!IInv, Pi!Alone, Pi!OwnSince, Pi!Moded
  <2>5. Pi!TurnsApart'
    BY <2>1, <2>2 DEF Pi!IInv, Pi!TurnsApart, Pi!Modes
  <2>. QED  BY <2>3, <2>4, <2>5 DEF Pi!IInv
<1>2. CASE \E kind \in {"text", "empty", "error"} : Pi!Says(kind)
  <2>1. PICK kind \in {"text", "empty", "error"} : Pi!Says(kind)
    BY <1>2
  <2>2. /\ pi_prompting \in Calls /\ pi_messages' = Append(pi_messages, <<pi_prompting, kind>>)
        /\ pi_events' \in {pi_events, <<pi_prompting, kind>>}
        /\ UNCHANGED <<pi_runtime, pi_session, pi_held, pi_modeRef, pi_tools, pi_prompting, pi_used,
                       pi_stage, pi_answer, pi_start, pi_collecting>>
    BY <2>1 DEF Pi!IInv, Pi!TypeOK, Pi!Says, Pi!here, Pi!turns
  <2>3. <<pi_prompting, kind>> \in Pi!Entries /\ <<pi_prompting, kind>>[1] = pi_prompting
    BY <2>2 DEF Pi!Entries
  <2>4. Pi!TypeOK'
    <3>0. pi_messages \in Seq(Pi!Entries) /\ pi_events \in Pi!Entries \union {None}
      BY DEF Pi!IInv, Pi!TypeOK
    <3>1. pi_messages' \in Seq(Pi!Entries) /\ pi_events' \in Pi!Entries \union {None}
      BY <2>2, <2>3, <3>0
    <3>. QED  BY <2>2, <3>1 DEF Pi!IInv, Pi!TypeOK
  <2>5. Pi!OwnSince'
    <3>1. pi_messages \in Seq(Pi!Entries) /\ pi_prompting # None
      BY <2>2 DEF Pi!PiAssumption, Pi!IInv, Pi!TypeOK
    <3>2. \A i \in 1..Len(pi_messages) : i > pi_start => pi_messages[i] = <<None, "old">> \/ pi_messages[i][1] = pi_prompting
      BY <3>1 DEF Pi!IInv, Pi!OwnSince
    <3>3. \A i \in 1..Len(pi_messages') : i > pi_start => pi_messages'[i] = <<None, "old">> \/ pi_messages'[i][1] = pi_prompting
      BY <2>2, <2>3, <3>1, <3>2
    <3>4. pi_events' = None \/ pi_events'[1] = pi_prompting
      BY <2>2, <2>3, <3>1 DEF Pi!IInv, Pi!OwnSince
    <3>. QED  BY <2>2, <3>3, <3>4 DEF Pi!OwnSince
  <2>6. Pi!Alone' /\ Pi!Moded' /\ Pi!TurnsApart'
    BY <2>2 DEF Pi!IInv, Pi!Alone, Pi!Moded, Pi!TurnsApart
  <2>. QED  BY <2>4, <2>5, <2>6 DEF Pi!IInv
<1>3. CASE \E n \in 0..MaxMessages : Pi!Compacts(n)
  <2>1. PICK n \in 0..MaxMessages : Pi!Compacts(n)
    BY <1>3
  <2>2. /\ pi_messages \in Seq(Pi!Entries) /\ n \in Nat /\ n < Len(pi_messages) - 1 /\ pi_prompting # None
        /\ <<None, "old">> \in Pi!Entries /\ pi_start \in Nat
        /\ pi_messages' = <<<<None, "old">>>> \o SubSeq(pi_messages, Len(pi_messages) - n + 1, Len(pi_messages))
        /\ UNCHANGED <<pi_runtime, pi_session, pi_held, pi_modeRef, pi_tools, pi_prompting, pi_used, pi_events,
                       pi_stage, pi_answer, pi_start, pi_collecting>>
    BY <2>1 DEF Pi!PiAssumption, Pi!IInv, Pi!TypeOK, Pi!Compacts, Pi!here, Pi!turns, Pi!Entries
  <2>3. /\ pi_messages' \in Seq(Pi!Entries) /\ Len(pi_messages') = n + 1 /\ pi_messages'[1] = <<None, "old">>
        /\ \A i \in 2..(n + 1) : pi_messages'[i] = pi_messages[Len(pi_messages) - n + i - 1]
    <3>. DEFINE tail == SubSeq(pi_messages, Len(pi_messages) - n + 1, Len(pi_messages))
    <3>1. /\ tail \in Seq(Pi!Entries) /\ Len(tail) = n
          /\ \A i \in 1..n : tail[i] = pi_messages[Len(pi_messages) - n + i]
      BY <2>2
    <3>2. pi_messages' = <<<<None, "old">>>> \o tail
      BY <2>2
    <3>. HIDE DEF tail
    <3>3. /\ pi_messages' \in Seq(Pi!Entries) /\ Len(pi_messages') = n + 1 /\ pi_messages'[1] = <<None, "old">>
          /\ \A i \in 2..(n + 1) : pi_messages'[i] = tail[i - 1]
      BY <2>2, <3>1, <3>2
    <3>4. \A i \in 2..(n + 1) : i - 1 \in 1..n /\ tail[i - 1] = pi_messages[Len(pi_messages) - n + i - 1]
      BY <2>2, <3>1
    <3>. QED  BY <3>3, <3>4
  <2>4. \A i \in 1..Len(pi_messages) : i > pi_start => pi_messages[i] = <<None, "old">> \/ pi_messages[i][1] = pi_prompting
    BY <2>2 DEF Pi!IInv, Pi!OwnSince
  <2>5. ASSUME NEW i \in 1..Len(pi_messages'), i > pi_start
        PROVE  pi_messages'[i] = <<None, "old">> \/ pi_messages'[i][1] = pi_prompting
    <3>1. CASE i = 1
      BY <2>3, <3>1
    <3>2. CASE i # 1
      <4>1. /\ i \in 2..(n + 1) /\ Len(pi_messages) - n + i - 1 \in 1..Len(pi_messages)
            /\ Len(pi_messages) - n + i - 1 > pi_start
        BY <2>2, <2>3, <2>5, <3>2
      <4>. QED  BY <2>3, <2>4, <4>1
    <3>. QED  BY <3>1, <3>2
  <2>6. Pi!TypeOK'
    BY <2>2, <2>3 DEF Pi!IInv, Pi!TypeOK
  <2>7. Pi!Alone' /\ Pi!OwnSince' /\ Pi!Moded' /\ Pi!TurnsApart'
    BY <2>2, <2>5 DEF Pi!IInv, Pi!Alone, Pi!OwnSince, Pi!Moded, Pi!TurnsApart
  <2>. QED  BY <2>6, <2>7 DEF Pi!IInv
<1>. QED  BY <1>1, <1>2, <1>3

LEMMA PiInvariance == ASSUME Pi!PiAssumption PROVE Pi!Spec => []Pi!IInv
PROOF
<1>1. Pi!Init => Pi!IInv
  BY PiBegins
<1>2. Pi!IInv /\ Pi!Next => Pi!IInv'
  BY PiOpens, PiTurns, PiSettles, PiWorks DEF Pi!Next
<1>3. Pi!IInv /\ UNCHANGED Pi!vars => Pi!IInv'
  BY DEF Pi!vars, Pi!here, Pi!pi, Pi!turns, Pi!IInv, Pi!TypeOK, Pi!Alone, Pi!OwnSince, Pi!Moded, Pi!TurnsApart
<1>. QED  BY <1>1, <1>2, <1>3, PTL DEF Pi!Spec

\* On the warm session of a Pi agent a turn returns or fails with something of its own prompt, and uses
\* tools as its own write mode lets it, unless the shutdown meets it (PiSessionRuntime.run).
THEOREM PiTurnsApart == ASSUME Pi!PiAssumption PROVE Pi!Spec => []Pi!TurnsApart
PROOF
<1>1. Pi!IInv => Pi!TurnsApart
  BY DEF Pi!IInv
<1>. QED  BY <1>1, PiInvariance, PTL

-----------------------------------------------------------------------------
(* Claude *)

LEMMA ClaudeBegins == Claude!ClaudeAssumption /\ Claude!Init => Claude!IInv
PROOF
<1>. SUFFICES ASSUME Claude!ClaudeAssumption, Claude!Init PROVE Claude!IInv
  OBVIOUS
<1>1. Claude!TypeOK
  <2>1. /\ claude_input \in Seq(Prompts) /\ claude_stream \in Seq({"message", "result", "error"} \X Prompts)
        /\ claude_worked \subseteq Prompts \X {"read_only", "allowed"} /\ claude_working \in Prompts \union {None}
        /\ claude_authority \in {"read_only", "allowed"}
    BY DEF Claude!Init
  <2>2. /\ claude_stage \in [Prompts -> Claude!Over \union {"configuring", "reading"}]
        /\ claude_answer \in [Prompts -> Prompts \union {None}]
    BY DEF Claude!Init, Claude!Over
  <2>. QED  BY <2>1, <2>2 DEF Claude!Init, Claude!TypeOK
<1>2. Claude!Quiet /\ Claude!Alone /\ Claude!TurnsApart
  BY DEF Claude!Init, Claude!Quiet, Claude!Alone, Claude!TurnsApart, Claude!Over
<1>. QED  BY <1>1, <1>2 DEF Claude!IInv

\* Where the prompt of a turn is, and the steps of the query move it on.
LEMMA QueryStep ==
    ASSUME Claude!ClaudeAssumption, Claude!IInv, Claude!Takes \/ Claude!Works \/ Claude!Says
    PROVE  Claude!IInv'
PROOF
<1>1. UNCHANGED <<claude_alive, claude_closed, claude_inputClosed, claude_authority, claude_stage,
                  claude_answer, claude_spoiled>>
  BY DEF Claude!Takes, Claude!Works, Claude!Says, Claude!runtime, Claude!turns
<1>2. /\ claude_input' \in Seq(Prompts) /\ claude_working' \in Prompts \union {None}
      /\ claude_stream' \in Seq({"message", "result", "error"} \X Prompts)
      /\ claude_worked' \subseteq Prompts \X {"read_only", "allowed"}
  <2>. USE DEF Claude!IInv, Claude!TypeOK
  <2>1. CASE Claude!Takes
    BY <2>1 DEF Claude!Takes
  <2>2. CASE Claude!Works
    BY <2>2 DEF Claude!Works, Claude!runtime
  <2>3. CASE Claude!Says
    <3>1. PICK kind \in {"message", "result", "error"} :
             /\ claude_stream' = Append(claude_stream, <<kind, claude_working>>)
             /\ claude_working' = IF kind = "message" THEN claude_working ELSE None
      BY <2>3 DEF Claude!Says
    <3>2. claude_working \in Prompts /\ claude_stream \in Seq({"message", "result", "error"} \X Prompts)
          /\ <<kind, claude_working>> \in {"message", "result", "error"} \X Prompts
      BY <2>3 DEF Claude!Says
    <3>3. claude_stream' \in Seq({"message", "result", "error"} \X Prompts)
      BY <3>1, <3>2
    <3>4. claude_input' = claude_input /\ claude_worked' = claude_worked
      BY <2>3 DEF Claude!Says, Claude!runtime
    <3>. QED  BY <3>1, <3>2, <3>3, <3>4
  <2>. QED  BY <2>1, <2>2, <2>3
<1>3. Claude!TypeOK' /\ Claude!Alone'
  BY <1>1, <1>2 DEF Claude!IInv, Claude!TypeOK, Claude!Alone
<1>4. ASSUME ~claude_spoiled PROVE \E c \in Prompts : Claude!Under(c)
  BY <1>4 DEF Claude!IInv, Claude!TypeOK, Claude!Quiet, Claude!Takes, Claude!Works, Claude!Says
<1>5. ASSUME ~claude_spoiled, NEW c \in Prompts, Claude!Under(c)
      PROVE  Claude!Under(c)' /\ Claude!TurnsApart'
  <2>0. c # None /\ claude_authority = Mode[c]
    BY <1>5 DEF Claude!ClaudeAssumption, Claude!Under
  <2>1. CASE Claude!Takes
    <3>1. claude_input = <<c>> /\ claude_working = None /\ claude_stream = <<>>
      BY <1>5, <2>0, <2>1 DEF Claude!Takes, Claude!Under, Claude!Whereabouts
    <3>2. claude_input' = <<>> /\ claude_working' = c /\ claude_stream' = <<>> /\ claude_worked' = claude_worked
      BY <2>1, <3>1 DEF Claude!Takes
    <3>. QED  BY <1>1, <1>5, <3>2 DEF Claude!IInv, Claude!Under, Claude!Whereabouts, Claude!TurnsApart
  <2>2. CASE Claude!Works
    <3>1. claude_working = c
      BY <1>5, <2>0, <2>2 DEF Claude!Works, Claude!Under, Claude!Whereabouts
    <3>2. /\ UNCHANGED <<claude_input, claude_working, claude_stream>>
          /\ claude_worked' = claude_worked \union {<<c, Mode[c]>>}
      BY <2>0, <2>2, <3>1 DEF Claude!Works, Claude!runtime
    <3>3. Claude!Under(c)'
      BY <1>1, <1>5, <3>2 DEF Claude!Under, Claude!Whereabouts
    <3>4. Claude!TurnsApart'
      BY <1>1, <3>2 DEF Claude!IInv, Claude!TurnsApart
    <3>. QED  BY <3>3, <3>4
  <2>3. CASE Claude!Says
    <3>1. claude_input = <<>> /\ claude_working = c /\ claude_stream \in {<<>>, <<<<"message", c>>>>}
      BY <1>5, <2>0, <2>3 DEF Claude!Says, Claude!Under, Claude!Whereabouts
    <3>2. PICK kind \in {"message", "result", "error"} :
             /\ claude_stream' = Append(claude_stream, <<kind, c>>)
             /\ claude_working' = IF kind = "message" THEN c ELSE None
             /\ kind = "message" => <<kind, c>> \notin Claude!Range(claude_stream)
      BY <2>3, <3>1 DEF Claude!Says
    <3>3. UNCHANGED <<claude_input, claude_worked>>
      BY <2>3 DEF Claude!Says, Claude!runtime
    <3>4. kind = "message" => claude_stream = <<>>
      BY <3>1, <3>2 DEF Claude!Range
    <3>5. Claude!Whereabouts(c)'
      <4>1. CASE kind = "message"
        BY <3>1, <3>2, <3>3, <3>4, <4>1 DEF Claude!Whereabouts
      <4>2. CASE kind # "message"
        <5>1. claude_stream' \in {<<<<kind, c>>>>, <<<<"message", c>>, <<kind, c>>>>}
          <6>1. CASE claude_stream = <<>>
            BY <3>2, <6>1
          <6>2. CASE claude_stream = <<<<"message", c>>>>
            <7>. DEFINE a == <<"message", c>>
                        b == <<kind, c>>
            <7>1. claude_stream = <<a>> /\ claude_stream' = Append(claude_stream, b)
              BY <3>2, <6>2
            <7>. HIDE DEF a, b
            <7>2. claude_stream' = <<a, b>>
              BY <7>1, AppendToOne
            <7>. QED  BY <7>2 DEF a, b
          <6>. QED  BY <3>1, <6>1, <6>2
        <5>. QED  BY <3>1, <3>2, <3>3, <4>2, <5>1 DEF Claude!Whereabouts
      <4>. QED  BY <4>1, <4>2
    <3>. QED  BY <1>1, <1>5, <3>3, <3>5 DEF Claude!IInv, Claude!Under, Claude!TurnsApart
  <2>. QED  BY <2>1, <2>2, <2>3
<1>6. claude_spoiled => Claude!TurnsApart'
  BY <1>1 DEF Claude!TurnsApart
<1>. QED  BY <1>1, <1>3, <1>4, <1>5, <1>6 DEF Claude!IInv

\* A turn begins, or does not, when none is under way.
LEMMA ClaudeTurnBegins ==
    ASSUME Claude!ClaudeAssumption, Claude!IInv, NEW c \in Prompts,
           Claude!Run(c) \/ Claude!Refused(c) \/ Claude!Configure(c)
    PROVE  Claude!IInv'
PROOF
<1>1. /\ UNCHANGED <<claude_alive, claude_closed, claude_inputClosed, claude_working, claude_stream,
                     claude_worked, claude_answer, claude_spoiled>>
      /\ \A d \in Prompts : d # c => claude_stage'[d] = claude_stage[d] /\ claude_stage[d] \in Claude!Over
      /\ claude_authority' \in {claude_authority, Mode[c]}
  BY DEF Claude!IInv, Claude!TypeOK, Claude!Alone, Claude!Run, Claude!Refused, Claude!Configure, Claude!Goes,
     Claude!Push, Claude!runtime, Claude!query, Claude!Over
<1>2. \/ claude_stage'[c] = "failed" /\ claude_input' = claude_input /\ ~Claude!Configure(c)
      \/ claude_stage'[c] = "configuring" /\ claude_input' = claude_input /\ Claude!IsAlive
            /\ claude_authority' = claude_authority
      \/ claude_stage'[c] = "reading" /\ claude_input' = Append(claude_input, c) /\ Claude!Configure(c)
            /\ claude_authority' = Mode[c]
  BY DEF Claude!IInv, Claude!TypeOK, Claude!Run, Claude!Refused, Claude!Configure, Claude!Goes,
     Claude!Push, Claude!runtime, Claude!query, Claude!Over
<1>3. claude_stage' \in [Prompts -> Claude!Over \union {"configuring", "reading"}]
  BY DEF Claude!IInv, Claude!TypeOK, Claude!Run, Claude!Refused, Claude!Configure, Claude!Goes, Claude!Push,
     Claude!Over
<1>4. claude_input' \in Seq(Prompts) /\ claude_authority' \in {"read_only", "allowed"}
  <2>1. claude_input \in Seq(Prompts) /\ Mode[c] \in {"read_only", "allowed"}
    BY DEF Claude!ClaudeAssumption, Claude!IInv, Claude!TypeOK
  <2>2. claude_authority \in {"read_only", "allowed"} /\ Append(claude_input, c) \in Seq(Prompts)
    BY <2>1 DEF Claude!IInv, Claude!TypeOK
  <2>. QED  BY <1>1, <1>2, <2>1, <2>2
<1>5. Claude!TypeOK' /\ Claude!Alone'
  BY <1>1, <1>3, <1>4 DEF Claude!IInv, Claude!TypeOK, Claude!Alone
<1>6. claude_stage[c] = "idle" \/ claude_stage[c] = "configuring"
  BY DEF Claude!Run, Claude!Refused, Claude!Configure
<1>7. ASSUME ~claude_spoiled, NEW e \in Prompts, Claude!Under(e)
      PROVE  Claude!Under(e)'
  <2>1. claude_stage[c] = "idle" /\ claude_stage[e] # "reading" /\ ~claude_alive
    BY <1>1, <1>6, <1>7 DEF Claude!Under, Claude!Over
  <2>2. Claude!Run(c)
    BY <2>1 DEF Claude!Refused, Claude!Configure
  <2>3. claude_stage'[c] = "failed" /\ UNCHANGED <<claude_input, claude_authority>>
    BY <2>1, <2>2 DEF Claude!Run, Claude!IsAlive, Claude!Goes, Claude!IInv, Claude!TypeOK, Claude!runtime
  <2>. QED  BY <1>1, <1>7, <2>1, <2>3 DEF Claude!Under, Claude!Whereabouts, Claude!Over
<1>8. ASSUME ~claude_spoiled, Claude!Quiet
      PROVE  Claude!Quiet' \/ Claude!Under(c)'
  <2>1. CASE claude_stage'[c] # "reading"
    BY <1>1, <1>2, <1>8, <2>1 DEF Claude!Quiet, Claude!Over
  <2>2. CASE claude_stage'[c] = "reading"
    <3>1. claude_input' = <<c>> /\ claude_authority' = Mode[c]
      BY <1>2, <1>8, <2>2 DEF Claude!Quiet
    <3>. QED  BY <1>1, <1>8, <2>2, <3>1 DEF Claude!Quiet, Claude!Under, Claude!Whereabouts, Claude!Over
  <2>. QED  BY <2>1, <2>2
<1>9. Claude!TurnsApart'
  BY <1>1, <1>2 DEF Claude!IInv, Claude!TurnsApart
<1>. QED  BY <1>1, <1>5, <1>7, <1>8, <1>9 DEF Claude!IInv, Claude!TypeOK

\* A turn reads its own messages and ends with its own result, or breaks off.
LEMMA ClaudeTurnReads ==
    ASSUME Claude!ClaudeAssumption, Claude!IInv, NEW c \in Prompts, Claude!Reads(c) \/ Claude!Breaks(c)
    PROVE  Claude!IInv'
PROOF
<1>1. claude_stage[c] = "reading" /\ \A d \in Prompts : d # c => claude_stage[d] \in Claude!Over
  BY DEF Claude!IInv, Claude!Alone, Claude!Reads, Claude!Breaks, Claude!Over
<1>2. CASE Claude!Breaks(c)
  <2>1. /\ claude_stage' = [claude_stage EXCEPT ![c] = "failed"] /\ claude_alive' = FALSE
        /\ UNCHANGED <<claude_closed, claude_input, claude_inputClosed, claude_authority,
                       claude_working, claude_stream, claude_worked, claude_answer, claude_spoiled>>
    BY <1>2 DEF Claude!Breaks, Claude!Goes, Claude!query
  <2>2. Claude!TypeOK' /\ Claude!Alone'
    BY <1>1, <2>1 DEF Claude!IInv, Claude!TypeOK, Claude!Alone, Claude!Over
  <2>3. ASSUME ~claude_spoiled PROVE Claude!Under(c)'
    <3>1. Claude!Under(c)
      BY <1>1, <2>3 DEF Claude!IInv, Claude!Quiet, Claude!Under
    <3>. QED  BY <1>1, <2>1, <3>1 DEF Claude!IInv, Claude!TypeOK, Claude!Under, Claude!Whereabouts, Claude!Over
  <2>4. Claude!TurnsApart'
    BY <1>1, <2>1 DEF Claude!IInv, Claude!TypeOK, Claude!TurnsApart
  <2>. QED  BY <2>1, <2>2, <2>3, <2>4 DEF Claude!IInv
<1>3. CASE Claude!Reads(c)
  <2>. DEFINE kind == Head(claude_stream)[1]
  <2>1. /\ claude_stream # <<>> /\ claude_stream' = Tail(claude_stream)
        /\ UNCHANGED <<claude_alive, claude_closed, claude_input, claude_inputClosed, claude_authority,
                       claude_working, claude_worked>>
        /\ claude_stream \in Seq({"message", "result", "error"} \X Prompts)
    BY <1>3 DEF Claude!Reads, Claude!IInv, Claude!TypeOK
  <2>2. Head(claude_stream) \in {"message", "result", "error"} \X Prompts
        /\ claude_stream' \in Seq({"message", "result", "error"} \X Prompts)
    BY <2>1
  <2>3. /\ claude_stage'[c] \in {"failed", "reading", "done"}
        /\ claude_stage' = [claude_stage EXCEPT ![c] = claude_stage'[c]]
        /\ claude_stage'[c] = "reading" => kind = "message" /\ claude_answer' = claude_answer
        /\ claude_stage'[c] = "failed" => \/ claude_spoiled' /\ claude_answer' = claude_answer
                                          \/ kind \in {"result", "error"} /\ claude_answer' = claude_answer
        /\ claude_stage'[c] = "done" => /\ kind = "result"
                                        /\ claude_answer' = [claude_answer EXCEPT ![c] = Head(claude_stream)[2]]
    <3>1. CASE Claude!Goes(c, "failed") /\ claude_spoiled' = (claude_spoiled \/ kind = "message")
               /\ claude_answer' = claude_answer
      BY <1>1, <2>2, <3>1 DEF Claude!Goes, Claude!IInv, Claude!TypeOK
    <3>2. CASE /\ Claude!Goes(c, [message |-> "reading", result |-> "done", error |-> "failed"][kind])
               /\ claude_answer' = IF kind = "result" THEN [claude_answer EXCEPT ![c] = Head(claude_stream)[2]]
                                                      ELSE claude_answer
      BY <1>1, <2>2, <3>2 DEF Claude!Goes, Claude!IInv, Claude!TypeOK
    <3>. QED  BY <1>3, <3>1, <3>2 DEF Claude!Reads
  <2>4. claude_spoiled' \in BOOLEAN /\ (claude_spoiled => claude_spoiled')
    <3>1. claude_spoiled' = claude_spoiled \/ claude_spoiled' = (claude_spoiled \/ kind = "message")
      BY <1>3 DEF Claude!Reads
    <3>. QED  BY <3>1 DEF Claude!IInv, Claude!TypeOK
  <2>. HIDE DEF kind
  <2>5. /\ claude_stage' \in [Prompts -> Claude!Over \union {"configuring", "reading"}]
        /\ \A d \in Prompts : d # c => claude_stage'[d] = claude_stage[d]
    BY <2>3 DEF Claude!IInv, Claude!TypeOK, Claude!Over
  <2>6. claude_answer' \in [Prompts -> Prompts \union {None}]
    BY <2>2, <2>3 DEF Claude!IInv, Claude!TypeOK
  <2>7. Claude!TypeOK'
    BY <2>1, <2>2, <2>4, <2>5, <2>6 DEF Claude!IInv, Claude!TypeOK
  <2>8. Claude!Alone'
    BY <1>1, <2>5 DEF Claude!Alone, Claude!Over
  <2>9. ASSUME ~claude_spoiled' PROVE Claude!TurnsApart' /\ (Claude!Quiet' \/ Claude!Under(c)')
    <3>1. Claude!Under(c) /\ Claude!TurnsApart /\ ~claude_spoiled
      BY <1>1, <2>4, <2>9 DEF Claude!IInv, Claude!Quiet, Claude!Under
    <3>2. Head(claude_stream)[2] = c
      BY <2>1, <3>1 DEF Claude!Under, Claude!Whereabouts
    <3>3. CASE kind = "message"
      <4>1. claude_stage'[c] = "reading" /\ claude_answer' = claude_answer
        BY <2>3, <2>9, <3>3
      <4>2. Claude!Whereabouts(c)'
        <5>1. CASE claude_working = c
          <6>1. claude_input = <<>> /\ claude_stream = <<<<"message", c>>>>
            BY <2>1, <3>1, <5>1 DEF Claude!ClaudeAssumption, Claude!Under, Claude!Whereabouts
          <6>. QED  BY <2>1, <5>1, <6>1 DEF Claude!Whereabouts
        <5>2. CASE claude_working # c
          <6>1. PICK last \in {"result", "error"} :
                   /\ claude_input = <<>> /\ claude_working = None
                   /\ claude_stream \in {<<<<last, c>>>>, <<<<"message", c>>, <<last, c>>>>}
            BY <2>1, <3>1, <5>2 DEF Claude!Under, Claude!Whereabouts
          <6>2. claude_stream' = <<<<last, c>>>>
            <7>1. CASE claude_stream = <<<<last, c>>>>
              BY <3>3, <7>1 DEF kind
            <7>2. CASE claude_stream = <<<<"message", c>>, <<last, c>>>>
              BY <2>1, <7>2
            <7>. QED  BY <6>1, <7>1, <7>2
          <6>. QED  BY <2>1, <6>1, <6>2 DEF Claude!Whereabouts
        <5>. QED  BY <5>1, <5>2
      <4>3. Claude!Under(c)'
        BY <1>1, <2>1, <2>5, <3>1, <4>1, <4>2 DEF Claude!Under, Claude!Over
      <4>4. Claude!TurnsApart'
        BY <1>1, <2>1, <2>5, <3>1, <4>1 DEF Claude!TurnsApart
      <4>. QED  BY <4>3, <4>4
    <3>4. CASE kind # "message"
      <4>1. claude_input = <<>> /\ claude_working = None /\ Tail(claude_stream) = <<>>
        BY <2>1, <3>1, <3>4 DEF Claude!Under, Claude!Whereabouts, kind
      <4>2. claude_stage'[c] # "reading"
        BY <2>3, <3>4
      <4>3. Claude!Quiet'
        BY <1>1, <2>1, <2>5, <4>1, <4>2 DEF Claude!Quiet, Claude!Over
      <4>4. Claude!TurnsApart'
        <5>1. claude_stage'[c] = "done" => claude_answer'[c] = c
          BY <2>3, <3>2 DEF Claude!IInv, Claude!TypeOK
        <5>2. \A d \in Prompts : d # c => claude_answer'[d] = claude_answer[d]
          BY <2>3 DEF Claude!IInv, Claude!TypeOK
        <5>. QED  BY <2>1, <2>5, <3>1, <5>1, <5>2 DEF Claude!TurnsApart
      <4>. QED  BY <4>3, <4>4
    <3>. QED  BY <3>3, <3>4
  <2>10. claude_spoiled' => Claude!TurnsApart'
    BY DEF Claude!TurnsApart
  <2>. QED  BY <2>4, <2>7, <2>8, <2>9, <2>10 DEF Claude!IInv
<1>. QED  BY <1>2, <1>3

LEMMA ClaudeInvariance == ASSUME Claude!ClaudeAssumption PROVE Claude!Spec => []Claude!IInv
PROOF
<1>. USE DEF Claude!Alone, Claude!Quiet, Claude!Under, Claude!Whereabouts, Claude!TurnsApart
<1>1. Claude!Init => Claude!IInv
  BY ClaudeBegins
<1>2. Claude!IInv /\ Claude!Close => Claude!IInv'
  <2>. SUFFICES ASSUME Claude!IInv, Claude!Close PROVE Claude!IInv'
    OBVIOUS
  <2>1. /\ claude_alive' = FALSE /\ claude_closed' = TRUE /\ claude_inputClosed' = TRUE
        /\ UNCHANGED <<claude_input, claude_authority, claude_working, claude_stream, claude_worked,
                       claude_stage, claude_answer, claude_spoiled>>
    BY DEF Claude!Close, Claude!query, Claude!turns
  <2>. QED  BY <2>1 DEF Claude!IInv, Claude!TypeOK
<1>3. Claude!IInv /\ Claude!Next => Claude!IInv'
  BY <1>2, QueryStep, ClaudeTurnBegins, ClaudeTurnReads DEF Claude!Next
<1>4. Claude!IInv /\ UNCHANGED Claude!vars => Claude!IInv'
  BY DEF Claude!vars, Claude!runtime, Claude!query, Claude!turns, Claude!IInv, Claude!TypeOK
<1>. QED  BY <1>1, <1>3, <1>4, PTL DEF Claude!Spec

\* On the warm query of an agent a turn returns its own result, and the query works on its prompt under
\* its own write mode only, unless a refused turn has left its prompt behind (ClaudeQueryRuntime.run).
THEOREM ClaudeTurnsApart == ASSUME Claude!ClaudeAssumption PROVE Claude!Spec => []Claude!TurnsApart
PROOF
<1>1. Claude!IInv => Claude!TurnsApart
  BY DEF Claude!IInv
<1>. QED  BY <1>1, ClaudeInvariance, PTL

-----------------------------------------------------------------------------
(* Codex *)

LEMMA CodexBegins == Codex!CodexAssumption /\ Codex!Init => Codex!IInv
PROOF
<1>. SUFFICES ASSUME Codex!CodexAssumption, Codex!Init PROVE Codex!IInv
  OBVIOUS
<1>0. codex_alive \in BOOLEAN /\ codex_fatal \in BOOLEAN /\ codex_unhandled \in BOOLEAN
  BY DEF Codex!Init
<1>a. codex_wire \in Seq(Codex!Lines)
  BY DEF Codex!Init
<1>1. /\ codex_child \in {"up", "term", "gone"}
      /\ codex_known \subseteq Calls /\ codex_recent \subseteq Calls /\ codex_spoiled \subseteq Threads
  BY DEF Codex!Init
<1>2. /\ codex_phase \in [Calls -> {"idle", "quota", "opening", "telling", "starting", "telling turn",
                                    "running", "settling", "done", "failed"}]
      /\ codex_current \in [Threads -> Calls \union {None}]
      /\ codex_server \in [Calls -> [state : {"none", "asked", "refused", "running", "over"}, usage : Nat, items : Nat]]
  BY DEF Codex!Init
<1>3. /\ codex_items \in [Calls -> Seq(Calls)] /\ codex_held \in [Calls -> Seq(Calls)]
      /\ codex_usage \in [Calls -> Seq(Calls)]
  BY DEF Codex!Init
<1>4. /\ codex_ended \in [Calls -> Calls \union {None}] /\ codex_snapshot \in [Calls -> Seq(Calls) \union {None}]
      /\ codex_answer \in [Calls -> Seq(Calls) \union {None}]
  BY DEF Codex!Init
<1>5. Codex!TypeOK
  BY <1>0, <1>a, <1>1, <1>2, <1>3, <1>4 DEF Codex!TypeOK
<1>6. Codex!Unasked /\ Codex!Sent /\ Codex!Followed
  BY DEF Codex!CodexAssumption, Codex!Init, Codex!Unasked, Codex!Sent, Codex!Followed, Codex!Unread
<1>7. Codex!Gathered
  BY DEF Codex!Init, Codex!Gathered, Codex!OnlyOf
<1>. QED  BY <1>5, <1>6, <1>7 DEF Codex!IInv

\* Reading a line keeps what is known of the others.
LEMMA LineRead ==
    ASSUME Codex!TypeOK, Codex!Sent, codex_wire # <<>>, codex_wire' = Tail(codex_wire),
           codex_server' = codex_server
    PROVE  /\ codex_wire' \in Seq(Codex!Lines) /\ Codex!Sent'
           /\ Head(codex_wire) \in Codex!Lines /\ Head(codex_wire) = codex_wire[1] /\ 1 \in 1..Len(codex_wire)
           /\ \A c \in Calls : Codex!Unread(c)' => Codex!Unread(c)
           /\ \A c \in Calls : Head(codex_wire).kind = "completed" /\ Head(codex_wire).turn = c => ~Codex!Unread(c)'
PROOF
<1>0. codex_wire \in Seq(Codex!Lines) /\ codex_wire # <<>> /\ codex_wire' = Tail(codex_wire)
  BY DEF Codex!TypeOK
<1>1. /\ codex_wire' \in Seq(Codex!Lines) /\ Len(codex_wire') = Len(codex_wire) - 1
      /\ \A i \in 1..Len(codex_wire') : codex_wire'[i] = codex_wire[i + 1]
      /\ Head(codex_wire) \in Codex!Lines /\ Head(codex_wire) = codex_wire[1]
  BY <1>0, HeadTailProperties
<1>2. Len(codex_wire) \in Nat /\ Len(codex_wire) >= 1
  BY <1>0, EmptySeq
<1>3. \A i \in 1..Len(codex_wire') : i + 1 \in 1..Len(codex_wire)
  BY <1>1, <1>2
<1>4. Codex!Sent'
  <2>1. ASSUME NEW i \in 1..Len(codex_wire')
        PROVE  codex_server'[codex_wire'[i].turn].state \in CASE codex_wire'[i].kind = "refused"   -> {"refused"}
                                                              [] codex_wire'[i].kind = "completed" -> {"over"}
                                                              [] OTHER -> {"running", "over"}
    BY <1>1, <1>3, <2>1 DEF Codex!Sent
  <2>2. ASSUME NEW i \in 1..Len(codex_wire'), NEW j \in 1..Len(codex_wire'),
               codex_wire'[i].kind = "completed", i < j, codex_wire'[j].turn = codex_wire'[i].turn
        PROVE  codex_wire'[j].kind \notin {"item", "completed"}
    <3>1. i + 1 \in 1..Len(codex_wire) /\ j + 1 \in 1..Len(codex_wire) /\ i + 1 < j + 1
      BY <1>3, <2>2
    <3>. QED  BY <1>1, <2>2, <3>1 DEF Codex!Sent
  <2>. QED  BY <2>1, <2>2 DEF Codex!Sent
<1>5. \A c \in Calls : Codex!Unread(c)' => Codex!Unread(c)
  BY <1>1, <1>3 DEF Codex!Unread
<1>6. \A c \in Calls : Head(codex_wire).kind = "completed" /\ Head(codex_wire).turn = c => ~Codex!Unread(c)'
  <2>. SUFFICES ASSUME NEW c \in Calls, Head(codex_wire).kind = "completed", Head(codex_wire).turn = c,
                       NEW i \in 1..Len(codex_wire'), codex_wire'[i].turn = c,
                       codex_wire'[i].kind \in {"item", "completed"}
                PROVE  FALSE
    BY DEF Codex!Unread
  <2>1. 1 \in 1..Len(codex_wire) /\ i + 1 \in 1..Len(codex_wire) /\ 1 < i + 1 /\ codex_wire'[i] = codex_wire[i + 1]
    BY <1>1, <1>2, <1>3
  <2>. QED  BY <1>1, <2>1 DEF Codex!Sent
<1>7. 1 \in 1..Len(codex_wire)
  BY <1>2
<1>. QED  BY <1>1, <1>4, <1>5, <1>6, <1>7

\* A step that touches neither the wire nor the app-server.
LEMMA WireKept ==
    ASSUME Codex!Sent, UNCHANGED <<codex_wire, codex_server>>
    PROVE  Codex!Sent' /\ \A c : Codex!Unread(c)' <=> Codex!Unread(c)
BY DEF Codex!Sent, Codex!Unread

\* A turn up to its request.
LEMMA CodexPrepares ==
    ASSUME Codex!CodexAssumption, Codex!IInv, NEW c \in Calls, Codex!Run(c) \/ Codex!Prepare(c) \/ Codex!Forget(c)
    PROVE  Codex!IInv'
PROOF
<1>1. /\ UNCHANGED <<codex_child, codex_alive, codex_fatal, codex_current, codex_known, codex_items, codex_held,
                     codex_ended, codex_snapshot, codex_answer, codex_usage, codex_wire, codex_server, codex_spoiled,
                     codex_unhandled>>
      /\ codex_recent' \in {codex_recent, codex_recent \ {c}}
  BY DEF Codex!Run, Codex!Prepare, Codex!Forget, Codex!process, Codex!accumulators
<1>2. \/ codex_phase' = codex_phase
      \/ /\ codex_phase[c] \in {"idle", "quota", "opening", "telling"}
         /\ \E to \in {"quota", "opening", "telling", "failed"} : codex_phase' = [codex_phase EXCEPT ![c] = to]
  BY DEF Codex!Run, Codex!Prepare, Codex!Forget, Codex!Goes
<1>3. Codex!TypeOK'
  BY <1>1, <1>2 DEF Codex!IInv, Codex!TypeOK
<1>4. Codex!Unasked'
  BY <1>1, <1>2 DEF Codex!IInv, Codex!TypeOK, Codex!Unasked
<1>5. Codex!Sent' /\ \A d : Codex!Unread(d)' <=> Codex!Unread(d)
  BY <1>1, WireKept DEF Codex!IInv
<1>6. Codex!Followed'
  BY <1>1, <1>5 DEF Codex!IInv, Codex!Followed, Codex!Current
<1>7. \A d \in Calls : codex_phase'[d] \in {"settling", "done"} => codex_phase'[d] = codex_phase[d]
  BY <1>2 DEF Codex!IInv, Codex!TypeOK
<1>8. Codex!Gathered'
  BY <1>1, <1>7 DEF Codex!IInv, Codex!Gathered, Codex!OnlyOf
<1>. QED  BY <1>3, <1>4, <1>5, <1>6, <1>8 DEF Codex!IInv

\* The request, on a thread that has no turn.
LEMMA CodexAsks ==
    ASSUME Codex!CodexAssumption, Codex!IInv, NEW c \in Calls, Codex!StartTurn(c)
    PROVE  Codex!IInv'
PROOF
<1>1. /\ UNCHANGED <<codex_child, codex_alive, codex_fatal, codex_known, codex_items, codex_held, codex_recent,
                     codex_ended, codex_snapshot, codex_answer, codex_usage, codex_wire, codex_spoiled,
                     codex_unhandled>>
      /\ codex_phase[c] = "telling"
  BY DEF Codex!StartTurn, Codex!process
<1>2. CASE codex_current[Thread[c]] = None
  <2>1. /\ codex_phase' = [codex_phase EXCEPT ![c] = "starting"]
        /\ codex_server' = [codex_server EXCEPT ![c].state = "asked"]
        /\ codex_current' = [codex_current EXCEPT ![Thread[c]] = c]
    BY <1>2 DEF Codex!StartTurn, Codex!Goes, Codex!Server
  <2>2. codex_server[c].state = "none" /\ Thread[c] \in Threads /\ c # None
    BY <1>1 DEF Codex!CodexAssumption, Codex!IInv, Codex!Unasked
  <2>0. codex_server \in [Calls -> [state : {"none", "asked", "refused", "running", "over"}, usage : Nat, items : Nat]]
    BY DEF Codex!IInv, Codex!TypeOK
  <2>3. /\ codex_server' \in [Calls -> [state : {"none", "asked", "refused", "running", "over"}, usage : Nat, items : Nat]]
        /\ codex_server'[c].state = "asked" /\ \A d \in Calls : d # c => codex_server'[d] = codex_server[d]
    BY <2>0, <2>1
  <2>4. /\ codex_current'[Thread[c]] = c
        /\ \A t \in Threads : t # Thread[c] => codex_current'[t] = codex_current[t]
        /\ codex_current' \in [Threads -> Calls \union {None}]
    BY <2>1, <2>2 DEF Codex!IInv, Codex!TypeOK
  <2>5. /\ codex_phase'[c] = "starting" /\ \A d \in Calls : d # c => codex_phase'[d] = codex_phase[d]
        /\ codex_phase' \in [Calls -> {"idle", "quota", "opening", "telling", "starting", "telling turn",
                                       "running", "settling", "done", "failed"}]
    BY <2>1 DEF Codex!IInv, Codex!TypeOK
  <2>6. Codex!TypeOK'
    BY <1>1, <2>3, <2>4, <2>5 DEF Codex!IInv, Codex!TypeOK
  <2>7. \A i \in 1..Len(codex_wire) : codex_wire[i].turn \in Calls \ {c}
    <3>1. ASSUME NEW i \in 1..Len(codex_wire) PROVE codex_wire[i].turn \in Calls \ {c}
      <4>0. codex_wire \in Seq(Codex!Lines)
        BY DEF Codex!IInv, Codex!TypeOK
      <4>1. codex_wire[i] \in Codex!Lines
        BY <4>0
      <4>2. codex_server[codex_wire[i].turn].state # "none"
        BY DEF Codex!IInv, Codex!Sent
      <4>. QED  BY <2>2, <4>1, <4>2 DEF Codex!Lines
    <3>. QED  BY <3>1
  <2>8. Codex!Sent' /\ \A d : Codex!Unread(d)' <=> Codex!Unread(d)
    BY <1>1, <2>3, <2>7 DEF Codex!IInv, Codex!Sent, Codex!Unread
  <2>9. Codex!Unasked'
    BY <2>3, <2>5 DEF Codex!IInv, Codex!Unasked
  <2>10. Codex!Followed'
    <3>1. \A t \in Threads : codex_current'[t] # None => Thread[codex_current'[t]] = t
      BY <2>2, <2>4 DEF Codex!IInv, Codex!Followed
    <3>2. ASSUME ~codex_fatal, NEW d \in Calls, Thread[d] \notin codex_spoiled
          PROVE  /\ codex_server'[d].state \in {"asked", "running"} \/ Codex!Unread(d)' => Codex!Current(d)'
                 /\ codex_ended'[d] # None => codex_server'[d].state = "over" /\ ~Codex!Unread(d)'
      <4>1. /\ codex_server[d].state \in {"asked", "running"} \/ Codex!Unread(d) => Codex!Current(d)
            /\ codex_ended[d] # None => codex_server[d].state = "over" /\ ~Codex!Unread(d)
            /\ Thread[d] \in Threads
        BY <3>2 DEF Codex!CodexAssumption, Codex!IInv, Codex!Followed
      <4>2. CASE d = c
        BY <1>1, <2>2, <2>4, <4>1, <4>2 DEF Codex!Current
      <4>3. CASE d # c
        <5>1. Codex!Current(d) => Codex!Current(d)'
          BY <1>2, <2>4, <4>1 DEF Codex!Current, Codex!CodexAssumption
        <5>. QED  BY <1>1, <2>3, <2>8, <4>1, <4>3, <5>1
      <4>. QED  BY <4>2, <4>3
    <3>. QED  BY <1>1, <3>1, <3>2 DEF Codex!Followed
  <2>11. Codex!Gathered'
    <3>1. UNCHANGED <<codex_items, codex_ended, codex_snapshot, codex_answer, codex_usage, codex_spoiled>>
      BY <1>1
    <3>2. Codex!Gathered
      BY DEF Codex!IInv
    <3>3. \A d \in Calls : codex_phase'[d] \in {"settling", "done"} => codex_phase'[d] = codex_phase[d]
      BY <2>5
    <3>. QED  BY <3>1, <3>2, <3>3 DEF Codex!Gathered, Codex!OnlyOf
  <2>. QED  BY <2>6, <2>8, <2>9, <2>10, <2>11 DEF Codex!IInv
<1>3. CASE codex_current[Thread[c]] # None
  <2>1. codex_phase' = [codex_phase EXCEPT ![c] = "failed"] /\ UNCHANGED <<codex_current, codex_server>>
    BY <1>3 DEF Codex!StartTurn, Codex!Goes
  <2>2. Codex!TypeOK'
    BY <1>1, <2>1 DEF Codex!IInv, Codex!TypeOK
  <2>3. Codex!Sent' /\ \A d : Codex!Unread(d)' <=> Codex!Unread(d)
    BY <1>1, <2>1, WireKept DEF Codex!IInv
  <2>6. \A d \in Calls : /\ codex_phase'[d] \in {"settling", "done"} => codex_phase'[d] = codex_phase[d]
                         /\ codex_phase'[d] \in {"idle", "quota", "opening", "telling"} => codex_phase'[d] = codex_phase[d]
    BY <2>1 DEF Codex!IInv, Codex!TypeOK
  <2>7. Codex!Unasked'
    BY <2>1, <2>6 DEF Codex!IInv, Codex!Unasked
  <2>4. Codex!Gathered'
    BY <1>1, <2>6 DEF Codex!IInv, Codex!Gathered, Codex!OnlyOf
  <2>5. Codex!Followed'
    BY <1>1, <2>1, <2>3 DEF Codex!IInv, Codex!Followed, Codex!Current
  <2>. QED  BY <2>2, <2>3, <2>4, <2>5, <2>7 DEF Codex!IInv
<1>. QED  BY <1>2, <1>3

CodexPhases == {"idle", "quota", "opening", "telling", "starting", "telling turn", "running", "settling",
                "done", "failed"}
CodexTurns == [state : {"none", "asked", "refused", "running", "over"}, usage : Nat, items : Nat]

\* The types, one by one.
LEMMA CodexTyped ==
    ASSUME Codex!TypeOK
    PROVE  /\ codex_phase \in [Calls -> CodexPhases] /\ codex_server \in [Calls -> CodexTurns]
           /\ codex_current \in [Threads -> Calls \union {None}] /\ codex_wire \in Seq(Codex!Lines)
BY DEF Codex!TypeOK, CodexPhases, CodexTurns

\* A turn on its way out gives its thread back, and takes no other turn's.
LEMMA CodexLeaves ==
    ASSUME Codex!CodexAssumption, Codex!TypeOK, NEW c \in Calls, NEW to \in {"failed", "done"}, Codex!Ends(c, to)
    PROVE  /\ codex_phase' \in [Calls -> CodexPhases] /\ codex_current' \in [Threads -> Calls \union {None}]
           /\ codex_recent' \subseteq Calls
           /\ codex_phase'[c] = to /\ \A d \in Calls : d # c => codex_phase'[d] = codex_phase[d]
           /\ \A t \in Threads : codex_current'[t] \in {None, codex_current[t]}
           /\ \A t \in Threads : t # Thread[c] => codex_current'[t] = codex_current[t]
           /\ \A d \in Calls : d # c /\ Codex!Current(d) => Codex!Current(d)'
PROOF
<1>1. /\ codex_phase' = [codex_phase EXCEPT ![c] = to]
      /\ codex_current' = IF codex_current[Thread[c]] = c THEN [codex_current EXCEPT ![Thread[c]] = None]
                          ELSE codex_current
      /\ codex_recent' \in {codex_recent, codex_recent \union {c}}
  BY DEF Codex!Ends, Codex!Goes, Codex!Drop, Codex!Current
<1>2. codex_phase \in [Calls -> CodexPhases] /\ to \in CodexPhases
  BY CodexTyped DEF CodexPhases
<1>3. /\ codex_phase' \in [Calls -> CodexPhases]
      /\ codex_phase'[c] = to /\ \A d \in Calls : d # c => codex_phase'[d] = codex_phase[d]
  BY <1>1, <1>2
<1>4. Thread[c] \in Threads /\ c # None
  BY DEF Codex!CodexAssumption
<1>5. /\ codex_current' \in [Threads -> Calls \union {None}]
      /\ \A t \in Threads : codex_current'[t] \in {None, codex_current[t]}
      /\ \A t \in Threads : t # Thread[c] => codex_current'[t] = codex_current[t]
  BY <1>1, <1>4, CodexTyped
<1>6. codex_recent' \subseteq Calls
  BY <1>1 DEF Codex!TypeOK
<1>7. ASSUME NEW d \in Calls, d # c, Codex!Current(d) PROVE Codex!Current(d)'
  <2>1. Thread[d] \in Threads /\ codex_current[Thread[d]] = d
    BY <1>7 DEF Codex!CodexAssumption, Codex!Current
  <2>2. codex_current'[Thread[d]] = d
    BY <1>1, <1>4, <1>7, <2>1, CodexTyped
  <2>. QED  BY <2>2 DEF Codex!Current
<1>. QED  BY <1>3, <1>5, <1>6, <1>7

\* Giving up turn/start: the thread is spoiled.
LEMMA CodexGivesUp ==
    ASSUME Codex!CodexAssumption, Codex!IInv, NEW c \in Calls, Codex!StartTimesOut(c)
    PROVE  Codex!IInv'
PROOF
<1>1. /\ UNCHANGED <<codex_child, codex_alive, codex_fatal, codex_known, codex_items, codex_held, codex_ended,
                     codex_snapshot, codex_answer, codex_usage, codex_wire, codex_server, codex_unhandled>>
      /\ Codex!Ends(c, "failed") /\ codex_spoiled' = codex_spoiled \union {Thread[c]}
  BY DEF Codex!StartTimesOut, Codex!process
<1>2. Codex!TypeOK /\ Thread[c] \in Threads
  BY DEF Codex!CodexAssumption, Codex!IInv
<1>3. /\ codex_phase' \in [Calls -> CodexPhases] /\ codex_current' \in [Threads -> Calls \union {None}]
      /\ codex_recent' \subseteq Calls
      /\ codex_phase'[c] = "failed" /\ \A d \in Calls : d # c => codex_phase'[d] = codex_phase[d]
      /\ \A t \in Threads : codex_current'[t] \in {None, codex_current[t]}
      /\ \A t \in Threads : t # Thread[c] => codex_current'[t] = codex_current[t]
  BY <1>1, <1>2, CodexLeaves
<1>4. Codex!TypeOK'
  BY <1>1, <1>2, <1>3 DEF Codex!TypeOK, CodexPhases
<1>5. Codex!Sent' /\ \A d : Codex!Unread(d)' <=> Codex!Unread(d)
  BY <1>1, WireKept DEF Codex!IInv
<1>6. Codex!Unasked'
  BY <1>1, <1>3 DEF Codex!IInv, Codex!Unasked
<1>7. Codex!Followed'
  <2>1. \A t \in Threads : codex_current'[t] # None => Thread[codex_current'[t]] = t
    BY <1>3 DEF Codex!IInv, Codex!Followed
  <2>2. ASSUME ~codex_fatal, NEW d \in Calls, Thread[d] \notin codex_spoiled'
        PROVE  /\ codex_server[d].state \in {"asked", "running"} \/ Codex!Unread(d) => Codex!Current(d)'
               /\ codex_ended[d] # None => codex_server[d].state = "over" /\ ~Codex!Unread(d)
    <3>1. Thread[d] \in Threads /\ Thread[d] # Thread[c] /\ Thread[d] \notin codex_spoiled
      BY <1>1, <2>2 DEF Codex!CodexAssumption
    <3>2. Codex!Current(d) => Codex!Current(d)'
      BY <1>3, <3>1 DEF Codex!Current
    <3>. QED  BY <2>2, <3>1, <3>2 DEF Codex!IInv, Codex!Followed
  <2>. QED  BY <1>1, <1>5, <2>1, <2>2 DEF Codex!Followed
<1>8. Codex!Gathered'
  BY <1>1, <1>3 DEF Codex!IInv, Codex!Gathered, Codex!OnlyOf
<1>. QED  BY <1>4, <1>5, <1>6, <1>7, <1>8 DEF Codex!IInv

LEMMA SameCodexCardinality == \A S : Codex!Cardinality(S) = Cardinality(S)
BY DEF Codex!Cardinality, Cardinality

\* What is picked out of the usage that was held is about the turn itself.
LEMMA OwnIsOwn ==
    ASSUME NEW c \in Calls, NEW s \in Seq(Calls)
    PROVE  Codex!Own(c, s) \in Seq(Calls) /\ Codex!OnlyOf(c, Codex!Own(c, s))
PROOF
<1>. DEFINE n == Cardinality({j \in DOMAIN s : s[j] = c})
<1>1. n \in Nat
  <2>1. DOMAIN s = 1..Len(s) /\ Len(s) \in Nat
    OBVIOUS
  <2>2. IsFiniteSet(1..Len(s))
    BY <2>1, FS_Interval
  <2>3. {j \in DOMAIN s : s[j] = c} \subseteq 1..Len(s)
    BY <2>1
  <2>. QED  BY <2>2, <2>3, FS_Subset, FS_CardinalityType
<1>2. Codex!Own(c, s) = [i \in 1..n |-> c]
  BY SameCodexCardinality DEF Codex!Own
<1>. HIDE DEF n
<1>3. [i \in 1..n |-> c] \in Seq(Calls) /\ Len([i \in 1..n |-> c]) = n
  BY <1>1
<1>. QED  BY <1>1, <1>2, <1>3 DEF Codex!OnlyOf

\* onTurnStarted has returned.
LEMMA CodexIsTold ==
    ASSUME Codex!CodexAssumption, Codex!IInv, NEW c \in Calls, Codex!TurnTold(c)
    PROVE  Codex!IInv'
PROOF
<1>1. /\ UNCHANGED <<codex_child, codex_alive, codex_fatal, codex_known, codex_items, codex_ended, codex_snapshot,
                     codex_answer, codex_wire, codex_server, codex_spoiled, codex_unhandled>>
      /\ codex_usage' = [codex_usage EXCEPT ![c] = codex_usage[c] \o Codex!Own(c, codex_held[c])]
      /\ codex_held' = [codex_held EXCEPT ![c] = <<>>]
  BY DEF Codex!TurnTold, Codex!process
<1>2. Codex!TypeOK
  BY DEF Codex!IInv
<1>3. /\ codex_phase' \in [Calls -> CodexPhases] /\ codex_current' \in [Threads -> Calls \union {None}]
      /\ codex_recent' \subseteq Calls
      /\ codex_phase'[c] \in {"failed", "running", "settling"}
      /\ \A d \in Calls : d # c => codex_phase'[d] = codex_phase[d]
      /\ \A t \in Threads : codex_current'[t] \in {None, codex_current[t]}
      /\ ~codex_fatal => codex_current' = codex_current
      /\ codex_phase'[c] = "settling" => codex_ended[c] # None
  <2>1. CASE codex_ended[c] = None /\ codex_fatal
    <3>1. Codex!Ends(c, "failed")
      BY <2>1 DEF Codex!TurnTold
    <3>. QED  BY <1>2, <2>1, <3>1, CodexLeaves
  <2>2. CASE ~(codex_ended[c] = None /\ codex_fatal)
    <3>1. /\ codex_phase' = [codex_phase EXCEPT ![c] = IF codex_ended[c] = None THEN "running" ELSE "settling"]
          /\ UNCHANGED <<codex_current, codex_recent>>
      BY <2>2 DEF Codex!TurnTold, Codex!Goes
    <3>. QED  BY <1>2, <3>1, CodexTyped DEF CodexPhases, Codex!TypeOK
  <2>. QED  BY <2>1, <2>2
<1>4. /\ codex_usage \in [Calls -> Seq(Calls)] /\ codex_held \in [Calls -> Seq(Calls)]
      /\ codex_held[c] \in Seq(Calls) /\ codex_usage[c] \in Seq(Calls)
  BY <1>2 DEF Codex!TypeOK
<1>5. Codex!Own(c, codex_held[c]) \in Seq(Calls) /\ Codex!OnlyOf(c, Codex!Own(c, codex_held[c]))
  BY <1>4, OwnIsOwn
<1>. DEFINE own == Codex!Own(c, codex_held[c])
<1>. HIDE DEF own
<1>6. codex_usage[c] \o own \in Seq(Calls) /\ Codex!OnlyOf(c, codex_usage[c] \o own)
  <2>1. own \in Seq(Calls) /\ codex_usage[c] \in Seq(Calls)
    BY <1>4, <1>5 DEF own
  <2>2. Codex!OnlyOf(c, own) /\ Codex!OnlyOf(c, codex_usage[c])
    BY <1>5 DEF own, Codex!IInv, Codex!Gathered
  <2>3. /\ codex_usage[c] \o own \in Seq(Calls) /\ Len(codex_usage[c] \o own) = Len(codex_usage[c]) + Len(own)
        /\ Len(own) \in Nat /\ Len(codex_usage[c]) \in Nat
        /\ \A i \in 1..(Len(codex_usage[c]) + Len(own)) : (codex_usage[c] \o own)[i] =
             IF i <= Len(codex_usage[c]) THEN codex_usage[c][i] ELSE own[i - Len(codex_usage[c])]
    BY <2>1, ConcatProperties, LenProperties
  <2>4. ASSUME NEW i \in 1..Len(codex_usage[c] \o own) PROVE (codex_usage[c] \o own)[i] = c
    <3>1. CASE i <= Len(codex_usage[c])
      BY <2>2, <2>3, <2>4, <3>1 DEF Codex!OnlyOf
    <3>2. CASE ~(i <= Len(codex_usage[c]))
      <4>1. i - Len(codex_usage[c]) \in 1..Len(own)
        BY <2>3, <2>4, <3>2
      <4>. QED  BY <2>2, <2>3, <2>4, <3>2, <4>1 DEF Codex!OnlyOf
    <3>. QED  BY <3>1, <3>2
  <2>. QED  BY <2>3, <2>4 DEF Codex!OnlyOf
<1>7. /\ codex_usage' \in [Calls -> Seq(Calls)] /\ Codex!OnlyOf(c, codex_usage'[c])
      /\ \A d \in Calls : d # c => codex_usage'[d] = codex_usage[d]
  BY <1>1, <1>4, <1>6 DEF own
<1>8. codex_held' \in [Calls -> Seq(Calls)]
  BY <1>1, <1>4
<1>9. Codex!TypeOK'
  BY <1>1, <1>2, <1>3, <1>7, <1>8 DEF Codex!TypeOK, CodexPhases
<1>10. Codex!Sent' /\ \A d : Codex!Unread(d)' <=> Codex!Unread(d)
  BY <1>1, WireKept DEF Codex!IInv
<1>11. Codex!Unasked'
  BY <1>1, <1>3 DEF Codex!IInv, Codex!Unasked
<1>12. Codex!Followed'
  <2>1. \A t \in Threads : codex_current'[t] # None => Thread[codex_current'[t]] = t
    BY <1>3 DEF Codex!IInv, Codex!Followed
  <2>. QED  BY <1>1, <1>3, <1>10, <2>1 DEF Codex!IInv, Codex!Followed, Codex!Current
<1>13. Codex!Gathered'
  <2>. SUFFICES ASSUME NEW d \in Calls
                PROVE /\ Codex!OnlyOf(d, codex_usage'[d])
                      /\ codex_phase'[d] = "settling" => codex_ended[d] # None
                      /\ Thread[d] \notin codex_spoiled =>
                            /\ codex_ended[d] \in {None, d} /\ Codex!OnlyOf(d, codex_items[d])
                            /\ codex_snapshot[d] # None => Codex!OnlyOf(d, codex_snapshot[d])
                            /\ codex_phase'[d] \in {"settling", "done"} => codex_ended[d] = d
                            /\ codex_phase'[d] = "done" => /\ codex_answer[d] \in Seq(Calls) \ {<<>>}
                                                           /\ Codex!OnlyOf(d, codex_answer[d])
    BY <1>1 DEF Codex!Gathered, Codex!OnlyOf
  <2>1. CASE d = c
    BY <1>3, <1>7, <2>1 DEF Codex!IInv, Codex!Gathered
  <2>2. CASE d # c
    BY <1>3, <1>7, <2>2 DEF Codex!IInv, Codex!Gathered
  <2>. QED  BY <2>1, <2>2
<1>. QED  BY <1>9, <1>10, <1>11, <1>12, <1>13 DEF Codex!IInv

\* What settles 150 ms after the completion.
LEMMA CodexSettles ==
    ASSUME Codex!CodexAssumption, Codex!IInv, NEW c \in Calls, Codex!Settle(c)
    PROVE  Codex!IInv'
PROOF
<1>1. /\ UNCHANGED <<codex_child, codex_alive, codex_fatal, codex_known, codex_items, codex_held, codex_ended,
                     codex_snapshot, codex_usage, codex_wire, codex_server, codex_spoiled, codex_unhandled>>
      /\ codex_phase[c] = "settling"
  BY DEF Codex!Settle, Codex!process
<1>2. PICK result :
        /\ \/ result \in {<<codex_ended[c]>>, codex_items[c]}
           \/ codex_snapshot[c] # None /\ result = codex_snapshot[c]
        /\ codex_answer' = [codex_answer EXCEPT ![c] = result]
        /\ Codex!Ends(c, IF result = <<>> THEN "failed" ELSE "done")
  <2>. DEFINE given(inline) == IF inline THEN <<codex_ended[c]>>
                               ELSE IF codex_snapshot[c] # None THEN codex_snapshot[c] ELSE codex_items[c]
  <2>1. PICK inline \in BOOLEAN : /\ codex_answer' = [codex_answer EXCEPT ![c] = given(inline)]
                                  /\ Codex!Ends(c, IF given(inline) = <<>> THEN "failed" ELSE "done")
    BY Zenon DEF Codex!Settle
  <2>2. \/ given(inline) \in {<<codex_ended[c]>>, codex_items[c]}
        \/ codex_snapshot[c] # None /\ given(inline) = codex_snapshot[c]
    OBVIOUS
  <2>. HIDE DEF given
  <2>. QED  BY <2>1, <2>2
<1>3. Codex!TypeOK /\ codex_ended[c] # None /\ codex_ended[c] \in Calls \union {None}
  BY <1>1 DEF Codex!IInv, Codex!TypeOK, Codex!Gathered
<1>4. result \in Seq(Calls)
  <2>1. codex_items[c] \in Seq(Calls) /\ codex_snapshot[c] \in Seq(Calls) \union {None}
    BY <1>3 DEF Codex!TypeOK
  <2>2. <<codex_ended[c]>> \in Seq(Calls)
    BY <1>3
  <2>. QED  BY <1>2, <2>1, <2>2
<1>5. Thread[c] \notin codex_spoiled => Codex!OnlyOf(c, result) /\ codex_ended[c] = c
  <2>1. ASSUME Thread[c] \notin codex_spoiled PROVE Codex!OnlyOf(c, result) /\ codex_ended[c] = c
    <3>1. /\ codex_ended[c] = c /\ Codex!OnlyOf(c, codex_items[c])
          /\ codex_snapshot[c] # None => Codex!OnlyOf(c, codex_snapshot[c])
      BY <1>1, <2>1 DEF Codex!IInv, Codex!Gathered
    <3>2. Codex!OnlyOf(c, <<codex_ended[c]>>)
      BY <3>1 DEF Codex!OnlyOf
    <3>. QED  BY <1>2, <3>1, <3>2
  <2>. QED  BY <2>1
<1>6. /\ codex_phase' \in [Calls -> CodexPhases] /\ codex_current' \in [Threads -> Calls \union {None}]
      /\ codex_recent' \subseteq Calls
      /\ codex_phase'[c] = (IF result = <<>> THEN "failed" ELSE "done")
      /\ \A d \in Calls : d # c => codex_phase'[d] = codex_phase[d]
      /\ \A t \in Threads : codex_current'[t] \in {None, codex_current[t]}
      /\ \A d \in Calls : d # c /\ Codex!Current(d) => Codex!Current(d)'
  <2>. DEFINE to == IF result = <<>> THEN "failed" ELSE "done"
  <2>1. to \in {"failed", "done"} /\ Codex!Ends(c, to)
    BY <1>2
  <2>. HIDE DEF to
  <2>2. /\ codex_phase' \in [Calls -> CodexPhases] /\ codex_current' \in [Threads -> Calls \union {None}]
        /\ codex_recent' \subseteq Calls
        /\ codex_phase'[c] = to
        /\ \A d \in Calls : d # c => codex_phase'[d] = codex_phase[d]
        /\ \A t \in Threads : codex_current'[t] \in {None, codex_current[t]}
        /\ \A d \in Calls : d # c /\ Codex!Current(d) => Codex!Current(d)'
    BY <1>3, <2>1, CodexLeaves
  <2>. QED  BY <2>2 DEF to
<1>7. /\ codex_answer' \in [Calls -> Seq(Calls) \union {None}] /\ codex_answer'[c] = result
      /\ \A d \in Calls : d # c => codex_answer'[d] = codex_answer[d]
  BY <1>2, <1>3, <1>4 DEF Codex!TypeOK
<1>8. Codex!TypeOK'
  BY <1>1, <1>3, <1>6, <1>7 DEF Codex!TypeOK, CodexPhases
<1>9. Codex!Sent' /\ \A d : Codex!Unread(d)' <=> Codex!Unread(d)
  BY <1>1, WireKept DEF Codex!IInv
<1>10. Codex!Unasked'
  BY <1>1, <1>6 DEF Codex!IInv, Codex!Unasked
<1>11. Codex!Followed'
  <2>1. \A t \in Threads : codex_current'[t] # None => Thread[codex_current'[t]] = t
    BY <1>6 DEF Codex!IInv, Codex!Followed
  <2>2. ASSUME ~codex_fatal, NEW d \in Calls, Thread[d] \notin codex_spoiled
        PROVE  /\ codex_server[d].state \in {"asked", "running"} \/ Codex!Unread(d) => Codex!Current(d)'
               /\ codex_ended[d] # None => codex_server[d].state = "over" /\ ~Codex!Unread(d)
    <3>1. /\ codex_server[d].state \in {"asked", "running"} \/ Codex!Unread(d) => Codex!Current(d)
          /\ codex_ended[d] # None => codex_server[d].state = "over" /\ ~Codex!Unread(d)
      BY <2>2 DEF Codex!IInv, Codex!Followed
    <3>. QED  BY <1>3, <1>6, <3>1
  <2>. QED  BY <1>1, <1>9, <2>1, <2>2 DEF Codex!Followed
<1>12. Codex!Gathered'
  <2>. SUFFICES ASSUME NEW d \in Calls
                PROVE /\ Codex!OnlyOf(d, codex_usage[d])
                      /\ codex_phase'[d] = "settling" => codex_ended[d] # None
                      /\ Thread[d] \notin codex_spoiled =>
                            /\ codex_ended[d] \in {None, d} /\ Codex!OnlyOf(d, codex_items[d])
                            /\ codex_snapshot[d] # None => Codex!OnlyOf(d, codex_snapshot[d])
                            /\ codex_phase'[d] \in {"settling", "done"} => codex_ended[d] = d
                            /\ codex_phase'[d] = "done" => /\ codex_answer'[d] \in Seq(Calls) \ {<<>>}
                                                           /\ Codex!OnlyOf(d, codex_answer'[d])
    BY <1>1 DEF Codex!Gathered, Codex!OnlyOf
  <2>1. CASE d = c
    BY <1>4, <1>5, <1>6, <1>7, <2>1 DEF Codex!IInv, Codex!Gathered
  <2>2. CASE d # c
    BY <1>6, <1>7, <2>2 DEF Codex!IInv, Codex!Gathered
  <2>. QED  BY <2>1, <2>2
<1>. QED  BY <1>8, <1>9, <1>10, <1>11, <1>12 DEF Codex!IInv

\* A line is read.
LEMMA CodexReads ==
    ASSUME Codex!CodexAssumption, Codex!IInv, Codex!Cleared, codex_server' = codex_server, codex_spoiled' = codex_spoiled,
           NEW kind, Codex!Reads(kind)
    PROVE  /\ codex_wire' \in Seq(Codex!Lines) /\ Codex!Sent'
           /\ \A c \in Calls : Codex!Unread(c)' => Codex!Unread(c)
           /\ \A c \in Calls : kind = "completed" /\ Codex!It = c => ~Codex!Unread(c)'
           /\ Codex!It \in Calls /\ Thread[Codex!It] \in Threads
           /\ kind \in {"item", "completed"} => Codex!Unread(Codex!It)
           /\ kind = "refused" => codex_server[Codex!It].state = "refused" /\ ~Codex!Unread(Codex!It)
           /\ kind = "completed" => codex_server[Codex!It].state = "over"
           /\ codex_server[Codex!It].state # "none"
           /\ Codex!At # None => Codex!At \in Calls /\ Thread[Codex!At] = Thread[Codex!It]
           /\ kind \in {"item", "completed"} /\ Thread[Codex!It] \notin codex_spoiled => Codex!At \in {None, Codex!It}
PROOF
<1>1. codex_wire # <<>> /\ codex_wire' = Tail(codex_wire) /\ Head(codex_wire).kind = kind
  BY DEF Codex!Reads
<1>2. Codex!TypeOK /\ Codex!Sent /\ Codex!Followed
  BY DEF Codex!IInv
<1>3. /\ codex_wire' \in Seq(Codex!Lines) /\ Codex!Sent'
      /\ Head(codex_wire) \in Codex!Lines /\ Head(codex_wire) = codex_wire[1] /\ 1 \in 1..Len(codex_wire)
      /\ \A c \in Calls : Codex!Unread(c)' => Codex!Unread(c)
      /\ \A c \in Calls : Head(codex_wire).kind = "completed" /\ Head(codex_wire).turn = c => ~Codex!Unread(c)'
  BY <1>1, <1>2, LineRead
<1>4. Codex!It = codex_wire[1].turn /\ Codex!It \in Calls /\ kind = codex_wire[1].kind
  BY <1>1, <1>3 DEF Codex!It, Codex!Lines
<1>5. Thread[Codex!It] \in Threads
  BY <1>4 DEF Codex!CodexAssumption
<1>6. kind \in {"item", "completed"} => Codex!Unread(Codex!It)
  BY <1>3, <1>4 DEF Codex!Unread
<1>7. codex_server[codex_wire[1].turn].state \in CASE codex_wire[1].kind = "refused"   -> {"refused"}
                                                   [] codex_wire[1].kind = "completed" -> {"over"}
                                                   [] OTHER                            -> {"running", "over"}
  BY <1>2, <1>3 DEF Codex!Sent
<1>8. /\ kind = "refused" => codex_server[Codex!It].state = "refused"
      /\ kind = "completed" => codex_server[Codex!It].state = "over"
      /\ codex_server[Codex!It].state # "none"
  BY <1>4, <1>7
<1>9. ASSUME kind = "refused" PROVE ~Codex!Unread(Codex!It)
  <2>. SUFFICES ASSUME NEW i \in 1..Len(codex_wire), codex_wire[i].turn = Codex!It,
                       codex_wire[i].kind \in {"item", "completed"}
                PROVE  FALSE
    BY DEF Codex!Unread
  <2>1. codex_server[codex_wire[i].turn].state \in CASE codex_wire[i].kind = "refused"   -> {"refused"}
                                                     [] codex_wire[i].kind = "completed" -> {"over"}
                                                     [] OTHER                            -> {"running", "over"}
    BY <1>2 DEF Codex!Sent
  <2>. QED  BY <1>8, <1>9, <2>1
<1>10. Codex!At # None => Codex!At \in Calls /\ Thread[Codex!At] = Thread[Codex!It]
  BY <1>2, <1>5 DEF Codex!At, Codex!Followed, Codex!TypeOK
<1>11. kind \in {"item", "completed"} /\ Thread[Codex!It] \notin codex_spoiled => Codex!At \in {None, Codex!It}
  <2>1. CASE codex_fatal
    BY <1>5, <2>1 DEF Codex!At, Codex!Cleared
  <2>2. CASE ~codex_fatal
    BY <1>2, <1>4, <1>6, <2>2 DEF Codex!At, Codex!Followed, Codex!Current
  <2>. QED  BY <2>1, <2>2
<1>. QED  BY <1>1, <1>3, <1>4, <1>5, <1>6, <1>8, <1>9, <1>10, <1>11

\* turn/start is answered.
LEMMA CodexAnswered ==
    ASSUME Codex!CodexAssumption, Codex!IInv, Codex!Cleared, Codex!StartAnswered
    PROVE  Codex!IInv'
PROOF
<1>1. /\ UNCHANGED <<codex_child, codex_alive, codex_fatal, codex_current, codex_items, codex_held, codex_recent,
                     codex_ended, codex_snapshot, codex_answer, codex_usage, codex_server, codex_spoiled,
                     codex_unhandled>>
      /\ Codex!Reads("started")
  BY DEF Codex!StartAnswered, Codex!process
<1>2. /\ codex_wire' \in Seq(Codex!Lines) /\ Codex!Sent' /\ Codex!It \in Calls
      /\ \A c \in Calls : Codex!Unread(c)' => Codex!Unread(c)
  BY <1>1, CodexReads
<1>3. /\ codex_phase' \in [Calls -> CodexPhases] /\ codex_known' \subseteq Calls
      /\ \A d \in Calls : codex_phase'[d] \in {codex_phase[d], "telling turn"}
  <2>1. \/ codex_phase' = codex_phase /\ codex_known' = codex_known
        \/ codex_phase' = [codex_phase EXCEPT ![Codex!It] = "telling turn"] /\ codex_known' = codex_known \union {Codex!It}
    BY DEF Codex!StartAnswered, Codex!Goes
  <2>2. codex_phase \in [Calls -> CodexPhases] /\ codex_known \subseteq Calls
    BY CodexTyped DEF Codex!IInv, Codex!TypeOK
  <2>. QED  BY <1>2, <2>1, <2>2 DEF CodexPhases
<1>4. Codex!TypeOK'
  BY <1>1, <1>2, <1>3 DEF Codex!IInv, Codex!TypeOK, CodexPhases
<1>5. Codex!Unasked'
  BY <1>1, <1>3 DEF Codex!IInv, Codex!Unasked
<1>6. Codex!Followed'
  BY <1>1, <1>2 DEF Codex!IInv, Codex!Followed, Codex!Current
<1>7. Codex!Gathered'
  BY <1>1, <1>3 DEF Codex!IInv, Codex!Gathered, Codex!OnlyOf
<1>. QED  BY <1>2, <1>4, <1>5, <1>6, <1>7 DEF Codex!IInv

\* turn/start is refused: of this turn nothing more comes.
LEMMA CodexRefused ==
    ASSUME Codex!CodexAssumption, Codex!IInv, Codex!Cleared, Codex!StartRefused
    PROVE  Codex!IInv'
PROOF
<1>1. /\ UNCHANGED <<codex_child, codex_alive, codex_fatal, codex_known, codex_items, codex_held,
                     codex_ended, codex_snapshot, codex_answer, codex_usage, codex_server, codex_spoiled,
                     codex_unhandled>>
      /\ Codex!Reads("refused")
  BY DEF Codex!StartRefused, Codex!process
<1>2. PICK it \in Calls : it = Codex!It
  BY <1>1, CodexReads
<1>3. /\ codex_wire' \in Seq(Codex!Lines) /\ Codex!Sent' /\ codex_server[it].state = "refused" /\ ~Codex!Unread(it)
      /\ \A c \in Calls : Codex!Unread(c)' => Codex!Unread(c)
  BY <1>1, <1>2, CodexReads
<1>4. /\ codex_phase' \in [Calls -> CodexPhases] /\ codex_current' \in [Threads -> Calls \union {None}]
      /\ codex_recent' \subseteq Calls
      /\ \A d \in Calls : codex_phase'[d] \in {codex_phase[d], "failed"}
      /\ \A t \in Threads : codex_current'[t] \in {None, codex_current[t]}
      /\ \A d \in Calls : d # it /\ Codex!Current(d) => Codex!Current(d)'
  <2>1. Codex!TypeOK
    BY DEF Codex!IInv
  <2>2. CASE codex_phase[it] = "starting"
    <3>1. Codex!Ends(it, "failed")
      BY <1>2, <2>2 DEF Codex!StartRefused
    <3>. QED  BY <1>2, <2>1, <3>1, CodexLeaves
  <2>3. CASE codex_phase[it] # "starting"
    <3>1. UNCHANGED <<codex_phase, codex_current, codex_recent>>
      BY <1>2, <2>3 DEF Codex!StartRefused
    <3>. QED  BY <2>1, <3>1, CodexTyped DEF Codex!TypeOK, Codex!Current
  <2>. QED  BY <2>2, <2>3
<1>5. Codex!TypeOK'
  BY <1>1, <1>3, <1>4 DEF Codex!IInv, Codex!TypeOK, CodexPhases
<1>6. Codex!Unasked'
  BY <1>1, <1>4 DEF Codex!IInv, Codex!Unasked
<1>7. Codex!Followed'
  <2>1. \A t \in Threads : codex_current'[t] # None => Thread[codex_current'[t]] = t
    BY <1>4 DEF Codex!IInv, Codex!Followed
  <2>2. ASSUME ~codex_fatal, NEW d \in Calls, Thread[d] \notin codex_spoiled
        PROVE  /\ codex_server[d].state \in {"asked", "running"} \/ Codex!Unread(d) => Codex!Current(d)'
               /\ codex_ended[d] # None => codex_server[d].state = "over" /\ ~Codex!Unread(d)
    <3>1. /\ codex_server[d].state \in {"asked", "running"} \/ Codex!Unread(d) => Codex!Current(d)
          /\ codex_ended[d] # None => codex_server[d].state = "over" /\ ~Codex!Unread(d)
      BY <2>2 DEF Codex!IInv, Codex!Followed
    <3>. QED  BY <1>3, <1>4, <3>1
  <2>. QED  BY <1>1, <1>3, <2>1, <2>2 DEF Codex!Followed
<1>8. Codex!Gathered'
  BY <1>1, <1>4 DEF Codex!IInv, Codex!Gathered, Codex!OnlyOf
<1>. QED  BY <1>3, <1>5, <1>6, <1>7, <1>8 DEF Codex!IInv

LEMMA OneMore ==
    ASSUME NEW c \in Calls, NEW s \in Seq(Calls), Codex!OnlyOf(c, s)
    PROVE  Append(s, c) \in Seq(Calls) /\ Codex!OnlyOf(c, Append(s, c))
PROOF
<1>1. /\ Append(s, c) \in Seq(Calls) /\ Len(Append(s, c)) = Len(s) + 1 /\ Len(s) \in Nat
      /\ \A i \in 1..Len(s) : Append(s, c)[i] = s[i]
      /\ Append(s, c)[Len(s) + 1] = c
  BY AppendProperties, LenProperties
<1>2. ASSUME NEW i \in 1..Len(Append(s, c)) PROVE Append(s, c)[i] = c
  <2>1. i \in 1..Len(s) \/ i = Len(s) + 1
    BY <1>1, <1>2
  <2>. QED  BY <1>1, <2>1 DEF Codex!OnlyOf
<1>. QED  BY <1>1, <1>2 DEF Codex!OnlyOf

\* Usage goes to the turn it is about, or is held by the turn the thread has.
LEMMA CodexCounts ==
    ASSUME Codex!CodexAssumption, Codex!IInv, Codex!Cleared, Codex!UsageArrives
    PROVE  Codex!IInv'
PROOF
<1>1. /\ UNCHANGED <<codex_child, codex_alive, codex_fatal, codex_phase, codex_current, codex_known, codex_items,
                     codex_ended, codex_snapshot, codex_recent, codex_answer, codex_server, codex_spoiled,
                     codex_unhandled>>
      /\ Codex!Reads("usage")
  BY DEF Codex!UsageArrives, Codex!process
<1>2. PICK it \in Calls : it = Codex!It
  BY <1>1, CodexReads
<1>3. /\ codex_wire' \in Seq(Codex!Lines) /\ Codex!Sent' /\ (Codex!At # None => Codex!At \in Calls)
      /\ \A c \in Calls : Codex!Unread(c)' => Codex!Unread(c)
  BY <1>1, CodexReads
<1>4. /\ codex_usage \in [Calls -> Seq(Calls)] /\ codex_held \in [Calls -> Seq(Calls)]
      /\ codex_usage[it] \in Seq(Calls) /\ PendingLimit \in Nat \ {0}
  BY DEF Codex!IInv, Codex!TypeOK, Codex!CodexAssumption
<1>5. /\ \/ codex_usage' = codex_usage
         \/ codex_usage' = [codex_usage EXCEPT ![it] = Append(codex_usage[it], it)]
      /\ \/ codex_held' = codex_held
         \/ /\ Codex!At # None
            /\ codex_held' = [codex_held EXCEPT ![Codex!At] = IF Len(codex_held[Codex!At]) = PendingLimit
                                                              THEN Append(Tail(codex_held[Codex!At]), it)
                                                              ELSE Append(codex_held[Codex!At], it)]
  BY <1>2 DEF Codex!UsageArrives
<1>6. Codex!OnlyOf(it, codex_usage[it])
  BY DEF Codex!IInv, Codex!Gathered
<1>7. Append(codex_usage[it], it) \in Seq(Calls) /\ Codex!OnlyOf(it, Append(codex_usage[it], it))
  BY <1>4, <1>6, OneMore
<1>8. codex_usage' \in [Calls -> Seq(Calls)] /\ \A d \in Calls : Codex!OnlyOf(d, codex_usage'[d])
  <2>1. \A d \in Calls : Codex!OnlyOf(d, codex_usage[d])
    BY DEF Codex!IInv, Codex!Gathered
  <2>. QED  BY <1>4, <1>5, <1>7, <2>1
<1>9. codex_held' \in [Calls -> Seq(Calls)]
  <2>1. CASE codex_held' = codex_held
    BY <1>4, <2>1
  <2>2. CASE codex_held' # codex_held
    <3>1. PICK at \in Calls : at = Codex!At
      BY <1>3, <1>5, <2>2
    <3>2. codex_held[at] \in Seq(Calls)
      BY <1>4
    <3>3. Append(codex_held[at], it) \in Seq(Calls)
      BY <3>2
    <3>4. Len(codex_held[at]) = PendingLimit => Append(Tail(codex_held[at]), it) \in Seq(Calls)
      <4>1. Len(codex_held[at]) = PendingLimit => codex_held[at] # <<>>
        BY <1>4, <3>2
      <4>. QED  BY <3>2, <4>1, HeadTailProperties
    <3>. QED  BY <1>4, <1>5, <2>2, <3>1, <3>3, <3>4
  <2>. QED  BY <2>1, <2>2
<1>10. Codex!TypeOK'
  BY <1>1, <1>3, <1>8, <1>9 DEF Codex!IInv, Codex!TypeOK
<1>11. Codex!Unasked'
  BY <1>1 DEF Codex!IInv, Codex!Unasked
<1>12. Codex!Followed'
  BY <1>1, <1>3 DEF Codex!IInv, Codex!Followed, Codex!Current
<1>13. Codex!Gathered'
  BY <1>1, <1>8 DEF Codex!IInv, Codex!Gathered, Codex!OnlyOf
<1>. QED  BY <1>3, <1>10, <1>11, <1>12, <1>13 DEF Codex!IInv

\* An item goes to the turn its thread has: unless the thread is spoiled, the one it is of.
LEMMA CodexCollects ==
    ASSUME Codex!CodexAssumption, Codex!IInv, Codex!Cleared, Codex!ItemArrives
    PROVE  Codex!IInv'
PROOF
<1>1. /\ UNCHANGED <<codex_child, codex_alive, codex_fatal, codex_phase, codex_current, codex_known, codex_held,
                     codex_ended, codex_snapshot, codex_recent, codex_answer, codex_usage, codex_server,
                     codex_spoiled, codex_unhandled>>
      /\ Codex!Reads("item")
      /\ codex_items' = IF Codex!At = None THEN codex_items
                        ELSE [codex_items EXCEPT ![Codex!At] = Append(codex_items[Codex!At], Codex!It)]
  BY DEF Codex!ItemArrives, Codex!process
<1>2. PICK it \in Calls : it = Codex!It
  BY <1>1, CodexReads
<1>3. /\ codex_wire' \in Seq(Codex!Lines) /\ Codex!Sent'
      /\ Codex!At # None => Codex!At \in Calls /\ Thread[Codex!At] = Thread[it]
      /\ Thread[it] \notin codex_spoiled => Codex!At \in {None, it}
      /\ \A c \in Calls : Codex!Unread(c)' => Codex!Unread(c)
  BY <1>1, <1>2, CodexReads
<1>4. codex_items \in [Calls -> Seq(Calls)]
  BY DEF Codex!IInv, Codex!TypeOK
<1>5. codex_items' \in [Calls -> Seq(Calls)]
  BY <1>1, <1>2, <1>3, <1>4
<1>6. ASSUME NEW d \in Calls, Thread[d] \notin codex_spoiled PROVE Codex!OnlyOf(d, codex_items'[d])
  <2>1. Codex!OnlyOf(d, codex_items[d]) /\ codex_items[d] \in Seq(Calls)
    BY <1>4, <1>6 DEF Codex!IInv, Codex!Gathered
  <2>2. CASE Codex!At # d
    <3>1. codex_items'[d] = codex_items[d]
      BY <1>1, <1>3, <1>4, <2>2
    <3>. QED  BY <2>1, <3>1
  <2>3. CASE Codex!At = d
    <3>1. Codex!At # None /\ it = d
      BY <1>3, <1>6, <2>3 DEF Codex!CodexAssumption
    <3>2. codex_items'[d] = Append(codex_items[d], d)
      BY <1>1, <1>2, <1>4, <2>3, <3>1
    <3>. QED  BY <2>1, <3>2, OneMore
  <2>. QED  BY <2>2, <2>3
<1>7. Codex!TypeOK'
  BY <1>1, <1>3, <1>5 DEF Codex!IInv, Codex!TypeOK
<1>8. Codex!Unasked'
  BY <1>1 DEF Codex!IInv, Codex!Unasked
<1>9. Codex!Followed'
  BY <1>1, <1>3 DEF Codex!IInv, Codex!Followed, Codex!Current
<1>10. Codex!Gathered'
  BY <1>1, <1>6 DEF Codex!IInv, Codex!Gathered, Codex!OnlyOf
<1>. QED  BY <1>3, <1>7, <1>8, <1>9, <1>10 DEF Codex!IInv

\* And so does a completion.
LEMMA CodexCompletes ==
    ASSUME Codex!CodexAssumption, Codex!IInv, Codex!Cleared, Codex!CompletedArrives
    PROVE  Codex!IInv'
PROOF
<1>1. /\ UNCHANGED <<codex_child, codex_alive, codex_fatal, codex_current, codex_known, codex_items, codex_held,
                     codex_recent, codex_answer, codex_usage, codex_server, codex_spoiled, codex_unhandled>>
      /\ Codex!Reads("completed")
  BY DEF Codex!CompletedArrives, Codex!process
<1>2. PICK it \in Calls : it = Codex!It
  BY <1>1, CodexReads
<1>3. /\ codex_wire' \in Seq(Codex!Lines) /\ Codex!Sent' /\ codex_server[it].state = "over"
      /\ Codex!At # None => Codex!At \in Calls /\ Thread[Codex!At] = Thread[it]
      /\ Thread[it] \notin codex_spoiled => Codex!At \in {None, it}
      /\ \A c \in Calls : Codex!Unread(c)' => Codex!Unread(c)
      /\ ~Codex!Unread(it)'
  BY <1>1, <1>2, CodexReads
<1>4. /\ codex_ended \in [Calls -> Calls \union {None}] /\ codex_snapshot \in [Calls -> Seq(Calls) \union {None}]
      /\ codex_phase \in [Calls -> CodexPhases] /\ codex_items \in [Calls -> Seq(Calls)]
  BY CodexTyped DEF Codex!IInv, Codex!TypeOK
<1>5. CASE ~Codex!Matches
  <2>1. UNCHANGED <<codex_phase, codex_ended, codex_snapshot>>
    BY <1>5 DEF Codex!CompletedArrives
  <2>2. Codex!TypeOK' /\ Codex!Unasked'
    BY <1>1, <1>3, <2>1 DEF Codex!IInv, Codex!TypeOK, Codex!Unasked
  <2>3. Codex!Followed'
    BY <1>1, <1>3, <2>1 DEF Codex!IInv, Codex!Followed, Codex!Current
  <2>4. Codex!Gathered'
    BY <1>1, <2>1 DEF Codex!IInv, Codex!Gathered, Codex!OnlyOf
  <2>. QED  BY <1>3, <2>2, <2>3, <2>4 DEF Codex!IInv
<1>6. CASE Codex!Matches
  <2>1. PICK at \in Calls : at = Codex!At
    BY <1>3, <1>6 DEF Codex!Matches
  <2>2. /\ codex_ended' = [codex_ended EXCEPT ![at] = it]
        /\ \/ /\ codex_phase[at] = "running" /\ codex_phase' = [codex_phase EXCEPT ![at] = "settling"]
              /\ codex_snapshot' = [codex_snapshot EXCEPT ![at] = codex_items[at]]
           \/ codex_phase[at] # "running" /\ UNCHANGED <<codex_phase, codex_snapshot>>
    BY <1>2, <1>6, <2>1 DEF Codex!CompletedArrives, Codex!Goes
  <2>3. /\ codex_ended' \in [Calls -> Calls \union {None}] /\ codex_snapshot' \in [Calls -> Seq(Calls) \union {None}]
        /\ codex_phase' \in [Calls -> CodexPhases]
        /\ codex_ended'[at] = it
        /\ \/ codex_snapshot'[at] = codex_snapshot[at] /\ codex_phase'[at] = codex_phase[at]
           \/ codex_snapshot'[at] = codex_items[at] /\ codex_phase'[at] = "settling" /\ codex_phase[at] = "running"
        /\ \A d \in Calls : d # at => /\ codex_ended'[d] = codex_ended[d] /\ codex_phase'[d] = codex_phase[d]
                                      /\ codex_snapshot'[d] = codex_snapshot[d]
    BY <1>4, <2>2 DEF CodexPhases
  <2>4. Codex!TypeOK'
    BY <1>1, <1>3, <2>3 DEF Codex!IInv, Codex!TypeOK, CodexPhases
  <2>5. Codex!Unasked'
    BY <1>1, <2>3 DEF Codex!IInv, Codex!Unasked
  <2>6. Thread[at] \notin codex_spoiled => at = it
    BY <1>2, <1>3, <1>6, <2>1 DEF Codex!Matches
  <2>7. it # None
    BY DEF Codex!CodexAssumption
  <2>8. Codex!Followed'
    <3>1. ASSUME ~codex_fatal, NEW d \in Calls, Thread[d] \notin codex_spoiled
          PROVE  /\ codex_server[d].state \in {"asked", "running"} \/ Codex!Unread(d)' => Codex!Current(d)
                 /\ codex_ended'[d] # None => codex_server[d].state = "over" /\ ~Codex!Unread(d)'
      <4>1. /\ codex_server[d].state \in {"asked", "running"} \/ Codex!Unread(d) => Codex!Current(d)
            /\ codex_ended[d] # None => codex_server[d].state = "over" /\ ~Codex!Unread(d)
        BY <3>1 DEF Codex!IInv, Codex!Followed
      <4>. QED  BY <1>3, <2>3, <2>6, <3>1, <4>1
    <3>2. \A d \in Calls : Codex!Current(d)' <=> Codex!Current(d)
      BY <1>1 DEF Codex!Current
    <3>. QED  BY <1>1, <3>1, <3>2 DEF Codex!IInv, Codex!Followed
  <2>9. Codex!Gathered'
    <3>. SUFFICES ASSUME NEW d \in Calls
                  PROVE /\ Codex!OnlyOf(d, codex_usage[d])
                        /\ codex_phase'[d] = "settling" => codex_ended'[d] # None
                        /\ Thread[d] \notin codex_spoiled =>
                              /\ codex_ended'[d] \in {None, d} /\ Codex!OnlyOf(d, codex_items[d])
                              /\ codex_snapshot'[d] # None => Codex!OnlyOf(d, codex_snapshot'[d])
                              /\ codex_phase'[d] \in {"settling", "done"} => codex_ended'[d] = d
                              /\ codex_phase'[d] = "done" => /\ codex_answer[d] \in Seq(Calls) \ {<<>>}
                                                             /\ Codex!OnlyOf(d, codex_answer[d])
      BY <1>1 DEF Codex!Gathered, Codex!OnlyOf
    <3>1. CASE d = at
      BY <2>3, <2>6, <2>7, <3>1 DEF Codex!IInv, Codex!Gathered
    <3>2. CASE d # at
      BY <2>3, <3>2 DEF Codex!IInv, Codex!Gathered
    <3>. QED  BY <3>1, <3>2
  <2>. QED  BY <1>3, <2>4, <2>5, <2>8, <2>9 DEF Codex!IInv
<1>. QED  BY <1>5, <1>6

\* What fails, fails for every turn at once.
LEMMA CodexFails ==
    ASSUME Codex!CodexAssumption, Codex!IInv, Codex!Exit \/ Codex!Malformed \/ Codex!Close
    PROVE  Codex!IInv'
PROOF
<1>1. /\ UNCHANGED <<codex_known, codex_items, codex_held, codex_ended, codex_snapshot, codex_answer, codex_usage,
                     codex_wire, codex_server, codex_spoiled>>
      /\ codex_child' \in {codex_child, "gone", "term"} /\ codex_alive' \in {codex_alive, FALSE} /\ Codex!Fail
  BY DEF Codex!Exit, Codex!Malformed, Codex!Close
<1>2. Codex!TypeOK
  BY DEF Codex!IInv
<1>3. /\ codex_fatal' = TRUE
      /\ codex_phase' \in [Calls -> CodexPhases] /\ codex_current' \in [Threads -> Calls \union {None}]
      /\ codex_recent' \subseteq Calls /\ codex_unhandled' \in BOOLEAN
      /\ \A d \in Calls : codex_phase'[d] \in {codex_phase[d], "failed"}
      /\ \A t \in Threads : codex_current'[t] \in {None, codex_current[t]}
  <2>1. CASE codex_fatal
    <3>1. UNCHANGED <<codex_fatal, codex_phase, codex_current, codex_recent, codex_unhandled>>
      BY <1>1, <2>1 DEF Codex!Fail
    <3>2. codex_fatal' = TRUE
      BY <1>2, <2>1, <3>1 DEF Codex!TypeOK
    <3>. QED  BY <1>2, <3>1, <3>2, CodexTyped DEF Codex!TypeOK
  <2>2. CASE ~codex_fatal
    <3>1. /\ codex_fatal' = TRUE
          /\ codex_phase' = [d \in Calls |-> IF codex_phase[d] \in {"starting", "running"} THEN "failed"
                                             ELSE codex_phase[d]]
          /\ codex_current' = [t \in Threads |-> None]
          /\ codex_recent' = {d \in codex_known : codex_phase[d] = "running"}
      BY <1>1, <2>2 DEF Codex!Fail
    <3>2. codex_unhandled' \in BOOLEAN
      BY <1>1, <1>2, <2>2 DEF Codex!Fail, Codex!TypeOK
    <3>3. codex_recent' \subseteq Calls
      BY <1>2, <3>1 DEF Codex!TypeOK
    <3>4. codex_phase' \in [Calls -> CodexPhases] /\ \A d \in Calls : codex_phase'[d] \in {codex_phase[d], "failed"}
      BY <1>2, <3>1, CodexTyped DEF CodexPhases
    <3>. QED  BY <3>1, <3>2, <3>3, <3>4
  <2>. QED  BY <2>1, <2>2
<1>4. Codex!TypeOK'
  <2>1. codex_child' \in {"up", "term", "gone"} /\ codex_alive' \in BOOLEAN
    BY <1>1, <1>2 DEF Codex!TypeOK
  <2>2. codex_fatal' \in BOOLEAN
    BY <1>3
  <2>. QED  BY <1>1, <1>2, <1>3, <2>1, <2>2 DEF Codex!TypeOK, CodexPhases
<1>5. Codex!Sent' /\ \A d : Codex!Unread(d)' <=> Codex!Unread(d)
  BY <1>1, WireKept DEF Codex!IInv
<1>6. Codex!Unasked'
  BY <1>1, <1>3 DEF Codex!IInv, Codex!Unasked
<1>7. Codex!Followed'
  BY <1>3 DEF Codex!IInv, Codex!Followed
<1>8. Codex!Gathered'
  BY <1>1, <1>3 DEF Codex!IInv, Codex!Gathered, Codex!OnlyOf
<1>. QED  BY <1>4, <1>5, <1>6, <1>7, <1>8 DEF Codex!IInv

\* What the app-server may say, by how far it is with the turn.
CodexSays(before, after, kind) ==
    <<before, after, kind>> \in {<<"asked", "running", "started">>, <<"asked", "refused", "refused">>,
                                 <<"running", "running", "usage">>, <<"over", "over", "usage">>,
                                 <<"running", "running", "item">>, <<"running", "over", "completed">>}

LEMMA CodexServes ==
    ASSUME Codex!CodexAssumption, Codex!IInv, NEW c \in Calls, Codex!AppServer(c)
    PROVE  \E kind \in {"started", "refused", "usage", "item", "completed"} :
             /\ Codex!Writes(kind, c) /\ Codex!Serves
             /\ codex_server' \in [Calls -> CodexTurns]
             /\ CodexSays(codex_server[c].state, codex_server'[c].state, kind)
             /\ \A d \in Calls : d # c => codex_server'[d] = codex_server[d]
PROOF
<1>1. codex_server \in [Calls -> CodexTurns] /\ codex_server[c] \in CodexTurns
  BY CodexTyped DEF Codex!IInv
<1>2. CASE Codex!Accept(c)
  BY <1>1, <1>2 DEF Codex!Accept, Codex!Server, CodexTurns, CodexSays
<1>3. CASE Codex!Refuse(c)
  BY <1>1, <1>3 DEF Codex!Refuse, Codex!Server, CodexTurns, CodexSays
<1>4. CASE Codex!SayUsage(c)
  BY <1>1, <1>4 DEF Codex!SayUsage, CodexTurns, CodexSays
<1>5. CASE Codex!SayItem(c)
  BY <1>1, <1>5 DEF Codex!SayItem, CodexTurns, CodexSays
<1>6. CASE Codex!Complete(c)
  BY <1>1, <1>6 DEF Codex!Complete, Codex!Server, CodexTurns, CodexSays
<1>. QED  BY <1>2, <1>3, <1>4, <1>5, <1>6 DEF Codex!AppServer

LEMMA CodexServed ==
    ASSUME Codex!CodexAssumption, Codex!IInv, NEW c \in Calls, Codex!AppServer(c)
    PROVE  Codex!IInv'
PROOF
<1>1. PICK kind \in {"started", "refused", "usage", "item", "completed"} :
        /\ Codex!Writes(kind, c) /\ Codex!Serves
        /\ codex_server' \in [Calls -> CodexTurns]
        /\ CodexSays(codex_server[c].state, codex_server'[c].state, kind)
        /\ \A d \in Calls : d # c => codex_server'[d] = codex_server[d]
  BY CodexServes
<1>2. /\ UNCHANGED <<codex_child, codex_alive, codex_fatal, codex_phase, codex_current, codex_known, codex_items,
                     codex_held, codex_ended, codex_snapshot, codex_recent, codex_answer, codex_usage, codex_spoiled,
                     codex_unhandled>>
      /\ codex_wire' = Append(codex_wire, [kind |-> kind, turn |-> c])
  BY <1>1 DEF Codex!Writes, Codex!Serves, Codex!process, Codex!accumulators
<1>3. codex_wire \in Seq(Codex!Lines) /\ [kind |-> kind, turn |-> c] \in Codex!Lines
  BY CodexTyped DEF Codex!IInv, Codex!Lines
<1>4. /\ codex_wire' \in Seq(Codex!Lines) /\ Len(codex_wire') = Len(codex_wire) + 1 /\ Len(codex_wire) \in Nat
      /\ \A i \in 1..Len(codex_wire) : codex_wire'[i] = codex_wire[i]
      /\ codex_wire'[Len(codex_wire) + 1] = [kind |-> kind, turn |-> c]
  BY <1>2, <1>3, AppendProperties, LenProperties
<1>. DEFINE n == Len(codex_wire)
<1>5. /\ \A i \in 1..Len(codex_wire') : i \in 1..n \/ i = n + 1
      /\ codex_wire'[n + 1].kind = kind /\ codex_wire'[n + 1].turn = c
  BY <1>4
<1>6. ASSUME NEW d \in Calls, Codex!Unread(d)' PROVE Codex!Unread(d) \/ (d = c /\ kind \in {"item", "completed"})
  <2>1. PICK i \in 1..Len(codex_wire') : codex_wire'[i].turn = d /\ codex_wire'[i].kind \in {"item", "completed"}
    BY <1>6 DEF Codex!Unread
  <2>2. CASE i \in 1..n
    <3>1. codex_wire[i].turn = d /\ codex_wire[i].kind \in {"item", "completed"}
      BY <1>4, <2>1, <2>2
    <3>2. i \in 1..Len(codex_wire)
      BY <2>2
    <3>. QED  BY <3>1, <3>2 DEF Codex!Unread
  <2>3. CASE i = n + 1
    BY <1>5, <2>1, <2>3
  <2>. QED  BY <1>5, <2>2, <2>3
<1>7. ASSUME NEW i \in 1..n
      PROVE  /\ codex_wire[i].turn \in Calls
             /\ codex_server[codex_wire[i].turn].state \in CASE codex_wire[i].kind = "refused"   -> {"refused"}
                                                             [] codex_wire[i].kind = "completed" -> {"over"}
                                                             [] OTHER -> {"running", "over"}
  <2>1. codex_wire[i] \in Codex!Lines
    BY <1>3
  <2>. QED  BY <2>1 DEF Codex!Lines, Codex!IInv, Codex!Sent
<1>8. Codex!Sent'
  <2>1. ASSUME NEW i \in 1..Len(codex_wire')
        PROVE  codex_server'[codex_wire'[i].turn].state \in CASE codex_wire'[i].kind = "refused"   -> {"refused"}
                                                              [] codex_wire'[i].kind = "completed" -> {"over"}
                                                              [] OTHER -> {"running", "over"}
    <3>1. CASE i \in 1..n
      <4>1. codex_wire'[i] = codex_wire[i]
        BY <1>4, <3>1
      <4>2. CASE codex_wire[i].turn # c
        BY <1>1, <1>7, <3>1, <4>1, <4>2
      <4>3. CASE codex_wire[i].turn = c
        BY <1>1, <1>7, <3>1, <4>1, <4>3 DEF CodexSays
      <4>. QED  BY <4>2, <4>3
    <3>2. CASE i = n + 1
      BY <1>1, <1>5, <3>2 DEF CodexSays
    <3>. QED  BY <1>5, <3>1, <3>2
  <2>2. ASSUME NEW i \in 1..Len(codex_wire'), NEW j \in 1..Len(codex_wire'),
               codex_wire'[i].kind = "completed", i < j, codex_wire'[j].turn = codex_wire'[i].turn,
               codex_wire'[j].kind \in {"item", "completed"}
        PROVE  FALSE
    <3>1. i \in 1..n
      BY <1>4, <1>5, <2>2
    <3>2. codex_wire'[i] = codex_wire[i]
      BY <1>4, <3>1
    <3>3. CASE j \in 1..n
      BY <1>4, <2>2, <3>1, <3>2, <3>3 DEF Codex!IInv, Codex!Sent
    <3>4. CASE j = n + 1
      <4>1. codex_wire[i].turn = c /\ kind \in {"item", "completed"}
        BY <1>5, <2>2, <3>2, <3>4
      <4>2. codex_server[c].state = "over"
        BY <1>7, <2>2, <3>1, <3>2, <4>1
      <4>. QED  BY <1>1, <4>1, <4>2 DEF CodexSays
    <3>. QED  BY <1>5, <3>3, <3>4
  <2>. QED  BY <2>1, <2>2 DEF Codex!Sent
<1>9. Codex!TypeOK'
  BY <1>1, <1>2, <1>4 DEF Codex!IInv, Codex!TypeOK, CodexTurns
<1>10. Codex!Unasked'
  BY <1>1, <1>2 DEF Codex!IInv, Codex!Unasked, CodexSays
<1>11. Codex!Followed'
  <2>1. ASSUME ~codex_fatal, NEW d \in Calls, Thread[d] \notin codex_spoiled
        PROVE  /\ codex_server'[d].state \in {"asked", "running"} \/ Codex!Unread(d)' => Codex!Current(d)
               /\ codex_ended[d] # None => codex_server'[d].state = "over" /\ ~Codex!Unread(d)'
    <3>1. /\ codex_server[d].state \in {"asked", "running"} \/ Codex!Unread(d) => Codex!Current(d)
          /\ codex_ended[d] # None => codex_server[d].state = "over" /\ ~Codex!Unread(d)
      BY <2>1 DEF Codex!IInv, Codex!Followed
    <3>2. CASE d # c
      BY <1>1, <1>6, <3>1, <3>2
    <3>3. CASE d = c
      <4>1. codex_server'[d].state \in {"asked", "running"} \/ Codex!Unread(d)' => Codex!Current(d)
        BY <1>1, <1>6, <3>1, <3>3 DEF CodexSays
      <4>2. ASSUME codex_ended[d] # None PROVE codex_server'[d].state = "over" /\ ~Codex!Unread(d)'
        <5>1. codex_server[c].state = "over" /\ ~Codex!Unread(d)
          BY <3>1, <3>3, <4>2
        <5>2. codex_server'[c].state = "over" /\ kind = "usage"
          BY <1>1, <5>1 DEF CodexSays
        <5>. QED  BY <1>6, <3>3, <5>1, <5>2
      <4>. QED  BY <4>1, <4>2
    <3>. QED  BY <3>2, <3>3
  <2>2. \A d \in Calls : Codex!Current(d)' <=> Codex!Current(d)
    BY <1>2 DEF Codex!Current
  <2>. QED  BY <1>2, <2>1, <2>2 DEF Codex!IInv, Codex!Followed
<1>12. Codex!Gathered'
  BY <1>2 DEF Codex!IInv, Codex!Gathered, Codex!OnlyOf
<1>. QED  BY <1>8, <1>9, <1>10, <1>11, <1>12 DEF Codex!IInv

\* What has failed gets no turn again.
LEMMA CodexCleared == Codex!Spec => []Codex!Cleared
PROOF
<1>1. Codex!Init => Codex!Cleared
  BY DEF Codex!Init, Codex!Cleared
<1>2. Codex!Cleared /\ Codex!Next => Codex!Cleared'
  <2>. SUFFICES ASSUME Codex!Cleared, Codex!Next PROVE Codex!Cleared'
    OBVIOUS
  <2>1. ASSUME NEW c, NEW to, Codex!Ends(c, to), codex_fatal' = codex_fatal PROVE Codex!Cleared'
    BY <2>1 DEF Codex!Cleared, Codex!Ends, Codex!Drop
  <2>2. ASSUME NEW c \in Calls, Codex!Turn(c) PROVE Codex!Cleared'
    <3>1. CASE Codex!Run(c) \/ Codex!Prepare(c) \/ Codex!Forget(c)
      BY <3>1 DEF Codex!Cleared, Codex!Run, Codex!Prepare, Codex!Forget, Codex!process, Codex!accumulators
    <3>2. CASE Codex!StartTurn(c)
      BY <3>2 DEF Codex!Cleared, Codex!StartTurn, Codex!process
    <3>3. CASE Codex!StartTimesOut(c)
      BY <2>1, <3>3 DEF Codex!StartTimesOut, Codex!process
    <3>4. CASE Codex!TurnTold(c)
      <4>1. codex_fatal' = codex_fatal /\ (Codex!Ends(c, "failed") \/ codex_current' = codex_current)
        BY <3>4 DEF Codex!TurnTold, Codex!process
      <4>. QED  BY <2>1, <4>1 DEF Codex!Cleared
    <3>5. CASE Codex!Settle(c)
      <4>1. codex_fatal' = codex_fatal /\ \E to : Codex!Ends(c, to)
        BY <3>5 DEF Codex!Settle, Codex!process
      <4>. QED  BY <2>1, <4>1
    <3>. QED  BY <2>2, <3>1, <3>2, <3>3, <3>4, <3>5 DEF Codex!Turn
  <2>3. CASE Codex!Line
    <3>1. CASE Codex!StartRefused
      <4>1. codex_fatal' = codex_fatal /\ (Codex!Ends(Codex!It, "failed") \/ codex_current' = codex_current)
        BY <3>1 DEF Codex!StartRefused, Codex!process
      <4>. QED  BY <2>1, <4>1 DEF Codex!Cleared
    <3>2. CASE ~Codex!StartRefused
      BY <2>3, <3>2 DEF Codex!Cleared, Codex!Line, Codex!StartAnswered, Codex!UsageArrives, Codex!ItemArrives,
                        Codex!CompletedArrives, Codex!process
    <3>. QED  BY <3>1, <3>2
  <2>4. CASE Codex!Exit \/ Codex!Malformed \/ Codex!Close
    BY <2>4 DEF Codex!Cleared, Codex!Exit, Codex!Malformed, Codex!Close, Codex!Fail
  <2>5. ASSUME NEW c \in Calls, Codex!AppServer(c) PROVE Codex!Cleared'
    BY <2>5 DEF Codex!Cleared, Codex!AppServer, Codex!Accept, Codex!Refuse, Codex!SayUsage, Codex!SayItem,
                Codex!Complete, Codex!Serves, Codex!process, Codex!accumulators
  <2>. QED  BY <2>2, <2>3, <2>4, <2>5 DEF Codex!Next
<1>3. Codex!Cleared /\ UNCHANGED Codex!vars => Codex!Cleared'
  BY DEF Codex!Cleared, Codex!vars, Codex!process, Codex!accumulators
<1>. QED  BY <1>1, <1>2, <1>3, PTL DEF Codex!Spec

LEMMA CodexInvariance == ASSUME Codex!CodexAssumption PROVE Codex!Spec => []Codex!IInv
PROOF
<1>1. Codex!Init => Codex!IInv
  BY CodexBegins
<1>2. Codex!IInv /\ Codex!Cleared /\ Codex!Next => Codex!IInv'
  <2>. SUFFICES ASSUME Codex!IInv, Codex!Cleared, Codex!Next PROVE Codex!IInv'
    OBVIOUS
  <2>1. ASSUME NEW c \in Calls, Codex!Turn(c) PROVE Codex!IInv'
    BY <2>1, CodexPrepares, CodexAsks, CodexGivesUp, CodexIsTold, CodexSettles DEF Codex!Turn
  <2>2. CASE Codex!Line
    BY <2>2, CodexAnswered, CodexRefused, CodexCounts, CodexCollects, CodexCompletes DEF Codex!Line
  <2>. QED  BY <2>1, <2>2, CodexFails, CodexServed DEF Codex!Next
<1>3. Codex!IInv /\ UNCHANGED Codex!vars => Codex!IInv'
  <2>. SUFFICES ASSUME Codex!IInv, UNCHANGED Codex!vars PROVE Codex!IInv'
    OBVIOUS
  <2>1. UNCHANGED <<codex_child, codex_alive, codex_fatal, codex_phase, codex_current, codex_known, codex_items,
                    codex_held, codex_ended, codex_snapshot, codex_recent, codex_answer, codex_usage, codex_wire,
                    codex_server, codex_spoiled, codex_unhandled>>
    BY DEF Codex!vars, Codex!process, Codex!accumulators
  <2>2. Codex!Sent' /\ \A c : Codex!Unread(c)' <=> Codex!Unread(c)
    BY <2>1, WireKept DEF Codex!IInv
  <2>3. Codex!TypeOK' /\ Codex!Unasked'
    BY <2>1 DEF Codex!IInv, Codex!TypeOK, Codex!Unasked
  <2>4. Codex!Followed'
    BY <2>1, <2>2 DEF Codex!IInv, Codex!Followed, Codex!Current
  <2>5. Codex!Gathered'
    BY <2>1 DEF Codex!IInv, Codex!Gathered, Codex!OnlyOf
  <2>. QED  BY <2>2, <2>3, <2>4, <2>5 DEF Codex!IInv
<1>. QED  BY <1>1, <1>2, <1>3, CodexCleared, PTL DEF Codex!Spec

LEMMA CodexRanges ==
    ASSUME NEW c, NEW s \in Seq(Calls), Codex!OnlyOf(c, s)
    PROVE  Codex!Range(s) \subseteq {c} /\ (s # <<>> => Codex!Range(s) = {c})
PROOF
<1>1. DOMAIN s = 1..Len(s) /\ Len(s) \in Nat /\ (s # <<>> => 1 \in 1..Len(s))
  BY LenProperties, EmptySeq
<1>. QED  BY <1>1 DEF Codex!Range, Codex!OnlyOf

\* Usage goes to the turn it is about, early, late or among the turns that follow one another on a thread,
\* and a turn answers with what it was told of itself, unless a turn/start of its thread was given up
\* (CodexAppServerClient.runTurn, handleLine).
THEOREM CodexTurnsApart == ASSUME Codex!CodexAssumption PROVE Codex!Spec => []Codex!TurnsApart
PROOF
<1>1. ASSUME Codex!IInv PROVE Codex!TurnsApart
  <2>. SUFFICES ASSUME NEW c \in Calls
                PROVE  /\ Codex!Range(codex_usage[c]) \subseteq {c}
                       /\ codex_phase[c] = "done" /\ Thread[c] \notin codex_spoiled
                            => codex_ended[c] = c /\ Codex!Range(codex_answer[c]) = {c}
    BY DEF Codex!TurnsApart
  <2>1. codex_usage[c] \in Seq(Calls) /\ Codex!OnlyOf(c, codex_usage[c])
    BY <1>1 DEF Codex!IInv, Codex!TypeOK, Codex!Gathered
  <2>2. ASSUME codex_phase[c] = "done", Thread[c] \notin codex_spoiled
        PROVE  codex_ended[c] = c /\ codex_answer[c] \in Seq(Calls) \ {<<>>} /\ Codex!OnlyOf(c, codex_answer[c])
    BY <1>1, <2>2 DEF Codex!IInv, Codex!Gathered
  <2>. QED  BY <2>1, <2>2, CodexRanges
<1>. QED  BY <1>1, CodexInvariance, PTL

-----------------------------------------------------------------------------
(* OpenCode *)

OpencodeStages == {"idle", "opening", "reading", "asking", "taking", "done", "failed"}
OpencodeActs == {"reading", "asking", "taking"}

\* What InOrder and Told say of one turn.
TurnInOrder(c) ==
    /\ opencode_stage[c] \in {"idle", "opening"} => \A i \in 1..Len(Opencode!Past(c)) : Opencode!Past(c)[i].turn # c
    /\ opencode_stage[c] \in OpencodeActs => \E p \in 1..Len(Opencode!Past(c)) : Opencode!Under(c, p)
    /\ opencode_stage[c] \in {"done", "failed"} /\ Opencode!Asked(c) => Opencode!Begun(c)
    /\ opencode_stage[c] \in {"idle", "opening", "done", "failed"} => opencode_active[Session[c]] # c
TurnTold(c) ==
    /\ c \in opencode_observed => Opencode!Begun(c)
    /\ opencode_stage[c] = "asking" /\ opencode_named /\ Opencode!Completed(c, opencode_read[c]) => Opencode!Finished(c)
    /\ opencode_stage[c] = "taking" => Opencode!Finished(c)
    /\ opencode_stage[c] = "done" => Opencode!Failed(c) \/ opencode_answer[c] = c

LEMMA ByTurn ==
    /\ Opencode!InOrder <=> \A c \in Calls : Session[c] \notin opencode_spoiled => TurnInOrder(c)
    /\ Opencode!Told <=> \A c \in Calls : Session[c] \notin opencode_spoiled => TurnTold(c)
BY DEF Opencode!InOrder, Opencode!Told, TurnInOrder, TurnTold, OpencodeActs

\* A turn of which nothing changes.
LEMMA TurnKept ==
    ASSUME NEW c \in Calls, UNCHANGED <<Opencode!Past(c), opencode_active[Session[c]], opencode_stage[c], opencode_read[c],
                                        opencode_answer[c], opencode_named, c \in opencode_observed>>
    PROVE  (TurnInOrder(c) => TurnInOrder(c)') /\ (TurnTold(c) => TurnTold(c)')
PROOF
<1>1. /\ Opencode!Asked(c)' <=> Opencode!Asked(c)
      /\ Opencode!Begun(c)' <=> Opencode!Begun(c)
      /\ Opencode!Finished(c)' <=> Opencode!Finished(c)
      /\ \A p : Opencode!Under(c, p)' <=> Opencode!Under(c, p)
  BY DEF Opencode!Asked, Opencode!Begun, Opencode!Finished, Opencode!Under
<1>2. Opencode!Failed(c)' <=> Opencode!Failed(c)
  BY DEF Opencode!Failed, Opencode!Past
<1>3. Opencode!Completed(c, opencode_read[c])' <=> Opencode!Completed(c, opencode_read[c])
  BY DEF Opencode!Completed
<1>. QED  BY <1>1, <1>2, <1>3 DEF TurnInOrder, TurnTold

LEMMA OpencodeBegins == Opencode!OpencodeAssumption /\ Opencode!Init => Opencode!IInv
PROOF
<1>. SUFFICES ASSUME Opencode!OpencodeAssumption, Opencode!Init PROVE Opencode!IInv
  OBVIOUS
<1>1. /\ opencode_alive \in BOOLEAN /\ opencode_closed \in BOOLEAN /\ opencode_healthy \in BOOLEAN
      /\ opencode_named \in BOOLEAN
  BY DEF Opencode!Init
<1>2. /\ opencode_stage \in [Calls -> OpencodeStages] /\ opencode_answer \in [Calls -> Calls \union {None}]
      /\ opencode_active \in [Sessions -> Calls \union {None}]
      /\ opencode_observed \subseteq Calls /\ opencode_spoiled \subseteq Sessions
  BY DEF Opencode!Init, OpencodeStages
<1>3. opencode_history \in [Sessions -> Seq(Opencode!Messages)]
  BY DEF Opencode!Init
<1>4. opencode_read \in [Calls -> Seq(Opencode!Messages)]
  BY DEF Opencode!Init
<1>5. Opencode!TypeOK
  BY <1>1, <1>2, <1>3, <1>4 DEF Opencode!TypeOK, OpencodeStages
<1>6. Opencode!Alone /\ Opencode!Worked
  BY DEF Opencode!Init, Opencode!Alone, Opencode!Worked
<1>7. ASSUME NEW c \in Calls PROVE TurnInOrder(c) /\ TurnTold(c)
  <2>1. /\ Opencode!Past(c) = <<>> /\ opencode_active[Session[c]] = None /\ opencode_stage[c] = "idle"
        /\ c \notin opencode_observed /\ c # None
    BY DEF Opencode!OpencodeAssumption, Opencode!Init, Opencode!Past
  <2>. QED  BY <2>1 DEF TurnInOrder, TurnTold, OpencodeActs
<1>. QED  BY <1>5, <1>6, <1>7, ByTurn DEF Opencode!IInv

LEMMA OpencodeTyped ==
    ASSUME Opencode!OpencodeAssumption, Opencode!TypeOK
    PROVE  /\ opencode_history \in [Sessions -> Seq(Opencode!Messages)]
           /\ opencode_active \in [Sessions -> Calls \union {None}] /\ opencode_stage \in [Calls -> OpencodeStages]
           /\ \A c \in Calls : /\ Session[c] \in Sessions /\ c # None /\ Opencode!Past(c) \in Seq(Opencode!Messages)
                               /\ Opencode!Past(c) = opencode_history[Session[c]]
BY DEF Opencode!OpencodeAssumption, Opencode!TypeOK, OpencodeStages, Opencode!Past

\* What a turn is about when its prompt is under way.
LEMMA UnderWay ==
    ASSUME Opencode!OpencodeAssumption, Opencode!TypeOK, NEW c \in Calls, NEW p, Opencode!Under(c, p)
    PROVE  /\ p \in Nat /\ Opencode!Asked(c)
           /\ Opencode!Begun(c) <=> Len(Opencode!Past(c)) = p + 1
           /\ \A i \in 1..Len(Opencode!Past(c)) :
                 /\ Opencode!Past(c)[i] = Opencode!Message("user", c, "done") => i = p
                 /\ Opencode!Past(c)[i].role = "assistant" /\ Opencode!Past(c)[i].turn = c
                       => i = p + 1 /\ Len(Opencode!Past(c)) = p + 1
           /\ Opencode!Finished(c) <=>
                 /\ Len(Opencode!Past(c)) = p + 1
                 /\ Opencode!Past(c)[p + 1] \in {Opencode!Message("assistant", c, state) : state \in {"text", "error"}}
PROOF
<1>1. Len(Opencode!Past(c)) \in Nat
  BY OpencodeTyped
<1>2. p \in Nat /\ p \in 1..Len(Opencode!Past(c)) /\ Opencode!Past(c)[p] = Opencode!Message("user", c, "done")
  BY <1>1 DEF Opencode!Under
<1>3. Opencode!Asked(c)
  BY <1>2 DEF Opencode!Asked
<1>4. ASSUME NEW i \in 1..Len(Opencode!Past(c)), Opencode!Past(c)[i].turn = c PROVE i = p \/ (i = p + 1 /\ Len(Opencode!Past(c)) = p + 1)
  BY <1>1, <1>2, <1>4 DEF Opencode!Under
<1>5. /\ Opencode!Past(c)[p].role = "user" /\ Opencode!Past(c)[p].turn = c
      /\ \A state : Opencode!Message("assistant", c, state).turn = c /\ Opencode!Message("assistant", c, state).role = "assistant"
      /\ Opencode!Message("user", c, "done").turn = c /\ Opencode!Message("user", c, "done").role = "user"
  BY <1>2 DEF Opencode!Message
<1>6. Len(Opencode!Past(c)) = p \/ Len(Opencode!Past(c)) = p + 1
  BY DEF Opencode!Under
<1>7. Len(Opencode!Past(c)) = p + 1 =>
        /\ p + 1 \in 1..Len(Opencode!Past(c))
        /\ Opencode!Past(c)[p + 1].role = "assistant" /\ Opencode!Past(c)[p + 1].turn = c
  BY <1>1, <1>2, <1>5 DEF Opencode!Under
<1>8. \A i \in 1..Len(Opencode!Past(c)) :
                 /\ Opencode!Past(c)[i] = Opencode!Message("user", c, "done") => i = p
                 /\ Opencode!Past(c)[i].role = "assistant" /\ Opencode!Past(c)[i].turn = c
                       => i = p + 1 /\ Len(Opencode!Past(c)) = p + 1
  BY <1>4, <1>5, <1>7
<1>9. Opencode!Begun(c) <=> Len(Opencode!Past(c)) = p + 1
  BY <1>7, <1>8 DEF Opencode!Begun
<1>10. Opencode!Finished(c) <=>
                 /\ Len(Opencode!Past(c)) = p + 1
                 /\ Opencode!Past(c)[p + 1] \in {Opencode!Message("assistant", c, state) : state \in {"text", "error"}}
  BY <1>5, <1>7, <1>8 DEF Opencode!Finished
<1>. QED  BY <1>2, <1>3, <1>8, <1>9, <1>10

\* readOpencodeMessages reads from the beginning, and if a known prompt has completed, at least as far.
LEMMA PagesRead ==
    ASSUME Opencode!OpencodeAssumption, Opencode!TypeOK, NEW c \in Calls
    PROVE  /\ Opencode!Pages(c) \in Seq(Opencode!Messages) /\ Len(Opencode!Pages(c)) <= Len(Opencode!Past(c))
           /\ \A i \in 1..Len(Opencode!Pages(c)) : Opencode!Pages(c)[i] = Opencode!Past(c)[i]
           /\ \/ Opencode!Pages(c) = Opencode!Past(c)
              \/ opencode_named /\ Opencode!Completed(c, Opencode!Pages(c))
PROOF
<1>. DEFINE all == opencode_history[Session[c]]
            upTo(n) == SubSeq(all, 1, IF n * Page < Len(all) THEN n * Page ELSE Len(all))
            over == {n \in 1..Len(all) : opencode_named /\ Opencode!Completed(c, upTo(n))}
<1>1. all \in Seq(Opencode!Messages) /\ Len(all) \in Nat /\ all = Opencode!Past(c) /\ Page \in Nat
  BY OpencodeTyped DEF Opencode!OpencodeAssumption
<1>2. Opencode!Pages(c) = IF over = {} THEN all ELSE upTo(CHOOSE n \in over : \A m \in over : n <= m)
  BY DEF Opencode!Pages
<1>3. CASE over = {}
  BY <1>1, <1>2, <1>3
<1>4. CASE over # {}
  <2>1. over \subseteq Nat
    BY <1>1
  <2>2. \E n \in over : \A m \in over : n <= m
    <3>. HIDE DEF over
    <3>. QED  BY <1>4, <2>1, LeastNatural
  <2>3. PICK n \in over : Opencode!Pages(c) = upTo(n)
    <3>. HIDE DEF over, upTo
    <3>. QED  BY <1>2, <1>4, <2>2
  <2>4. opencode_named /\ Opencode!Completed(c, upTo(n)) /\ n \in Nat
    BY <2>1
  <2>. DEFINE m == IF n * Page < Len(all) THEN n * Page ELSE Len(all)
  <2>5. n * Page \in Nat
    BY <1>1, <2>4
  <2>6. m \in 0..Len(all)
    BY <1>1, <2>5
  <2>. HIDE DEF m, all
  <2>7. /\ SubSeq(all, 1, m) \in Seq(Opencode!Messages) /\ Len(SubSeq(all, 1, m)) = m
        /\ \A i \in 1..m : SubSeq(all, 1, m)[i] = all[i]
    BY <1>1, <2>6
  <2>8. m <= Len(all)
    BY <1>1, <2>6
  <2>9. upTo(n) = SubSeq(all, 1, m)
    BY DEF m, all
  <2>. HIDE DEF upTo
  <2>. QED  BY <1>1, <2>3, <2>4, <2>7, <2>8, <2>9
<1>. QED  BY <1>3, <1>4

\* What has been read of a turn that is known to have completed.
LEMMA CompletedIsFinished ==
    ASSUME Opencode!OpencodeAssumption, Opencode!TypeOK, NEW c \in Calls, NEW p, Opencode!Under(c, p), opencode_named,
           NEW messages \in Seq(Opencode!Messages), Len(messages) <= Len(Opencode!Past(c)),
           \A i \in 1..Len(messages) : messages[i] = Opencode!Past(c)[i],
           Opencode!Completed(c, messages)
    PROVE  Opencode!Finished(c) /\ Len(messages) = Len(Opencode!Past(c))
PROOF
<1>1. DOMAIN messages = 1..Len(messages) /\ Len(messages) \in Nat /\ Len(Opencode!Past(c)) \in Nat
  BY OpencodeTyped
<1>2. PICK i \in 1..Len(messages) :
        /\ messages[i].role = "assistant" /\ messages[i].state # "open"
        /\ \E j \in 1..(i - 1) : messages[j] = Opencode!Message("user", c, "done")
  BY <1>1 DEF Opencode!Completed
<1>3. PICK j \in 1..(i - 1) : messages[j] = Opencode!Message("user", c, "done")
  BY <1>2
<1>4. /\ p \in Nat
      /\ \A k \in 1..Len(Opencode!Past(c)) : Opencode!Past(c)[k] = Opencode!Message("user", c, "done") => k = p
      /\ Opencode!Finished(c) <=>
           /\ Len(Opencode!Past(c)) = p + 1
           /\ Opencode!Past(c)[p + 1] \in {Opencode!Message("assistant", c, state) : state \in {"text", "error"}}
  BY UnderWay
<1>5. j = p
  <2>1. j \in 1..Len(messages) /\ j \in 1..Len(Opencode!Past(c))
    BY <1>1, <1>2, <1>3
  <2>. QED  BY <1>3, <1>4, <2>1
<1>6. Len(Opencode!Past(c)) = p \/ Len(Opencode!Past(c)) = p + 1
  BY DEF Opencode!Under
<1>7. i = p + 1 /\ Len(Opencode!Past(c)) = p + 1 /\ Len(messages) = p + 1
  <2>. DEFINE m == Len(messages)
              n == Len(Opencode!Past(c))
  <2>1. p < i /\ i <= m /\ m <= n /\ i \in Nat /\ p \in Nat /\ m \in Nat /\ n \in Nat
    BY <1>1, <1>3, <1>4, <1>5
  <2>2. n = p \/ n = p + 1
    BY <1>6
  <2>. HIDE DEF m, n
  <2>3. i = p + 1 /\ n = p + 1 /\ m = p + 1
    BY <2>1, <2>2
  <2>. QED  BY <2>3 DEF m, n
<1>8. Opencode!Past(c)[p + 1].state # "open"
  BY <1>2, <1>7
<1>9. Opencode!Past(c)[p + 1] \in {Opencode!Message("assistant", c, state) : state \in {"text", "error"}}
  BY <1>4, <1>7, <1>8 DEF Opencode!Under, Opencode!Message
<1>. QED  BY <1>4, <1>7, <1>9

LEMMA AloneKept ==
    ASSUME Opencode!TypeOK, Opencode!Alone, NEW c \in Calls, NEW to \in OpencodeStages,
           opencode_stage' = [opencode_stage EXCEPT ![c] = to],
           opencode_stage[c] \in {"opening", "reading", "asking", "taking"} \/ to \in {"done", "failed"}
    PROVE  Opencode!Alone' /\ opencode_stage' \in [Calls -> OpencodeStages] /\ opencode_stage'[c] = to
           /\ \A d \in Calls : d # c => opencode_stage'[d] = opencode_stage[d]
PROOF
<1>1. opencode_stage \in [Calls -> OpencodeStages]
  BY DEF Opencode!TypeOK, OpencodeStages
<1>2. /\ opencode_stage' \in [Calls -> OpencodeStages] /\ opencode_stage'[c] = to
      /\ \A d \in Calls : d # c => opencode_stage'[d] = opencode_stage[d]
  BY <1>1
<1>3. Opencode!Alone'
  <2>. SUFFICES ASSUME NEW a \in Calls, NEW b \in Calls, a # b, Session[a] = Session[b],
                       opencode_stage'[a] \in {"opening", "reading", "asking", "taking"}
                PROVE  opencode_stage'[b] \in {"idle", "done", "failed"}
    BY DEF Opencode!Alone
  <2>1. CASE a = c
    <3>1. opencode_stage[c] \in {"opening", "reading", "asking", "taking"}
      BY <1>2, <2>1
    <3>. QED  BY <1>2, <2>1, <3>1 DEF Opencode!Alone
  <2>2. CASE b = c
    <3>1. opencode_stage[a] = opencode_stage'[a]
      BY <1>2, <2>2
    <3>2. opencode_stage[c] \in {"idle", "done", "failed"}
      BY <2>2, <3>1 DEF Opencode!Alone
    <3>. QED  BY <1>2, <2>2, <3>2
  <2>3. CASE a # c /\ b # c
    BY <1>2, <2>3 DEF Opencode!Alone
  <2>. QED  BY <2>1, <2>2, <2>3
<1>. QED  BY <1>2, <1>3

\* Only the stage of one turn, and what it has read, changes.
LEMMA TurnGoes ==
    ASSUME Opencode!OpencodeAssumption, Opencode!IInv, NEW c \in Calls, NEW to \in OpencodeStages,
           opencode_stage' = [opencode_stage EXCEPT ![c] = to],
           UNCHANGED <<opencode_closed, opencode_healthy, opencode_named, opencode_history, opencode_active>>,
           opencode_alive' \in BOOLEAN, opencode_spoiled' \in SUBSET Sessions, opencode_spoiled \subseteq opencode_spoiled',
           opencode_observed' \in {opencode_observed, opencode_observed \union {c}},
           opencode_read' \in [Calls -> Seq(Opencode!Messages)], opencode_answer' \in [Calls -> Calls \union {None}],
           \A d \in Calls : d # c => opencode_read'[d] = opencode_read[d] /\ opencode_answer'[d] = opencode_answer[d],
           Opencode!Alone', Session[c] \notin opencode_spoiled' => TurnInOrder(c)' /\ TurnTold(c)'
    PROVE  Opencode!IInv'
PROOF
<1>1. Opencode!TypeOK /\ opencode_stage \in [Calls -> OpencodeStages]
  BY DEF Opencode!IInv, Opencode!TypeOK, OpencodeStages
<1>2. Opencode!TypeOK'
  <2>1. opencode_stage' \in [Calls -> OpencodeStages]
    BY <1>1
  <2>2. opencode_observed' \subseteq Calls
    BY <1>1 DEF Opencode!TypeOK
  <2>. QED  BY <1>1, <2>1, <2>2 DEF Opencode!TypeOK, OpencodeStages
<1>3. Opencode!Worked'
  BY DEF Opencode!IInv, Opencode!Worked
<1>4. ASSUME NEW d \in Calls, Session[d] \notin opencode_spoiled' PROVE TurnInOrder(d)' /\ TurnTold(d)'
  <2>1. CASE d = c
    BY <1>4, <2>1
  <2>2. CASE d # c
    <3>1. Session[d] \notin opencode_spoiled
      BY <1>4
    <3>2. TurnInOrder(d) /\ TurnTold(d)
      BY <3>1, ByTurn DEF Opencode!IInv
    <3>3. opencode_stage'[d] = opencode_stage[d]
      BY <1>1, <2>2
    <3>4. UNCHANGED <<Opencode!Past(d), opencode_active[Session[d]], opencode_stage[d], opencode_read[d],
                      opencode_answer[d], opencode_named, d \in opencode_observed>>
      BY <2>2, <3>3 DEF Opencode!Past
    <3>. QED  BY <3>2, <3>4, TurnKept
  <2>. QED  BY <2>1, <2>2
<1>5. Opencode!InOrder' /\ Opencode!Told'
  <2>1. /\ Opencode!InOrder' <=> \A d \in Calls : Session[d] \notin opencode_spoiled' => TurnInOrder(d)'
        /\ Opencode!Told' <=> \A d \in Calls : Session[d] \notin opencode_spoiled' => TurnTold(d)'
    BY DEF Opencode!InOrder, Opencode!Told, TurnInOrder, TurnTold, OpencodeActs
  <2>. QED  BY <1>4, <2>1
<1>. QED  BY <1>2, <1>3, <1>5 DEF Opencode!IInv

\* The steps of a turn that leave the history as it is.
LEMMA OpencodeTurn ==
    ASSUME Opencode!OpencodeAssumption, Opencode!IInv, NEW c \in Calls,
           \/ Opencode!Run(c) \/ Opencode!Breaks(c) \/ Opencode!Reads(c) \/ Opencode!Asks(c)
           \/ Opencode!GivesUp(c) \/ Opencode!Takes(c)
    PROVE  Opencode!IInv'
PROOF
<1>. USE DEF Opencode!runtime, Opencode!Goes
<1>1. /\ Opencode!TypeOK /\ Opencode!Alone /\ opencode_stage \in [Calls -> OpencodeStages]
      /\ opencode_read \in [Calls -> Seq(Opencode!Messages)] /\ opencode_answer \in [Calls -> Calls \union {None}]
      /\ opencode_alive \in BOOLEAN /\ opencode_spoiled \subseteq Sessions /\ Session[c] \in Sessions
      /\ opencode_observed \subseteq Calls
  BY DEF Opencode!IInv, Opencode!TypeOK, OpencodeStages, Opencode!OpencodeAssumption
<1>2. Session[c] \notin opencode_spoiled => TurnInOrder(c) /\ TurnTold(c)
  BY ByTurn DEF Opencode!IInv
<1>3. CASE Opencode!Run(c)
  <2>1. PICK to \in {"opening", "failed"} :
           /\ opencode_stage' = [opencode_stage EXCEPT ![c] = to]
           /\ opencode_stage[c] = "idle"
           /\ \A d \in Calls : Session[d] = Session[c] => opencode_stage[d] \in {"idle", "done", "failed"}
           /\ UNCHANGED <<opencode_alive, opencode_closed, opencode_healthy, opencode_named, opencode_history,
                          opencode_active, opencode_read, opencode_observed, opencode_answer, opencode_spoiled>>
    BY <1>3 DEF Opencode!Run
  <2>2. opencode_stage'[c] = to /\ \A d \in Calls : d # c => opencode_stage'[d] = opencode_stage[d]
    BY <1>1, <2>1
  <2>3. Opencode!Alone'
    BY <1>1, <2>1, <2>2 DEF Opencode!Alone
  <2>4. /\ Opencode!Past(c)' = Opencode!Past(c) /\ (Opencode!Begun(c)' <=> Opencode!Begun(c))
        /\ Opencode!Asked(c)' => \E i \in 1..Len(Opencode!Past(c)) : Opencode!Past(c)[i].turn = c
    BY <2>1 DEF Opencode!Past, Opencode!Begun, Opencode!Asked, Opencode!Message
  <2>5. Session[c] \notin opencode_spoiled' => TurnInOrder(c)' /\ TurnTold(c)'
    BY <1>2, <2>1, <2>2, <2>4 DEF TurnInOrder, TurnTold, OpencodeActs
  <2>6. to \in OpencodeStages
    BY DEF OpencodeStages
  <2>. QED  BY <1>1, <2>1, <2>3, <2>5, <2>6, TurnGoes
<1>4. CASE Opencode!Breaks(c)
  <2>1. /\ opencode_stage' = [opencode_stage EXCEPT ![c] = "failed"]
        /\ opencode_stage[c] \in {"opening", "reading", "asking", "taking"} /\ opencode_alive' = FALSE
        /\ opencode_spoiled' = IF opencode_stage[c] = "opening" THEN opencode_spoiled
                               ELSE opencode_spoiled \union {Session[c]}
        /\ UNCHANGED <<opencode_closed, opencode_healthy, opencode_named, opencode_history,
                       opencode_active, opencode_read, opencode_observed, opencode_answer>>
    BY <1>4 DEF Opencode!Breaks
  <2>2. "failed" \in OpencodeStages
    BY DEF OpencodeStages
  <2>3. Opencode!Alone' /\ opencode_stage'[c] = "failed"
    BY <1>1, <2>1, <2>2, AloneKept
  <2>4. /\ Opencode!Past(c)' = Opencode!Past(c) /\ (Opencode!Begun(c)' <=> Opencode!Begun(c))
        /\ Opencode!Asked(c)' => \E i \in 1..Len(Opencode!Past(c)) : Opencode!Past(c)[i].turn = c
    BY <2>1 DEF Opencode!Past, Opencode!Begun, Opencode!Asked, Opencode!Message
  <2>5. Session[c] \notin opencode_spoiled' => TurnInOrder(c)' /\ TurnTold(c)'
    BY <1>2, <2>1, <2>3, <2>4 DEF TurnInOrder, TurnTold, OpencodeActs
  <2>. QED  BY <1>1, <2>1, <2>2, <2>3, <2>5, TurnGoes
<1>5. CASE Opencode!Reads(c)
  <2>1. /\ opencode_stage' = [opencode_stage EXCEPT ![c] = "asking"] /\ opencode_stage[c] = "reading"
        /\ opencode_read' = [opencode_read EXCEPT ![c] = Opencode!Pages(c)]
        /\ UNCHANGED <<opencode_alive, opencode_closed, opencode_healthy, opencode_named, opencode_history,
                       opencode_active, opencode_observed, opencode_answer, opencode_spoiled>>
    BY <1>5 DEF Opencode!Reads
  <2>2. "asking" \in OpencodeStages
    BY DEF OpencodeStages
  <2>3. Opencode!Alone' /\ opencode_stage'[c] = "asking"
    BY <1>1, <2>1, <2>2, AloneKept
  <2>4. /\ Opencode!Pages(c) \in Seq(Opencode!Messages) /\ Len(Opencode!Pages(c)) <= Len(Opencode!Past(c))
        /\ \A i \in 1..Len(Opencode!Pages(c)) : Opencode!Pages(c)[i] = Opencode!Past(c)[i]
    BY <1>1, PagesRead
  <2>5. /\ opencode_read' \in [Calls -> Seq(Opencode!Messages)] /\ opencode_read'[c] = Opencode!Pages(c)
        /\ \A d \in Calls : d # c => opencode_read'[d] = opencode_read[d]
    BY <1>1, <2>1, <2>4
  <2>6. /\ Opencode!Past(c)' = Opencode!Past(c) /\ (Opencode!Begun(c)' <=> Opencode!Begun(c))
        /\ Opencode!Finished(c)' <=> Opencode!Finished(c)
        /\ \A p : Opencode!Under(c, p)' <=> Opencode!Under(c, p)
    BY <2>1 DEF Opencode!Past, Opencode!Begun, Opencode!Finished, Opencode!Under
  <2>7. ASSUME Session[c] \notin opencode_spoiled' PROVE TurnInOrder(c)' /\ TurnTold(c)'
    <3>1. PICK p \in 1..Len(Opencode!Past(c)) : Opencode!Under(c, p)
      BY <1>2, <2>1, <2>7 DEF TurnInOrder, OpencodeActs
    <3>2. TurnInOrder(c)'
      BY <2>3, <2>6, <3>1 DEF TurnInOrder, OpencodeActs
    <3>3. opencode_named /\ Opencode!Completed(c, Opencode!Pages(c)) => Opencode!Finished(c)
      BY <1>1, <2>4, <3>1, CompletedIsFinished
    <3>4. Opencode!Completed(c, opencode_read[c])' => Opencode!Completed(c, Opencode!Pages(c))
      BY <2>1, <2>5 DEF Opencode!Completed
    <3>5. TurnTold(c)'
      BY <1>2, <2>1, <2>3, <2>6, <2>7, <3>3, <3>4 DEF TurnTold
    <3>. QED  BY <3>2, <3>5
  <2>. QED  BY <1>1, <2>1, <2>2, <2>3, <2>5, <2>7, TurnGoes
<1>6. CASE Opencode!Asks(c)
  <2>1. /\ opencode_stage[c] = "asking"
        /\ opencode_observed' = IF opencode_active[Session[c]] # None THEN opencode_observed \union {c}
                                ELSE opencode_observed
        /\ UNCHANGED <<opencode_alive, opencode_closed, opencode_healthy, opencode_named, opencode_history,
                       opencode_active, opencode_read, opencode_answer, opencode_spoiled>>
    BY <1>6 DEF Opencode!Asks, Opencode!Seen, Opencode!Running
  <2>2. PICK to \in {"taking", "reading"} :
           /\ opencode_stage' = [opencode_stage EXCEPT ![c] = to]
           /\ to = "taking" => /\ Opencode!Completed(c, opencode_read[c])
                               /\ \/ opencode_named
                                  \/ c \in opencode_observed /\ opencode_active[Session[c]] = None
    BY <1>6 DEF Opencode!Asks, Opencode!IsOver, Opencode!Seen, Opencode!Running
  <2>3. to \in OpencodeStages
    BY DEF OpencodeStages
  <2>4. Opencode!Alone' /\ opencode_stage'[c] = to
    BY <1>1, <2>1, <2>2, <2>3, AloneKept
  <2>5. /\ Opencode!Past(c)' = Opencode!Past(c) /\ (Opencode!Begun(c)' <=> Opencode!Begun(c))
        /\ Opencode!Finished(c)' <=> Opencode!Finished(c)
        /\ \A p : Opencode!Under(c, p)' <=> Opencode!Under(c, p)
    BY <2>1 DEF Opencode!Past, Opencode!Begun, Opencode!Finished, Opencode!Under
  <2>6. ASSUME Session[c] \notin opencode_spoiled' PROVE TurnInOrder(c)' /\ TurnTold(c)'
    <3>1. PICK p \in 1..Len(Opencode!Past(c)) : Opencode!Under(c, p)
      BY <1>2, <2>1, <2>6 DEF TurnInOrder, OpencodeActs
    <3>2. TurnInOrder(c)'
      BY <2>2, <2>4, <2>5, <3>1 DEF TurnInOrder, OpencodeActs
    <3>3. /\ Opencode!Begun(c) <=> Len(Opencode!Past(c)) = p + 1
          /\ Opencode!Finished(c) <=>
                 /\ Len(Opencode!Past(c)) = p + 1
                 /\ Opencode!Past(c)[p + 1] \in {Opencode!Message("assistant", c, state) : state \in {"text", "error"}}
      BY <1>1, <3>1, UnderWay
    <3>4. opencode_active[Session[c]] # None => Opencode!Begun(c)
      BY <3>1, <3>3 DEF Opencode!Under
    <3>5. c \in opencode_observed' => Opencode!Begun(c)
      BY <1>2, <2>1, <2>6, <3>4 DEF TurnTold
    <3>6. ASSUME to = "taking" PROVE Opencode!Finished(c)
      <4>1. CASE opencode_named
        BY <1>2, <2>1, <2>2, <2>6, <3>6, <4>1 DEF TurnTold
      <4>2. CASE c \in opencode_observed /\ opencode_active[Session[c]] = None
        <5>1. Len(Opencode!Past(c)) = p + 1 /\ p + 1 # p
          BY <1>2, <2>1, <2>6, <3>3, <4>2 DEF TurnTold
        <5>2. c # None
          BY DEF Opencode!OpencodeAssumption
        <5>. QED  BY <3>1, <3>3, <4>2, <5>1, <5>2 DEF Opencode!Under
      <4>. QED  BY <2>2, <3>6, <4>1, <4>2
    <3>7. TurnTold(c)'
      BY <2>2, <2>4, <2>5, <3>5, <3>6 DEF TurnTold
    <3>. QED  BY <3>2, <3>7
  <2>. QED  BY <1>1, <2>1, <2>2, <2>3, <2>4, <2>6, TurnGoes
<1>7. CASE Opencode!GivesUp(c)
  <2>1. /\ opencode_stage' = [opencode_stage EXCEPT ![c] = "failed"]
        /\ opencode_spoiled' = opencode_spoiled \union {Session[c]}
        /\ UNCHANGED <<opencode_alive, opencode_closed, opencode_healthy, opencode_named, opencode_history,
                       opencode_active, opencode_read, opencode_answer>>
        /\ opencode_observed' \in {opencode_observed, opencode_observed \union {c}}
    BY <1>7 DEF Opencode!GivesUp, Opencode!Seen
  <2>2. "failed" \in OpencodeStages
    BY DEF OpencodeStages
  <2>3. Opencode!Alone'
    BY <1>1, <2>1, <2>2, AloneKept
  <2>. QED  BY <1>1, <2>1, <2>2, <2>3, TurnGoes
<1>8. CASE Opencode!Takes(c)
  <2>. DEFINE texts == {i \in DOMAIN Opencode!Pages(c) : /\ Opencode!Pages(c)[i].role = "assistant"
                                                         /\ Opencode!Pages(c)[i].state = "text"}
  <2>1. /\ opencode_stage[c] = "taking"
        /\ UNCHANGED <<opencode_alive, opencode_closed, opencode_healthy, opencode_named, opencode_history,
                       opencode_active, opencode_read, opencode_observed, opencode_spoiled>>
    BY <1>8 DEF Opencode!Takes
  <2>2. \/ /\ texts = {} /\ opencode_stage' = [opencode_stage EXCEPT ![c] = "failed"]
           /\ opencode_answer' = opencode_answer
        \/ /\ texts # {} /\ opencode_stage' = [opencode_stage EXCEPT ![c] = "done"]
           /\ opencode_answer' = [opencode_answer EXCEPT ![c] =
                Opencode!Pages(c)[CHOOSE i \in texts : \A j \in texts : j <= i].turn]
    BY <1>8 DEF Opencode!Takes
  <2>3. PICK to \in {"done", "failed"} : opencode_stage' = [opencode_stage EXCEPT ![c] = to]
    BY <2>2
  <2>4. to \in OpencodeStages
    BY DEF OpencodeStages
  <2>5. Opencode!Alone' /\ opencode_stage'[c] = to
    BY <1>1, <2>3, <2>4, AloneKept
  <2>6. Opencode!Pages(c) \in Seq(Opencode!Messages)
    BY <1>1, PagesRead
  <2>7. DOMAIN Opencode!Pages(c) = 1..Len(Opencode!Pages(c)) /\ Len(Opencode!Pages(c)) \in Nat
    BY <2>6
  <2>8. ASSUME texts # {}
        PROVE  \E x \in texts : /\ opencode_answer' = [opencode_answer EXCEPT ![c] = Opencode!Pages(c)[x].turn]
                                /\ \A y \in texts : y <= x
    <3>1. texts \subseteq 1..Len(Opencode!Pages(c))
      BY <2>7
    <3>2. opencode_answer' = [opencode_answer EXCEPT ![c] =
            Opencode!Pages(c)[CHOOSE i \in texts : \A j \in texts : j <= i].turn]
      BY <2>2, <2>8
    <3>. HIDE DEF texts
    <3>3. \E x \in texts : \A y \in texts : y <= x
      BY <2>7, <2>8, <3>1, LastPlace
    <3>. QED  BY <3>2, <3>3
  <2>9. /\ opencode_answer' \in [Calls -> Calls \union {None}]
        /\ \A d \in Calls : d # c => opencode_answer'[d] = opencode_answer[d]
    <3>1. CASE texts = {}
      BY <1>1, <2>2, <3>1
    <3>2. CASE texts # {}
      <4>1. PICK x \in texts : opencode_answer' = [opencode_answer EXCEPT ![c] = Opencode!Pages(c)[x].turn]
        BY <2>8, <3>2
      <4>2. Opencode!Pages(c)[x] \in Opencode!Messages
        BY <2>6, <2>7
      <4>3. Opencode!Pages(c)[x].turn \in Calls
        BY <4>2 DEF Opencode!Messages
      <4>. QED  BY <1>1, <4>1, <4>3
    <3>. QED  BY <3>1, <3>2
  <2>10. /\ Opencode!Past(c)' = Opencode!Past(c) /\ (Opencode!Begun(c)' <=> Opencode!Begun(c))
         /\ Opencode!Failed(c)' <=> Opencode!Failed(c)
    BY <2>1 DEF Opencode!Past, Opencode!Begun, Opencode!Failed
  <2>11. ASSUME Session[c] \notin opencode_spoiled' PROVE TurnInOrder(c)' /\ TurnTold(c)'
    <3>1. PICK p \in 1..Len(Opencode!Past(c)) : Opencode!Under(c, p)
      BY <1>2, <2>1, <2>11 DEF TurnInOrder, OpencodeActs
    <3>2. /\ Opencode!Begun(c) <=> Len(Opencode!Past(c)) = p + 1
          /\ Opencode!Finished(c) <=>
                 /\ Len(Opencode!Past(c)) = p + 1
                 /\ Opencode!Past(c)[p + 1] \in {Opencode!Message("assistant", c, state) : state \in {"text", "error"}}
          /\ p \in Nat
      BY <1>1, <3>1, UnderWay
    <3>3. Opencode!Finished(c)
      BY <1>2, <2>1, <2>11 DEF TurnTold
    <3>4. opencode_active[Session[c]] = None /\ c # None
      BY <3>1, <3>2, <3>3 DEF Opencode!Under, Opencode!OpencodeAssumption, Opencode!Message
    <3>5. TurnInOrder(c)'
      BY <2>1, <2>5, <2>10, <3>2, <3>3, <3>4 DEF TurnInOrder, OpencodeActs
    <3>6. c \in opencode_observed' => Opencode!Begun(c)
      BY <1>2, <2>1, <2>11 DEF TurnTold
    <3>7. ASSUME opencode_stage'[c] = "done", ~Opencode!Failed(c) PROVE opencode_answer'[c] = c
      <4>1. texts # {}
        BY <1>1, <2>2, <3>7
      <4>2. PICK x \in texts : /\ opencode_answer' = [opencode_answer EXCEPT ![c] = Opencode!Pages(c)[x].turn]
                               /\ \A y \in texts : y <= x
        BY <2>8, <4>1
      <4>3. Opencode!Pages(c) = Opencode!Past(c)
        <5>1. /\ Len(Opencode!Pages(c)) <= Len(Opencode!Past(c))
              /\ \A i \in 1..Len(Opencode!Pages(c)) : Opencode!Pages(c)[i] = Opencode!Past(c)[i]
              /\ \/ Opencode!Pages(c) = Opencode!Past(c)
                 \/ opencode_named /\ Opencode!Completed(c, Opencode!Pages(c))
          BY <1>1, PagesRead
        <5>2. opencode_named /\ Opencode!Completed(c, Opencode!Pages(c))
                => Len(Opencode!Pages(c)) = Len(Opencode!Past(c))
          BY <1>1, <2>6, <3>1, <5>1, CompletedIsFinished
        <5>3. Opencode!Past(c) \in Seq(Opencode!Messages)
          BY <1>1, OpencodeTyped
        <5>. QED  BY <2>6, <5>1, <5>2, <5>3, SeqEqual
      <4>4. Opencode!Past(c)[p + 1] = Opencode!Message("assistant", c, "text")
        <5>1. Opencode!Past(c)[p + 1] # Opencode!Message("assistant", c, "error")
          <6>1. Opencode!Past(c) \in Seq(Opencode!Messages) /\ p + 1 \in 1..Len(Opencode!Past(c))
            BY <1>1, <3>2, <3>3, OpencodeTyped
          <6>2. DOMAIN Opencode!Past(c) = 1..Len(Opencode!Past(c)) /\ Opencode!Past(c) = opencode_history[Session[c]]
            BY <6>1 DEF Opencode!Past
          <6>. QED  BY <3>7, <6>1, <6>2 DEF Opencode!Failed, Opencode!Range
        <5>. QED  BY <3>2, <3>3, <5>1
      <4>5. p + 1 \in texts /\ x <= p + 1
        <5>1. Len(Opencode!Pages(c)) = p + 1
          BY <3>2, <3>3, <4>3
        <5>2. p + 1 \in DOMAIN Opencode!Pages(c) /\ DOMAIN Opencode!Pages(c) = 1..(p + 1)
          BY <2>7, <3>2, <5>1
        <5>3. Opencode!Pages(c)[p + 1].role = "assistant" /\ Opencode!Pages(c)[p + 1].state = "text"
          BY <4>3, <4>4 DEF Opencode!Message
        <5>4. p + 1 \in texts
          BY <5>2, <5>3
        <5>5. x \in 1..(p + 1)
          BY <5>2
        <5>. QED  BY <3>2, <5>4, <5>5
      <4>6. x = p + 1
        BY <2>7, <3>2, <4>2, <4>5
      <4>. QED  BY <1>1, <4>2, <4>3, <4>4, <4>6 DEF Opencode!Message
    <3>8. TurnTold(c)'
      BY <2>5, <2>10, <3>6, <3>7 DEF TurnTold
    <3>. QED  BY <3>5, <3>8
  <2>. QED  BY <1>1, <2>1, <2>3, <2>4, <2>5, <2>9, <2>11, TurnGoes
<1>. QED  BY <1>3, <1>4, <1>5, <1>6, <1>7, <1>8

\* Every message stays, of the turn and the role it is, and what is over stays as it is.
OpencodeGrows(c) ==
    /\ Opencode!Begun(c) => Opencode!Begun(c)'
    /\ Opencode!Finished(c) => Opencode!Finished(c)'
    /\ Opencode!Failed(c) => Opencode!Failed(c)'

LEMMA Prompted ==
    ASSUME Opencode!OpencodeAssumption, Opencode!TypeOK, NEW c \in Calls, NEW m \in Opencode!Messages,
           opencode_history'[Session[c]] = Append(opencode_history[Session[c]], m)
    PROVE  /\ Len(Opencode!Past(c)') = Len(Opencode!Past(c)) + 1 /\ Len(Opencode!Past(c)) \in Nat
           /\ \A i \in 1..Len(Opencode!Past(c)) : Opencode!Past(c)'[i] = Opencode!Past(c)[i]
           /\ Opencode!Past(c)'[Len(Opencode!Past(c)) + 1] = m
           /\ Opencode!Past(c)' \in Seq(Opencode!Messages)
           /\ OpencodeGrows(c)
           /\ m.turn # c => /\ Opencode!Asked(c)' => Opencode!Asked(c)
                            /\ (\A i \in 1..Len(Opencode!Past(c)) : Opencode!Past(c)[i].turn # c)
                                 => \A i \in 1..Len(Opencode!Past(c)') : Opencode!Past(c)'[i].turn # c
PROOF
<1>. DEFINE h == Opencode!Past(c)
            g == Opencode!Past(c)'
<1>1. h \in Seq(Opencode!Messages) /\ h = opencode_history[Session[c]] /\ g = opencode_history'[Session[c]]
  BY OpencodeTyped DEF Opencode!Past
<1>2. g = Append(h, m)
  BY <1>1
<1>. HIDE DEF h, g
<1>3. /\ g \in Seq(Opencode!Messages) /\ Len(g) = Len(h) + 1 /\ Len(h) \in Nat
      /\ \A i \in 1..Len(h) : g[i] = h[i]
      /\ g[Len(h) + 1] = m
  BY <1>1, <1>2, AppendProperties, LenProperties
<1>4. /\ \A i \in 1..Len(h) : i \in 1..Len(g)
      /\ \A i \in 1..Len(g) : i \in 1..Len(h) \/ i = Len(h) + 1
      /\ DOMAIN g = 1..Len(g) /\ DOMAIN h = 1..Len(h)
  BY <1>1, <1>3
<1>5. Opencode!Begun(c) => Opencode!Begun(c)'
  BY <1>3, <1>4 DEF Opencode!Begun, h, g
<1>6. Opencode!Finished(c) => Opencode!Finished(c)'
  BY <1>3, <1>4 DEF Opencode!Finished, h, g
<1>7. Opencode!Failed(c) => Opencode!Failed(c)'
  <2>1. /\ Opencode!Failed(c) <=> \E i \in DOMAIN h : Opencode!Message("assistant", c, "error") = h[i]
        /\ Opencode!Failed(c)' <=> \E i \in DOMAIN g : Opencode!Message("assistant", c, "error") = g[i]
    BY <1>1 DEF Opencode!Failed, Opencode!Range, Opencode!Message
  <2>. QED  BY <1>3, <1>4, <2>1
<1>8. ASSUME m.turn # c, Opencode!Asked(c)' PROVE Opencode!Asked(c)
  <2>1. PICK i \in 1..Len(g) : g[i] = Opencode!Message("user", c, "done")
    BY <1>8 DEF Opencode!Asked, g, Opencode!Message
  <2>2. g[i].turn = c
    BY <2>1 DEF Opencode!Message
  <2>3. i \in 1..Len(h) /\ h[i] = Opencode!Message("user", c, "done")
    BY <1>3, <1>4, <1>8, <2>1, <2>2
  <2>. QED  BY <2>3 DEF Opencode!Asked, h
<1>9. ASSUME m.turn # c, \A i \in 1..Len(h) : h[i].turn # c, NEW i \in 1..Len(g) PROVE g[i].turn # c
  BY <1>3, <1>4, <1>9
<1>. QED  BY <1>3, <1>5, <1>6, <1>7, <1>8, <1>9 DEF h, g, OpencodeGrows

\* A turn that is not under way, beside one that is.
LEMMA Beside ==
    ASSUME Opencode!OpencodeAssumption, Opencode!IInv, NEW d \in Calls,
           Session[d] \notin opencode_spoiled, opencode_stage[d] \in {"idle", "done", "failed"},
           UNCHANGED <<opencode_stage[d], opencode_read, opencode_answer, opencode_named, opencode_observed>>,
           OpencodeGrows(d), Opencode!Asked(d)' => Opencode!Asked(d), opencode_active'[Session[d]] # d,
           (\A i \in 1..Len(Opencode!Past(d)) : Opencode!Past(d)[i].turn # d)
              => \A i \in 1..Len(Opencode!Past(d)') : Opencode!Past(d)'[i].turn # d
    PROVE  TurnInOrder(d)' /\ TurnTold(d)'
PROOF
<1>1. TurnInOrder(d) /\ TurnTold(d)
  BY ByTurn DEF Opencode!IInv
<1>2. TurnInOrder(d)'
  BY <1>1 DEF TurnInOrder, OpencodeActs, OpencodeGrows
<1>3. TurnTold(d)'
  BY <1>1 DEF TurnTold, OpencodeGrows
<1>. QED  BY <1>2, <1>3

\* The prompt is sent, or refused.
LEMMA OpencodePrompts ==
    ASSUME Opencode!OpencodeAssumption, Opencode!IInv, NEW c \in Calls, Opencode!Prompt(c)
    PROVE  Opencode!IInv'
PROOF
<1>1. /\ Opencode!TypeOK /\ Opencode!Alone /\ opencode_stage \in [Calls -> OpencodeStages]
      /\ opencode_read \in [Calls -> Seq(Opencode!Messages)] /\ opencode_answer \in [Calls -> Calls \union {None}]
      /\ opencode_alive \in BOOLEAN /\ opencode_spoiled \subseteq Sessions /\ Session[c] \in Sessions
      /\ opencode_observed \subseteq Calls /\ c # None
      /\ opencode_history \in [Sessions -> Seq(Opencode!Messages)]
  BY DEF Opencode!IInv, Opencode!TypeOK, OpencodeStages, Opencode!OpencodeAssumption
<1>2. /\ UNCHANGED <<opencode_alive, opencode_closed, opencode_healthy, opencode_named, opencode_active, opencode_read,
                     opencode_observed, opencode_answer, opencode_spoiled>>
      /\ opencode_stage[c] = "opening"
  BY DEF Opencode!Prompt, Opencode!runtime
<1>3. Session[c] \notin opencode_spoiled => TurnInOrder(c) /\ TurnTold(c)
  BY ByTurn DEF Opencode!IInv
<1>4. CASE opencode_stage' = [opencode_stage EXCEPT ![c] = "failed"] /\ opencode_history' = opencode_history
  <2>1. "failed" \in OpencodeStages
    BY DEF OpencodeStages
  <2>2. Opencode!Alone' /\ opencode_stage'[c] = "failed"
    BY <1>1, <1>4, <2>1, AloneKept
  <2>3. /\ Opencode!Past(c)' = Opencode!Past(c) /\ (Opencode!Begun(c)' <=> Opencode!Begun(c))
        /\ Opencode!Asked(c)' => \E i \in 1..Len(Opencode!Past(c)) : Opencode!Past(c)[i].turn = c
    BY <1>4 DEF Opencode!Past, Opencode!Begun, Opencode!Asked, Opencode!Message
  <2>4. Session[c] \notin opencode_spoiled' => TurnInOrder(c)' /\ TurnTold(c)'
    BY <1>2, <1>3, <2>2, <2>3 DEF TurnInOrder, TurnTold, OpencodeActs
  <2>. QED  BY <1>1, <1>2, <1>4, <2>1, <2>2, <2>4, TurnGoes
<1>5. CASE /\ opencode_stage' = [opencode_stage EXCEPT ![c] = "reading"]
           /\ opencode_history' = [opencode_history EXCEPT ![Session[c]] =
                Append(opencode_history[Session[c]], Opencode!Message("user", c, "done"))]
  <2>. DEFINE m == Opencode!Message("user", c, "done")
  <2>1. "reading" \in OpencodeStages
    BY DEF OpencodeStages
  <2>2. /\ Opencode!Alone' /\ opencode_stage'[c] = "reading" /\ opencode_stage' \in [Calls -> OpencodeStages]
        /\ \A d \in Calls : d # c => opencode_stage'[d] = opencode_stage[d]
    BY <1>1, <1>2, <1>5, <2>1, AloneKept
  <2>3. m \in Opencode!Messages /\ m.turn = c
    BY DEF Opencode!Messages, Opencode!Message
  <2>. HIDE DEF m
  <2>4. /\ opencode_history'[Session[c]] = Append(opencode_history[Session[c]], m)
        /\ \A s \in Sessions : s # Session[c] => opencode_history'[s] = opencode_history[s]
        /\ opencode_history' \in [Sessions -> Seq(Opencode!Messages)]
    BY <1>1, <1>5, <2>3 DEF m
  <2>5. Opencode!TypeOK'
    BY <1>1, <1>2, <2>2, <2>4 DEF Opencode!TypeOK, OpencodeStages
  <2>6. Opencode!Worked'
    BY <1>2 DEF Opencode!IInv, Opencode!Worked
  <2>7. ASSUME Session[c] \notin opencode_spoiled PROVE TurnInOrder(c)' /\ TurnTold(c)'
    <3>0. PICK n \in Nat : n = Len(Opencode!Past(c))
      BY <1>1, OpencodeTyped
    <3>1. /\ Len(Opencode!Past(c)') = n + 1
          /\ \A i \in 1..n : Opencode!Past(c)'[i] = Opencode!Past(c)[i]
          /\ Opencode!Past(c)'[n + 1] = m /\ OpencodeGrows(c)
      BY <1>1, <2>3, <2>4, <3>0, Prompted
    <3>2. \A i \in 1..n : Opencode!Past(c)[i].turn # c
      BY <1>2, <1>3, <2>7, <3>0 DEF TurnInOrder
    <3>3. opencode_active[Session[c]] = None
      <4>. SUFFICES ASSUME opencode_active[Session[c]] # None PROVE FALSE
        OBVIOUS
      <4>1. PICK d \in Calls : d = opencode_active[Session[c]]
        BY <1>1, OpencodeTyped
      <4>2. Session[d] = Session[c]
        BY <1>1, <4>1 DEF Opencode!IInv, Opencode!Worked
      <4>3. TurnInOrder(d)
        BY <2>7, <4>2, ByTurn DEF Opencode!IInv
      <4>4. opencode_stage[d] \in OpencodeActs
        BY <1>1, <4>1, <4>2, <4>3 DEF TurnInOrder, OpencodeActs, OpencodeStages
      <4>. QED  BY <1>1, <1>2, <4>2, <4>4 DEF Opencode!Alone, OpencodeActs
    <3>4. Opencode!Under(c, n + 1)' /\ n + 1 \in 1..Len(Opencode!Past(c)')
      <4>1. n + 1 \in 1..Len(Opencode!Past(c)') /\ \A i \in 1..(n + 1 - 1) : i \in 1..n
        BY <3>1
      <4>2. \A i \in 1..(n + 1 - 1) : Opencode!Past(c)'[i].turn # c
        BY <3>1, <3>2, <4>1
      <4>3. opencode_active'[Session[c]] = None /\ Opencode!Past(c)'[n + 1] = Opencode!Message("user", c, "done")
        BY <1>2, <3>1, <3>3 DEF m
      <4>. QED  BY <3>1, <4>1, <4>2, <4>3 DEF Opencode!Under, Opencode!Message
    <3>5. TurnInOrder(c)'
      BY <2>2, <3>4 DEF TurnInOrder, OpencodeActs
    <3>6. TurnTold(c)'
      BY <1>2, <1>3, <2>2, <2>7, <3>1 DEF TurnTold, OpencodeGrows
    <3>. QED  BY <3>5, <3>6
  <2>8. ASSUME NEW d \in Calls, Session[d] \notin opencode_spoiled' PROVE TurnInOrder(d)' /\ TurnTold(d)'
    <3>1. CASE d = c
      BY <1>2, <2>7, <2>8, <3>1
    <3>2. CASE d # c /\ Session[d] = Session[c]
      <4>1. opencode_stage[d] \in {"idle", "done", "failed"} /\ opencode_stage'[d] = opencode_stage[d]
        BY <1>1, <1>2, <2>2, <3>2 DEF Opencode!Alone
      <4>2. /\ OpencodeGrows(d)
            /\ Opencode!Asked(d)' => Opencode!Asked(d)
            /\ (\A i \in 1..Len(Opencode!Past(d)) : Opencode!Past(d)[i].turn # d)
                 => \A i \in 1..Len(Opencode!Past(d)') : Opencode!Past(d)'[i].turn # d
        <5>1. opencode_history'[Session[d]] = Append(opencode_history[Session[d]], m) /\ m.turn # d
          BY <2>3, <2>4, <3>2
        <5>. QED  BY <1>1, <2>3, <5>1, Prompted
      <4>3. opencode_active'[Session[d]] # d
        BY <1>2, <2>8, <4>1, ByTurn DEF Opencode!IInv, TurnInOrder
      <4>4. Session[d] \notin opencode_spoiled /\ UNCHANGED opencode_stage[d]
        BY <1>2, <2>8, <4>1
      <4>. QED  BY <1>2, <4>1, <4>2, <4>3, <4>4, Beside
    <3>3. CASE Session[d] # Session[c]
      <4>1. Session[d] \in Sessions /\ d # c /\ Session[d] \notin opencode_spoiled
        BY <1>2, <2>8, <3>3 DEF Opencode!OpencodeAssumption
      <4>2. UNCHANGED <<Opencode!Past(d), opencode_active[Session[d]], opencode_stage[d], opencode_read[d],
                        opencode_answer[d], opencode_named, d \in opencode_observed>>
        BY <1>2, <2>2, <2>4, <3>3, <4>1 DEF Opencode!Past
      <4>. QED  BY <4>1, <4>2, ByTurn, TurnKept DEF Opencode!IInv
    <3>. QED  BY <3>1, <3>2, <3>3
  <2>9. Opencode!InOrder' /\ Opencode!Told'
    BY <2>8 DEF Opencode!InOrder, Opencode!Told, TurnInOrder, TurnTold, OpencodeActs
  <2>. QED  BY <2>2, <2>5, <2>6, <2>9 DEF Opencode!IInv
<1>. QED  BY <1>4, <1>5 DEF Opencode!Prompt, Opencode!Goes

\* The server takes up the prompt of the turn that is under way.
LEMMA OpencodeWorks ==
    ASSUME Opencode!OpencodeAssumption, Opencode!IInv, NEW s \in Sessions, Opencode!Works(s)
    PROVE  Opencode!IInv'
PROOF
<1>1. /\ Opencode!TypeOK /\ Opencode!Alone /\ opencode_stage \in [Calls -> OpencodeStages]
      /\ opencode_history \in [Sessions -> Seq(Opencode!Messages)]
      /\ opencode_active \in [Sessions -> Calls \union {None}]
  BY DEF Opencode!IInv, Opencode!TypeOK, OpencodeStages
<1>2. UNCHANGED <<opencode_alive, opencode_closed, opencode_healthy, opencode_named, opencode_stage, opencode_read,
                  opencode_observed, opencode_answer, opencode_spoiled>>
  BY DEF Opencode!Works, Opencode!runtime
<1>3. PICK c \in Calls :
        /\ Session[c] = s
        /\ Opencode!Message("user", c, "done") \in Opencode!Range(opencode_history[s])
        /\ ~\E m \in Opencode!Range(opencode_history[s]) : m.role = "assistant" /\ m.turn = c
        /\ opencode_active' = [opencode_active EXCEPT ![s] = c]
        /\ opencode_history' = [opencode_history EXCEPT ![s] =
             Append(opencode_history[s], Opencode!Message("assistant", c, "open"))]
  BY DEF Opencode!Works
<1>. DEFINE m == Opencode!Message("assistant", c, "open")
<1>4. m \in Opencode!Messages /\ m.turn = c
  BY DEF Opencode!Messages, Opencode!Message
<1>. HIDE DEF m
<1>5. /\ opencode_history'[s] = Append(opencode_history[s], m)
      /\ \A z \in Sessions : z # s => opencode_history'[z] = opencode_history[z] /\ opencode_active'[z] = opencode_active[z]
      /\ opencode_history' \in [Sessions -> Seq(Opencode!Messages)]
      /\ opencode_active'[s] = c /\ opencode_active' \in [Sessions -> Calls \union {None}]
  BY <1>1, <1>3, <1>4 DEF m
<1>6. Opencode!TypeOK'
  BY <1>1, <1>2, <1>5 DEF Opencode!TypeOK
<1>7. Opencode!Alone'
  BY <1>1, <1>2 DEF Opencode!Alone
<1>8. Opencode!Worked'
  BY <1>3, <1>5 DEF Opencode!IInv, Opencode!Worked
<1>9. Opencode!Asked(c) /\ ~Opencode!Begun(c)
  <2>1. DOMAIN opencode_history[s] = 1..Len(opencode_history[s]) /\ Opencode!Past(c) = opencode_history[s]
    BY <1>1, <1>3 DEF Opencode!Past
  <2>. QED  BY <1>3, <2>1 DEF Opencode!Range, Opencode!Asked, Opencode!Begun
<1>10. ASSUME s \notin opencode_spoiled
       PROVE  /\ opencode_stage[c] \in OpencodeActs /\ TurnTold(c)
              /\ \E p \in 1..Len(Opencode!Past(c)) : Opencode!Under(c, p)
  <2>1. TurnInOrder(c) /\ TurnTold(c)
    BY <1>3, <1>10, ByTurn DEF Opencode!IInv
  <2>2. \E i \in 1..Len(Opencode!Past(c)) : Opencode!Past(c)[i].turn = c
    BY <1>9 DEF Opencode!Asked, Opencode!Message
  <2>. QED  BY <1>1, <1>9, <2>1, <2>2 DEF TurnInOrder, OpencodeActs, OpencodeStages
<1>11. ASSUME s \notin opencode_spoiled PROVE TurnInOrder(c)' /\ TurnTold(c)'
  <2>1. PICK p \in 1..Len(Opencode!Past(c)) : Opencode!Under(c, p)
    BY <1>10, <1>11
  <2>2. /\ Len(Opencode!Past(c)') = Len(Opencode!Past(c)) + 1
        /\ \A i \in 1..Len(Opencode!Past(c)) : Opencode!Past(c)'[i] = Opencode!Past(c)[i]
        /\ Opencode!Past(c)'[Len(Opencode!Past(c)) + 1] = m /\ OpencodeGrows(c)
    <3>1. opencode_history'[Session[c]] = Append(opencode_history[Session[c]], m)
      BY <1>3, <1>5
    <3>2. m \in Opencode!Messages /\ Opencode!TypeOK /\ Opencode!OpencodeAssumption
      BY <1>1, <1>4
    <3>. QED  BY <3>1, <3>2, Prompted, Zenon
  <2>3. p \in Nat /\ Len(Opencode!Past(c)) = p
    <3>1. p \in Nat /\ (Opencode!Begun(c) <=> Len(Opencode!Past(c)) = p + 1)
      BY <1>1, <2>1, UnderWay
    <3>. QED  BY <1>9, <2>1, <3>1 DEF Opencode!Under
  <2>4. Opencode!Under(c, p)' /\ p \in 1..Len(Opencode!Past(c)')
    <3>1. p \in 1..Len(Opencode!Past(c)') /\ \A i \in 1..(p - 1) : i \in 1..Len(Opencode!Past(c))
      BY <2>2, <2>3
    <3>2. \A i \in 1..(p - 1) : Opencode!Past(c)'[i].turn # c
      BY <2>1, <2>2, <3>1 DEF Opencode!Under
    <3>3. Opencode!Past(c)'[p] = Opencode!Message("user", c, "done")
      BY <2>1, <2>2 DEF Opencode!Under
    <3>4. /\ Len(Opencode!Past(c)') = p + 1 /\ Opencode!Past(c)'[p + 1] = Opencode!Message("assistant", c, "open")
          /\ opencode_active'[Session[c]] = c
      BY <1>3, <1>5, <2>2, <2>3 DEF m
    <3>. QED  BY <3>1, <3>2, <3>3, <3>4 DEF Opencode!Under, Opencode!Message
  <2>5. TurnInOrder(c)'
    BY <1>2, <1>10, <1>11, <2>4 DEF TurnInOrder, OpencodeActs
  <2>6. Opencode!Completed(c, opencode_read[c])' <=> Opencode!Completed(c, opencode_read[c])
    BY <1>2 DEF Opencode!Completed, Opencode!Message
  <2>7. TurnTold(c)'
    BY <1>2, <1>10, <1>11, <2>2, <2>6 DEF TurnTold, OpencodeGrows, OpencodeActs
  <2>. QED  BY <2>5, <2>7
<1>12. ASSUME NEW d \in Calls, Session[d] \notin opencode_spoiled' PROVE TurnInOrder(d)' /\ TurnTold(d)'
  <2>1. CASE d = c
    BY <1>2, <1>3, <1>11, <1>12, <2>1
  <2>2. CASE d # c /\ Session[d] = s
    <3>1. opencode_stage[d] \in {"idle", "done", "failed"}
      BY <1>1, <1>2, <1>3, <1>10, <1>12, <2>2 DEF Opencode!Alone, OpencodeActs
    <3>2. /\ OpencodeGrows(d)
          /\ Opencode!Asked(d)' => Opencode!Asked(d)
          /\ (\A i \in 1..Len(Opencode!Past(d)) : Opencode!Past(d)[i].turn # d)
               => \A i \in 1..Len(Opencode!Past(d)') : Opencode!Past(d)'[i].turn # d
      <4>1. opencode_history'[Session[d]] = Append(opencode_history[Session[d]], m) /\ m.turn # d
        BY <1>4, <1>5, <2>2
      <4>. QED  BY <1>1, <1>4, <4>1, Prompted
    <3>3. opencode_active'[Session[d]] # d
      BY <1>5, <2>2
    <3>4. Session[d] \notin opencode_spoiled /\ UNCHANGED opencode_stage[d]
      BY <1>2, <1>12
    <3>. QED  BY <1>2, <3>1, <3>2, <3>3, <3>4, Beside
  <2>3. CASE Session[d] # s
    <3>1. Session[d] \in Sessions /\ Session[d] \notin opencode_spoiled
      BY <1>2, <1>12 DEF Opencode!OpencodeAssumption
    <3>2. UNCHANGED <<Opencode!Past(d), opencode_active[Session[d]], opencode_stage[d], opencode_read[d],
                      opencode_answer[d], opencode_named, d \in opencode_observed>>
      BY <1>2, <1>5, <2>3, <3>1 DEF Opencode!Past
    <3>. QED  BY <3>1, <3>2, ByTurn, TurnKept DEF Opencode!IInv
  <2>. QED  BY <2>1, <2>2, <2>3
<1>13. Opencode!InOrder' /\ Opencode!Told'
  BY <1>12 DEF Opencode!InOrder, Opencode!Told, TurnInOrder, TurnTold, OpencodeActs
<1>. QED  BY <1>6, <1>7, <1>8, <1>13 DEF Opencode!IInv

\* And completes it, with a text or with an error.
LEMMA OpencodeDone ==
    ASSUME Opencode!OpencodeAssumption, Opencode!IInv, NEW s \in Sessions, Opencode!Completes(s)
    PROVE  Opencode!IInv'
PROOF
<1>1. /\ Opencode!TypeOK /\ Opencode!Alone /\ opencode_stage \in [Calls -> OpencodeStages]
      /\ opencode_history \in [Sessions -> Seq(Opencode!Messages)]
      /\ opencode_active \in [Sessions -> Calls \union {None}]
  BY DEF Opencode!IInv, Opencode!TypeOK, OpencodeStages
<1>2. /\ UNCHANGED <<opencode_alive, opencode_closed, opencode_healthy, opencode_named, opencode_stage, opencode_read,
                     opencode_observed, opencode_answer, opencode_spoiled>>
      /\ opencode_active[s] # None /\ opencode_active' = [opencode_active EXCEPT ![s] = None]
  BY DEF Opencode!Completes, Opencode!runtime
<1>3. PICK c \in Calls : c = opencode_active[s]
  BY <1>1, <1>2
<1>4. PICK state \in {"text", "error"} :
        opencode_history' = [opencode_history EXCEPT ![s] =
          [i \in DOMAIN opencode_history[s] |->
             IF opencode_history[s][i] = Opencode!Message("assistant", c, "open")
             THEN Opencode!Message("assistant", c, state) ELSE opencode_history[s][i]]]
  BY <1>3 DEF Opencode!Completes
<1>. DEFINE h == opencode_history[s]
            before == Opencode!Message("assistant", c, "open")
            after == Opencode!Message("assistant", c, state)
            g == [i \in DOMAIN h |-> IF h[i] = before THEN after ELSE h[i]]
<1>5. /\ after \in Opencode!Messages /\ after.turn = c /\ after.role = "assistant"
      /\ before.turn = c /\ before.role = "assistant" /\ before.state = "open"
      /\ h \in Seq(Opencode!Messages) /\ Session[c] = s /\ c # None
  <2>1. Session[c] = s /\ c # None
    BY <1>2, <1>3 DEF Opencode!IInv, Opencode!Worked, Opencode!OpencodeAssumption
  <2>. QED  BY <1>1, <2>1 DEF Opencode!Messages, Opencode!Message
<1>6. /\ g \in Seq(Opencode!Messages) /\ Len(g) = Len(h) /\ DOMAIN h = 1..Len(h) /\ DOMAIN g = 1..Len(g)
      /\ \A i \in 1..Len(h) : g[i] = IF h[i] = before THEN after ELSE h[i]
  <2>1. DOMAIN h = 1..Len(h) /\ Len(h) \in Nat /\ \A i \in 1..Len(h) : h[i] \in Opencode!Messages
    BY <1>5
  <2>2. g \in [1..Len(h) -> Opencode!Messages]
    BY <1>5, <2>1
  <2>3. g \in Seq(Opencode!Messages) /\ Len(g) = Len(h)
    <3>. HIDE DEF g
    <3>. QED  BY <2>1, <2>2
  <2>. QED  BY <2>1, <2>3
<1>7. /\ opencode_history'[s] = g /\ opencode_active'[s] = None
      /\ \A z \in Sessions : z # s => opencode_history'[z] = opencode_history[z] /\ opencode_active'[z] = opencode_active[z]
      /\ opencode_history' \in [Sessions -> Seq(Opencode!Messages)]
      /\ opencode_active' \in [Sessions -> Calls \union {None}]
  <2>1. opencode_history' = [opencode_history EXCEPT ![s] = g]
    BY <1>4
  <2>. HIDE DEF g, h
  <2>. QED  BY <1>1, <1>2, <1>6, <2>1
<1>. HIDE DEF h, g, before, after
<1>8. Opencode!TypeOK'
  BY <1>1, <1>2, <1>7 DEF Opencode!TypeOK
<1>9. Opencode!Alone'
  BY <1>1, <1>2 DEF Opencode!Alone
<1>10. Opencode!Worked'
  BY <1>7 DEF Opencode!IInv, Opencode!Worked
<1>11. ASSUME NEW d \in Calls, Session[d] = s
       PROVE  /\ Opencode!Past(d) = h /\ Opencode!Past(d)' = g /\ OpencodeGrows(d)
              /\ Opencode!Asked(d)' => Opencode!Asked(d)
              /\ (\A i \in 1..Len(Opencode!Past(d)) : Opencode!Past(d)[i].turn # d)
                   => \A i \in 1..Len(Opencode!Past(d)') : Opencode!Past(d)'[i].turn # d
  <2>1. Opencode!Past(d) = h /\ Opencode!Past(d)' = g
    BY <1>7, <1>11 DEF Opencode!Past, h
  <2>2. \A i \in 1..Len(h) : g[i].turn = h[i].turn /\ (h[i].role = "assistant" <=> g[i].role = "assistant")
    BY <1>5, <1>6
  <2>3. \A x \in {"text", "error"} : Opencode!Message("assistant", d, x).state = x
    BY DEF Opencode!Message
  <2>4. \A i \in 1..Len(h) : \A x \in {"text", "error"} :
          h[i] = Opencode!Message("assistant", d, x) => g[i] = Opencode!Message("assistant", d, x)
    BY <1>5, <1>6, <2>3
  <2>5. Opencode!Begun(d) => Opencode!Begun(d)'
    BY <1>6, <2>1, <2>2 DEF Opencode!Begun
  <2>6. Opencode!Finished(d) => Opencode!Finished(d)'
    BY <1>6, <2>1, <2>4 DEF Opencode!Finished, Opencode!Message
  <2>7. Opencode!Failed(d) => Opencode!Failed(d)'
    <3>1. /\ Opencode!Failed(d) <=> \E i \in 1..Len(h) : Opencode!Message("assistant", d, "error") = h[i]
          /\ Opencode!Failed(d)' <=> \E i \in 1..Len(g) : Opencode!Message("assistant", d, "error") = g[i]
      <4>1. opencode_history[Session[d]] = h /\ opencode_history'[Session[d]] = g
        BY <1>7, <1>11 DEF h
      <4>2. Opencode!Failed(d) <=> Opencode!Message("assistant", d, "error") \in {h[i] : i \in 1..Len(h)}
        BY <1>6, <4>1 DEF Opencode!Failed, Opencode!Range
      <4>3. Opencode!Failed(d)' <=> Opencode!Message("assistant", d, "error") \in {g[i] : i \in 1..Len(g)}
        BY <1>6, <4>1 DEF Opencode!Failed, Opencode!Range, Opencode!Message
      <4>. QED  BY <4>2, <4>3
    <3>. QED  BY <1>6, <2>4, <3>1
  <2>8. Opencode!Asked(d)' => Opencode!Asked(d)
    <3>1. Opencode!Message("user", d, "done").role # "assistant"
      BY DEF Opencode!Message
    <3>2. \A i \in 1..Len(h) : g[i] = Opencode!Message("user", d, "done") => h[i] = Opencode!Message("user", d, "done")
      BY <1>5, <1>6, <3>1
    <3>. QED  BY <1>6, <2>1, <3>2 DEF Opencode!Asked, Opencode!Message
  <2>9. (\A i \in 1..Len(h) : h[i].turn # d) => \A i \in 1..Len(g) : g[i].turn # d
    BY <1>6, <2>2
  <2>. QED  BY <2>1, <2>5, <2>6, <2>7, <2>8, <2>9 DEF OpencodeGrows
<1>12. ASSUME s \notin opencode_spoiled
       PROVE  /\ opencode_stage[c] \in OpencodeActs /\ TurnTold(c)
              /\ \E p \in 1..Len(Opencode!Past(c)) : Opencode!Under(c, p)
  <2>1. TurnInOrder(c) /\ TurnTold(c) /\ opencode_active[Session[c]] = c
    BY <1>3, <1>5, <1>12, ByTurn DEF Opencode!IInv
  <2>. QED  BY <1>1, <2>1 DEF TurnInOrder, OpencodeActs, OpencodeStages
<1>13. ASSUME s \notin opencode_spoiled PROVE TurnInOrder(c)' /\ TurnTold(c)'
  <2>1. PICK p \in 1..Len(Opencode!Past(c)) : Opencode!Under(c, p)
    BY <1>12, <1>13
  <2>2. Opencode!Past(c) = h /\ Opencode!Past(c)' = g /\ OpencodeGrows(c)
    BY <1>5, <1>11
  <2>3. opencode_active[Session[c]] = c
    BY <1>3, <1>5
  <2>4. /\ p \in 1..Len(h) /\ h[p] = Opencode!Message("user", c, "done") /\ \A i \in 1..(p - 1) : h[i].turn # c
        /\ Len(h) = p + 1 /\ h[p + 1] = before
    BY <1>5, <2>1, <2>2, <2>3 DEF Opencode!Under, before
  <2>5. p \in Nat /\ p + 1 \in 1..Len(h) /\ \A i \in 1..(p - 1) : i \in 1..Len(h)
    <3>1. Len(h) \in Nat
      BY <1>5
    <3>. QED  BY <2>4, <3>1
  <2>6. g[p + 1] = after
    BY <1>6, <2>4, <2>5
  <2>7. g[p] = Opencode!Message("user", c, "done")
    <3>1. Opencode!Message("user", c, "done").role # "assistant"
      BY DEF Opencode!Message
    <3>. QED  BY <1>5, <1>6, <2>4, <3>1
  <2>8. \A i \in 1..(p - 1) : g[i].turn # c
    BY <1>5, <1>6, <2>4, <2>5
  <2>9. Opencode!Under(c, p)' /\ p \in 1..Len(Opencode!Past(c)')
    <3>1. Len(g) = p + 1 /\ opencode_active'[Session[c]] = None /\ p \in 1..Len(g)
      BY <1>5, <1>6, <1>7, <2>4
    <3>2. g[p + 1] \in {Opencode!Message("assistant", c, x) : x \in {"text", "error"}}
      BY <2>6 DEF after
    <3>3. Opencode!Under(c, p)' <=>
            /\ p \in 1..Len(g) /\ g[p] = Opencode!Message("user", c, "done") /\ \A i \in 1..(p - 1) : g[i].turn # c
            /\ \/ Len(g) = p /\ opencode_active'[Session[c]] = None
               \/ /\ Len(g) = p + 1 /\ g[p + 1] = Opencode!Message("assistant", c, "open")
                  /\ opencode_active'[Session[c]] = c
               \/ /\ Len(g) = p + 1 /\ g[p + 1] \in {Opencode!Message("assistant", c, x) : x \in {"text", "error"}}
                  /\ opencode_active'[Session[c]] = None
      BY <2>2 DEF Opencode!Under, Opencode!Message
    <3>. QED  BY <2>2, <2>7, <2>8, <3>1, <3>2, <3>3
  <2>10. TurnInOrder(c)'
    BY <1>2, <1>12, <1>13, <2>9 DEF TurnInOrder, OpencodeActs
  <2>11. Opencode!Completed(c, opencode_read[c])' <=> Opencode!Completed(c, opencode_read[c])
    BY <1>2 DEF Opencode!Completed, Opencode!Message
  <2>12. TurnTold(c)'
    BY <1>2, <1>12, <1>13, <2>2, <2>11 DEF TurnTold, OpencodeGrows, OpencodeActs
  <2>. QED  BY <2>10, <2>12
<1>14. ASSUME NEW d \in Calls, Session[d] \notin opencode_spoiled' PROVE TurnInOrder(d)' /\ TurnTold(d)'
  <2>1. CASE d = c
    BY <1>2, <1>5, <1>13, <1>14, <2>1
  <2>2. CASE d # c /\ Session[d] = s
    <3>1. opencode_stage[d] \in {"idle", "done", "failed"}
      BY <1>1, <1>2, <1>5, <1>12, <1>14, <2>2 DEF Opencode!Alone, OpencodeActs
    <3>2. /\ OpencodeGrows(d)
          /\ Opencode!Asked(d)' => Opencode!Asked(d)
          /\ (\A i \in 1..Len(Opencode!Past(d)) : Opencode!Past(d)[i].turn # d)
               => \A i \in 1..Len(Opencode!Past(d)') : Opencode!Past(d)'[i].turn # d
      BY <1>11, <2>2
    <3>3. opencode_active'[Session[d]] # d
      BY <1>7, <2>2 DEF Opencode!OpencodeAssumption
    <3>4. Session[d] \notin opencode_spoiled /\ UNCHANGED opencode_stage[d]
      BY <1>2, <1>14
    <3>. QED  BY <1>2, <3>1, <3>2, <3>3, <3>4, Beside
  <2>3. CASE Session[d] # s
    <3>1. Session[d] \in Sessions /\ Session[d] \notin opencode_spoiled
      BY <1>2, <1>14 DEF Opencode!OpencodeAssumption
    <3>2. UNCHANGED <<Opencode!Past(d), opencode_active[Session[d]], opencode_stage[d], opencode_read[d],
                      opencode_answer[d], opencode_named, d \in opencode_observed>>
      BY <1>2, <1>7, <2>3, <3>1 DEF Opencode!Past
    <3>. QED  BY <3>1, <3>2, ByTurn, TurnKept DEF Opencode!IInv
  <2>. QED  BY <2>1, <2>2, <2>3
<1>15. Opencode!InOrder' /\ Opencode!Told'
  BY <1>14 DEF Opencode!InOrder, Opencode!Told, TurnInOrder, TurnTold, OpencodeActs
<1>. QED  BY <1>8, <1>9, <1>10, <1>15 DEF Opencode!IInv

LEMMA OpencodeInvariance == ASSUME Opencode!OpencodeAssumption PROVE Opencode!Spec => []Opencode!IInv
PROOF
<1>1. Opencode!Init => Opencode!IInv
  BY OpencodeBegins
<1>2. ASSUME Opencode!IInv, UNCHANGED <<opencode_named, opencode_history, opencode_active, opencode_stage,
                                        opencode_read, opencode_observed, opencode_answer, opencode_spoiled>>,
             opencode_alive' \in BOOLEAN, opencode_closed' \in BOOLEAN, opencode_healthy' \in BOOLEAN
      PROVE  Opencode!IInv'
  <2>1. Opencode!TypeOK' /\ Opencode!Alone' /\ Opencode!Worked'
    BY <1>2 DEF Opencode!IInv, Opencode!TypeOK, Opencode!Alone, Opencode!Worked
  <2>2. ASSUME NEW d \in Calls, Session[d] \notin opencode_spoiled' PROVE TurnInOrder(d)' /\ TurnTold(d)'
    <3>1. UNCHANGED <<Opencode!Past(d), opencode_active[Session[d]], opencode_stage[d], opencode_read[d],
                      opencode_answer[d], opencode_named, d \in opencode_observed>>
      BY <1>2 DEF Opencode!Past
    <3>. QED  BY <1>2, <2>2, <3>1, ByTurn, TurnKept DEF Opencode!IInv
  <2>3. Opencode!InOrder' /\ Opencode!Told'
    BY <2>2 DEF Opencode!InOrder, Opencode!Told, TurnInOrder, TurnTold, OpencodeActs
  <2>. QED  BY <2>1, <2>3 DEF Opencode!IInv
<1>3. Opencode!IInv /\ Opencode!Next => Opencode!IInv'
  <2>. SUFFICES ASSUME Opencode!IInv, Opencode!Next PROVE Opencode!IInv'
    OBVIOUS
  <2>0. opencode_alive \in BOOLEAN /\ opencode_closed \in BOOLEAN /\ opencode_healthy \in BOOLEAN
    BY DEF Opencode!IInv, Opencode!TypeOK
  <2>1. CASE Opencode!Dies \/ Opencode!Close
    BY <1>2, <2>0, <2>1 DEF Opencode!Dies, Opencode!Close
  <2>. QED  BY <2>1, OpencodeWorks, OpencodeDone, OpencodeTurn, OpencodePrompts DEF Opencode!Next
<1>4. Opencode!IInv /\ UNCHANGED Opencode!vars => Opencode!IInv'
  <2>. SUFFICES ASSUME Opencode!IInv, UNCHANGED Opencode!vars PROVE Opencode!IInv'
    OBVIOUS
  <2>1. opencode_alive \in BOOLEAN /\ opencode_closed \in BOOLEAN /\ opencode_healthy \in BOOLEAN
    BY DEF Opencode!IInv, Opencode!TypeOK
  <2>. QED  BY <1>2, <2>1 DEF Opencode!vars, Opencode!runtime
<1>. QED  BY <1>1, <1>3, <1>4, PTL DEF Opencode!Spec

\* On a session of the one server that all agents share, a turn returns the text that the server has completed
\* it with and none of a turn before it, unless a turn of the session was given up
\* (waitForOpencodeSession, extractOpenCodeFinalResponse).
THEOREM OpencodeAnswersOwn == ASSUME Opencode!OpencodeAssumption PROVE Opencode!Spec => []Opencode!AnswersOwn
PROOF
<1>1. Opencode!IInv => Opencode!AnswersOwn
  BY DEF Opencode!IInv, Opencode!Told, Opencode!AnswersOwn
<1>. QED  BY <1>1, OpencodeInvariance, PTL

-----------------------------------------------------------------------------
(* The agent client protocol *)

AcpStages == {"idle", "opening", "configuring", "prompting", "answered", "completed", "yielded", "done", "failed"}
AcpNotes == [sent : BOOLEAN, updates : 0..MaxUpdates, noted : BOOLEAN, answered : BOOLEAN]

LEMMA AcpTyped ==
    ASSUME Acp!TypeOK
    PROVE  /\ acp_stage \in [Calls -> AcpStages] /\ acp_session \in [Calls -> Sessions \cup {None}]
           /\ acp_queue \in [Sessions -> Seq(Calls)] /\ acp_answer \in [Calls -> Seq(Calls)]
           /\ acp_wire \in Seq(Acp!Messages) /\ acp_written \in [Calls -> AcpNotes]
BY DEF Acp!TypeOK, Acp!Over, Acp!Waiting, AcpStages, AcpNotes

LEMMA SameAcpCardinality == \A S : Acp!Cardinality(S) = Cardinality(S)
BY DEF Acp!Cardinality, Cardinality

\* The updates of a turn that are still to be read can be counted.
LEMMA AcpCount ==
    ASSUME acp_wire \in Seq(Acp!Messages), NEW c
    PROVE  /\ IsFiniteSet(Acp!Unread(c)) /\ Cardinality(Acp!Unread(c)) \in Nat
           /\ Cardinality(Acp!Unread(c)) = 0 <=> Acp!Unread(c) = {}
PROOF
<1>1. Len(acp_wire) \in Nat /\ Acp!Unread(c) \subseteq 1..Len(acp_wire)
  BY DEF Acp!Unread
<1>2. IsFiniteSet(1..Len(acp_wire))
  BY <1>1, FS_Interval
<1>3. IsFiniteSet(Acp!Unread(c))
  BY <1>1, <1>2, FS_Subset
<1>. QED  BY <1>3, FS_CardinalityType, FS_EmptySet

\* A message that is written adds to the updates of its prompt, if it is one.
LEMMA AcpCountsOn ==
    ASSUME acp_wire \in Seq(Acp!Messages), NEW m \in Acp!Messages, acp_wire' = Append(acp_wire, m), NEW c \in Calls
    PROVE  /\ m.kind = "update" /\ m.prompt = c => Cardinality(Acp!Unread(c)') = Cardinality(Acp!Unread(c)) + 1
           /\ ~(m.kind = "update" /\ m.prompt = c) => Acp!Unread(c)' = Acp!Unread(c)
PROOF
<1>1. /\ Len(acp_wire) \in Nat /\ Len(acp_wire') = Len(acp_wire) + 1
      /\ \A i \in 1..Len(acp_wire) : acp_wire'[i] = acp_wire[i]
      /\ acp_wire'[Len(acp_wire) + 1] = m
  BY AppendProperties, LenProperties
<1>. DEFINE n == Len(acp_wire)
            after == {i \in 1..(n + 1) : acp_wire'[i].kind = "update" /\ acp_wire'[i].prompt = c}
<1>2. Acp!Unread(c)' = after
  BY <1>1 DEF Acp!Unread
<1>3. CASE m.kind = "update" /\ m.prompt = c
  <2>1. after = Acp!Unread(c) \cup {n + 1} /\ n + 1 \notin Acp!Unread(c)
    BY <1>1, <1>3 DEF Acp!Unread
  <2>2. IsFiniteSet(Acp!Unread(c))
    BY AcpCount
  <2>3. Cardinality(Acp!Unread(c) \cup {n + 1}) = Cardinality(Acp!Unread(c)) + 1
    BY <2>1, <2>2, FS_AddElement
  <2>. HIDE DEF after, n
  <2>. QED  BY <1>2, <1>3, <2>1, <2>3
<1>4. CASE ~(m.kind = "update" /\ m.prompt = c)
  <2>1. after = Acp!Unread(c)
    BY <1>1, <1>4 DEF Acp!Unread
  <2>. HIDE DEF after, n
  <2>. QED  BY <1>2, <1>4, <2>1
<1>. QED  BY <1>3, <1>4

\* A message that is read is one update less of its prompt, if it is one.
LEMMA AcpCountsDown ==
    ASSUME acp_wire \in Seq(Acp!Messages), acp_wire # <<>>, acp_wire' = Tail(acp_wire), NEW c \in Calls
    PROVE  LET m == acp_wire[1] IN
           /\ m.kind = "update" /\ m.prompt = c => Cardinality(Acp!Unread(c)) = Cardinality(Acp!Unread(c)') + 1
           /\ ~(m.kind = "update" /\ m.prompt = c) => Cardinality(Acp!Unread(c)') = Cardinality(Acp!Unread(c))
PROOF
<1>. DEFINE n == Len(acp_wire)
            m == acp_wire[1]
            before == Acp!Unread(c)
            rest == before \ {1}
            after == {i \in 1..(n - 1) : acp_wire'[i].kind = "update" /\ acp_wire'[i].prompt = c}
<1>1. /\ n \in Nat \ {0} /\ acp_wire' \in Seq(Acp!Messages) /\ Len(acp_wire') = n - 1
      /\ \A i \in 1..(n - 1) : acp_wire'[i] = acp_wire[i + 1]
  BY HeadTailProperties, LenProperties, EmptySeq
<1>2. Acp!Unread(c)' = after
  BY <1>1 DEF Acp!Unread
<1>3. 1 \in before <=> m.kind = "update" /\ m.prompt = c
  BY <1>1 DEF Acp!Unread
<1>4. \A i : i \in after <=> i \in Nat /\ i + 1 \in rest
  <2>1. \A i : i \in after <=> i \in 1..(n - 1) /\ acp_wire[i + 1].kind = "update" /\ acp_wire[i + 1].prompt = c
    BY <1>1
  <2>2. \A j : j \in rest <=> j \in 2..n /\ acp_wire[j].kind = "update" /\ acp_wire[j].prompt = c
    BY <1>1 DEF Acp!Unread
  <2>. HIDE DEF after, rest
  <2>. QED  BY <1>1, <2>1, <2>2
<1>5. \A j \in rest : j \in Nat /\ j - 1 \in Nat
  BY <1>1 DEF Acp!Unread
<1>6. ExistsBijection(after, rest)
  <2>. DEFINE f == [i \in after |-> i + 1]
  <2>. HIDE DEF after, rest
  <2>1. f \in [after -> rest]
    BY <1>4
  <2>2. \A i, j \in after : f[i] = f[j] => i = j
    BY <1>4
  <2>3. \A j \in rest : \E i \in after : f[i] = j
    <3>. TAKE j \in rest
    <3>1. j - 1 \in after /\ f[j - 1] = j
      BY <1>4, <1>5
    <3>. QED  BY <3>1
  <2>. HIDE DEF f
  <2>4. f \in Bijection(after, rest)
    BY <2>1, <2>2, <2>3 DEF Bijection, Injection, Surjection, IsInjective
  <2>. QED  BY <2>4 DEF ExistsBijection
<1>7. IsFiniteSet(before) /\ Cardinality(before) \in Nat
  BY AcpCount
<1>8. IsFiniteSet(after)
  <2>1. acp_wire' \in Seq(Acp!Messages) /\ after \subseteq 1..(n - 1) /\ n - 1 \in Nat
    BY <1>1
  <2>. HIDE DEF after
  <2>2. IsFiniteSet(1..(n - 1))
    BY <2>1, FS_Interval
  <2>. QED  BY <2>1, <2>2, FS_Subset
<1>9. Cardinality(rest) = Cardinality(after) /\ Cardinality(after) \in Nat
  <2>. HIDE DEF after, rest
  <2>. QED  BY <1>6, <1>8, FS_Bijection, FS_CardinalityType
<1>10. Cardinality(rest) = IF 1 \in before THEN Cardinality(before) - 1 ELSE Cardinality(before)
  <2>. HIDE DEF before
  <2>. QED  BY <1>7, FS_RemoveElement
<1>. HIDE DEF rest, after, before
<1>11. Acp!Unread(c) = before
  BY DEF before
<1>. QED  BY <1>2, <1>3, <1>7, <1>9, <1>10, <1>11

\* What Queued, Silent and Taken say of one turn.
TurnQueued(c) ==
    acp_stage[c] \in Acp!Settling \cup {"prompting"} /\ acp_session[c] \notin acp_spoiled =>
      /\ Acp!OnlyOf(c, acp_queue[acp_session[c]])
      /\ Len(acp_queue[acp_session[c]]) =
           Acp!Least(QueueLimit, acp_written[c].updates - Cardinality(Acp!Unread(c)))
      /\ acp_stage[c] = "prompting" => acp_session[c] \in acp_routed
      /\ acp_stage[c] # "prompting" => Acp!Unread(c) = {} /\ Acp!Ended(c)
TurnSilent(d) ==
    acp_stage[d] \in Acp!Over /\ acp_written[d].sent /\ acp_session[d] \notin acp_spoiled =>
      \/ Acp!Unread(d) = {} /\ Acp!Ended(d)
      \/ ~acp_connected /\ \A c \in Calls : acp_session[c] = acp_session[d] => acp_stage[c] \notin Acp!Settling
TurnTaken(c) ==
    acp_stage[c] = "done" /\ acp_session[c] \notin acp_spoiled =>
      /\ Acp!OnlyOf(c, acp_answer[c]) /\ acp_answer[c] # <<>> /\ Acp!Ended(c)
      /\ Len(acp_answer[c]) = Acp!Least(QueueLimit, acp_written[c].updates)
AcpCounted == \A c \in Calls : Cardinality(Acp!Unread(c)) <= acp_written[c].updates

LEMMA AcpByTurn ==
    /\ Acp!Queued <=> AcpCounted /\ \A c \in Calls : TurnQueued(c)
    /\ Acp!Silent <=> \A d \in Calls : TurnSilent(d)
    /\ Acp!Taken <=> \A c \in Calls : TurnTaken(c)
BY SameAcpCardinality DEF Acp!Queued, Acp!Silent, Acp!Taken, TurnQueued, TurnSilent, TurnTaken, AcpCounted

LEMMA AcpByTurnNext ==
    ASSUME AcpCounted', \A c \in Calls : TurnQueued(c)' /\ TurnSilent(c)' /\ TurnTaken(c)'
    PROVE  Acp!Queued' /\ Acp!Silent' /\ Acp!Taken'
PROOF
<1>1. Acp!Queued'
  BY SameAcpCardinality DEF Acp!Queued, TurnQueued, AcpCounted
<1>2. Acp!Silent'
  BY DEF Acp!Silent, TurnSilent
<1>3. Acp!Taken'
  BY DEF Acp!Taken, TurnTaken
<1>. QED  BY <1>1, <1>2, <1>3

LEMMA AcpBegins == Acp!AcpAssumption /\ Acp!Init => Acp!IInv
PROOF
<1>. SUFFICES ASSUME Acp!AcpAssumption, Acp!Init PROVE Acp!IInv
  OBVIOUS
<1>1. acp_wire = <<>> /\ acp_completed = <<>> /\ Len(<<>>) = 0 /\ <<>> \in Seq(Calls) /\ <<>> \in Seq(Acp!Messages)
  BY EmptySeq DEF Acp!Init
<1>2. \A c : Acp!Unread(c) = {} /\ Cardinality(Acp!Unread(c)) = 0
  BY <1>1, FS_EmptySet DEF Acp!Unread
<1>3. Acp!TypeOK
  <2>1. /\ acp_queue \in [Sessions -> Seq(Calls)] /\ acp_answer \in [Calls -> Seq(Calls)]
        /\ acp_completed \in Seq(Calls) /\ acp_wire \in Seq(Acp!Messages)
    BY <1>1 DEF Acp!Init
  <2>2. acp_written \in [Calls -> [sent : BOOLEAN, updates : 0..MaxUpdates, noted : BOOLEAN, answered : BOOLEAN]]
    BY DEF Acp!Init, Acp!AcpAssumption
  <2>. QED  BY <2>1, <2>2 DEF Acp!TypeOK, Acp!Init
<1>4. Acp!Exclusive
  BY DEF Acp!Init, Acp!Exclusive, Acp!InFlight, Acp!Waiting
<1>5. Acp!Sent /\ Acp!Ordered
  BY <1>1 DEF Acp!Init, Acp!Sent, Acp!Ordered
<1>6. AcpCounted
  BY <1>2 DEF Acp!Init, AcpCounted
<1>7. \A c \in Calls : TurnQueued(c) /\ TurnSilent(c) /\ TurnTaken(c)
  BY DEF Acp!Init, TurnQueued, TurnSilent, TurnTaken, Acp!Settling, Acp!Over
<1>. QED  BY <1>3, <1>4, <1>5, <1>6, <1>7, AcpByTurn DEF Acp!IInv

\* What is known of the message that is read next.
LEMMA AcpReads ==
    ASSUME Acp!AcpAssumption, Acp!IInv, acp_written' = acp_written, NEW kind, Acp!Delivers(kind)
    PROVE  /\ acp_wire' \in Seq(Acp!Messages) /\ Acp!Ordered' /\ AcpCounted'
           /\ Acp!It \in Calls /\ acp_session[Acp!It] \in Sessions /\ acp_written[Acp!It].sent
           /\ kind = "completion" => acp_written[Acp!It].noted
           /\ kind \in {"response", "error"} => acp_written[Acp!It].answered
           /\ \A c \in Calls : kind # "update" /\ c = Acp!It => Acp!Unread(c)' = {}
           /\ \A c \in Calls : kind = "update" /\ c = Acp!It
                                 => Cardinality(Acp!Unread(c)) = Cardinality(Acp!Unread(c)') + 1
           /\ \A c \in Calls : ~(kind = "update" /\ c = Acp!It)
                                 => Cardinality(Acp!Unread(c)') = Cardinality(Acp!Unread(c))
           /\ \A c \in Calls : Acp!Unread(c) = {} => Acp!Unread(c)' = {}
PROOF
<1>. DEFINE n == Len(acp_wire)
<1>1. acp_wire \in Seq(Acp!Messages) /\ acp_wire # <<>> /\ acp_wire' = Tail(acp_wire) /\ Head(acp_wire).kind = kind
  BY AcpTyped DEF Acp!IInv, Acp!Delivers
<1>2. /\ n \in Nat /\ 1 \in 1..n /\ acp_wire' \in Seq(Acp!Messages) /\ Len(acp_wire') = n - 1
      /\ \A i \in 1..(n - 1) : acp_wire'[i] = acp_wire[i + 1]
      /\ Head(acp_wire) = acp_wire[1] /\ \A i \in 1..n : acp_wire[i] \in Acp!Messages
  BY <1>1, HeadTailProperties, LenProperties, EmptySeq
<1>. HIDE DEF n
<1>3. Acp!It = acp_wire[1].prompt /\ kind = acp_wire[1].kind /\ Acp!It \in Calls
  BY <1>1, <1>2 DEF Acp!It, Acp!Messages
<1>4. PICK it \in Calls : it = Acp!It
  BY <1>3
<1>5. \A i \in 1..n : /\ acp_written[acp_wire[i].prompt].sent
                      /\ acp_wire[i].kind = "completion" => acp_written[acp_wire[i].prompt].noted
                      /\ acp_wire[i].kind \in {"response", "error"} => acp_written[acp_wire[i].prompt].answered
  BY DEF Acp!IInv, Acp!Ordered, n
<1>6. \A i, j \in 1..n : i < j /\ acp_wire[i].kind # "update" /\ acp_wire[j].kind = "update"
                         => acp_wire[i].prompt # acp_wire[j].prompt
  BY DEF Acp!IInv, Acp!Ordered, n
<1>7. /\ acp_written[it].sent /\ acp_session[it] \in Sessions
      /\ kind = "completion" => acp_written[it].noted
      /\ kind \in {"response", "error"} => acp_written[it].answered
  <2>1. acp_session[it] \in Sessions \cup {None}
    BY AcpTyped DEF Acp!IInv
  <2>. QED  BY <1>2, <1>3, <1>4, <1>5, <2>1 DEF Acp!IInv, Acp!Sent
<1>8. Acp!Ordered'
  <2>1. \A i \in 1..(n - 1) : i + 1 \in 1..n
    BY <1>2
  <2>2. \A i \in 1..(n - 1) :
          /\ acp_written[acp_wire'[i].prompt].sent
          /\ acp_wire'[i].kind = "completion" => acp_written[acp_wire'[i].prompt].noted
          /\ acp_wire'[i].kind \in {"response", "error"} => acp_written[acp_wire'[i].prompt].answered
    BY <1>2, <1>5, <2>1
  <2>3. \A i, j \in 1..(n - 1) : i < j /\ acp_wire'[i].kind # "update" /\ acp_wire'[j].kind = "update"
                                 => acp_wire'[i].prompt # acp_wire'[j].prompt
    <3>. TAKE i, j \in 1..(n - 1)
    <3>1. i + 1 \in 1..n /\ j + 1 \in 1..n /\ (i < j => i + 1 < j + 1)
      BY <1>2
    <3>2. acp_wire'[i] = acp_wire[i + 1] /\ acp_wire'[j] = acp_wire[j + 1]
      BY <1>2
    <3>3. i + 1 < j + 1 /\ acp_wire[i + 1].kind # "update" /\ acp_wire[j + 1].kind = "update"
            => acp_wire[i + 1].prompt # acp_wire[j + 1].prompt
      BY <1>6, <3>1, Zenon
    <3>. QED  BY <3>1, <3>2, <3>3
  <2>. QED  BY <1>2, <2>2, <2>3 DEF Acp!Ordered
<1>9. ASSUME kind # "update" PROVE Acp!Unread(it)' = {}
  <2>. SUFFICES ASSUME NEW i \in 1..(n - 1), acp_wire'[i].kind = "update", acp_wire'[i].prompt = it PROVE FALSE
    BY <1>2 DEF Acp!Unread
  <2>1. i + 1 \in 1..n /\ 1 < i + 1
    BY <1>2
  <2>. QED  BY <1>2, <1>3, <1>4, <1>6, <1>9, <2>1
<1>10. \A c \in Calls :
         /\ kind = "update" /\ it = c => Cardinality(Acp!Unread(c)) = Cardinality(Acp!Unread(c)') + 1
         /\ ~(kind = "update" /\ it = c) => Cardinality(Acp!Unread(c)') = Cardinality(Acp!Unread(c))
  BY <1>1, <1>3, <1>4, AcpCountsDown
<1>11. \A c \in Calls : /\ Cardinality(Acp!Unread(c)) \in Nat
                        /\ Cardinality(Acp!Unread(c)) = 0 <=> Acp!Unread(c) = {}
  BY <1>1, AcpCount
<1>12. \A c \in Calls : /\ Cardinality(Acp!Unread(c)') \in Nat
                        /\ Cardinality(Acp!Unread(c)') = 0 <=> Acp!Unread(c)' = {}
  <2>1. ASSUME NEW c PROVE (acp_wire \in Seq(Acp!Messages) => /\ Cardinality(Acp!Unread(c)) \in Nat
                                                              /\ Cardinality(Acp!Unread(c)) = 0 <=> Acp!Unread(c) = {})'
    BY AcpCount, PTL
  <2>. QED  BY <1>2, <2>1
<1>13. AcpCounted'
  <2>1. ASSUME NEW c \in Calls PROVE Cardinality(Acp!Unread(c)') <= acp_written[c].updates
    <3>1. Cardinality(Acp!Unread(c)) <= acp_written[c].updates /\ acp_written[c].updates \in Int
      BY AcpTyped, AcpByTurn DEF Acp!IInv, AcpCounted, AcpNotes
    <3>. QED  BY <1>10, <1>11, <1>12, <3>1
  <2>. QED  BY <2>1 DEF AcpCounted
<1>14. \A c \in Calls : Acp!Unread(c) = {} => Acp!Unread(c)' = {}
  BY <1>10, <1>11, <1>12
<1>15. /\ \A c \in Calls : kind # "update" /\ c = Acp!It => Acp!Unread(c)' = {}
       /\ \A c \in Calls : kind = "update" /\ c = Acp!It
                             => Cardinality(Acp!Unread(c)) = Cardinality(Acp!Unread(c)') + 1
       /\ \A c \in Calls : ~(kind = "update" /\ c = Acp!It)
                             => Cardinality(Acp!Unread(c)') = Cardinality(Acp!Unread(c))
  <2>1. \A c \in Calls : c = Acp!It <=> c = it
    BY <1>4
  <2>. QED  BY <1>9, <1>10, <2>1
<1>. QED  BY <1>2, <1>4, <1>7, <1>8, <1>13, <1>14, <1>15

\* The provider writes: an update is one more to be read.
LEMMA AcpWrites ==
    ASSUME Acp!AcpAssumption, Acp!IInv, NEW c \in Calls, Acp!Provider(c)
    PROVE  Acp!IInv'
PROOF
<1>1. /\ UNCHANGED <<acp_boot, acp_child, acp_alive, acp_closed, acp_connected, acp_live, acp_metadata, acp_routed,
                     acp_queue, acp_active, acp_pending, acp_completed, acp_stage, acp_session, acp_answer,
                     acp_spoiled>>
      /\ acp_written[c].sent
  BY DEF Acp!Provider, Acp!Update, Acp!Respond, Acp!Complete, Acp!ProviderStep, Acp!process, Acp!node, Acp!turns
<1>2. acp_written \in [Calls -> AcpNotes] /\ acp_wire \in Seq(Acp!Messages) /\ MaxUpdates \in Nat
  BY AcpTyped DEF Acp!IInv, Acp!AcpAssumption
<1>3. \E m \in Acp!Messages, w \in AcpNotes :
        /\ m.prompt = c /\ acp_wire' = Append(acp_wire, m) /\ acp_written' = [acp_written EXCEPT ![c] = w] /\ w.sent
        /\ acp_written[c].noted => w.noted
        /\ acp_written[c].answered => w.answered
        /\ \/ /\ m.kind = "update" /\ ~acp_written[c].noted /\ ~acp_written[c].answered
              /\ w.updates = acp_written[c].updates + 1
           \/ /\ m.kind # "update" /\ w.updates = acp_written[c].updates
              /\ m.kind = "completion" => w.noted
              /\ m.kind \in {"response", "error"} => w.answered
  <2>1. CASE Acp!Update(c)
    <3>. DEFINE m == [kind |-> "update", prompt |-> c, id |-> TRUE]
                w == [acp_written[c] EXCEPT !.updates = acp_written[c].updates + 1]
    <3>0. m \in Acp!Messages
      BY DEF Acp!Messages
    <3>1. w \in AcpNotes /\ w.updates = acp_written[c].updates + 1
          /\ w.sent /\ w.noted = acp_written[c].noted /\ w.answered = acp_written[c].answered
      <4>1. acp_written[c] \in AcpNotes /\ acp_written[c].updates + 1 \in 0..MaxUpdates
        <5>1. acp_written[c].updates \in 0..MaxUpdates /\ acp_written[c].updates < MaxUpdates
          BY <1>2, <2>1 DEF AcpNotes, Acp!Update
        <5>. QED  BY <1>2, <5>1
      <4>. QED  BY <1>1, <4>1 DEF AcpNotes
    <3>2. acp_wire' = Append(acp_wire, m) /\ acp_written' = [acp_written EXCEPT ![c] = w]
          /\ ~acp_written[c].noted /\ ~acp_written[c].answered
      BY <2>1 DEF Acp!Update, Acp!Writes
    <3>3. m.kind = "update" /\ m.prompt = c
      OBVIOUS
    <3>. HIDE DEF m, w
    <3>. QED  BY <3>0, <3>1, <3>2, <3>3
  <2>2. CASE Acp!Respond(c)
    <3>. DEFINE w == [acp_written[c] EXCEPT !.answered = TRUE]
    <3>1. PICK kind \in {"response", "error"} : acp_wire' = Append(acp_wire, [kind |-> kind, prompt |-> c, id |-> TRUE])
      BY <2>2 DEF Acp!Respond, Acp!Writes
    <3>2. PICK m \in Acp!Messages : m.kind = kind /\ m.prompt = c /\ acp_wire' = Append(acp_wire, m)
      BY <3>1 DEF Acp!Messages
    <3>3. w \in AcpNotes /\ w.updates = acp_written[c].updates
          /\ w.sent /\ w.noted = acp_written[c].noted /\ w.answered
      BY <1>1, <1>2 DEF AcpNotes
    <3>4. acp_written' = [acp_written EXCEPT ![c] = w]
      BY <2>2 DEF Acp!Respond
    <3>. HIDE DEF w
    <3>. QED  BY <3>1, <3>2, <3>3, <3>4
  <2>3. CASE Acp!Complete(c)
    <3>. DEFINE w == [acp_written[c] EXCEPT !.noted = TRUE]
    <3>1. PICK known \in BOOLEAN : acp_wire' = Append(acp_wire, [kind |-> "completion", prompt |-> c, id |-> known])
      BY <2>3 DEF Acp!Complete, Acp!Writes
    <3>2. PICK m \in Acp!Messages : m.kind = "completion" /\ m.prompt = c /\ acp_wire' = Append(acp_wire, m)
      BY <3>1 DEF Acp!Messages
    <3>3. w \in AcpNotes /\ w.updates = acp_written[c].updates
          /\ w.sent /\ w.noted /\ w.answered = acp_written[c].answered
      BY <1>1, <1>2 DEF AcpNotes
    <3>4. acp_written' = [acp_written EXCEPT ![c] = w]
      BY <2>3 DEF Acp!Complete
    <3>. HIDE DEF w
    <3>. QED  BY <3>2, <3>3, <3>4
  <2>. QED  BY <2>1, <2>2, <2>3 DEF Acp!Provider
<1>4. PICK m \in Acp!Messages, w \in AcpNotes :
        /\ m.prompt = c /\ acp_wire' = Append(acp_wire, m) /\ acp_written' = [acp_written EXCEPT ![c] = w] /\ w.sent
        /\ acp_written[c].noted => w.noted
        /\ acp_written[c].answered => w.answered
        /\ \/ /\ m.kind = "update" /\ ~acp_written[c].noted /\ ~acp_written[c].answered
              /\ w.updates = acp_written[c].updates + 1
           \/ /\ m.kind # "update" /\ w.updates = acp_written[c].updates
              /\ m.kind = "completion" => w.noted
              /\ m.kind \in {"response", "error"} => w.answered
  BY <1>3
<1>5. /\ acp_written' \in [Calls -> AcpNotes] /\ acp_written'[c] = w
      /\ \A d \in Calls : d # c => acp_written'[d] = acp_written[d]
      /\ acp_wire' \in Seq(Acp!Messages)
  BY <1>2, <1>4
<1>6. Acp!TypeOK'
  BY <1>1, <1>5 DEF Acp!IInv, Acp!TypeOK, AcpNotes
<1>7. Acp!Exclusive'
  BY <1>1 DEF Acp!IInv, Acp!Exclusive, Acp!InFlight
<1>8. Acp!Sent'
  BY <1>1, <1>4, <1>5 DEF Acp!IInv, Acp!Sent
<1>9. \A d \in Calls : /\ acp_written[d].sent => acp_written'[d].sent
                       /\ acp_written[d].noted => acp_written'[d].noted
                       /\ acp_written[d].answered => acp_written'[d].answered
  BY <1>4, <1>5
<1>10. /\ Len(acp_wire) \in Nat /\ Len(acp_wire') = Len(acp_wire) + 1
       /\ \A i \in 1..Len(acp_wire) : acp_wire'[i] = acp_wire[i]
       /\ \A i \in 1..Len(acp_wire) : acp_wire[i].prompt \in Calls
       /\ acp_wire'[Len(acp_wire) + 1] = m
  <2>1. \A i \in 1..Len(acp_wire) : acp_wire[i].prompt \in Calls
    <3>1. \A i \in 1..Len(acp_wire) : acp_wire[i] \in Acp!Messages
      BY <1>2
    <3>. QED  BY <3>1 DEF Acp!Messages
  <2>. QED  BY <1>2, <1>4, <2>1, AppendProperties, LenProperties
<1>11. Acp!Ordered'
  <2>. DEFINE n == Len(acp_wire)
  <2>. HIDE DEF n
  <2>1. \A i \in 1..n : /\ acp_written[acp_wire[i].prompt].sent
                        /\ acp_wire[i].kind = "completion" => acp_written[acp_wire[i].prompt].noted
                        /\ acp_wire[i].kind \in {"response", "error"} => acp_written[acp_wire[i].prompt].answered
    BY DEF Acp!IInv, Acp!Ordered, n
  <2>2. \A i, j \in 1..n : i < j /\ acp_wire[i].kind # "update" /\ acp_wire[j].kind = "update"
                           => acp_wire[i].prompt # acp_wire[j].prompt
    BY DEF Acp!IInv, Acp!Ordered, n
  <2>3. /\ n \in Nat /\ Len(acp_wire') = n + 1 /\ acp_wire'[n + 1] = m
        /\ \A i \in 1..n : acp_wire'[i] = acp_wire[i] /\ acp_wire[i].prompt \in Calls /\ acp_wire[i] \in Acp!Messages
    BY <1>2, <1>10 DEF n
  <2>4. ASSUME NEW i \in 1..(n + 1)
        PROVE  /\ acp_written'[acp_wire'[i].prompt].sent
               /\ acp_wire'[i].kind = "completion" => acp_written'[acp_wire'[i].prompt].noted
               /\ acp_wire'[i].kind \in {"response", "error"} => acp_written'[acp_wire'[i].prompt].answered
    <3>1. CASE i \in 1..n
      BY <1>9, <2>1, <2>3, <3>1
    <3>2. CASE i = n + 1
      BY <1>4, <1>5, <2>3, <3>2
    <3>. QED  BY <2>3, <3>1, <3>2
  <2>5. ASSUME NEW i \in 1..(n + 1), NEW j \in 1..(n + 1), i < j, acp_wire'[i].kind # "update",
               acp_wire'[j].kind = "update"
        PROVE  acp_wire'[i].prompt # acp_wire'[j].prompt
    <3>1. i \in 1..n
      BY <2>3, <2>5
    <3>2. CASE j \in 1..n
      <4>1. acp_wire'[i] = acp_wire[i] /\ acp_wire'[j] = acp_wire[j]
        BY <2>3, <3>1, <3>2
      <4>. QED  BY <2>2, <2>5, <3>1, <3>2, <4>1
    <3>3. CASE j = n + 1
      <4>1. acp_wire[i].kind \in {"update", "response", "error", "completion"}
        BY <2>3, <3>1 DEF Acp!Messages
      <4>2. acp_wire[i].prompt # c
        BY <1>4, <2>1, <2>3, <2>5, <3>1, <3>3, <4>1
      <4>. QED  BY <1>4, <2>3, <3>1, <3>3, <4>2
    <3>. QED  BY <2>3, <3>2, <3>3
  <2>. QED  BY <2>3, <2>4, <2>5 DEF Acp!Ordered
<1>12. \A d \in Calls : /\ m.kind = "update" /\ c = d => Cardinality(Acp!Unread(d)') = Cardinality(Acp!Unread(d)) + 1
                        /\ ~(m.kind = "update" /\ c = d) => Acp!Unread(d)' = Acp!Unread(d)
  BY <1>2, <1>4, AcpCountsOn
<1>13. \A d \in Calls : Cardinality(Acp!Unread(d)) \in Nat /\ acp_written[d].updates \in Nat /\ acp_written'[d].updates \in Nat
  BY <1>2, <1>5, AcpCount DEF AcpNotes
<1>14. \A d \in Calls : acp_written'[d].updates - Cardinality(Acp!Unread(d)')
                          = acp_written[d].updates - Cardinality(Acp!Unread(d))
  <2>. TAKE d \in Calls
  <2>1. CASE d # c
    BY <1>5, <1>12, <2>1
  <2>2. CASE d = c
    <3>1. acp_written'[d].updates = w.updates
      BY <1>5, <2>2
    <3>2. CASE m.kind = "update"
      BY <1>4, <1>12, <1>13, <2>2, <3>1, <3>2
    <3>3. CASE m.kind # "update"
      BY <1>4, <1>12, <2>2, <3>1, <3>3
    <3>. QED  BY <3>2, <3>3
  <2>. QED  BY <2>1, <2>2
<1>15. AcpCounted'
  <2>1. AcpCounted
    BY AcpByTurn DEF Acp!IInv
  <2>. QED  BY <1>4, <1>5, <1>12, <1>13, <2>1 DEF AcpCounted
<1>16. ASSUME NEW d \in Calls PROVE /\ Acp!Ended(d) => /\ Acp!Ended(d)' /\ Acp!Unread(d)' = Acp!Unread(d)
                                                       /\ acp_written'[d].updates = acp_written[d].updates
  BY <1>4, <1>5, <1>9, <1>12 DEF Acp!Ended
<1>17. ASSUME NEW d \in Calls PROVE TurnQueued(d)' /\ TurnSilent(d)' /\ TurnTaken(d)'
  <2>1. TurnQueued(d) /\ TurnSilent(d) /\ TurnTaken(d)
    BY AcpByTurn DEF Acp!IInv
  <2>2. TurnQueued(d)'
    BY <1>1, <1>14, <1>16, <2>1 DEF TurnQueued, Acp!OnlyOf
  <2>3. TurnSilent(d)'
    <3>1. acp_stage[d] \in Acp!Over /\ acp_written'[d].sent => acp_written[d].sent
      BY <1>1, <1>4, <1>5
    <3>. QED  BY <1>1, <1>16, <2>1, <3>1 DEF TurnSilent
  <2>4. TurnTaken(d)'
    BY <1>1, <1>16, <2>1 DEF TurnTaken, Acp!OnlyOf
  <2>. QED  BY <2>2, <2>3, <2>4
<1>18. Acp!Queued' /\ Acp!Silent' /\ Acp!Taken'
  BY <1>15, <1>17, AcpByTurnNext
<1>. QED  BY <1>6, <1>7, <1>8, <1>11, <1>18 DEF Acp!IInv

\* A step that leaves the wire and what is known of the prompts.
LEMMA AcpWireKept ==
    ASSUME Acp!AcpAssumption, Acp!IInv, acp_wire' = acp_wire,
           \A d \in Calls : /\ acp_written[d].sent => acp_written'[d].sent
                            /\ acp_written'[d].noted = acp_written[d].noted
                            /\ acp_written'[d].answered = acp_written[d].answered
                            /\ acp_written'[d].updates = acp_written[d].updates
    PROVE  /\ Acp!Ordered' /\ AcpCounted'
           /\ \A d \in Calls : Acp!Unread(d)' = Acp!Unread(d) /\ (Acp!Ended(d)' <=> Acp!Ended(d))
PROOF
<1>1. \A d : Acp!Unread(d)' = Acp!Unread(d)
  BY DEF Acp!Unread
<1>2. \A i \in 1..Len(acp_wire) : acp_wire[i].prompt \in Calls
  <2>1. \A i \in 1..Len(acp_wire) : acp_wire[i] \in Acp!Messages
    BY AcpTyped DEF Acp!IInv
  <2>. QED  BY <2>1 DEF Acp!Messages
<1>3. Acp!Ordered'
  BY <1>2 DEF Acp!IInv, Acp!Ordered
<1>4. AcpCounted'
  BY <1>1, AcpByTurn DEF Acp!IInv, AcpCounted
<1>. QED  BY <1>1, <1>3, <1>4 DEF Acp!Ended

\* A step that leaves the turns where they are.
LEMMA AcpStays ==
    ASSUME Acp!AcpAssumption, Acp!IInv, Acp!TypeOK', Acp!Exclusive', Acp!Ordered', AcpCounted',
           UNCHANGED <<acp_stage, acp_session, acp_answer, acp_queue, acp_written>>,
           acp_spoiled \subseteq acp_spoiled',
           \A c \in Calls : acp_stage[c] = "prompting" /\ acp_session[c] \in acp_routed => acp_session[c] \in acp_routed',
           acp_connected' = acp_connected \/ \A c \in Calls : acp_stage[c] = "idle",
           \A d \in Calls : Cardinality(Acp!Unread(d)') = Cardinality(Acp!Unread(d)),
           \A d \in Calls : Acp!Unread(d) = {} => Acp!Unread(d)' = {}
    PROVE  Acp!IInv'
PROOF
<1>1. Acp!Sent'
  BY DEF Acp!IInv, Acp!Sent
<1>2. ASSUME NEW d \in Calls PROVE TurnQueued(d)' /\ TurnSilent(d)' /\ TurnTaken(d)'
  <2>1. TurnQueued(d) /\ TurnSilent(d) /\ TurnTaken(d) /\ (Acp!Ended(d)' <=> Acp!Ended(d))
    BY AcpByTurn DEF Acp!IInv, Acp!Ended
  <2>2. TurnQueued(d)'
    BY <2>1 DEF TurnQueued, Acp!OnlyOf
  <2>3. TurnSilent(d)'
    BY <2>1 DEF TurnSilent, Acp!Over
  <2>4. TurnTaken(d)'
    BY <2>1 DEF TurnTaken, Acp!OnlyOf
  <2>. QED  BY <2>2, <2>3, <2>4
<1>. QED  BY <1>1, <1>2, AcpByTurnNext DEF Acp!IInv

\* A turn in flight that settles, or fails: what it was sent for is over, or it was not sent.
LEMMA AcpGoes ==
    ASSUME Acp!AcpAssumption, Acp!IInv, Acp!TypeOK', Acp!Ordered', AcpCounted',
           NEW c \in Calls, NEW to \in Acp!Settling \cup {"failed"}, Acp!InFlight(c),
           acp_stage' = [acp_stage EXCEPT ![c] = to],
           to # "failed" => acp_stage[c] \in Acp!Settling \cup {"prompting"},
           \/ to = "failed" /\ ~acp_written[c].sent
           \/ acp_session[c] \in acp_spoiled'
           \/ Acp!Unread(c)' = {} /\ Acp!Ended(c),
           UNCHANGED <<acp_boot, acp_alive, acp_connected, acp_session, acp_answer, acp_queue, acp_routed,
                       acp_written>>,
           acp_spoiled \subseteq acp_spoiled',
           \A d \in Calls : Cardinality(Acp!Unread(d)') = Cardinality(Acp!Unread(d)),
           \A d \in Calls : Acp!Unread(d) = {} => Acp!Unread(d)' = {}
    PROVE  Acp!IInv'
PROOF
<1>1. acp_stage'[c] = to /\ \A d \in Calls : d # c => acp_stage'[d] = acp_stage[d]
  BY AcpTyped DEF Acp!IInv
<1>2. \A d \in Calls : (Acp!InFlight(d)' => Acp!InFlight(d)) /\ (acp_stage'[d] \in Acp!Waiting => acp_stage[d] \in Acp!Waiting)
  BY <1>1 DEF Acp!InFlight, Acp!Over, Acp!Settling, Acp!Waiting
<1>3. Acp!Exclusive'
  <2>1. \A d \in Calls : /\ acp_stage'[d] = "idle" <=> acp_stage[d] = "idle"
                         /\ acp_stage'[d] \in {"idle", "opening"} => acp_stage'[d] = acp_stage[d]
    BY <1>1 DEF Acp!InFlight, Acp!Settling
  <2>2. acp_alive => acp_connected /\ acp_boot = "ready"
    BY DEF Acp!IInv, Acp!Exclusive
  <2>3. acp_boot \in {"none", "starting", "stopping", "failed"} => \A d \in Calls : acp_stage'[d] = "idle"
    BY <2>1 DEF Acp!IInv, Acp!Exclusive
  <2>4. ~acp_connected => \A d \in Calls : acp_stage'[d] \notin Acp!Waiting
    BY <1>2 DEF Acp!IInv, Acp!Exclusive
  <2>5. ASSUME NEW d \in Calls
        PROVE  /\ acp_session[d] \in {None, Want[d]} \/ Want[d] = None
               /\ acp_stage'[d] \in {"idle", "opening"} => acp_session[d] = None
               /\ Acp!InFlight(d)' /\ acp_stage'[d] # "opening" => acp_session[d] # None
    <3>1. /\ acp_session[d] \in {None, Want[d]} \/ Want[d] = None
          /\ acp_stage[d] \in {"idle", "opening"} => acp_session[d] = None
          /\ Acp!InFlight(d) /\ acp_stage[d] # "opening" => acp_session[d] # None
      BY DEF Acp!IInv, Acp!Exclusive
    <3>2. acp_stage[d] = "opening" /\ acp_stage'[d] # "opening" => ~Acp!InFlight(d)'
      BY <1>1 DEF Acp!InFlight, Acp!Over, Acp!Settling
    <3>. QED  BY <1>2, <2>1, <3>1, <3>2
  <2>6. \A d, e \in Calls : d # e /\ Acp!InFlight(d)' /\ Acp!InFlight(e)' =>
          {Want[d], acp_session[d]} \cap {Want[e], acp_session[e]} \subseteq {None}
    BY <1>2 DEF Acp!IInv, Acp!Exclusive
  <2>. QED  BY <2>2, <2>3, <2>4, <2>5, <2>6 DEF Acp!Exclusive
<1>4. Acp!Sent'
  BY <1>1 DEF Acp!IInv, Acp!Sent, Acp!Settling, Acp!InFlight
<1>5. ASSUME NEW d \in Calls PROVE TurnQueued(d)' /\ TurnSilent(d)' /\ TurnTaken(d)'
  <2>1. TurnQueued(d) /\ TurnSilent(d) /\ TurnTaken(d) /\ (Acp!Ended(d)' <=> Acp!Ended(d))
    BY AcpByTurn DEF Acp!IInv, Acp!Ended
  <2>2. TurnQueued(d)'
    BY <1>1, <2>1 DEF TurnQueued, Acp!OnlyOf, Acp!Settling
  <2>3. TurnTaken(d)'
    BY <1>1, <2>1 DEF TurnTaken, Acp!OnlyOf, Acp!Settling
  <2>4. TurnSilent(d)'
    <3>1. CASE d = c
      BY <1>1, <2>1, <3>1 DEF TurnSilent, Acp!Over, Acp!Settling
    <3>2. CASE d # c
      <4>1. ~acp_connected /\ to # "failed" => acp_stage[c] \in Acp!Settling
        BY DEF Acp!IInv, Acp!Exclusive, Acp!Waiting
      <4>2. (~acp_connected /\ \A e \in Calls : acp_session[e] = acp_session[d] => acp_stage[e] \notin Acp!Settling)
              => \A e \in Calls : acp_session[e] = acp_session[d] => acp_stage'[e] \notin Acp!Settling
        BY <1>1, <4>1 DEF Acp!Settling
      <4>3. acp_stage'[d] = acp_stage[d]
        BY <1>1, <3>2
      <4>. QED  BY <2>1, <4>2, <4>3 DEF TurnSilent
    <3>. QED  BY <3>1, <3>2
  <2>. QED  BY <2>2, <2>3, <2>4
<1>6. Acp!Queued' /\ Acp!Silent' /\ Acp!Taken'
  BY <1>5, AcpByTurnNext
<1>. QED  BY <1>3, <1>4, <1>6 DEF Acp!IInv

\* The process of the runtime starts, stops and leaves before it has taken a turn; a session is released.
LEMMA AcpProcess ==
    ASSUME Acp!AcpAssumption, Acp!IInv,
           \/ Acp!Start \/ Acp!Initialized \/ Acp!StartFails \/ Acp!Stopped
           \/ Acp!Exit /\ acp_boot \notin {"ready", "closing", "closed"}
           \/ \E s \in Sessions : Acp!Release(s)
    PROVE  Acp!IInv'
PROOF
<1>1. UNCHANGED <<acp_queue, acp_active, acp_pending, acp_completed, acp_stage, acp_session, acp_answer, acp_spoiled,
                  acp_wire, acp_written, acp_closed>>
  BY DEF Acp!Start, Acp!Initialized, Acp!StartFails, Acp!Stopped, Acp!Exit, Acp!Release, Acp!process, Acp!node,
         Acp!turns
<1>2. /\ Acp!Ordered' /\ AcpCounted'
      /\ \A d \in Calls : Acp!Unread(d)' = Acp!Unread(d)
  BY <1>1, AcpWireKept
<1>3. /\ acp_boot \in {"none", "starting", "stopping", "failed"} => \A c \in Calls : acp_stage[c] = "idle"
      /\ acp_alive => acp_connected /\ acp_boot = "ready"
      /\ acp_stage \in [Calls -> AcpStages]
  BY AcpTyped DEF Acp!IInv, Acp!Exclusive
<1>4. CASE \E s \in Sessions : Acp!Release(s)
  <2>1. PICK s \in Sessions : Acp!Release(s)
    BY <1>4
  <2>2. /\ UNCHANGED <<acp_boot, acp_child, acp_alive, acp_connected>>
        /\ acp_live' = acp_live \ {s} /\ acp_metadata' = acp_metadata \ {s} /\ acp_routed' = acp_routed \ {s}
        /\ \A c \in Calls : acp_session[c] = s => acp_stage[c] \in Acp!Over
    BY <2>1 DEF Acp!Release, Acp!process
  <2>3. Acp!TypeOK'
    BY <1>1, <2>2 DEF Acp!IInv, Acp!TypeOK
  <2>4. Acp!Exclusive'
    BY <1>1, <2>2 DEF Acp!IInv, Acp!Exclusive, Acp!InFlight
  <2>5. \A c \in Calls : acp_stage[c] = "prompting" /\ acp_session[c] \in acp_routed => acp_session[c] \in acp_routed'
    BY <2>2 DEF Acp!Over
  <2>. QED  BY <1>1, <1>2, <2>2, <2>3, <2>4, <2>5, AcpStays
<1>5. CASE ~\E s \in Sessions : Acp!Release(s)
  <2>1. UNCHANGED <<acp_live, acp_metadata, acp_routed>>
    BY <1>5 DEF Acp!Start, Acp!Initialized, Acp!StartFails, Acp!Stopped, Acp!Exit, Acp!node
  <2>2. /\ acp_boot' \in {"none", "starting", "ready", "stopping", "failed", "closing", "closed"}
        /\ acp_child' \in {"none", "up", "term", "killed", "gone"}
        /\ acp_alive' \in BOOLEAN /\ acp_connected' \in BOOLEAN
        /\ acp_alive' => acp_connected' /\ acp_boot' = "ready"
        /\ acp_boot' \in {"none", "starting", "stopping", "failed"}
             => acp_boot \in {"none", "starting", "stopping", "failed"}
        /\ acp_connected' = acp_connected \/ acp_boot \in {"none", "starting", "stopping", "failed"}
    <3>1. /\ acp_boot \in {"none", "starting", "ready", "stopping", "failed", "closing", "closed"}
          /\ acp_child \in {"none", "up", "term", "killed", "gone"}
          /\ acp_alive \in BOOLEAN /\ acp_connected \in BOOLEAN
      BY DEF Acp!IInv, Acp!TypeOK
    <3>2. CASE Acp!Start
      BY <1>3, <3>1, <3>2 DEF Acp!Start
    <3>5. CASE Acp!Initialized
      BY <3>1, <3>5 DEF Acp!Initialized
    <3>6. CASE Acp!Stopped
      BY <1>3, <3>1, <3>6 DEF Acp!Stopped
    <3>3. CASE Acp!StartFails
      BY <1>3, <3>1, <3>3 DEF Acp!StartFails, Acp!Terminated
    <3>4. CASE Acp!Exit /\ acp_boot \notin {"ready", "closing", "closed"}
      BY <1>3, <3>1, <3>4 DEF Acp!Exit
    <3>. QED  BY <1>5, <3>2, <3>3, <3>4, <3>5, <3>6
  <2>3. Acp!TypeOK'
    BY <1>1, <2>1, <2>2 DEF Acp!IInv, Acp!TypeOK
  <2>4. Acp!Exclusive'
    <3>1. ~acp_connected' => \A c \in Calls : acp_stage[c] \notin Acp!Waiting
      BY <1>3, <2>2 DEF Acp!IInv, Acp!Exclusive, Acp!Waiting
    <3>. QED  BY <1>1, <1>3, <2>2, <3>1 DEF Acp!IInv, Acp!Exclusive, Acp!InFlight
  <2>. QED  BY <1>1, <1>2, <1>3, <2>1, <2>2, <2>3, <2>4, AcpStays
<1>. QED  BY <1>4, <1>5

\* A turn that yields to what is queued; one that is refused before its prompt, or given up after it.
LEMMA AcpEnds ==
    ASSUME Acp!AcpAssumption, Acp!IInv, NEW c \in Calls, Acp!Yield(c) \/ Acp!Refused(c) \/ Acp!TimesOut(c)
    PROVE  Acp!IInv'
PROOF
<1>1. /\ UNCHANGED <<acp_boot, acp_child, acp_alive, acp_closed, acp_connected, acp_live, acp_metadata, acp_routed,
                     acp_queue, acp_completed, acp_session, acp_answer, acp_wire, acp_written>>
      /\ acp_pending' \subseteq acp_pending /\ acp_active' \subseteq acp_active
  BY DEF Acp!Yield, Acp!Refused, Acp!TimesOut, Acp!Gives, Acp!Unlock, Acp!process, Acp!node
<1>2. /\ Acp!Ordered' /\ AcpCounted'
      /\ \A d \in Calls : Acp!Unread(d)' = Acp!Unread(d)
  BY <1>1, AcpWireKept
<1>3. acp_stage \in [Calls -> AcpStages] /\ acp_session[c] \in Sessions \cup {None}
  BY AcpTyped DEF Acp!IInv
<1>4. PICK to \in {"yielded", "failed"} : acp_stage' = [acp_stage EXCEPT ![c] = to] /\ (to = "yielded" <=> Acp!Yield(c))
  BY DEF Acp!Yield, Acp!Refused, Acp!TimesOut, Acp!Gives
<1>5. acp_stage' \in [Calls -> AcpStages]
  BY <1>3, <1>4 DEF AcpStages
<1>6. CASE Acp!Yield(c)
  <2>1. to = "yielded" /\ acp_stage[c] = "completed" /\ acp_spoiled' = acp_spoiled
    BY <1>4, <1>6 DEF Acp!Yield
  <2>2. Acp!TypeOK'
    BY <1>1, <1>5, <2>1 DEF Acp!IInv, Acp!TypeOK, AcpStages, Acp!Over, Acp!Waiting
  <2>3. acp_session[c] \in acp_spoiled \/ (Acp!Unread(c) = {} /\ Acp!Ended(c))
    <3>1. TurnQueued(c)
      BY AcpByTurn DEF Acp!IInv
    <3>. QED  BY <2>1, <3>1 DEF TurnQueued, Acp!Settling
  <2>. QED  BY <1>1, <1>2, <1>4, <2>1, <2>2, <2>3, AcpGoes DEF Acp!Settling, Acp!InFlight, Acp!Over
<1>7. CASE Acp!Refused(c)
  <2>1. to = "failed" /\ acp_stage[c] \in {"opening", "configuring"} /\ acp_spoiled' = acp_spoiled
    BY <1>4, <1>7 DEF Acp!Refused, Acp!Yield
  <2>2. Acp!TypeOK'
    BY <1>1, <1>5, <2>1 DEF Acp!IInv, Acp!TypeOK, AcpStages, Acp!Over, Acp!Waiting
  <2>3. ~acp_written[c].sent
    BY <2>1 DEF Acp!IInv, Acp!Sent
  <2>. QED  BY <1>1, <1>2, <1>4, <2>1, <2>2, <2>3, AcpGoes DEF Acp!Settling, Acp!InFlight, Acp!Over
<1>8. CASE Acp!TimesOut(c)
  <2>1. to = "failed" /\ acp_stage[c] = "prompting" /\ acp_spoiled' = acp_spoiled \cup {acp_session[c]}
    BY <1>4, <1>8 DEF Acp!TimesOut, Acp!Yield
  <2>2. acp_session[c] \in Sessions
    BY <1>3, <2>1 DEF Acp!IInv, Acp!Exclusive, Acp!InFlight, Acp!Over
  <2>3. Acp!TypeOK'
    BY <1>1, <1>5, <2>1, <2>2 DEF Acp!IInv, Acp!TypeOK, AcpStages, Acp!Over, Acp!Waiting
  <2>. QED  BY <1>1, <1>2, <1>4, <2>1, <2>3, AcpGoes DEF Acp!Settling, Acp!InFlight, Acp!Over
<1>. QED  BY <1>6, <1>7, <1>8

\* The list of completed prompts takes one more, and drops the oldest.
LEMMA AcpRemembers == ASSUME Acp!TypeOK, NEW c \in Calls PROVE Acp!Remember(c) \in Seq(Calls)
PROOF
<1>1. acp_completed \in Seq(Calls)
  BY DEF Acp!TypeOK
<1>2. Append(acp_completed, c) \in Seq(Calls) /\ Append(acp_completed, c) # <<>>
  <2>1. Append(acp_completed, c) \in Seq(Calls) /\ Len(Append(acp_completed, c)) = Len(acp_completed) + 1
    BY <1>1
  <2>2. Len(acp_completed) \in Nat
    BY <1>1
  <2>. QED  BY <2>1, <2>2, EmptySeq
<1>3. Tail(Append(acp_completed, c)) \in Seq(Calls)
  BY <1>2
<1>. QED  BY <1>1, <1>2, <1>3 DEF Acp!Remember

\* A response, an error or a completion is read.
LEMMA AcpAnswered ==
    ASSUME Acp!AcpAssumption, Acp!IInv, Acp!ResponseArrives \/ Acp!ErrorArrives \/ Acp!CompletionArrives
    PROVE  Acp!IInv'
PROOF
<1>1. PICK kind \in {"response", "error", "completion"} :
        /\ Acp!Delivers(kind)
        /\ kind = "response" => Acp!ResponseArrives
        /\ kind = "error" => Acp!ErrorArrives
        /\ kind = "completion" => Acp!CompletionArrives
  BY DEF Acp!ResponseArrives, Acp!ErrorArrives, Acp!CompletionArrives
<1>2. /\ UNCHANGED <<acp_boot, acp_child, acp_alive, acp_closed, acp_connected, acp_live, acp_metadata, acp_routed,
                     acp_queue, acp_session, acp_answer, acp_written>>
      /\ acp_pending' \subseteq acp_pending /\ acp_active' \subseteq acp_active
  <2>1. CASE kind = "response"
    BY <1>1, <2>1 DEF Acp!ResponseArrives, Acp!process, Acp!node
  <2>2. CASE kind = "error"
    BY <1>1, <2>2 DEF Acp!ErrorArrives, Acp!Gives, Acp!Unlock, Acp!process, Acp!node, Acp!turns
  <2>3. CASE kind = "completion"
    <3>1. acp_pending' \subseteq acp_pending
      BY <1>1, <2>3 DEF Acp!CompletionArrives
    <3>. QED  BY <1>1, <2>3, <3>1 DEF Acp!CompletionArrives, Acp!process
  <2>. QED  BY <2>1, <2>2, <2>3
<1>3. PICK it \in Calls : it = Acp!It
  BY <1>1, <1>2, AcpReads
<1>4. /\ acp_wire' \in Seq(Acp!Messages) /\ Acp!Ordered' /\ AcpCounted'
      /\ acp_session[it] \in Sessions
      /\ kind = "completion" => acp_written[it].noted
      /\ kind \in {"response", "error"} => acp_written[it].answered
      /\ Acp!Unread(it)' = {}
      /\ \A c \in Calls : Cardinality(Acp!Unread(c)') = Cardinality(Acp!Unread(c))
      /\ \A c \in Calls : Acp!Unread(c) = {} => Acp!Unread(c)' = {}
  BY <1>1, <1>2, <1>3, AcpReads
<1>5. Acp!Ended(it)
  BY <1>4 DEF Acp!Ended
<1>6. /\ acp_stage \in [Calls -> AcpStages] /\ acp_spoiled \subseteq Sessions /\ acp_completed \in Seq(Calls)
      /\ \A c \in Calls : acp_session[c] \in Sessions \cup {None}
  BY AcpTyped DEF Acp!IInv, Acp!TypeOK
<1>7. \/ acp_stage' = acp_stage /\ acp_completed' \in Seq(Calls)
         /\ acp_spoiled \subseteq acp_spoiled' /\ acp_spoiled' \subseteq Sessions
      \/ \E c \in Calls, to \in {"answered", "completed", "failed"} :
           /\ acp_stage[c] = "prompting" /\ acp_stage' = [acp_stage EXCEPT ![c] = to]
           /\ acp_completed' \in Seq(Calls)
           /\ acp_spoiled \subseteq acp_spoiled' /\ acp_spoiled' \subseteq Sessions
           /\ c = it \/ acp_session[c] \in acp_spoiled'
  <2>1. CASE kind = "response"
    BY <1>1, <1>3, <1>6, <2>1 DEF Acp!ResponseArrives, Acp!node
  <2>2. CASE kind = "error"
    BY <1>1, <1>3, <1>6, <2>2 DEF Acp!ErrorArrives, Acp!Gives, Acp!node, Acp!turns
  <2>3. CASE kind = "completion"
    <3>1. CASE UNCHANGED <<acp_stage, acp_pending, acp_completed, acp_spoiled>>
      BY <1>6, <3>1
    <3>2. CASE ~UNCHANGED <<acp_stage, acp_pending, acp_completed, acp_spoiled>>
      <4>1. PICK c \in Acp!Settled(Head(acp_wire)) :
              /\ acp_completed' = Acp!Remember(IF Head(acp_wire).id THEN Acp!It ELSE c)
              /\ acp_stage' = IF acp_stage[c] = "prompting" THEN [acp_stage EXCEPT ![c] = "completed"] ELSE acp_stage
              /\ acp_spoiled' = IF Head(acp_wire).id THEN acp_spoiled ELSE acp_spoiled \cup {acp_session[c]}
        BY <1>1, <2>3, <3>2 DEF Acp!CompletionArrives
      <4>2. /\ c \in Calls
            /\ Head(acp_wire).id => c = it
            /\ ~Head(acp_wire).id => acp_session[c] = acp_session[it]
        BY <1>3, <4>1 DEF Acp!Settled, Acp!It, Acp!IInv, Acp!TypeOK
      <4>3. acp_completed' \in Seq(Calls)
        BY <1>3, <4>1, <4>2, AcpRemembers DEF Acp!IInv
      <4>4. /\ acp_spoiled \subseteq acp_spoiled' /\ acp_spoiled' \subseteq Sessions
            /\ c = it \/ acp_session[c] \in acp_spoiled'
        BY <1>4, <1>6, <4>1, <4>2
      <4>. QED  BY <4>1, <4>2, <4>3, <4>4
    <3>. QED  BY <3>1, <3>2
  <2>. QED  BY <2>1, <2>2, <2>3
<1>8. acp_completed' \in Seq(Calls) /\ acp_spoiled' \subseteq Sessions /\ acp_stage' \in [Calls -> AcpStages]
  BY <1>6, <1>7 DEF AcpStages
<1>9. Acp!TypeOK'
  BY <1>2, <1>4, <1>8 DEF Acp!IInv, Acp!TypeOK, AcpStages, Acp!Over, Acp!Waiting
<1>10. CASE acp_stage' = acp_stage
  <2>1. Acp!Exclusive'
    BY <1>2, <1>10 DEF Acp!IInv, Acp!Exclusive, Acp!InFlight
  <2>. QED  BY <1>2, <1>4, <1>7, <1>9, <1>10, <2>1, AcpStays
<1>11. CASE acp_stage' # acp_stage
  <2>1. PICK c \in Calls, to \in {"answered", "completed", "failed"} :
          /\ acp_stage[c] = "prompting" /\ acp_stage' = [acp_stage EXCEPT ![c] = to]
          /\ acp_spoiled \subseteq acp_spoiled'
          /\ c = it \/ acp_session[c] \in acp_spoiled'
    BY <1>7, <1>11
  <2>2. acp_session[c] \in acp_spoiled' \/ (Acp!Unread(c)' = {} /\ Acp!Ended(c))
    <3>1. c = it => Acp!Unread(c)' = {} /\ Acp!Ended(c)
      BY <1>4, <1>5
    <3>. QED  BY <2>1, <3>1
  <2>3. to \in Acp!Settling \cup {"failed"} /\ Acp!InFlight(c)
    BY <2>1 DEF Acp!Settling, Acp!InFlight, Acp!Over
  <2>. QED  BY <1>2, <1>4, <1>9, <2>1, <2>2, <2>3, AcpGoes
<1>. QED  BY <1>10, <1>11

\* A queue that is full drops its oldest update for the new one.
LEMMA AcpFits ==
    ASSUME Acp!AcpAssumption, NEW q \in Seq(Calls), NEW c \in Calls
    PROVE  /\ Acp!Fit(Append(q, c)) \in Seq(Calls)
           /\ Acp!OnlyOf(c, q) => Acp!OnlyOf(c, Acp!Fit(Append(q, c)))
           /\ \A k \in Nat : Len(q) = Acp!Least(QueueLimit, k)
                             => Len(Acp!Fit(Append(q, c))) = Acp!Least(QueueLimit, k + 1)
PROOF
<1>. DEFINE a == Append(q, c)
<1>1. /\ a \in Seq(Calls) /\ a # <<>> /\ Len(a) = Len(q) + 1 /\ Len(q) \in Nat /\ QueueLimit \in Nat \ {0}
      /\ \A i \in 1..Len(q) : a[i] = q[i]
      /\ a[Len(q) + 1] = c
  <2>1. a \in Seq(Calls) /\ Len(a) = Len(q) + 1 /\ Len(q) \in Nat /\ a[Len(q) + 1] = c
        /\ \A i \in 1..Len(q) : a[i] = q[i]
    BY AppendProperties, LenProperties
  <2>. QED  BY <2>1, EmptySeq DEF Acp!AcpAssumption
<1>. HIDE DEF a
<1>2. Tail(a) \in Seq(Calls) /\ Len(Tail(a)) = Len(q) /\ \A i \in 1..Len(q) : Tail(a)[i] = a[i + 1]
  <2>1. Tail(a) \in Seq(Calls) /\ Len(Tail(a)) = Len(a) - 1 /\ \A i \in 1..(Len(a) - 1) : Tail(a)[i] = a[i + 1]
    BY <1>1, HeadTailProperties
  <2>. QED  BY <1>1, <2>1
<1>3. Acp!Fit(a) = IF Len(a) > QueueLimit THEN Tail(a) ELSE a
  BY DEF Acp!Fit
<1>4. Acp!Fit(a) \in Seq(Calls)
  BY <1>1, <1>2, <1>3
<1>5. ASSUME Acp!OnlyOf(c, q) PROVE Acp!OnlyOf(c, Acp!Fit(a))
  <2>1. ASSUME NEW i \in 1..Len(a) PROVE a[i] = c
    <3>1. i \in 1..Len(q) \/ i = Len(q) + 1
      BY <1>1
    <3>. QED  BY <1>1, <1>5, <3>1 DEF Acp!OnlyOf
  <2>2. ASSUME NEW i \in 1..Len(Tail(a)) PROVE Tail(a)[i] = c
    <3>1. i \in 1..Len(q) /\ i + 1 \in 1..Len(a)
      BY <1>1, <1>2
    <3>. QED  BY <1>2, <2>1, <3>1
  <2>. QED  BY <1>3, <2>1, <2>2 DEF Acp!OnlyOf
<1>6. ASSUME NEW k \in Nat, Len(q) = Acp!Least(QueueLimit, k)
      PROVE  Len(Acp!Fit(a)) = Acp!Least(QueueLimit, k + 1)
  BY <1>1, <1>2, <1>3, <1>6 DEF Acp!Least
<1>. QED  BY <1>4, <1>5, <1>6 DEF a

\* An update goes to the queue of its session: unless the session is spoiled, to the turn it is of.
LEMMA AcpCollects ==
    ASSUME Acp!AcpAssumption, Acp!IInv, Acp!UpdateArrives
    PROVE  Acp!IInv'
PROOF
<1>1. /\ Acp!Delivers("update")
      /\ UNCHANGED <<acp_boot, acp_child, acp_alive, acp_closed, acp_connected, acp_live, acp_metadata, acp_routed,
                     acp_active, acp_pending, acp_completed, acp_stage, acp_session, acp_answer, acp_spoiled,
                     acp_written>>
  BY DEF Acp!UpdateArrives, Acp!process, Acp!turns
<1>2. PICK it \in Calls : it = Acp!It
  BY <1>1, AcpReads
<1>3. \A c \in Calls : c = Acp!It <=> c = it
  BY <1>2
<1>4. /\ acp_wire' \in Seq(Acp!Messages) /\ Acp!Ordered' /\ AcpCounted'
      /\ acp_session[it] \in Sessions /\ acp_written[it].sent
      /\ Cardinality(Acp!Unread(it)) = Cardinality(Acp!Unread(it)') + 1
      /\ \A c \in Calls : c # it => Cardinality(Acp!Unread(c)') = Cardinality(Acp!Unread(c))
      /\ \A c \in Calls : Acp!Unread(c) = {} => Acp!Unread(c)' = {}
  BY <1>1, <1>2, <1>3, AcpReads
<1>5. /\ acp_queue \in [Sessions -> Seq(Calls)] /\ acp_wire \in Seq(Acp!Messages)
      /\ acp_written \in [Calls -> AcpNotes] /\ acp_session \in [Calls -> Sessions \cup {None}]
      /\ acp_stage \in [Calls -> AcpStages]
  BY AcpTyped DEF Acp!IInv
<1>. DEFINE s == acp_session[it]
            q == Acp!Fit(Append(acp_queue[s], it))
<1>6. acp_queue' = IF s \in acp_routed THEN [acp_queue EXCEPT ![s] = q] ELSE acp_queue
  BY <1>2 DEF Acp!UpdateArrives
<1>7. acp_queue[s] \in Seq(Calls) /\ q \in Seq(Calls)
  BY <1>4, <1>5, AcpFits
<1>8. /\ acp_queue' \in [Sessions -> Seq(Calls)]
      /\ s \in acp_routed => acp_queue'[s] = q
      /\ \A z \in Sessions : z # s => acp_queue'[z] = acp_queue[z]
  <2>. HIDE DEF q
  <2>. QED  BY <1>4, <1>5, <1>6, <1>7
<1>9. Acp!TypeOK'
  BY <1>1, <1>4, <1>8 DEF Acp!IInv, Acp!TypeOK
<1>10. Acp!Exclusive' /\ Acp!Sent'
  BY <1>1 DEF Acp!IInv, Acp!Exclusive, Acp!Sent, Acp!InFlight
<1>11. \A c \in Calls : /\ Cardinality(Acp!Unread(c)) \in Nat /\ acp_written[c].updates \in Nat
                        /\ Cardinality(Acp!Unread(c)) <= acp_written[c].updates
                        /\ Acp!Unread(c) = {} => Cardinality(Acp!Unread(c)) = 0
  BY <1>5, AcpCount, AcpByTurn DEF Acp!IInv, AcpCounted, AcpNotes
<1>12. acp_wire' \in Seq(Acp!Messages) => Cardinality(Acp!Unread(it)') \in Nat
  <2>1. ASSUME NEW c PROVE (acp_wire \in Seq(Acp!Messages) => /\ Cardinality(Acp!Unread(c)) \in Nat
                                                              /\ Cardinality(Acp!Unread(c)) = 0 <=> Acp!Unread(c) = {})'
    BY AcpCount, PTL
  <2>. QED  BY <2>1
<1>13. Acp!Unread(it) # {}
  BY <1>4, <1>11, <1>12
<1>14. ASSUME NEW d \in Calls, acp_stage[d] \in Acp!Settling \cup {"prompting"}, acp_session[d] \notin acp_spoiled, d # it
       PROVE  acp_session[d] # s
  <2>. SUFFICES ASSUME acp_session[d] = s PROVE FALSE
    OBVIOUS
  <2>1. CASE acp_stage[it] \in Acp!Over
    <3>1. ~acp_connected /\ \A c \in Calls : acp_session[c] = s => acp_stage[c] \notin Acp!Settling
      BY <1>4, <1>13, <1>14, <2>1, AcpByTurn DEF Acp!IInv, TurnSilent
    <3>2. acp_stage[d] = "prompting"
      BY <1>14, <3>1
    <3>. QED  BY <3>1, <3>2 DEF Acp!IInv, Acp!Exclusive, Acp!Waiting
  <2>2. CASE acp_stage[it] \notin Acp!Over
    <3>1. Acp!InFlight(it) /\ Acp!InFlight(d)
      BY <1>4, <1>14, <2>2 DEF Acp!IInv, Acp!Sent, Acp!InFlight, Acp!Over, Acp!Settling
    <3>2. s \in {Want[it], acp_session[it]} \cap {Want[d], acp_session[d]} /\ s # None
      BY <1>4 DEF Acp!AcpAssumption
    <3>. QED  BY <1>14, <3>1, <3>2 DEF Acp!IInv, Acp!Exclusive
  <2>. QED  BY <2>1, <2>2
<1>15. ASSUME NEW d \in Calls PROVE TurnQueued(d)' /\ TurnSilent(d)' /\ TurnTaken(d)'
  <2>1. TurnQueued(d) /\ TurnSilent(d) /\ TurnTaken(d) /\ (Acp!Ended(d)' <=> Acp!Ended(d))
    BY <1>1, AcpByTurn DEF Acp!IInv, Acp!Ended
  <2>2. TurnSilent(d)' /\ TurnTaken(d)'
    BY <1>1, <1>4, <2>1 DEF TurnSilent, TurnTaken, Acp!OnlyOf
  <2>3. TurnQueued(d)'
    <3>. SUFFICES ASSUME acp_stage[d] \in Acp!Settling \cup {"prompting"}, acp_session[d] \notin acp_spoiled
                  PROVE  /\ Acp!OnlyOf(d, acp_queue'[acp_session[d]])
                         /\ Len(acp_queue'[acp_session[d]]) =
                              Acp!Least(QueueLimit, acp_written[d].updates - Cardinality(Acp!Unread(d)'))
                         /\ acp_stage[d] = "prompting" => acp_session[d] \in acp_routed
                         /\ acp_stage[d] # "prompting" => Acp!Unread(d)' = {} /\ Acp!Ended(d)
      BY <1>1 DEF TurnQueued, Acp!OnlyOf, Acp!Ended
    <3>1. /\ Acp!OnlyOf(d, acp_queue[acp_session[d]])
          /\ Len(acp_queue[acp_session[d]]) =
               Acp!Least(QueueLimit, acp_written[d].updates - Cardinality(Acp!Unread(d)))
          /\ acp_stage[d] = "prompting" => acp_session[d] \in acp_routed
          /\ acp_stage[d] # "prompting" => Acp!Unread(d) = {} /\ Acp!Ended(d)
      BY <2>1 DEF TurnQueued
    <3>2. CASE d = it
      <4>1. acp_stage[d] = "prompting" /\ acp_queue'[s] = q
        BY <1>8, <1>13, <3>1, <3>2
      <4>2. Acp!OnlyOf(it, q)
        BY <1>7, <3>1, <3>2, AcpFits
      <4>. DEFINE k == acp_written[it].updates - Cardinality(Acp!Unread(it))
      <4>3. k \in Nat /\ k + 1 = acp_written[it].updates - Cardinality(Acp!Unread(it)')
        BY <1>4, <1>11, <1>12
      <4>4. Len(acp_queue[s]) = Acp!Least(QueueLimit, k)
        BY <3>1, <3>2
      <4>. HIDE DEF k
      <4>5. Len(q) = Acp!Least(QueueLimit, k + 1)
        BY <1>7, <4>3, <4>4, AcpFits
      <4>. HIDE DEF q
      <4>. QED  BY <3>1, <3>2, <4>1, <4>2, <4>3, <4>5
    <3>3. CASE d # it
      <4>1. acp_session[d] # s /\ acp_session[d] \in Sessions
        BY <1>5, <1>14, <3>3 DEF Acp!IInv, Acp!Exclusive, Acp!InFlight, Acp!Over, Acp!Settling
      <4>2. acp_queue'[acp_session[d]] = acp_queue[acp_session[d]]
        BY <1>8, <4>1
      <4>. QED  BY <1>4, <3>1, <3>3, <4>2
    <3>. QED  BY <3>2, <3>3
  <2>. QED  BY <2>2, <2>3
<1>. QED  BY <1>4, <1>9, <1>10, <1>15, AcpByTurnNext DEF Acp!IInv

\* Turns that end leave the others to their sessions.
LEMMA AcpFewer ==
    ASSUME Acp!Exclusive, acp_session' = acp_session,
           \A d \in Calls : acp_stage'[d] = acp_stage[d] \/ (Acp!InFlight(d) /\ acp_stage'[d] \in Acp!Over),
           acp_alive' => acp_connected' /\ acp_boot' = "ready",
           ~acp_connected' => \A d \in Calls : acp_stage'[d] \notin Acp!Waiting,
           acp_boot' \in {"none", "starting", "stopping", "failed"} => acp_boot \in {"none", "starting", "stopping", "failed"}
    PROVE  Acp!Exclusive'
PROOF
<1>1. \A d \in Calls : /\ Acp!InFlight(d)' => Acp!InFlight(d) /\ acp_stage'[d] = acp_stage[d]
                       /\ acp_stage'[d] \in {"idle", "opening"} => acp_stage'[d] = acp_stage[d]
                       /\ acp_stage[d] = "idle" => acp_stage'[d] = "idle"
  BY DEF Acp!InFlight, Acp!Over
<1>2. acp_boot' \in {"none", "starting", "stopping", "failed"} => \A d \in Calls : acp_stage'[d] = "idle"
  BY <1>1 DEF Acp!Exclusive
<1>3. ASSUME NEW d \in Calls
      PROVE  /\ acp_session[d] \in {None, Want[d]} \/ Want[d] = None
             /\ acp_stage'[d] \in {"idle", "opening"} => acp_session[d] = None
             /\ Acp!InFlight(d)' /\ acp_stage'[d] # "opening" => acp_session[d] # None
  BY <1>1 DEF Acp!Exclusive
<1>4. \A d, e \in Calls : d # e /\ Acp!InFlight(d)' /\ Acp!InFlight(e)' =>
        {Want[d], acp_session[d]} \cap {Want[e], acp_session[e]} \subseteq {None}
  BY <1>1 DEF Acp!Exclusive
<1>. QED  BY <1>2, <1>3, <1>4 DEF Acp!Exclusive

\* The process is gone, or the runtime is closed: the turns that wait for an answer fail.
LEMMA AcpDooms ==
    ASSUME Acp!AcpAssumption, Acp!IInv,
           Acp!Close \/ (Acp!Exit /\ acp_boot \in {"ready", "closing", "closed"})
    PROVE  Acp!IInv'
PROOF
<1>1. /\ UNCHANGED <<acp_queue, acp_completed, acp_session, acp_answer, acp_spoiled, acp_wire, acp_written>>
      /\ acp_stage' = [c \in Calls |-> IF c \in Acp!Doomed THEN "failed" ELSE acp_stage[c]]
      /\ acp_pending' = {} /\ acp_alive' = FALSE /\ acp_connected' = FALSE
      /\ acp_routed' \subseteq acp_routed /\ acp_active' \subseteq acp_active
      /\ acp_live' \subseteq acp_live /\ acp_metadata' \subseteq acp_metadata
      /\ acp_boot' \in {"ready", "closing", "closed"} /\ acp_closed' \in BOOLEAN
      /\ acp_child' \in {"none", "up", "term", "killed", "gone"}
  <2>1. /\ acp_child \in {"none", "up", "term", "killed", "gone"} /\ acp_closed \in BOOLEAN
    BY DEF Acp!IInv, Acp!TypeOK
  <2>2. CASE Acp!Close
    BY <2>1, <2>2 DEF Acp!Close, Acp!RejectAll, Acp!Terminated
  <2>3. CASE Acp!Exit /\ acp_boot \in {"ready", "closing", "closed"}
    BY <2>1, <2>3 DEF Acp!Exit, Acp!RejectAll, Acp!Unlock
  <2>. QED  BY <2>2, <2>3
<1>2. /\ acp_stage \in [Calls -> AcpStages]
      /\ acp_session \in [Calls -> Sessions \cup {None}]
  BY AcpTyped DEF Acp!IInv
<1>3. \A d \in Calls : acp_stage'[d] = IF acp_stage[d] \in Acp!Waiting THEN "failed" ELSE acp_stage[d]
  BY <1>1 DEF Acp!Doomed
<1>4. acp_stage' \in [Calls -> AcpStages]
  BY <1>1, <1>2 DEF AcpStages
<1>5. Acp!TypeOK'
  BY <1>1, <1>4 DEF Acp!IInv, Acp!TypeOK, AcpStages, Acp!Over, Acp!Waiting
<1>6. /\ Acp!Ordered' /\ AcpCounted'
      /\ \A d \in Calls : Acp!Unread(d)' = Acp!Unread(d) /\ (Acp!Ended(d)' <=> Acp!Ended(d))
  BY <1>1, AcpWireKept
<1>7. Acp!Exclusive'
  <2>1. \A d \in Calls : acp_stage'[d] = acp_stage[d] \/ (Acp!InFlight(d) /\ acp_stage'[d] \in Acp!Over)
    BY <1>3 DEF Acp!InFlight, Acp!Waiting, Acp!Over
  <2>2. \A d \in Calls : acp_stage'[d] \notin Acp!Waiting
    BY <1>3 DEF Acp!Waiting
  <2>. QED  BY <1>1, <2>1, <2>2, AcpFewer DEF Acp!IInv
<1>8. Acp!Sent'
  BY <1>1, <1>3 DEF Acp!IInv, Acp!Sent, Acp!Waiting
<1>9. ASSUME NEW d \in Calls PROVE TurnQueued(d)' /\ TurnSilent(d)' /\ TurnTaken(d)'
  <2>1. TurnQueued(d) /\ TurnSilent(d) /\ TurnTaken(d)
    BY AcpByTurn DEF Acp!IInv
  <2>2. TurnQueued(d)'
    BY <1>1, <1>3, <1>6, <2>1 DEF TurnQueued, Acp!OnlyOf, Acp!Settling, Acp!Waiting
  <2>3. TurnTaken(d)'
    BY <1>1, <1>3, <1>6, <2>1 DEF TurnTaken, Acp!OnlyOf, Acp!Waiting
  <2>4. \A e \in Calls : acp_stage'[e] \in Acp!Settling => acp_stage[e] \in Acp!Settling
    BY <1>3 DEF Acp!Settling
  <2>5. TurnSilent(d)'
    <3>1. CASE acp_stage[d] \notin Acp!Waiting
      BY <1>1, <1>3, <1>6, <2>1, <2>4, <3>1 DEF TurnSilent
    <3>2. CASE acp_stage[d] \in Acp!Waiting
      <4>. SUFFICES ASSUME acp_written[d].sent, NEW e \in Calls, acp_session[e] = acp_session[d],
                           acp_stage[e] \in Acp!Settling
                    PROVE  FALSE
        BY <1>1, <2>4 DEF TurnSilent
      <4>1. acp_session[d] # None
        BY DEF Acp!IInv, Acp!Sent
      <4>2. d # e /\ Acp!InFlight(d) /\ Acp!InFlight(e)
        BY <3>2 DEF Acp!Waiting, Acp!Settling, Acp!InFlight, Acp!Over
      <4>. QED  BY <4>1, <4>2 DEF Acp!IInv, Acp!Exclusive
    <3>. QED  BY <3>1, <3>2
  <2>. QED  BY <2>2, <2>3, <2>5
<1>. QED  BY <1>5, <1>6, <1>7, <1>8, <1>9, AcpByTurnNext DEF Acp!IInv

\* A turn takes what its queue holds.
LEMMA AcpTakes ==
    ASSUME Acp!AcpAssumption, Acp!IInv, NEW c \in Calls, Acp!Take(c)
    PROVE  Acp!IInv'
PROOF
<1>. DEFINE s == acp_session[c]
            q == acp_queue[s]
<1>1. /\ acp_stage[c] \in {"answered", "yielded"}
      /\ UNCHANGED <<acp_boot, acp_child, acp_alive, acp_closed, acp_connected, acp_live, acp_metadata, acp_routed,
                     acp_session, acp_spoiled, acp_wire, acp_written>>
      /\ acp_answer' = [acp_answer EXCEPT ![c] = q]
      /\ acp_stage' = [acp_stage EXCEPT ![c] = IF acp_answer'[c] = <<>> THEN "failed" ELSE "done"]
      /\ acp_queue' = [acp_queue EXCEPT ![s] = <<>>]
      /\ acp_active' \subseteq acp_active /\ acp_pending' \subseteq acp_pending
      /\ acp_completed' \in {acp_completed, Acp!Remember(c)}
  BY DEF Acp!Take, Acp!process
<1>2. /\ acp_stage \in [Calls -> AcpStages] /\ acp_session \in [Calls -> Sessions \cup {None}]
      /\ acp_queue \in [Sessions -> Seq(Calls)] /\ acp_answer \in [Calls -> Seq(Calls)]
  BY AcpTyped DEF Acp!IInv
<1>3. Acp!InFlight(c) /\ s \in Sessions /\ s # None
  BY <1>1, <1>2 DEF Acp!IInv, Acp!Exclusive, Acp!InFlight, Acp!Over, Acp!AcpAssumption
<1>4. q \in Seq(Calls)
  BY <1>2, <1>3
<1>. HIDE DEF q
<1>5. /\ acp_answer' \in [Calls -> Seq(Calls)] /\ acp_answer'[c] = q
      /\ \A d \in Calls : d # c => acp_answer'[d] = acp_answer[d]
      /\ acp_stage'[c] = IF q = <<>> THEN "failed" ELSE "done"
      /\ \A d \in Calls : d # c => acp_stage'[d] = acp_stage[d]
      /\ acp_stage' \in [Calls -> AcpStages]
  BY <1>1, <1>2, <1>4 DEF AcpStages
<1>6. /\ acp_queue' \in [Sessions -> Seq(Calls)]
      /\ \A z \in Sessions : z # s => acp_queue'[z] = acp_queue[z]
  <2>1. <<>> \in Seq(Calls)
    OBVIOUS
  <2>. QED  BY <1>1, <1>2, <2>1
<1>7. acp_completed' \in Seq(Calls)
  BY <1>1, AcpRemembers DEF Acp!IInv, Acp!TypeOK
<1>8. Acp!TypeOK'
  BY <1>1, <1>5, <1>6, <1>7 DEF Acp!IInv, Acp!TypeOK, AcpStages, Acp!Over, Acp!Waiting
<1>9. /\ Acp!Ordered' /\ AcpCounted'
      /\ \A d \in Calls : Acp!Unread(d)' = Acp!Unread(d) /\ (Acp!Ended(d)' <=> Acp!Ended(d))
  BY <1>1, AcpWireKept
<1>10. Acp!Exclusive'
  <2>1. \A d \in Calls : acp_stage'[d] = acp_stage[d] \/ (Acp!InFlight(d) /\ acp_stage'[d] \in Acp!Over)
    BY <1>3, <1>5 DEF Acp!Over
  <2>2. ~acp_connected => \A d \in Calls : acp_stage'[d] \notin Acp!Waiting
    BY <1>5 DEF Acp!IInv, Acp!Exclusive, Acp!Waiting
  <2>3. acp_alive => acp_connected /\ acp_boot = "ready"
    BY DEF Acp!IInv, Acp!Exclusive
  <2>. QED  BY <1>1, <2>1, <2>2, <2>3, AcpFewer DEF Acp!IInv
<1>11. Acp!Sent'
  BY <1>1, <1>5 DEF Acp!IInv, Acp!Sent
<1>12. /\ s \notin acp_spoiled => /\ Acp!OnlyOf(c, q) /\ Acp!Unread(c) = {} /\ Acp!Ended(c)
                                  /\ Len(q) = Acp!Least(QueueLimit, acp_written[c].updates)
  <2>1. s \notin acp_spoiled => /\ Acp!OnlyOf(c, q) /\ Acp!Unread(c) = {} /\ Acp!Ended(c)
                                /\ Len(q) = Acp!Least(QueueLimit, acp_written[c].updates - Cardinality(Acp!Unread(c)))
    BY <1>1, AcpByTurn DEF Acp!IInv, TurnQueued, Acp!Settling, q
  <2>2. acp_written[c].updates \in Int
    BY AcpTyped DEF Acp!IInv, AcpNotes
  <2>3. ASSUME Acp!Unread(c) = {}
        PROVE  acp_written[c].updates - Cardinality(Acp!Unread(c)) = acp_written[c].updates
    <3>1. Cardinality(Acp!Unread(c)) = 0
      BY <2>3, FS_EmptySet
    <3>. QED  BY <2>2, <3>1
  <2>. QED  BY <2>1, <2>3
<1>13. ASSUME NEW d \in Calls PROVE TurnQueued(d)' /\ TurnSilent(d)' /\ TurnTaken(d)'
  <2>1. TurnQueued(d) /\ TurnSilent(d) /\ TurnTaken(d)
    BY AcpByTurn DEF Acp!IInv
  <2>2. CASE d = c
    <3>1. acp_stage'[d] \in {"done", "failed"} /\ (acp_stage'[d] = "done" => q # <<>>)
      BY <1>5, <2>2
    <3>2. TurnQueued(d)'
      BY <3>1 DEF TurnQueued, Acp!Settling
    <3>3. TurnSilent(d)'
      BY <1>1, <1>9, <1>12, <2>2 DEF TurnSilent
    <3>4. TurnTaken(d)'
      BY <1>1, <1>5, <1>9, <1>12, <2>2, <3>1 DEF TurnTaken, Acp!OnlyOf
    <3>. QED  BY <3>2, <3>3, <3>4
  <2>3. CASE d # c
    <3>1. acp_stage'[d] = acp_stage[d] /\ acp_answer'[d] = acp_answer[d]
      BY <1>5, <2>3
    <3>2. TurnTaken(d)'
      BY <1>1, <1>9, <2>1, <3>1 DEF TurnTaken, Acp!OnlyOf
    <3>3. \A e \in Calls : acp_stage'[e] \in Acp!Settling => acp_stage[e] \in Acp!Settling
      BY <1>5 DEF Acp!Settling
    <3>4. TurnSilent(d)'
      BY <1>1, <1>9, <2>1, <3>1, <3>3 DEF TurnSilent
    <3>5. acp_stage[d] \in Acp!Settling \cup {"prompting"} => acp_session[d] # s /\ acp_session[d] \in Sessions
      BY <1>2, <1>3, <2>3 DEF Acp!IInv, Acp!Exclusive, Acp!InFlight, Acp!Over, Acp!Settling
    <3>6. TurnQueued(d)'
      BY <1>1, <1>6, <1>9, <2>1, <3>1, <3>5 DEF TurnQueued, Acp!OnlyOf
    <3>. QED  BY <3>2, <3>4, <3>6
  <2>. QED  BY <2>2, <2>3
<1>. QED  BY <1>8, <1>9, <1>10, <1>11, <1>13, AcpByTurnNext DEF Acp!IInv

\* A call that begins: with a session that is live, by opening one, or not at all.
LEMMA AcpCalls ==
    ASSUME Acp!AcpAssumption, Acp!IInv, NEW c \in Calls, Acp!Call(c)
    PROVE  Acp!IInv'
PROOF
<1>1. /\ acp_stage[c] = "idle" /\ acp_boot \notin {"none", "starting", "stopping", "failed"}
      /\ UNCHANGED <<acp_boot, acp_child, acp_alive, acp_closed, acp_connected, acp_live, acp_metadata, acp_routed,
                     acp_queue, acp_active, acp_pending, acp_completed, acp_answer, acp_spoiled, acp_wire, acp_written>>
      /\ \A d \in Calls : Acp!InFlight(d) => Want[c] = None \/ Want[c] \notin {Want[d], acp_session[d]}
  BY DEF Acp!Call, Acp!process, Acp!node
<1>2. /\ acp_stage \in [Calls -> AcpStages] /\ acp_session \in [Calls -> Sessions \cup {None}]
      /\ Want[c] \in Sessions \cup {None} /\ None \notin Sessions /\ acp_live \subseteq Sessions
      /\ acp_session[c] = None
  BY <1>1, AcpTyped DEF Acp!IInv, Acp!TypeOK, Acp!Exclusive, Acp!AcpAssumption
<1>3. \E to \in {"configuring", "opening", "failed"}, n \in Sessions \cup {None} :
        /\ acp_stage' = [acp_stage EXCEPT ![c] = to] /\ acp_session' = [acp_session EXCEPT ![c] = n]
        /\ to = "configuring" => n = Want[c] /\ n # None
        /\ to # "configuring" => n = None
        /\ to # "failed" => acp_alive
  <2>1. CASE /\ Acp!IsAlive /\ Want[c] \in acp_live
             /\ acp_stage' = [acp_stage EXCEPT ![c] = "configuring"]
             /\ acp_session' = [acp_session EXCEPT ![c] = Want[c]]
    BY <1>2, <2>1 DEF Acp!IsAlive
  <2>2. acp_session' = acp_session => acp_session' = [acp_session EXCEPT ![c] = None]
    BY <1>2
  <2>3. CASE /\ Acp!IsAlive /\ acp_session' = acp_session
             /\ acp_stage' = [acp_stage EXCEPT ![c] = "opening"]
    BY <2>2, <2>3 DEF Acp!IsAlive
  <2>4. CASE acp_session' = acp_session /\ acp_stage' = [acp_stage EXCEPT ![c] = "failed"]
    BY <2>2, <2>4
  <2>. QED  BY <2>1, <2>3, <2>4 DEF Acp!Call
<1>4. PICK to \in {"configuring", "opening", "failed"}, n \in Sessions \cup {None} :
        /\ acp_stage' = [acp_stage EXCEPT ![c] = to] /\ acp_session' = [acp_session EXCEPT ![c] = n]
        /\ to = "configuring" => n = Want[c] /\ n # None
        /\ to # "configuring" => n = None
        /\ to # "failed" => acp_alive
  BY <1>3
<1>5. /\ acp_stage' \in [Calls -> AcpStages] /\ acp_stage'[c] = to
      /\ \A d \in Calls : d # c => acp_stage'[d] = acp_stage[d]
      /\ acp_session' \in [Calls -> Sessions \cup {None}] /\ acp_session'[c] = n
      /\ \A d \in Calls : d # c => acp_session'[d] = acp_session[d]
  BY <1>2, <1>4 DEF AcpStages
<1>6. Acp!TypeOK'
  BY <1>1, <1>5 DEF Acp!IInv, Acp!TypeOK, AcpStages, Acp!Over, Acp!Waiting
<1>7. /\ Acp!Ordered' /\ AcpCounted'
      /\ \A d \in Calls : Acp!Unread(d)' = Acp!Unread(d) /\ (Acp!Ended(d)' <=> Acp!Ended(d))
  BY <1>1, AcpWireKept
<1>8. \A d \in Calls : d # c => (Acp!InFlight(d)' <=> Acp!InFlight(d))
  BY <1>5 DEF Acp!InFlight
<1>9. Acp!Exclusive'
  <2>1. acp_alive => acp_connected /\ acp_boot = "ready"
    BY DEF Acp!IInv, Acp!Exclusive
  <2>2. ~acp_connected => \A d \in Calls : acp_stage'[d] \notin Acp!Waiting
    <3>1. ~acp_connected => \A d \in Calls : acp_stage[d] \notin Acp!Waiting
      BY DEF Acp!IInv, Acp!Exclusive
    <3>2. ~acp_connected => acp_stage'[c] \notin Acp!Waiting
      BY <1>4, <1>5, <2>1 DEF Acp!Waiting
    <3>. QED  BY <1>5, <3>1, <3>2
  <2>3. ASSUME NEW d \in Calls
        PROVE  /\ acp_session'[d] \in {None, Want[d]} \/ Want[d] = None
               /\ acp_stage'[d] \in {"idle", "opening"} => acp_session'[d] = None
               /\ Acp!InFlight(d)' /\ acp_stage'[d] # "opening" => acp_session'[d] # None
    <3>1. CASE d = c
      BY <1>4, <1>5, <3>1 DEF Acp!InFlight, Acp!Over
    <3>2. CASE d # c
      BY <1>5, <1>8, <3>2 DEF Acp!IInv, Acp!Exclusive
    <3>. QED  BY <3>1, <3>2
  <2>4. ASSUME NEW e \in Calls, e # c, Acp!InFlight(e)'
        PROVE  {Want[c], acp_session'[c]} \cap {Want[e], acp_session'[e]} \subseteq {None}
    BY <1>1, <1>4, <1>5, <1>8, <2>4
  <2>5. \A d, e \in Calls : d # e /\ Acp!InFlight(d)' /\ Acp!InFlight(e)' =>
          {Want[d], acp_session'[d]} \cap {Want[e], acp_session'[e]} \subseteq {None}
    <3>. TAKE d, e \in Calls
    <3>1. CASE d # c /\ e # c
      BY <1>5, <1>8, <3>1 DEF Acp!IInv, Acp!Exclusive
    <3>. QED  BY <2>4, <3>1
  <2>. QED  BY <1>1, <2>1, <2>2, <2>3, <2>5 DEF Acp!Exclusive
<1>10. ~acp_written[c].sent
  BY <1>1 DEF Acp!IInv, Acp!Sent
<1>11. Acp!Sent'
  BY <1>1, <1>5, <1>10 DEF Acp!IInv, Acp!Sent
<1>12. ASSUME NEW d \in Calls PROVE TurnQueued(d)' /\ TurnSilent(d)' /\ TurnTaken(d)'
  <2>1. TurnQueued(d) /\ TurnSilent(d) /\ TurnTaken(d)
    BY AcpByTurn DEF Acp!IInv
  <2>2. CASE d = c
    BY <1>1, <1>5, <1>10, <2>2 DEF TurnQueued, TurnSilent, TurnTaken, Acp!Settling, Acp!Over
  <2>3. CASE d # c
    <3>1. acp_stage'[d] = acp_stage[d] /\ acp_session'[d] = acp_session[d]
      BY <1>5, <2>3
    <3>2. TurnQueued(d)' /\ TurnTaken(d)'
      BY <1>1, <1>7, <2>1, <3>1 DEF TurnQueued, TurnTaken, Acp!OnlyOf
    <3>3. \A e \in Calls : acp_stage'[e] \in Acp!Settling
            => acp_stage[e] \in Acp!Settling /\ acp_session'[e] = acp_session[e]
      BY <1>5 DEF Acp!Settling
    <3>4. TurnSilent(d)'
      BY <1>1, <1>7, <2>1, <3>1, <3>3 DEF TurnSilent
    <3>. QED  BY <3>2, <3>4
  <2>. QED  BY <2>2, <2>3
<1>. QED  BY <1>6, <1>7, <1>9, <1>11, <1>12, AcpByTurnNext DEF Acp!IInv

\* A session is opened for a call: it is the one it asks for, or one that no other has.
LEMMA AcpOpens ==
    ASSUME Acp!AcpAssumption, Acp!IInv, NEW c \in Calls, Acp!Opened(c)
    PROVE  Acp!IInv'
PROOF
<1>1. /\ acp_stage[c] = "opening" /\ acp_connected
      /\ UNCHANGED <<acp_boot, acp_child, acp_alive, acp_closed, acp_connected, acp_active, acp_pending, acp_completed,
                     acp_answer, acp_spoiled, acp_wire, acp_written>>
      /\ acp_stage' = [acp_stage EXCEPT ![c] = "configuring"]
  BY DEF Acp!Opened, Acp!process
<1>2. /\ acp_stage \in [Calls -> AcpStages] /\ acp_session \in [Calls -> Sessions \cup {None}]
      /\ acp_queue \in [Sessions -> Seq(Calls)]
      /\ Want \in [Calls -> Sessions \cup {None}] /\ None \notin Sessions
      /\ acp_live \subseteq Sessions /\ acp_metadata \subseteq Sessions /\ acp_routed \subseteq Sessions
  BY AcpTyped DEF Acp!IInv, Acp!TypeOK, Acp!AcpAssumption
<1>3. PICK s : /\ s \in IF Want[c] = None THEN Sessions \ (acp_live \cup Acp!Range(Want) \cup Acp!Range(acp_session))
                                          ELSE {Want[c]}
               /\ acp_session' = [acp_session EXCEPT ![c] = s] /\ acp_live' = acp_live \cup {s}
               /\ acp_routed' = acp_routed \cup {s} /\ acp_queue' = [acp_queue EXCEPT ![s] = <<>>]
               /\ acp_metadata' \in {acp_metadata, acp_metadata \cup {s}}
  BY DEF Acp!Opened
<1>4. s \in Sessions /\ s # None /\ (Want[c] # None => s = Want[c])
  BY <1>2, <1>3
<1>5. ASSUME NEW d \in Calls, d # c, Acp!InFlight(d) PROVE s \notin {Want[d], acp_session[d]}
  <2>1. CASE Want[c] # None
    <3>1. Acp!InFlight(c)
      BY <1>1 DEF Acp!InFlight, Acp!Over
    <3>. QED  BY <1>3, <1>4, <1>5, <2>1, <3>1 DEF Acp!IInv, Acp!Exclusive
  <2>2. CASE Want[c] = None
    BY <1>2, <1>3, <2>2 DEF Acp!Range
  <2>. QED  BY <2>1, <2>2
<1>6. /\ acp_stage' \in [Calls -> AcpStages] /\ acp_stage'[c] = "configuring"
      /\ \A d \in Calls : d # c => acp_stage'[d] = acp_stage[d]
      /\ acp_session' \in [Calls -> Sessions \cup {None}] /\ acp_session'[c] = s
      /\ \A d \in Calls : d # c => acp_session'[d] = acp_session[d]
  BY <1>1, <1>2, <1>3, <1>4 DEF AcpStages
<1>7. /\ acp_queue' \in [Sessions -> Seq(Calls)]
      /\ \A z \in Sessions : z # s => acp_queue'[z] = acp_queue[z]
  <2>1. <<>> \in Seq(Calls)
    OBVIOUS
  <2>. QED  BY <1>2, <1>3, <2>1
<1>8. acp_live' \subseteq Sessions /\ acp_metadata' \subseteq Sessions /\ acp_routed' \subseteq Sessions
  BY <1>2, <1>3, <1>4
<1>9. Acp!TypeOK'
  BY <1>1, <1>6, <1>7, <1>8 DEF Acp!IInv, Acp!TypeOK, AcpStages, Acp!Over, Acp!Waiting
<1>10. /\ Acp!Ordered' /\ AcpCounted'
       /\ \A d \in Calls : Acp!Unread(d)' = Acp!Unread(d) /\ (Acp!Ended(d)' <=> Acp!Ended(d))
  BY <1>1, AcpWireKept
<1>11. \A d \in Calls : Acp!InFlight(d)' <=> Acp!InFlight(d)
  BY <1>1, <1>6 DEF Acp!InFlight, Acp!Over
<1>12. Acp!Exclusive'
  <2>1. /\ acp_alive => acp_connected /\ acp_boot = "ready"
        /\ acp_boot \notin {"none", "starting", "stopping", "failed"}
    BY <1>1 DEF Acp!IInv, Acp!Exclusive
  <2>2. ASSUME NEW d \in Calls
        PROVE  /\ acp_session'[d] \in {None, Want[d]} \/ Want[d] = None
               /\ acp_stage'[d] \in {"idle", "opening"} => acp_session'[d] = None
               /\ Acp!InFlight(d)' /\ acp_stage'[d] # "opening" => acp_session'[d] # None
    <3>1. CASE d = c
      BY <1>4, <1>6, <3>1
    <3>2. CASE d # c
      BY <1>6, <1>11, <3>2 DEF Acp!IInv, Acp!Exclusive
    <3>. QED  BY <3>1, <3>2
  <2>3. ASSUME NEW e \in Calls, e # c, Acp!InFlight(e)'
        PROVE  {Want[c], acp_session'[c]} \cap {Want[e], acp_session'[e]} \subseteq {None}
    <3>1. s \notin {Want[e], acp_session[e]}
      BY <1>5, <1>11, <2>3
    <3>2. Acp!InFlight(c) /\ Acp!InFlight(e)
      BY <1>1, <1>11, <2>3 DEF Acp!InFlight, Acp!Over
    <3>3. {Want[c], acp_session[c]} \cap {Want[e], acp_session[e]} \subseteq {None}
      BY <2>3, <3>2 DEF Acp!IInv, Acp!Exclusive
    <3>. QED  BY <1>6, <2>3, <3>1, <3>3
  <2>4. \A d, e \in Calls : d # e /\ Acp!InFlight(d)' /\ Acp!InFlight(e)' =>
          {Want[d], acp_session'[d]} \cap {Want[e], acp_session'[e]} \subseteq {None}
    <3>. TAKE d, e \in Calls
    <3>1. CASE d # c /\ e # c
      BY <1>6, <1>11, <3>1 DEF Acp!IInv, Acp!Exclusive
    <3>. QED  BY <2>3, <3>1
  <2>. QED  BY <1>1, <2>1, <2>2, <2>4 DEF Acp!Exclusive
<1>13. ~acp_written[c].sent
  BY <1>1 DEF Acp!IInv, Acp!Sent
<1>14. Acp!Sent'
  BY <1>1, <1>6, <1>13 DEF Acp!IInv, Acp!Sent
<1>15. ASSUME NEW d \in Calls PROVE TurnQueued(d)' /\ TurnSilent(d)' /\ TurnTaken(d)'
  <2>1. TurnQueued(d) /\ TurnSilent(d) /\ TurnTaken(d)
    BY AcpByTurn DEF Acp!IInv
  <2>2. CASE d = c
    BY <1>6, <2>2 DEF TurnQueued, TurnSilent, TurnTaken, Acp!Settling, Acp!Over
  <2>3. CASE d # c
    <3>1. acp_stage'[d] = acp_stage[d] /\ acp_session'[d] = acp_session[d]
      BY <1>6, <2>3
    <3>2. TurnTaken(d)'
      BY <1>1, <1>10, <2>1, <3>1 DEF TurnTaken, Acp!OnlyOf
    <3>3. TurnSilent(d)'
      BY <1>1, <1>10, <2>1, <3>1 DEF TurnSilent
    <3>4. acp_stage[d] \in Acp!Settling \cup {"prompting"} => acp_session[d] # s /\ acp_session[d] \in Sessions
      BY <1>2, <1>5, <2>3 DEF Acp!IInv, Acp!Exclusive, Acp!InFlight, Acp!Over, Acp!Settling
    <3>5. TurnQueued(d)'
      BY <1>1, <1>3, <1>7, <1>10, <2>1, <3>1, <3>4 DEF TurnQueued, Acp!OnlyOf
    <3>. QED  BY <3>2, <3>3, <3>5
  <2>. QED  BY <2>2, <2>3
<1>. QED  BY <1>9, <1>10, <1>12, <1>14, <1>15, AcpByTurnNext DEF Acp!IInv

\* A prompt begins with an empty queue, and nothing of the turns before it on its session is to come.
LEMMA AcpPrompts ==
    ASSUME Acp!AcpAssumption, Acp!IInv, NEW c \in Calls, Acp!Prompt(c)
    PROVE  Acp!IInv'
PROOF
<1>. DEFINE s == acp_session[c]
<1>1. /\ acp_stage[c] = "configuring" /\ acp_connected
      /\ UNCHANGED <<acp_boot, acp_child, acp_alive, acp_closed, acp_connected, acp_live, acp_metadata, acp_completed,
                     acp_session, acp_answer, acp_spoiled, acp_wire>>
      /\ acp_stage' = [acp_stage EXCEPT ![c] = "prompting"]
      /\ acp_active' = acp_active \cup {s} /\ acp_routed' = acp_routed \cup {s}
      /\ acp_queue' = [acp_queue EXCEPT ![s] = <<>>]
      /\ acp_pending' \subseteq acp_pending \cup {c}
      /\ acp_written' = [acp_written EXCEPT ![c] = [acp_written[c] EXCEPT !.sent = TRUE]]
  BY DEF Acp!Prompt, Acp!process
<1>2. /\ acp_stage \in [Calls -> AcpStages] /\ acp_session \in [Calls -> Sessions \cup {None}]
      /\ acp_queue \in [Sessions -> Seq(Calls)] /\ acp_written \in [Calls -> AcpNotes]
      /\ acp_wire \in Seq(Acp!Messages)
  BY AcpTyped DEF Acp!IInv
<1>3. Acp!InFlight(c) /\ s \in Sessions /\ s # None
  BY <1>1, <1>2 DEF Acp!IInv, Acp!Exclusive, Acp!InFlight, Acp!Over, Acp!AcpAssumption
<1>4. /\ acp_stage' \in [Calls -> AcpStages] /\ acp_stage'[c] = "prompting"
      /\ \A d \in Calls : d # c => acp_stage'[d] = acp_stage[d]
  BY <1>1, <1>2 DEF AcpStages
<1>5. /\ acp_queue' \in [Sessions -> Seq(Calls)] /\ acp_queue'[s] = <<>>
      /\ \A z \in Sessions : z # s => acp_queue'[z] = acp_queue[z]
  <2>1. <<>> \in Seq(Calls)
    OBVIOUS
  <2>. QED  BY <1>1, <1>2, <1>3, <2>1
<1>6. ~acp_written[c].sent /\ acp_written[c].updates = 0
  BY <1>1 DEF Acp!IInv, Acp!Sent
<1>7. /\ acp_written' \in [Calls -> AcpNotes] /\ acp_written'[c].sent
      /\ acp_written'[c].updates = acp_written[c].updates
      /\ acp_written'[c].noted = acp_written[c].noted /\ acp_written'[c].answered = acp_written[c].answered
      /\ \A d \in Calls : d # c => acp_written'[d] = acp_written[d]
  BY <1>1, <1>2 DEF AcpNotes
<1>8. Acp!TypeOK'
  <2>1. acp_active' \subseteq Sessions /\ acp_routed' \subseteq Sessions /\ acp_pending' \subseteq Calls
    BY <1>1, <1>3 DEF Acp!IInv, Acp!TypeOK
  <2>. QED  BY <1>1, <1>4, <1>5, <1>7, <2>1 DEF Acp!IInv, Acp!TypeOK, AcpStages, AcpNotes, Acp!Over, Acp!Waiting
<1>9. /\ Acp!Ordered' /\ AcpCounted'
      /\ \A d \in Calls : Acp!Unread(d)' = Acp!Unread(d) /\ (Acp!Ended(d)' <=> Acp!Ended(d))
  <2>1. \A d \in Calls : /\ acp_written[d].sent => acp_written'[d].sent
                         /\ acp_written'[d].noted = acp_written[d].noted
                         /\ acp_written'[d].answered = acp_written[d].answered
                         /\ acp_written'[d].updates = acp_written[d].updates
    BY <1>6, <1>7
  <2>. QED  BY <1>1, <2>1, AcpWireKept
<1>10. \A d \in Calls : Acp!InFlight(d)' <=> Acp!InFlight(d)
  BY <1>1, <1>4 DEF Acp!InFlight, Acp!Over
<1>11. Acp!Exclusive'
  <2>1. /\ acp_alive => acp_connected /\ acp_boot = "ready"
        /\ acp_boot \notin {"none", "starting", "stopping", "failed"}
    BY <1>1 DEF Acp!IInv, Acp!Exclusive
  <2>2. ASSUME NEW d \in Calls
        PROVE  /\ acp_session[d] \in {None, Want[d]} \/ Want[d] = None
               /\ acp_stage'[d] \in {"idle", "opening"} => acp_session[d] = None
               /\ Acp!InFlight(d)' /\ acp_stage'[d] # "opening" => acp_session[d] # None
    <3>1. CASE d = c
      BY <1>3, <1>4, <3>1 DEF Acp!IInv, Acp!Exclusive
    <3>2. CASE d # c
      BY <1>4, <1>10, <3>2 DEF Acp!IInv, Acp!Exclusive
    <3>. QED  BY <3>1, <3>2
  <2>3. \A d, e \in Calls : d # e /\ Acp!InFlight(d)' /\ Acp!InFlight(e)' =>
          {Want[d], acp_session[d]} \cap {Want[e], acp_session[e]} \subseteq {None}
    BY <1>10 DEF Acp!IInv, Acp!Exclusive
  <2>. QED  BY <1>1, <2>1, <2>2, <2>3 DEF Acp!Exclusive
<1>12. Acp!Sent'
  <2>1. ASSUME NEW d \in Calls
        PROVE  /\ acp_written'[d].sent => acp_session[d] # None /\ acp_stage'[d] \notin {"idle", "opening", "configuring"}
               /\ ~acp_written'[d].sent => /\ acp_written'[d].updates = 0
                                           /\ ~acp_written'[d].noted /\ ~acp_written'[d].answered
               /\ acp_stage'[d] \in {"prompting", "answered", "completed", "yielded", "done"} => acp_written'[d].sent
    <3>1. CASE d = c
      BY <1>3, <1>4, <1>7, <3>1
    <3>2. CASE d # c
      BY <1>4, <1>7, <3>2 DEF Acp!IInv, Acp!Sent
    <3>. QED  BY <3>1, <3>2
  <2>. QED  BY <1>1, <2>1 DEF Acp!Sent
<1>13. Cardinality(Acp!Unread(c)) = 0
  <2>1. Cardinality(Acp!Unread(c)) \in Nat /\ Cardinality(Acp!Unread(c)) <= 0
    BY <1>2, <1>6, AcpCount, AcpByTurn DEF Acp!IInv, AcpCounted
  <2>. QED  BY <2>1
<1>14. ASSUME NEW d \in Calls PROVE TurnQueued(d)' /\ TurnSilent(d)' /\ TurnTaken(d)'
  <2>1. TurnQueued(d) /\ TurnSilent(d) /\ TurnTaken(d)
    BY AcpByTurn DEF Acp!IInv
  <2>2. CASE d = c
    <3>1. TurnSilent(d)' /\ TurnTaken(d)'
      BY <1>4, <2>2 DEF TurnSilent, TurnTaken, Acp!Over
    <3>2. Acp!OnlyOf(c, <<>>) /\ Len(<<>>) = Acp!Least(QueueLimit, 0 - 0)
      BY DEF Acp!OnlyOf, Acp!Least, Acp!AcpAssumption
    <3>3. TurnQueued(c)'
      <4>1. acp_queue'[acp_session'[c]] = <<>> /\ acp_session'[c] \in acp_routed'
        BY <1>1, <1>5
      <4>2. acp_written'[c].updates - Cardinality(Acp!Unread(c)') = 0 - 0
        BY <1>6, <1>7, <1>9, <1>13
      <4>. QED  BY <1>4, <3>2, <4>1, <4>2 DEF TurnQueued, Acp!OnlyOf
    <3>. QED  BY <2>2, <3>1, <3>3
  <2>3. CASE d # c
    <3>1. acp_stage'[d] = acp_stage[d] /\ acp_written'[d] = acp_written[d]
      BY <1>4, <1>7, <2>3
    <3>2. TurnTaken(d)'
      BY <1>1, <1>9, <2>1, <3>1 DEF TurnTaken, Acp!OnlyOf
    <3>3. TurnSilent(d)'
      BY <1>1, <1>9, <2>1, <3>1 DEF TurnSilent
    <3>4. acp_stage[d] \in Acp!Settling \cup {"prompting"} => acp_session[d] # s /\ acp_session[d] \in Sessions
      BY <1>2, <1>3, <2>3 DEF Acp!IInv, Acp!Exclusive, Acp!InFlight, Acp!Over, Acp!Settling
    <3>5. TurnQueued(d)'
      BY <1>1, <1>5, <1>9, <2>1, <3>1, <3>4 DEF TurnQueued, Acp!OnlyOf
    <3>. QED  BY <3>2, <3>3, <3>5
  <2>. QED  BY <2>2, <2>3
<1>. QED  BY <1>8, <1>9, <1>11, <1>12, <1>14, AcpByTurnNext DEF Acp!IInv

LEMMA AcpInvariance == ASSUME Acp!AcpAssumption PROVE Acp!Spec => []Acp!IInv
PROOF
<1>1. Acp!Init => Acp!IInv
  BY AcpBegins
<1>2. Acp!IInv /\ Acp!Next => Acp!IInv'
  <2>. SUFFICES ASSUME Acp!IInv, Acp!Next PROVE Acp!IInv'
    OBVIOUS
  <2>1. ASSUME NEW c \in Calls, Acp!Continues(c) \/ Acp!Provider(c) PROVE Acp!IInv'
    BY <2>1, AcpCalls, AcpOpens, AcpPrompts, AcpEnds, AcpTakes, AcpWrites DEF Acp!Continues
  <2>2. CASE Acp!Arrival
    BY <2>2, AcpCollects, AcpAnswered DEF Acp!Arrival
  <2>3. CASE Acp!Close \/ Acp!Exit
    BY <2>3, AcpDooms, AcpProcess
  <2>. QED  BY <2>1, <2>2, <2>3, AcpProcess DEF Acp!Next
<1>3. Acp!IInv /\ UNCHANGED Acp!vars => Acp!IInv'
  <2>. SUFFICES ASSUME Acp!IInv, UNCHANGED Acp!vars PROVE Acp!IInv'
    OBVIOUS
  <2>1. UNCHANGED <<acp_boot, acp_child, acp_alive, acp_closed, acp_connected, acp_live, acp_metadata, acp_routed,
                    acp_queue, acp_active, acp_pending, acp_completed, acp_stage, acp_session, acp_answer, acp_spoiled,
                    acp_wire, acp_written>>
    BY DEF Acp!vars, Acp!process, Acp!node, Acp!turns
  <2>2. Acp!Ordered' /\ AcpCounted' /\ \A d \in Calls : Acp!Unread(d)' = Acp!Unread(d)
    BY <2>1, AcpWireKept
  <2>3. Acp!TypeOK' /\ Acp!Exclusive'
    BY <2>1 DEF Acp!IInv, Acp!TypeOK, Acp!Exclusive, Acp!InFlight
  <2>. QED  BY <2>1, <2>2, <2>3, AcpStays
<1>. QED  BY <1>1, <1>2, <1>3, PTL DEF Acp!Spec

\* A finished turn returns every update of its prompt that its queue can hold and none of another, however late
\* a response or a completion comes, unless a turn of its session was given up or settled by a completion that
\* does not name its prompt (AcpRuntime.run, GrokPromptCompletionRegistry.resolve).
THEOREM AcpAnswersOwn == ASSUME Acp!AcpAssumption PROVE Acp!Spec => []Acp!AnswersOwn
PROOF
<1>1. ASSUME Acp!IInv PROVE Acp!AnswersOwn
  <2>. SUFFICES ASSUME NEW c \in Calls, acp_stage[c] = "done", acp_session[c] \notin acp_spoiled
                PROVE  /\ Acp!Range(acp_answer[c]) = {c}
                       /\ acp_written[c].noted \/ acp_written[c].answered
                       /\ Len(acp_answer[c]) = IF acp_written[c].updates > QueueLimit THEN QueueLimit
                                               ELSE acp_written[c].updates
    BY DEF Acp!AnswersOwn
  <2>1. /\ Acp!OnlyOf(c, acp_answer[c]) /\ acp_answer[c] # <<>> /\ Acp!Ended(c)
        /\ Len(acp_answer[c]) = Acp!Least(QueueLimit, acp_written[c].updates)
    BY <1>1 DEF Acp!IInv, Acp!Taken
  <2>2. acp_answer[c] \in Seq(Calls) /\ acp_written[c].updates \in Int /\ QueueLimit \in Int
    BY <1>1, AcpTyped DEF Acp!IInv, AcpNotes, Acp!AcpAssumption
  <2>3. DOMAIN acp_answer[c] = 1..Len(acp_answer[c]) /\ 1 \in 1..Len(acp_answer[c])
    BY <2>1, <2>2, LenProperties, EmptySeq
  <2>4. Acp!Range(acp_answer[c]) = {c}
    BY <2>1, <2>3 DEF Acp!Range, Acp!OnlyOf
  <2>5. Acp!Least(QueueLimit, acp_written[c].updates) = IF acp_written[c].updates > QueueLimit THEN QueueLimit
                                                        ELSE acp_written[c].updates
    BY <2>2 DEF Acp!Least
  <2>. QED  BY <2>1, <2>4, <2>5 DEF Acp!Ended
<1>. QED  BY <1>1, AcpInvariance, PTL
=============================================================================
