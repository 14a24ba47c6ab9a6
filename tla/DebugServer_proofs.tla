-------------------------- MODULE DebugServer_proofs --------------------------
(***************************************************************************)
(* Proofs that the HTTP server counts its sessions, and that a stream only *)
(* moves forward, for any number of connections, an unbounded one          *)
(* included, and any number of frames.                                     *)
(***************************************************************************)
EXTENDS DebugServer, FiniteSetTheorems, TLAPS

Sessions(k) == {c \in Clients : Streaming(c) /\ kind[c] = k}

(* There are only finitely many sessions at a time, and the count is their *)
(* number.                                                                 *)
Counted == \A k \in Kinds : IsFiniteSet(Sessions(k)) /\ active[k] = Cardinality(Sessions(k))

(* What a stream is about to send is newer than what it sent last.         *)
ChunkIsNew ==
  \A c \in Clients : pc[c] = "send" /\ kind[c] = "mjpeg" => chunk[c] > shown[c]

IInv == TypeOK /\ Counted /\ ChunkIsNew

(* Nobody is connected when start() has run.                               *)
LEMMA InitIInv == Init => IInv
<1> SUFFICES ASSUME Init PROVE IInv
    OBVIOUS
<1>1. TypeOK
  BY DEF Init, TypeOK, Kinds
<1>2. \A k \in Kinds : Sessions(k) = {}
  BY DEF Init, Sessions, Streaming
<1>3. Counted
  BY <1>2, FS_EmptySet DEF Init, Counted
<1>4. QED
  BY <1>1, <1>3 DEF Init, IInv, ChunkIsNew

(* The steps that touch neither a handler's place nor the counts.          *)
LEMMA CountedFrame ==
  ASSUME Counted, UNCHANGED <<kind, active>>,
         \A c \in Clients : Streaming(c)' <=> Streaming(c)
  PROVE  Counted'
<1>1. \A k \in Kinds : Sessions(k)' = Sessions(k)
  BY DEF Sessions
<1>2. QED
  BY <1>1 DEF Counted

(* A session begins with its count, and ends with it in every way it can.  *)
LEMMA CountedBegins ==
  ASSUME TypeOK, Counted, NEW c \in Clients, NEW k \in Kinds, Request(c, k)
  PROVE  Counted'
<1>1. /\ pc[c] = "request" /\ pc' = [pc EXCEPT ![c] = "header"]
      /\ kind' = [kind EXCEPT ![c] = k] /\ active' = [active EXCEPT ![k] = @ + 1]
  BY DEF Request
<1>2. /\ DOMAIN pc = Clients /\ DOMAIN kind = Clients /\ DOMAIN active = Kinds
      /\ active \in [Kinds -> Nat]
  BY DEF TypeOK
<1>3. c \notin Sessions(k) /\ Sessions(k)' = Sessions(k) \cup {c}
  BY <1>1, <1>2 DEF Sessions, Streaming, TypeOK
<1>4. \A j \in Kinds \ {k} : Sessions(j)' = Sessions(j)
  BY <1>1, <1>2 DEF Sessions, Streaming, TypeOK
<1>5. IsFiniteSet(Sessions(k)') /\ Cardinality(Sessions(k)') = Cardinality(Sessions(k)) + 1
  BY <1>3, FS_AddElement DEF Counted
<1>6. QED
  BY <1>1, <1>2, <1>4, <1>5 DEF Counted

LEMMA CountedEnds ==
  ASSUME TypeOK, Counted, NEW c \in Clients, Streaming(c), End(c), UNCHANGED kind
  PROVE  Counted'
<1> DEFINE k == kind[c]
<1>1. /\ pc' = [pc EXCEPT ![c] = "closed"]
      /\ active' = [active EXCEPT ![k] = @ - 1]
  BY DEF End
<1>2. /\ pc \in [Clients -> {"none", "backlog", "request", "header", "loop", "send", "closed"}]
      /\ k \in Kinds /\ active \in [Kinds -> Nat]
  BY DEF TypeOK
<1>3. c \in Sessions(k) /\ Sessions(k)' = Sessions(k) \ {c}
  BY <1>1, <1>2 DEF Sessions, Streaming
<1>4. \A j \in Kinds \ {k} : Sessions(j)' = Sessions(j)
  BY <1>1, <1>2 DEF Sessions, Streaming
<1>5. IsFiniteSet(Sessions(k)') /\ Cardinality(Sessions(k)') = Cardinality(Sessions(k)) - 1
  BY <1>2, <1>3, FS_RemoveElement DEF Counted
<1>6. QED
  BY <1>1, <1>2, <1>4, <1>5 DEF Counted
LEMMA CountedStep == TypeOK /\ Counted /\ [Next]_vars => Counted'
<1> SUFFICES ASSUME TypeOK, Counted, [Next]_vars PROVE Counted'
    OBVIOUS
<1> USE DEF mainVars, handlerVars
<1>pc. pc \in [Clients -> {"none", "backlog", "request", "header", "loop", "send", "closed"}]
  BY DEF TypeOK
<1>1. CASE MainThread
  BY <1>1, CountedFrame DEF MainThread, ReadFrame, PublishFrame, EncodeFails,
     StopBegins, StopCloses, StopJoins, Streaming
<1>2. CASE AcceptThread
  BY <1>2, <1>pc, CountedFrame DEF AcceptThread, AcceptChecks, AcceptPolls, AcceptFails,
     Accepts, Streaming
<1>3. ASSUME NEW c \in Clients, Handler(c) PROVE Counted'
  <2>1. CASE SessionEnds(c) \/ SendFails(c)
    BY <2>1, CountedEnds DEF SessionEnds, SendFails, Streaming
  <2>2. CASE RequestFails(c) \/ SendsHeader(c) \/ SessionTakes(c) \/ Sends(c)
    BY <2>2, <1>pc, CountedFrame DEF RequestFails, SendsHeader, SessionTakes, Sends, Streaming
  <2>3. QED
    BY <1>3, <2>1, <2>2 DEF Handler
<1>4. ASSUME NEW c \in Clients, Browser(c) PROVE Counted'
  <2>1. ASSUME NEW k \in Kinds, Request(c, k) PROVE Counted'
    BY <2>1, CountedBegins
  <2>2. CASE Connects(c) \/ LinkChanges(c) \/ ShortRequest(c)
    BY <2>2, <1>pc, CountedFrame DEF Connects, LinkChanges, ShortRequest, Streaming
  <2>3. QED
    BY <1>4, <2>1, <2>2 DEF Browser
<1>5. CASE UNCHANGED vars
  BY <1>5, CountedFrame DEF vars, Streaming
<1>6. QED
  BY <1>1, <1>2, <1>3, <1>4, <1>5 DEF Next

(* A count that is the number of sessions is a number.                     *)
LEMMA CountsAreNumbers == Counted => \A k \in Kinds : active[k] \in Nat
  BY FS_CardinalityType DEF Counted

LEMMA TypeStep == TypeOK /\ Counted /\ [Next]_vars => TypeOK'
<1> SUFFICES ASSUME TypeOK, Counted, [Next]_vars PROVE TypeOK'
    OBVIOUS
<1>counted. \A k \in Kinds : active'[k] \in Nat
  <2>1. Counted'
    BY CountedStep
  <2>2. (\A k \in Kinds : active[k] \in Nat)'
    BY <2>1, CountsAreNumbers, PTL
  <2>3. QED
    BY <2>2
<1> USE DEF TypeOK, mainVars, handlerVars
<1>1. CASE MainThread
  <2>1. CASE PublishFrame
    <3>1. 0 .. latest \subseteq 0 .. latest' /\ latest' \in 0 .. frames'
      BY <2>1 DEF PublishFrame
    <3>2. QED
      BY <2>1, <3>1 DEF PublishFrame
  <2>2. CASE ReadFrame
    BY <2>2 DEF ReadFrame
  <2>3. CASE EncodeFails \/ StopBegins \/ StopCloses \/ StopJoins
    BY <2>3 DEF EncodeFails, StopBegins, StopCloses, StopJoins
  <2>4. QED
    BY <1>1, <2>1, <2>2, <2>3 DEF MainThread
<1>2. CASE AcceptThread
  BY <1>2 DEF AcceptThread, AcceptChecks, AcceptPolls, AcceptFails, Accepts
<1>3. ASSUME NEW c \in Clients, Handler(c) PROVE TypeOK'
  <2>1. CASE SessionEnds(c) \/ SendFails(c)
    BY <2>1, <1>counted DEF SessionEnds, SendFails, End
  <2>2. CASE RequestFails(c) \/ SendsHeader(c) \/ SessionTakes(c) \/ Sends(c)
    BY <2>2 DEF RequestFails, SendsHeader, SessionTakes, Sends
  <2>3. QED
    BY <1>3, <2>1, <2>2 DEF Handler
<1>4. ASSUME NEW c \in Clients, Browser(c) PROVE TypeOK'
  BY <1>4 DEF Browser, Request, Connects, LinkChanges, ShortRequest
<1>5. CASE UNCHANGED vars
  BY <1>5 DEF vars
<1>6. QED
  BY <1>1, <1>2, <1>3, <1>4, <1>5 DEF Next

(* A stream takes a frame only if it is another than the last one, which   *)
(* can only be a newer one, and keeps it until it is sent.                 *)
LEMMA ChunkStep == TypeOK /\ ChunkIsNew /\ [Next]_vars => ChunkIsNew'
<1> SUFFICES ASSUME TypeOK, ChunkIsNew, [Next]_vars PROVE ChunkIsNew'
    OBVIOUS
<1> USE DEF ChunkIsNew, mainVars, handlerVars
<1>types. /\ pc \in [Clients -> {"none", "backlog", "request", "header", "loop", "send", "closed"}]
          /\ kind \in [Clients -> Kinds] /\ latest \in Nat
          /\ chunk \in [Clients -> 0 .. latest] /\ shown \in [Clients -> 0 .. latest]
  BY DEF TypeOK
<1>1. CASE MainThread \/ UNCHANGED vars
  BY <1>1 DEF MainThread, ReadFrame, PublishFrame, EncodeFails,
     StopBegins, StopCloses, StopJoins, vars
<1>2. CASE AcceptThread
  BY <1>2, <1>types DEF AcceptThread, AcceptChecks, AcceptPolls, AcceptFails, Accepts
<1>3. ASSUME NEW c \in Clients, Handler(c) PROVE ChunkIsNew'
  <2>1. CASE SessionTakes(c)
    <3>1. kind[c] = "mjpeg" => latest > shown[c]
      BY <2>1, <1>types DEF SessionTakes, HasNothing
    <3>2. QED
      BY <2>1, <3>1, <1>types DEF SessionTakes
  <2>2. CASE RequestFails(c) \/ SendsHeader(c) \/ SessionEnds(c) \/ Sends(c) \/ SendFails(c)
    BY <2>2, <1>types DEF RequestFails, SendsHeader, SessionEnds, Sends, SendFails, End
  <2>3. QED
    BY <1>3, <2>1, <2>2 DEF Handler
<1>4. ASSUME NEW c \in Clients, Browser(c) PROVE ChunkIsNew'
  BY <1>4, <1>types DEF Browser, Request, Connects, LinkChanges, ShortRequest
<1>5. QED
  BY <1>1, <1>2, <1>3, <1>4 DEF Next

LEMMA IInvHolds == Spec => []IInv
<1>1. IInv /\ [Next]_vars => IInv'
  BY TypeStep, CountedStep, ChunkStep DEF IInv
<1>2. QED
  BY <1>1, InitIInv, PTL DEF Spec

(* The server's variables have their types.                                *)
THEOREM ServerTypes == Spec => []TypeOK
  BY IInvHolds, PTL DEF IInv

(* The counts are the numbers of sessions, however many browsers connect   *)
(* and in whatever way their sessions end.                                 *)
THEOREM SessionsAreCounted == Spec => []ClientsCounted
<1>1. IInv => ClientsCounted
  BY DEF IInv, Counted, Sessions, ClientsCounted
<1>2. QED
  BY <1>1, IInvHolds, PTL

(* A frame that is sent is newer than the one the stream sent before.      *)
THEOREM StreamsNeverGoBack == Spec => StreamsMoveForward
<1>1. IInv => [\A c \in Clients :
                 kind[c] = "mjpeg" /\ Sends(c) => shown'[c] > shown[c]]_vars
  BY DEF IInv, ChunkIsNew, TypeOK, Sends
<1>2. QED
  BY <1>1, IInvHolds, PTL DEF Spec, StreamsMoveForward
====
