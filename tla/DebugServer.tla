------------------------------ MODULE DebugServer ------------------------------
(***************************************************************************)
(* The HTTP server of bf_debugd (adapters/common/debug, DebugVideoServer): *)
(* an accept thread, a detached thread per connection, and the main loop   *)
(* that publishes JPEG frames and in the end stops the server.  Modelled   *)
(* are the sessions that last: MJPEG streams and event sessions (series    *)
(* and video status are served alike).                                     *)
(*                                                                         *)
(* A JPEG is the number of its publish.  The browser is the environment:   *)
(* it may stop reading or go away at any time.                             *)
(***************************************************************************)
EXTENDS Naturals, FiniteSets

CONSTANTS
  Clients,         (* connections that browsers make                       *)
  MjpegTransport,  (* video_transport is "mjpeg": JPEGs are always made    *)
  MaxFrames        (* bound: preview frames the main loop gets             *)

ASSUME ServerAssumption == MjpegTransport \in BOOLEAN /\ MaxFrames \in Nat

Kinds == {"mjpeg", "events"}

VARIABLES
  running,   (* running_                                                   *)
  listening, (* listen_fd_ is open                                         *)
  mpc,       (* the main thread: frames, encode, then the steps of stop()  *)
  frames,    (* preview frames it has read                                 *)
  latest,    (* mjpeg_seq_ and mjpeg_latest_                               *)
  apc,       (* the accept thread                                          *)
  pc,        (* each connection's handler                                  *)
  kind,      (* what it serves                                             *)
  chunk,     (* the frame it is sending                                    *)
  shown,     (* last_sent_seq                                              *)
  link,      (* whether the browser reads, has stopped reading, is gone    *)
  active     (* mjpeg_stream_clients_ and the counts of event sessions     *)

mainVars    == <<running, listening, mpc, frames, latest>>
handlerVars == <<pc, kind, chunk, shown, active>>
vars == <<mainVars, apc, handlerVars, link>>

TypeOK ==
  /\ running \in BOOLEAN /\ listening \in BOOLEAN
  /\ mpc \in {"frames", "encode", "close", "join", "done"}
  /\ frames \in Nat /\ latest \in 0 .. frames
  /\ apc \in {"check", "poll", "accept", "done"}
  /\ pc \in [Clients -> {"none", "backlog", "request", "header", "loop", "send", "closed"}]
  /\ kind \in [Clients -> Kinds]
  /\ chunk \in [Clients -> 0 .. latest] /\ shown \in [Clients -> 0 .. latest]
  /\ link \in [Clients -> {"reads", "stalled", "gone"}]
  /\ active \in [Kinds -> Nat]

(* start() has run.                                                        *)
Init ==
  /\ running = TRUE /\ listening = TRUE
  /\ mpc = "frames" /\ frames = 0 /\ latest = 0
  /\ apc = "check"
  /\ pc = [c \in Clients |-> "none"]
  /\ kind = [c \in Clients |-> "mjpeg"]
  /\ chunk = [c \in Clients |-> 0] /\ shown = [c \in Clients |-> 0]
  /\ link = [c \in Clients |-> "reads"]
  /\ active = [k \in Kinds |-> 0]

(***************************************************************************)
(* The main thread.                                                        *)
(***************************************************************************)
NeedJpeg == MjpegTransport \/ active["mjpeg"] > 0

ReadFrame ==
  /\ mpc = "frames" /\ frames < MaxFrames
  /\ frames' = frames + 1
  /\ mpc' = IF NeedJpeg THEN "encode" ELSE "frames"
  /\ UNCHANGED <<running, listening, latest, apc, handlerVars, link>>

(* publishMjpegFrame.                                                      *)
PublishFrame ==
  /\ mpc = "encode" /\ mpc' = "frames"
  /\ latest' = frames
  /\ UNCHANGED <<running, listening, frames, apc, handlerVars, link>>

EncodeFails ==
  /\ mpc = "encode" /\ mpc' = "frames"
  /\ UNCHANGED <<running, listening, frames, latest, apc, handlerVars, link>>

(* Mutation: the server goes on running while stop() joins.                *)
StopLate ==
  /\ mpc = "frames" /\ mpc' = "close"
  /\ UNCHANGED <<running, listening, frames, latest, apc, handlerVars, link>>

StopBegins ==
  /\ mpc = "frames" /\ mpc' = "close"
  /\ running' = FALSE
  /\ UNCHANGED <<listening, frames, latest, apc, handlerVars, link>>

StopCloses ==
  /\ mpc = "close" /\ mpc' = "join"
  /\ listening' = FALSE
  /\ UNCHANGED <<running, frames, latest, apc, handlerVars, link>>

StopJoins ==
  /\ mpc = "join" /\ apc = "done" /\ mpc' = "done"
  /\ UNCHANGED <<running, listening, frames, latest, apc, handlerVars, link>>

MainThread ==
  \/ ReadFrame \/ PublishFrame \/ EncodeFails
  \/ StopBegins \/ StopCloses \/ StopJoins

(***************************************************************************)
(* acceptLoop.                                                             *)
(***************************************************************************)
AcceptChecks ==
  /\ apc = "check"
  /\ apc' = IF running THEN "poll" ELSE "done"
  /\ UNCHANGED <<mainVars, handlerVars, link>>

(* poll() returns within 500 ms, with or without a connection.             *)
AcceptPolls ==
  /\ apc = "poll"
  /\ apc' = IF \E c \in Clients : pc[c] = "backlog" THEN "accept" ELSE "check"
  /\ UNCHANGED <<mainVars, handlerVars, link>>

Accepts(c) ==
  /\ apc = "accept" /\ apc' = "check"
  /\ listening /\ pc[c] = "backlog"
  /\ pc' = [pc EXCEPT ![c] = "request"]
  /\ UNCHANGED <<mainVars, kind, chunk, shown, active, link>>

AcceptFails ==
  /\ apc = "accept" /\ apc' = "check"
  /\ ~listening
  /\ UNCHANGED <<mainVars, handlerVars, link>>

AcceptThread ==
  AcceptChecks \/ AcceptPolls \/ AcceptFails \/ \E c \in Clients : Accepts(c)

(***************************************************************************)
(* A connection's handler.                                                 *)
(***************************************************************************)
(* Mutation: the count is not given back.                                  *)
EndUncounted(c) == pc' = [pc EXCEPT ![c] = "closed"] /\ UNCHANGED active
End(c) ==
  /\ pc' = [pc EXCEPT ![c] = "closed"]
  /\ active' = [active EXCEPT ![kind[c]] = @ - 1]

(* The request is read, without a time limit, and the session counted.     *)
Request(c, k) ==
  /\ pc[c] = "request" /\ link[c] = "reads"
  /\ kind' = [kind EXCEPT ![c] = k]
  /\ pc' = [pc EXCEPT ![c] = "header"]
  /\ active' = [active EXCEPT ![k] = @ + 1]
  /\ UNCHANGED <<mainVars, apc, chunk, shown, link>>

SendsHeader(c) ==
  /\ pc[c] = "header" /\ link[c] = "reads"
  /\ pc' = [pc EXCEPT ![c] = "loop"]
  /\ UNCHANGED <<mainVars, apc, kind, chunk, shown, active, link>>

(* Something short is asked for, answered, and the connection closed.      *)
ShortRequest(c) ==
  /\ pc[c] = "request" /\ link[c] = "reads"
  /\ pc' = [pc EXCEPT ![c] = "closed"]
  /\ UNCHANGED <<mainVars, apc, kind, chunk, shown, active, link>>

RequestFails(c) ==
  /\ pc[c] = "request" /\ link[c] = "gone"
  /\ pc' = [pc EXCEPT ![c] = "closed"]
  /\ UNCHANGED <<mainVars, apc, kind, chunk, shown, active, link>>

(* The loop's condition.                                                   *)
SessionEnds(c) ==
  /\ pc[c] = "loop" /\ ~running
  /\ End(c)
  /\ UNCHANGED <<mainVars, apc, kind, chunk, shown, link>>

(* Mutations: a frame is sent again and again, or the first one is skipped *)
(* as not new.                                                             *)
HasNothingYet(c) == kind[c] = "mjpeg" /\ latest = 0
HasNothingOld(c) == kind[c] = "mjpeg" /\ latest <= shown[c] + 1
HasNothing(c) == kind[c] = "mjpeg" /\ latest = shown[c]

(* An MJPEG stream copies the newest frame, if it is another than the one  *)
(* sent last; an event session always has something to say.                *)
SessionTakes(c) ==
  /\ pc[c] = "loop" /\ running /\ ~HasNothing(c)
  /\ chunk' = [chunk EXCEPT ![c] = latest]
  /\ pc' = [pc EXCEPT ![c] = "send"]
  /\ UNCHANGED <<mainVars, apc, kind, shown, active, link>>

Sends(c) ==
  /\ pc[c] = "send" /\ link[c] = "reads"
  /\ shown' = [shown EXCEPT ![c] = chunk[c]]
  /\ pc' = [pc EXCEPT ![c] = "loop"]
  /\ UNCHANGED <<mainVars, apc, kind, chunk, active, link>>

(* sendAllRealtime gives up in time, sendAll when the browser is gone.     *)
GivesUp(c) == link[c] = "gone" \/ kind[c] = "mjpeg"

(* Of the header, or of what the session says.                             *)
SendFails(c) ==
  /\ pc[c] \in {"header", "send"} /\ GivesUp(c)
  /\ End(c)
  /\ UNCHANGED <<mainVars, apc, kind, chunk, shown, link>>

Handler(c) ==
  \/ RequestFails(c) \/ SendsHeader(c) \/ SessionEnds(c)
  \/ SessionTakes(c) \/ Sends(c) \/ SendFails(c)

(***************************************************************************)
(* The browsers.                                                           *)
(***************************************************************************)
Connects(c) ==
  /\ pc[c] = "none" /\ listening
  /\ pc' = [pc EXCEPT ![c] = "backlog"]
  /\ UNCHANGED <<mainVars, apc, kind, chunk, shown, active, link>>

LinkChanges(c) ==
  /\ pc[c] # "none" /\ link[c] # "gone"
  /\ \E l \in {"reads", "stalled", "gone"} \ {link[c]} : link' = [link EXCEPT ![c] = l]
  /\ UNCHANGED <<mainVars, apc, handlerVars>>

Browser(c) ==
  \/ Connects(c) \/ LinkChanges(c) \/ ShortRequest(c)
  \/ \E k \in Kinds : Request(c, k)

Next ==
  \/ MainThread \/ AcceptThread
  \/ \E c \in Clients : Handler(c) \/ Browser(c)

Spec == Init /\ [][Next]_vars

(* Every thread of the daemon goes on as long as nothing blocks it;        *)
(* nothing makes a frame come, the daemon stop or a browser do anything.   *)
FairSpec ==
  /\ Spec
  /\ WF_vars(PublishFrame \/ EncodeFails \/ StopCloses \/ StopJoins)
  /\ WF_vars(AcceptThread)
  /\ \A c \in Clients : WF_vars(Handler(c))

-----------------------------------------------------------------------------
Streaming(c) == pc[c] \in {"header", "loop", "send"}

(* The counts by which bf_debugd decides whether to encode at all are the  *)
(* numbers of sessions, whatever way a session ends.                       *)
ClientsCounted ==
  \A k \in Kinds : active[k] = Cardinality({c \in Clients : Streaming(c) /\ kind[c] = k})

(* A browser is never shown a frame twice or an older one, though frames   *)
(* it was too slow for are skipped.                                        *)
StreamsMoveForward ==
  [][\A c \in Clients : kind[c] = "mjpeg" /\ Sends(c) => shown'[c] > shown[c]]_vars

(* The newest frame reaches every stream that goes on.                     *)
NewestFrameShown ==
  \A c \in Clients, n \in 1 .. MaxFrames :
    Streaming(c) /\ kind[c] = "mjpeg" /\ latest = n
      ~> shown[c] >= n \/ ~Streaming(c) \/ ~running

(* stop() returns whatever the browsers do.                                *)
StopReturns == mpc = "close" ~> mpc = "done"

(* After it every MJPEG stream ends, and every event session whose browser *)
(* has not just stopped reading.                                           *)
SessionsEnd ==
  \A c \in Clients :
    ~running ~> ~Streaming(c) \/ (kind[c] = "events" /\ link[c] = "stalled")

(* The daemon's shutdown gets to its end, and the sessions with it.        *)
ShutdownEnds == StopReturns /\ SessionsEnd
=============================================================================
