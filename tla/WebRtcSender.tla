----------------------------- MODULE WebRtcSender -----------------------------
(***************************************************************************)
(* bf_debugd's WebRTC sender (adapters/common/debug, WebRtcH264Sender).    *)
(* The main thread leaves preview frames in a mailbox of one place, HTTP   *)
(* threads hand browser offers over, and a thread running a GMainLoop does *)
(* the work: it pushes the frame of the mailbox into the GStreamer         *)
(* pipeline, and for an offer it tears the pipeline down and builds a new  *)
(* one.  While it waits inside an offer it iterates the main context, so   *)
(* other sources are dispatched in the middle of it: the loop thread is a  *)
(* stack of dispatches.                                                    *)
(*                                                                         *)
(* A frame is its number; the pipeline built for an offer carries the      *)
(* offer's name.  GStreamer is external: whatever it is asked may fail.    *)
(***************************************************************************)
EXTENDS Naturals, Sequences, FiniteSets

CONSTANTS
  Offers,         (* the offers browsers make                              *)
  MaxConcurrent,  (* how many of them are under way at a time              *)
  MaxFrames,      (* bound: frames the main thread accepts                 *)
  NoPipeline

ASSUME SenderAssumption ==
  /\ MaxConcurrent \in Nat \ {0}
  /\ MaxFrames \in Nat
  /\ NoPipeline \notin Offers

None == 0    (* no frame *)

VARIABLES
  running,     (* running_                                                 *)
  mpc,         (* the main thread: frames, schedule, then the steps of stop *)
  mailbox, latest, consumed, scheduled,  (* latest_bgr and its companions  *)
  dropped, pushed, errors,               (* frames_dropped, ...            *)
  lastPushed,  (* the frame pushed last                                    *)
  sources,     (* the sources attached to the main context                 *)
  stack,       (* what the loop thread is dispatching, innermost first     *)
  quit,        (* the loop was told to quit                                *)
  offer,       (* how far each offer is                                    *)
  pipeline, appsrc,  (* the members of that name                           *)
  state,       (* of the pipeline built for each offer                     *)
  nested       (* history: an offer was dispatched inside another          *)

mainVars   == <<running, mpc>>
boxVars    == <<mailbox, latest, consumed, scheduled>>
countVars  == <<dropped, pushed, errors, lastPushed>>
loopVars   == <<sources, stack, quit, nested>>
mediaVars  == <<pipeline, appsrc, state>>
vars == <<mainVars, boxVars, countVars, loopVars, offer, mediaVars>>

Tasks == [kind : {"push", "stop"}] \cup [kind : {"offer"}, of : Offers]
Frames == [task : Tasks, frame : Nat,
           pc : {"start", "push", "again", "size", "build", "negotiate",
                 "gather", "play", "expose"}]

TypeOK ==
  /\ running \in BOOLEAN
  /\ mpc \in {"frames", "schedule", "invoke", "join", "done"}
  /\ {mailbox, latest, consumed} \subseteq Nat /\ scheduled \in BOOLEAN
  /\ {dropped, pushed, errors, lastPushed} \subseteq Nat
  /\ sources \in Seq(Tasks) /\ stack \in Seq(Frames) /\ {quit, nested} \subseteq BOOLEAN
  /\ offer \in [Offers -> {"new", "checked", "waiting", "answered", "refused"}]
  /\ {pipeline, appsrc} \subseteq Offers \cup {NoPipeline}
  /\ state \in [Offers -> {"none", "ready", "playing", "freed"}]
  /\ \A i \in 2 .. Len(stack) : stack[i].pc \in {"size", "gather"}

(* start() has run.                                                        *)
Init ==
  /\ running = TRUE /\ mpc = "frames"
  /\ mailbox = None /\ latest = 0 /\ consumed = 0 /\ scheduled = FALSE
  /\ dropped = 0 /\ pushed = 0 /\ errors = 0 /\ lastPushed = None
  /\ sources = <<>> /\ stack = <<>> /\ quit = FALSE /\ nested = FALSE
  /\ offer = [o \in Offers |-> "new"]
  /\ pipeline = NoPipeline /\ appsrc = NoPipeline
  /\ state = [o \in Offers |-> "none"]

Push == [kind |-> "push"]
Stop == [kind |-> "stop"]
OfferTask(o) == [kind |-> "offer", of |-> o]

(***************************************************************************)
(* The main thread: pushBgrFrame, and stop() when the daemon ends.         *)
(***************************************************************************)
AcceptFrame ==
  /\ mpc = "frames" /\ latest < MaxFrames
  /\ mpc' = "schedule"
  /\ dropped' = IF mailbox # None /\ latest # consumed THEN dropped + 1 ELSE dropped
  /\ mailbox' = latest + 1
  /\ latest' = latest + 1
  /\ UNCHANGED <<running, consumed, scheduled, pushed, errors, lastPushed,
                 loopVars, offer, mediaVars>>

(* scheduleLatestFramePush: one push source at a time.                     *)
ScheduleFrame ==
  /\ mpc = "schedule" /\ mpc' = "frames"
  /\ scheduled' = TRUE
  /\ sources' = IF scheduled THEN sources ELSE Append(sources, Push)
  /\ UNCHANGED <<running, mailbox, latest, consumed, countVars, stack, quit, nested,
                 offer, mediaVars>>

StopBegins ==
  /\ mpc = "frames" /\ mpc' = "invoke"
  /\ running' = FALSE
  /\ appsrc' = NoPipeline
  /\ UNCHANGED <<boxVars, countVars, loopVars, offer, pipeline, state>>

StopInvokes ==
  /\ mpc = "invoke" /\ mpc' = "join"
  /\ sources' = Append(sources, Stop)
  /\ UNCHANGED <<running, boxVars, countVars, stack, quit, nested, offer, mediaVars>>

StopJoins ==
  /\ mpc = "join" /\ mpc' = "done"
  /\ quit /\ stack = <<>>
  /\ UNCHANGED <<running, boxVars, countVars, loopVars, offer, mediaVars>>

MainThread == AcceptFrame \/ ScheduleFrame \/ StopBegins \/ StopInvokes \/ StopJoins

(***************************************************************************)
(* An HTTP thread in handleBrowserOffer: it looks at running, attaches the *)
(* task and waits for its result.  After the loop has quit nothing         *)
(* dispatches the task and the thread waits until the process exits, which *)
(* it does when stop() has returned.                                       *)
(***************************************************************************)
UnderWay == {o \in Offers : offer[o] \in {"checked", "waiting"}}

OfferArrives(o) ==
  /\ offer[o] = "new" /\ Cardinality(UnderWay) < MaxConcurrent
  /\ offer' = [offer EXCEPT ![o] = IF running THEN "checked" ELSE "refused"]
  /\ UNCHANGED <<mainVars, boxVars, countVars, loopVars, mediaVars>>

OfferInvokes(o) ==
  /\ offer[o] = "checked" /\ mpc # "done"
  /\ offer' = [offer EXCEPT ![o] = "waiting"]
  /\ sources' = Append(sources, OfferTask(o))
  /\ UNCHANGED <<mainVars, boxVars, countVars, stack, quit, nested, mediaVars>>

HttpThread(o) == OfferArrives(o) \/ OfferInvokes(o)

(***************************************************************************)
(* The loop thread.                                                        *)
(***************************************************************************)
Top == Head(stack)
Running(kind, pc) == stack # <<>> /\ Top.task.kind = kind /\ Top.pc = pc
Goes(pc)  == stack' = <<[Top EXCEPT !.pc = pc]>> \o Tail(stack)
Returns   == stack' = Tail(stack)
Current   == Top.task.of

(* g_main_loop_run dispatches when nothing is being dispatched, and        *)
(* g_main_context_iteration inside the two waits of an offer.              *)
(* The first wait ends at once when the size of the frames is known.       *)
Waiting ==
  \/ Running("offer", "size") /\ latest = 0
  \/ Running("offer", "gather")

Dispatch ==
  /\ sources # <<>>
  /\ (stack = <<>> /\ ~quit) \/ Waiting
  /\ stack' = <<[task |-> Head(sources), frame |-> None, pc |-> "start"]>> \o stack
  /\ sources' = Tail(sources)
  /\ nested' = (nested \/ (stack # <<>> /\ Head(sources).kind = "offer"))
  /\ UNCHANGED <<mainVars, boxVars, countVars, quit, offer, mediaVars>>

(* pushLatestFrameOnGstThread.                                             *)
(* Mutation: the flag stays set when the frame is taken.                   *)
PushTakesKeepingFlag ==
  /\ Running("push", "start")
  /\ mailbox' = None /\ consumed' = latest
  /\ IF mailbox = None
     THEN Returns
     ELSE stack' = <<[Top EXCEPT !.pc = "push", !.frame = mailbox]>> \o Tail(stack)
  /\ UNCHANGED <<mainVars, latest, scheduled, countVars, sources, quit, nested, offer, mediaVars>>

PushTakes ==
  /\ Running("push", "start")
  /\ mailbox' = None /\ consumed' = latest /\ scheduled' = FALSE
  /\ IF mailbox = None
     THEN Returns
     ELSE stack' = <<[Top EXCEPT !.pc = "push", !.frame = mailbox]>> \o Tail(stack)
  /\ UNCHANGED <<mainVars, latest, countVars, sources, quit, nested, offer, mediaVars>>

(* Mutation: a frame nobody can take is forgotten.                         *)
PushForgets ==
  /\ Running("push", "push")
  /\ appsrc = NoPipeline \/ pipeline = NoPipeline
  /\ Returns
  /\ UNCHANGED <<mainVars, boxVars, countVars, sources, quit, nested, offer, mediaVars>>

PushDrops ==
  /\ Running("push", "push")
  /\ appsrc = NoPipeline \/ pipeline = NoPipeline
  /\ dropped' = dropped + 1
  /\ Returns
  /\ UNCHANGED <<mainVars, boxVars, pushed, errors, lastPushed, sources, quit, nested,
                 offer, mediaVars>>

(* Mutation: what is pushed is the newest frame by now.                    *)
PushNewest ==
  /\ Running("push", "push")
  /\ appsrc # NoPipeline /\ pipeline # NoPipeline
  /\ \/ pushed' = pushed + 1 /\ lastPushed' = latest /\ UNCHANGED errors
     \/ errors' = errors + 1 /\ UNCHANGED <<pushed, lastPushed>>
  /\ Goes("again")
  /\ UNCHANGED <<mainVars, boxVars, dropped, sources, quit, nested, offer, mediaVars>>

PushBuffer ==
  /\ Running("push", "push")
  /\ appsrc # NoPipeline /\ pipeline # NoPipeline
  /\ \/ pushed' = pushed + 1 /\ lastPushed' = Top.frame /\ UNCHANGED errors
     \/ errors' = errors + 1 /\ UNCHANGED <<pushed, lastPushed>>
  /\ Goes("again")
  /\ UNCHANGED <<mainVars, boxVars, dropped, sources, quit, nested, offer, mediaVars>>

(* The conversion fails, or the buffer cannot be mapped.                   *)
PushFails ==
  /\ Running("push", "push")
  /\ appsrc # NoPipeline /\ pipeline # NoPipeline
  /\ errors' = errors + 1
  /\ Returns
  /\ UNCHANGED <<mainVars, boxVars, dropped, pushed, lastPushed, sources, quit, nested,
                 offer, mediaVars>>

(* A frame came meanwhile and nobody scheduled it: the loop thread owns    *)
(* the context, so g_main_context_invoke calls the push at once.           *)
PushAgain ==
  /\ Running("push", "again")
  /\ IF latest # consumed /\ ~scheduled /\ running
     THEN scheduled' = TRUE /\ Goes("start")
     ELSE Returns /\ UNCHANGED scheduled
  /\ UNCHANGED <<mainVars, mailbox, latest, consumed, countVars, sources, quit, nested,
                 offer, mediaVars>>

PushTask ==
  PushTakes \/ PushDrops \/ PushBuffer \/ PushFails \/ PushAgain

(* handleOfferOnGstThread.                                                 *)
Refuse == offer' = [offer EXCEPT ![Current] = "refused"] /\ Returns

Free(p) == IF p = NoPipeline THEN state ELSE [state EXCEPT ![p] = "freed"]

OfferUnusable ==
  /\ Running("offer", "start")
  /\ Refuse
  /\ UNCHANGED <<mainVars, boxVars, countVars, sources, quit, nested, mediaVars>>

OfferTearsDown ==
  /\ Running("offer", "start")
  /\ state' = Free(pipeline)
  /\ pipeline' = NoPipeline
  /\ appsrc' = IF pipeline = NoPipeline THEN appsrc ELSE NoPipeline
  /\ Goes("size")
  /\ UNCHANGED <<mainVars, boxVars, countVars, sources, quit, nested, offer>>

(* The size of the first frame is known, or 1.2 s have passed.             *)
OfferSized ==
  /\ Running("offer", "size")
  /\ Goes("build")
  /\ UNCHANGED <<mainVars, boxVars, countVars, sources, quit, nested, offer, mediaVars>>

(* An element cannot be made or linked: nothing was stored yet.            *)
OfferNotBuilt ==
  /\ Running("offer", "build")
  /\ Refuse
  /\ UNCHANGED <<mainVars, boxVars, countVars, sources, quit, nested, mediaVars>>

(* Mutation: appsrc is stored with the rest.                               *)
OfferBuiltExposed ==
  /\ Running("offer", "build")
  /\ pipeline' = Current /\ appsrc' = Current
  /\ state' = [state EXCEPT ![Current] = "ready"]
  /\ Goes("negotiate")
  /\ UNCHANGED <<mainVars, boxVars, countVars, sources, quit, nested, offer>>

(* The new pipeline is stored, without its appsrc, and set to READY.       *)
OfferBuilt ==
  /\ Running("offer", "build")
  /\ pipeline' = Current /\ appsrc' = NoPipeline
  /\ state' = [state EXCEPT ![Current] = "ready"]
  /\ Goes("negotiate")
  /\ UNCHANGED <<mainVars, boxVars, countVars, sources, quit, nested, offer>>

OfferNotReady ==
  /\ Running("offer", "build")
  /\ pipeline' = NoPipeline /\ appsrc' = NoPipeline
  /\ state' = [state EXCEPT ![Current] = "freed"]
  /\ Refuse
  /\ UNCHANGED <<mainVars, boxVars, countVars, sources, quit, nested>>

(* No answer to this SDP, or no local description after the wait: the      *)
(* pipeline stays where it is for the next offer to tear down.             *)
OfferNotAnswered ==
  /\ Running("offer", "negotiate") \/ Running("offer", "gather")
  /\ Refuse
  /\ UNCHANGED <<mainVars, boxVars, countVars, sources, quit, nested, mediaVars>>

OfferNegotiated ==
  /\ Running("offer", "negotiate")
  /\ Goes("gather")
  /\ UNCHANGED <<mainVars, boxVars, countVars, sources, quit, nested, offer, mediaVars>>

(* ICE gathering is complete, or its time is over.                         *)
OfferGathered ==
  /\ Running("offer", "gather")
  /\ Goes("play")
  /\ UNCHANGED <<mainVars, boxVars, countVars, sources, quit, nested, offer, mediaVars>>

(* set_state(PLAYING).  On a pipeline that a nested dispatch has freed the *)
(* call is undefined: it may seem to succeed or to fail.                   *)
OfferPlays ==
  /\ Running("offer", "play")
  /\ state' = IF state[Current] = "freed" THEN state
              ELSE [state EXCEPT ![Current] = "playing"]
  /\ Goes("expose")
  /\ UNCHANGED <<mainVars, boxVars, countVars, sources, quit, nested, offer, pipeline, appsrc>>

OfferNotPlaying ==
  /\ Running("offer", "play")
  /\ state' = [state EXCEPT ![Current] = "freed"]
  /\ pipeline' = NoPipeline /\ appsrc' = NoPipeline
  /\ Refuse
  /\ UNCHANGED <<mainVars, boxVars, countVars, sources, quit, nested>>

OfferExposes ==
  /\ Running("offer", "expose")
  /\ appsrc' = Current
  /\ offer' = [offer EXCEPT ![Current] = "answered"]
  /\ Returns
  /\ UNCHANGED <<mainVars, boxVars, countVars, sources, quit, nested, pipeline, state>>

OfferDispatch ==
  \/ OfferUnusable \/ OfferTearsDown \/ OfferSized \/ OfferNotBuilt
  \/ OfferBuilt \/ OfferNotReady \/ OfferNotAnswered \/ OfferNegotiated
  \/ OfferGathered \/ OfferPlays \/ OfferNotPlaying \/ OfferExposes

(* The task stop() attaches.  Mutation: it does not end the loop.          *)
StopTaskKeepsLoop ==
  /\ Running("stop", "start")
  /\ state' = Free(pipeline)
  /\ pipeline' = NoPipeline /\ appsrc' = NoPipeline
  /\ Returns
  /\ UNCHANGED <<mainVars, boxVars, countVars, sources, quit, nested, offer>>

StopTask ==
  /\ Running("stop", "start")
  /\ state' = Free(pipeline)
  /\ pipeline' = NoPipeline
  /\ appsrc' = IF pipeline = NoPipeline THEN appsrc ELSE NoPipeline
  /\ quit' = TRUE
  /\ Returns
  /\ UNCHANGED <<mainVars, boxVars, countVars, sources, nested, offer>>

LoopThread == Dispatch \/ PushTask \/ OfferDispatch \/ StopTask

Next == MainThread \/ LoopThread \/ \E o \in Offers : HttpThread(o)

Spec == Init /\ [][Next]_vars

(* The loop thread works, its waits are bounded and what it asks GStreamer *)
(* returns; a thread that has begun a frame, an offer or a stop goes on.   *)
(* Nothing makes the daemon stop, a frame come or a browser call.          *)
FairSpec ==
  /\ Spec
  /\ WF_vars(LoopThread)
  /\ WF_vars(ScheduleFrame \/ StopInvokes \/ StopJoins)
  /\ \A o \in Offers : WF_vars(OfferInvokes(o))

-----------------------------------------------------------------------------
(* Every frame accepted is in the mailbox, in the loop thread's hands, or  *)
(* counted once as pushed, dropped or failed.                              *)
FramesAccounted ==
  latest = dropped + pushed + errors
           + Cardinality({i \in 1 .. Len(stack) :
                            stack[i].task.kind = "push" /\ stack[i].pc = "push"})
           + (IF mailbox = None THEN 0 ELSE 1)

(* Frames are only given to the stored pipeline, and only once it plays    *)
(* ("Do not expose appsrc to the ROS image thread until the pipeline is    *)
(* PLAYING"), while the sender runs.                                       *)
FedAfterPlaying ==
  running /\ appsrc # NoPipeline =>
    appsrc = pipeline /\ state[appsrc] = "playing"

(* So it is, with pushes and the stop in the middle of an offer, as long   *)
(* as no offer is dispatched inside another; and no pipeline is left alive *)
(* that the sender no longer knows.                                        *)
OnePipelinePlays ==
  ~nested =>
    /\ FedAfterPlaying
    /\ \A o \in Offers : state[o] \in {"ready", "playing"} => o = pipeline

(* The browser never gets an older frame after a newer one, nor one twice. *)
PushesInOrder == [][pushed' > pushed => lastPushed' > lastPushed]_vars

(* No wakeup is lost: the newest frame leaves the mailbox although a push  *)
(* is only scheduled when none is.                                         *)
NewestFrameTaken ==
  \A n \in 1 .. MaxFrames : latest = n ~> consumed >= n \/ ~running

(* An offer is answered or refused, unless the sender is stopped.          *)
OffersAnswered ==
  \A o \in Offers :
    offer[o] = "checked" ~> offer[o] \in {"answered", "refused"} \/ ~running

(* stop() returns, in the middle of offers and pushes too.                 *)
StopReturns == ~running ~> mpc = "done"

(* So nobody waits for the loop thread for ever, although it waits itself  *)
(* and dispatches the tasks of the others inside one another.              *)
WaitsEnd == OffersAnswered /\ StopReturns
=============================================================================
