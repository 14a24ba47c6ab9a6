-------------------------- MODULE PerceptionPipeline --------------------------
(***************************************************************************)
(* The zero-copy runtime together with what the control process does with  *)
(* its results (adapters/bf/bf_runtime/src/bf_control_host.cpp): the       *)
(* callback applies a result to PerceptionShared under its mutex, the      *)
(* control loop takes a snapshot of the newest one every tick, and the     *)
(* preview thread takes the newest matched debug frame and publishes it.   *)
(***************************************************************************)
EXTENDS ZeroCopyRuntime

CONSTANT DebugCap   (* kMaxMatchedDebugQueue                               *)

ASSUME DebugCapAssumption == DebugCap \in Nat \ {0}

(* A matched debug frame: image, overlay and the number both are given.    *)
DebugFrame   == [seq : Nat, pixels : Nat, overlay : Nat]

NoDebugFrame == [seq |-> 0, pixels |-> 0, overlay |-> 0]

VARIABLES
  latestSeq,   (* PerceptionShared.latest_pipeline_seq                     *)
  latestDet,   (* .latest_detection: the frame it was computed from        *)
  debugQueue,  (* .matched_debug_queue                                     *)
  control,     (* the control loop's copy of the two, of its last tick     *)
  vpc,         (* the preview thread: take, publish or done                *)
  held,        (* the debug frame the preview thread moved out             *)
  published    (* the last debug frame it published                        *)

sharedVars  == <<latestSeq, latestDet, debugQueue>>
previewVars == <<vpc, held, published>>
hostVars    == <<sharedVars, control, previewVars>>
vars        == <<runtimeVars, hostVars>>

TypeOK ==
  /\ RuntimeTypeOK
  /\ latestSeq \in Nat
  /\ latestDet \in Nat
  /\ debugQueue \in Seq(DebugFrame)
  /\ control \in [seq : Nat, det : Nat]
  /\ vpc \in {"take", "publish", "done"}
  /\ held \in DebugFrame
  /\ published \in DebugFrame

Init ==
  /\ RuntimeInit
  /\ latestSeq = 0
  /\ latestDet = 0
  /\ debugQueue = <<>>
  /\ control = [seq |-> 0, det |-> 0]
  /\ vpc = "take"
  /\ held = NoDebugFrame
  /\ published = NoDebugFrame

(* Mutation: the overlay is drawn from the shared detection, which is      *)
(* still that of the result before.                                        *)
PushWithShared(queue, frame) ==
  Append(IF Len(queue) >= DebugCap
         THEN SubSeq(queue, Len(queue) - DebugCap + 2, Len(queue))
         ELSE queue, [frame EXCEPT !.overlay = latestDet])

(* pushMatchedDebugFrame: a full queue drops from the front.               *)
PushMatched(queue, frame) ==
  Append(IF Len(queue) >= DebugCap
         THEN SubSeq(queue, Len(queue) - DebugCap + 2, Len(queue))
         ELSE queue, frame)

(* Mutation: results are applied in the order they arrive.                 *)
ApplyAnyResult(w) ==
  LET n == wframe[w].seq
  IN  /\ Deliver(w)
      /\ latestSeq' = n
      /\ latestDet' = det[w]
      /\ debugQueue' = PushMatched(debugQueue,
           [seq |-> n, pixels |-> preview[w], overlay |-> det[w]])
      /\ UNCHANGED <<control, previewVars>>

(* applyZeroCopyInferResult: a result that is not newer is dropped whole.  *)
ApplyResult(w) ==
  LET n == wframe[w].seq
  IN  /\ Deliver(w)
      /\ IF n <= latestSeq
         THEN UNCHANGED sharedVars
         ELSE /\ latestSeq' = n
              /\ latestDet' = det[w]
              /\ debugQueue' = PushMatched(debugQueue,
                   [seq |-> n, pixels |-> preview[w], overlay |-> det[w]])
      /\ UNCHANGED <<control, previewVars>>

(* One control tick copies what is newest; the loop ends with the flag.    *)
ControlTick ==
  /\ mpc = "run" /\ running
  /\ control' = [seq |-> latestSeq, det |-> latestDet]
  /\ UNCHANGED <<runtimeVars, sharedVars, previewVars>>

(* The newest debug frame is taken, the older ones are thrown away.        *)
PreviewTakes ==
  /\ vpc = "take" /\ running
  /\ debugQueue # <<>>
  /\ held' = debugQueue[Len(debugQueue)]
  /\ debugQueue' = <<>>
  /\ vpc' = "publish"
  /\ UNCHANGED <<runtimeVars, latestSeq, latestDet, control, published>>

PreviewPublishes ==
  /\ vpc = "publish"
  /\ published' = held
  /\ held' = NoDebugFrame
  /\ vpc' = "take"
  /\ UNCHANGED <<runtimeVars, sharedVars, control>>

PreviewExits ==
  /\ vpc = "take" /\ ~running
  /\ vpc' = "done"
  /\ UNCHANGED <<runtimeVars, sharedVars, control, held, published>>

PreviewThread == PreviewTakes \/ PreviewPublishes \/ PreviewExits

(* run() returns after the runtime is closed and the preview joined.       *)
Terminated == mpc = "closed" /\ vpc = "done" /\ UNCHANGED vars

Next ==
  \/ RuntimeInside /\ UNCHANGED hostVars
  \/ \E w \in Workers : ApplyResult(w)
  \/ ControlTick
  \/ PreviewThread
  \/ Terminated

Spec == Init /\ [][Next]_vars

(***************************************************************************)
(* The fairness of RuntimeFairSpec, with the callback doing its work, and  *)
(* a preview thread that is scheduled.                                     *)
(***************************************************************************)
FairSpec ==
  /\ Spec
  /\ SF_vars(Producer /\ UNCHANGED hostVars)
  /\ \A w \in Workers :
       SF_vars((WorkerInside(w) /\ UNCHANGED hostVars) \/ ApplyResult(w))
  /\ WF_vars(Stop /\ UNCHANGED hostVars)
  /\ WF_vars(PreviewThread)

-----------------------------------------------------------------------------
(***************************************************************************)
(* Safety                                                                  *)
(***************************************************************************)
(* What the control loop and the debug preview see carries the number of   *)
(* the frame it was computed from.                                         *)
ConsumersSeeMatched ==
  /\ control.det = control.seq
  /\ published.pixels = published.seq /\ published.overlay = published.seq

(* The control loop never goes back to an older frame, and the debug       *)
(* preview never shows one after a newer one, although workers finish, and *)
(* call the callback, in any order.                                        *)
ConsumersMoveForward ==
  /\ [][control'.seq >= control.seq]_control
  /\ [][published'.seq > published.seq]_published

(***************************************************************************)
(* Liveness                                                                *)
(***************************************************************************)
(* A frame that entered the queue is applied, or a newer one is, or the    *)
(* process is stopping (without max_infer_fps, which drops frames).        *)
EveryFrameSuperseded ==
  \A n \in 1 .. MaxFrames : seq >= n ~> latestSeq >= n \/ ~running

(* Shutdown always finishes: no thread sleeps through it, although stop()  *)
(* clears the flag and notifies without holding ready_mu_.                 *)
ShutdownCompletes == ~running ~> mpc = "closed" /\ vpc = "done"

=============================================================================
