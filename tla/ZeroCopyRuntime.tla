--------------------------- MODULE ZeroCopyRuntime ---------------------------
(***************************************************************************)
(* The zero-copy camera runtime (adapters/common/perception): one producer *)
(* thread moves frames from the V4L2 driver into a pool of DMA slots, and  *)
(* a set of worker threads reads the slots and hands one result per frame  *)
(* to a callback.  A slot is leased by the producer, travels through the   *)
(* ready queue with its lease, and is released by the worker.              *)
(*                                                                         *)
(* A slot's pixels are abstracted to the number of the frame they belong   *)
(* to; what a worker computes from them is abstracted to the number it     *)
(* read.                                                                   *)
(***************************************************************************)
EXTENDS Naturals, Sequences, FiniteSets

CONSTANTS
  SlotCount,    (* config_.slot_count after the clamp to 1..4            *)
  Workers,      (* the worker threads, config_.infer_worker_count        *)
  Buffers,      (* the V4L2 mmap buffers                                 *)
  ReadyCap,     (* kMaxReadyQueue                                        *)
  Throttled,    (* config_.max_infer_fps > 0                             *)
  EmptyFrames,  (* may the driver complete a buffer with bytesused == 0? *)
  MaxFrames,    (* bound: how many buffers the camera ever completes     *)
  NoBuffer, NoThread

ASSUME RuntimeAssumption ==
  /\ SlotCount \in Nat \ {0}
  /\ ReadyCap \in Nat \ {0}
  /\ MaxFrames \in Nat
  /\ Throttled \in BOOLEAN /\ EmptyFrames \in BOOLEAN
  /\ NoBuffer \notin Buffers
  /\ NoThread \notin Workers

(* The ready queue has room for every slot: 4 slots at most, 16 places.    *)
ASSUME SlotsFitReadyQueue == SlotCount <= ReadyCap

Slots == 0 .. SlotCount - 1

(* Pixels no decode has completed: the pad value or a torn write.          *)
Garbage == 0

(* The part of ReadyFrame that the properties tell apart.                  *)
Frame   == [slot : Slots, seq : Nat]
NoFrame == [slot |-> 0, seq |-> 0]

VARIABLES
  running,   (* the flag every thread polls                              *)
  mpc,       (* the thread that calls stop()                             *)
  leased,    (* ZeroCopyFrameSlot.leased                                 *)
  content,   (* the frame whose pixels a slot holds                      *)
  ready,     (* ready_queue_                                             *)
  readyMu,   (* the worker that holds ready_mu_ between two steps        *)
  seq,       (* seq_                                                     *)
  readyDrops, (* ready_drops_                                            *)
  ppc, pslot, pbuf, (* the producer: where it is, its slot, its buffer   *)
  buffers,   (* who has each V4L2 buffer: the driver, empty or filled,   *)
             (* the producer, or nobody any more (see BufferPlace)       *)
  shots,     (* buffers completed by the camera so far                   *)
  wpc, wframe, (* the workers: where each is and the frame it popped     *)
  inferred,  (* last_infer is set                                        *)
  det, preview (* the frame whose pixels the result was computed from,   *)
               (* and the one its preview image was copied from          *)

mainVars     == <<running, mpc>>
slotVars     == <<leased, content>>
queueVars    == <<ready, readyMu, seq, readyDrops>>
producerVars == <<ppc, pslot, pbuf>>
cameraVars   == <<buffers, shots>>
workerVars   == <<wpc, wframe, inferred, det, preview>>
runtimeVars  == <<mainVars, slotVars, queueVars, producerVars, cameraVars,
                  workerVars>>

ProducerPC == {"lease", "capture", "decode", "decoding", "requeue", "requeue_bad",
               "push", "notify", "release", "done"}
WorkerPC   == {"check", "blocking", "asleep", "got", "copy", "release",
               "deliver", "done"}

(* A buffer is "dropped" when it was completed without a frame in it, and  *)
(* "refused" when the driver did not take it back.                         *)
BufferPlace == {"queued", "filled", "empty", "dequeued", "dropped", "refused"}

RuntimeTypeOK ==
  /\ running \in BOOLEAN
  /\ mpc \in {"run", "notify", "join", "closed"}
  /\ leased \in [Slots -> BOOLEAN]
  /\ content \in [Slots -> Nat]
  /\ ready \in Seq(Frame)
  /\ readyMu \in Workers \cup {NoThread}
  /\ seq \in Nat
  /\ readyDrops \in Nat
  /\ ppc \in ProducerPC
  /\ pslot \in Slots
  /\ pbuf \in Buffers \cup {NoBuffer}
  /\ buffers \in [Buffers -> BufferPlace]
  /\ shots \in Nat
  /\ wpc \in [Workers -> WorkerPC]
  /\ wframe \in [Workers -> Frame]
  /\ inferred \in [Workers -> BOOLEAN]
  /\ det \in [Workers -> Nat]
  /\ preview \in [Workers -> Nat]

RuntimeInit ==
  /\ running = TRUE
  /\ mpc = "run"
  /\ leased = [s \in Slots |-> FALSE]
  /\ content = [s \in Slots |-> Garbage]
  /\ ready = <<>>
  /\ readyMu = NoThread
  /\ seq = 0
  /\ readyDrops = 0
  /\ ppc = "lease"
  /\ pslot = 0
  /\ pbuf = NoBuffer
  /\ buffers = [b \in Buffers |-> "queued"]
  /\ shots = 0
  /\ wpc = [w \in Workers |-> "check"]
  /\ wframe = [w \in Workers |-> NoFrame]
  /\ inferred = [w \in Workers |-> FALSE]
  /\ det = [w \in Workers |-> 0]
  /\ preview = [w \in Workers |-> 0]

(* pipeline_mu_ is held across steps only while the producer decodes.      *)
PipelineMuFree == ppc # "decoding"
ReadyMuFree    == readyMu = NoThread

(* Mutation: the scan for a free slot does not look at the mark.           *)
FreeSlotsUnchecked == Slots
FreeSlots == {s \in Slots : ~leased[s]}

(* Mutation: the lease is not given back.                                  *)
ReleasedNot(s) == leased
Released(s) == [leased EXCEPT ![s] = FALSE]

(***************************************************************************)
(* The camera completes a buffer the driver holds.  MaxFrames bounds it.   *)
(***************************************************************************)
CameraShot(b) ==
  /\ mpc # "closed"
  /\ shots < MaxFrames
  /\ buffers[b] = "queued"
  /\ \E kind \in {"filled"} \cup IF EmptyFrames THEN {"empty"} ELSE {} :
       buffers' = [buffers EXCEPT ![b] = kind]
  /\ shots' = shots + 1
  /\ UNCHANGED <<mainVars, slotVars, queueVars, producerVars, workerVars>>

(***************************************************************************)
(* producerLoop                                                            *)
(***************************************************************************)
ProducerExit ==
  /\ ppc = "lease" /\ ~running
  /\ ppc' = "done"
  /\ UNCHANGED <<mainVars, slotVars, queueVars, pslot, pbuf, cameraVars, workerVars>>

(* leaseFreeZeroCopySlot takes the first free slot.  With none, the loop   *)
(* only counts slot_busy_drops_ and retries.                               *)
LeaseSlot ==
  /\ ppc = "lease" /\ running
  /\ \E s \in FreeSlots :
       /\ \A t \in FreeSlots : s <= t
       /\ leased' = [leased EXCEPT ![s] = TRUE]
       /\ pslot' = s
  /\ ppc' = "capture"
  /\ UNCHANGED <<mainVars, content, queueVars, pbuf, cameraVars, workerVars>>

(* A DQBUF that succeeds with a frame in it.                               *)
CaptureFrame(b) ==
  /\ ppc = "capture" /\ buffers[b] = "filled"
  /\ buffers' = [buffers EXCEPT ![b] = "dequeued"]
  /\ pbuf' = b
  /\ ppc' = "decode"
  /\ UNCHANGED <<mainVars, slotVars, queueVars, pslot, shots, workerVars>>

(* A DQBUF that succeeds with bytesused == 0: captureMjpeg returns false   *)
(* without setting *buf_index, so nobody gives the buffer back.            *)
CaptureEmpty(b) ==
  /\ ppc = "capture" /\ buffers[b] = "empty"
  /\ buffers' = [buffers EXCEPT ![b] = "dropped"]
  /\ ppc' = "release"
  /\ UNCHANGED <<mainVars, slotVars, queueVars, pslot, pbuf, shots, workerVars>>

(* poll() timed out, or an ioctl failed.                                   *)
CaptureFails ==
  /\ ppc = "capture"
  /\ ppc' = "release"
  /\ UNCHANGED <<mainVars, slotVars, queueVars, pslot, pbuf, cameraVars, workerVars>>

(* decodeAndConvert runs under pipeline_mu_; the pixels are torn until it  *)
(* ends, and stay so when it fails.                                        *)
DecodeBegins ==
  /\ ppc = "decode"
  /\ content' = [content EXCEPT ![pslot] = Garbage]
  /\ ppc' = "decoding"
  /\ UNCHANGED <<mainVars, leased, queueVars, pslot, pbuf, cameraVars, workerVars>>

DecodeEnds ==
  /\ ppc = "decoding"
  /\ \/ /\ content' = [content EXCEPT ![pslot] = seq + 1]
        /\ ppc' = "requeue"
     \/ /\ ppc' = "requeue_bad"
        /\ UNCHANGED content
  /\ UNCHANGED <<mainVars, leased, queueVars, pslot, pbuf, cameraVars, workerVars>>

(* Mutation: only a frame that was decoded gives its buffer back.          *)
RequeueDecodedBuffer ==
  /\ ppc \in {"requeue", "requeue_bad"}
  /\ \E place \in {"queued", "refused"} :
       buffers' = IF ppc = "requeue" THEN [buffers EXCEPT ![pbuf] = place] ELSE buffers
  /\ pbuf' = NoBuffer
  /\ ppc' = IF ppc = "requeue" THEN "push" ELSE "release"
  /\ UNCHANGED <<mainVars, slotVars, queueVars, pslot, shots, workerVars>>

(* requeueV4L2Buffer ignores the result of VIDIOC_QBUF: a buffer that the  *)
(* driver refuses is not offered again.                                    *)
RequeueBuffer ==
  /\ ppc \in {"requeue", "requeue_bad"}
  /\ \E place \in {"queued", "refused"} : buffers' = [buffers EXCEPT ![pbuf] = place]
  /\ pbuf' = NoBuffer
  /\ ppc' = IF ppc = "requeue" THEN "push" ELSE "release"
  /\ UNCHANGED <<mainVars, slotVars, queueVars, pslot, shots, workerVars>>

(* The capture or the decode failed: the lease is given back.              *)
ReleaseFailed ==
  /\ ppc = "release"
  /\ leased' = Released(pslot)
  /\ ppc' = "lease"
  /\ UNCHANGED <<mainVars, content, queueVars, pslot, pbuf, cameraVars, workerVars>>

(* Mutation: the last place of the queue is never used.                    *)
ReadyFullEarly == Len(ready) >= ReadyCap - 1
ReadyFull == Len(ready) >= ReadyCap

(* Under ready_mu_: a full queue drops its oldest frame, lease included.   *)
PushReady ==
  LET frame == [slot |-> pslot, seq |-> seq + 1]
  IN  /\ ppc = "push" /\ ReadyMuFree
      /\ seq' = seq + 1
      /\ ready' = Append(IF ReadyFull THEN Tail(ready) ELSE ready, frame)
      /\ readyDrops' = IF ReadyFull THEN readyDrops + 1 ELSE readyDrops
      /\ leased' = IF ReadyFull THEN Released(ready[1].slot) ELSE leased
      /\ ppc' = "notify"
      /\ UNCHANGED <<mainVars, content, readyMu, pslot, pbuf, cameraVars, workerVars>>

Asleep == {w \in Workers : wpc[w] = "asleep"}

(* notify_one: one sleeping worker re-evaluates its predicate, if any.     *)
NotifyOne ==
  /\ ppc = "notify"
  /\ \/ \E w \in Asleep : wpc' = [wpc EXCEPT ![w] = "check"]
     \/ Asleep = {} /\ UNCHANGED wpc
  /\ ppc' = "lease"
  /\ UNCHANGED <<mainVars, slotVars, queueVars, pslot, pbuf, cameraVars,
                 wframe, inferred, det, preview>>

(***************************************************************************)
(* inferWorkerLoop                                                         *)
(***************************************************************************)
WorkerExit(w) ==
  /\ wpc[w] = "check" /\ ~running
  /\ wpc' = [wpc EXCEPT ![w] = "done"]
  /\ UNCHANGED <<mainVars, slotVars, queueVars, producerVars, cameraVars,
                 wframe, inferred, det, preview>>

(* Mutation: the newest frame is taken first.                              *)
PopNewest(w) ==
  /\ wpc[w] = "check" /\ ReadyMuFree
  /\ running
  /\ ready # <<>>
  /\ wframe' = [wframe EXCEPT ![w] = ready[Len(ready)]]
  /\ ready' = SubSeq(ready, 1, Len(ready) - 1)
  /\ wpc' = [wpc EXCEPT ![w] = "got"]
  /\ UNCHANGED <<mainVars, slotVars, readyMu, seq, readyDrops, producerVars,
                 cameraVars, inferred, det, preview>>

PopReady(w) ==
  /\ wpc[w] = "check" /\ ReadyMuFree
  /\ running
  /\ ready # <<>>
  /\ wframe' = [wframe EXCEPT ![w] = Head(ready)]
  /\ ready' = Tail(ready)
  /\ wpc' = [wpc EXCEPT ![w] = "got"]
  /\ UNCHANGED <<mainVars, slotVars, readyMu, seq, readyDrops, producerVars,
                 cameraVars, inferred, det, preview>>

(* The predicate was false; the worker still holds ready_mu_ until it is   *)
(* on the condition variable, so a push cannot come between, but           *)
(* notify_all of stop(), which takes no lock, can.                         *)
WaitBegins(w) ==
  /\ wpc[w] = "check" /\ ReadyMuFree
  /\ running /\ ready = <<>>
  /\ readyMu' = w
  /\ wpc' = [wpc EXCEPT ![w] = "blocking"]
  /\ UNCHANGED <<mainVars, slotVars, ready, seq, readyDrops, producerVars,
                 cameraVars, wframe, inferred, det, preview>>

WaitBlocks(w) ==
  /\ wpc[w] = "blocking"
  /\ readyMu' = NoThread
  /\ wpc' = [wpc EXCEPT ![w] = "asleep"]
  /\ UNCHANGED <<mainVars, slotVars, ready, seq, readyDrops, producerVars,
                 cameraVars, wframe, inferred, det, preview>>

(* Mutation: a wait without a time limit, which only the predicate ends.   *)
WaitForFrame(w) ==
  /\ wpc[w] = "asleep" /\ ready # <<>>
  /\ wpc' = [wpc EXCEPT ![w] = "check"]
  /\ UNCHANGED <<mainVars, slotVars, queueVars, producerVars, cameraVars,
                 wframe, inferred, det, preview>>

(* wait_for returns after 50 ms whatever happened.                         *)
WaitTimesOut(w) ==
  /\ wpc[w] = "asleep"
  /\ wpc' = [wpc EXCEPT ![w] = "check"]
  /\ UNCHANGED <<mainVars, slotVars, queueVars, producerVars, cameraVars,
                 wframe, inferred, det, preview>>

(* Mutation: the limit applies although none is configured.                *)
AlwaysTooEarly(w) == inferred[w]

(* Less than 1/max_infer_fps has passed since the last inference, if any.  *)
TooEarly(w) == Throttled /\ inferred[w]

(* Mutation: the frame is dropped but its lease is kept.                   *)
SkipFrameLeased(w) ==
  /\ wpc[w] = "got" /\ PipelineMuFree
  /\ TooEarly(w)
  /\ wframe' = [wframe EXCEPT ![w] = NoFrame]
  /\ wpc' = [wpc EXCEPT ![w] = "check"]
  /\ UNCHANGED <<mainVars, leased, content, queueVars, producerVars, cameraVars,
                 inferred, det, preview>>

(* max_infer_fps: a frame that comes too early is dropped with its lease.  *)
SkipFrame(w) ==
  /\ wpc[w] = "got" /\ PipelineMuFree
  /\ TooEarly(w)
  /\ leased' = Released(wframe[w].slot)
  /\ wframe' = [wframe EXCEPT ![w] = NoFrame]
  /\ wpc' = [wpc EXCEPT ![w] = "check"]
  /\ UNCHANGED <<mainVars, content, queueVars, producerVars, cameraVars,
                 inferred, det, preview>>

InferFrame(w) ==
  /\ wpc[w] = "got"
  /\ det' = [det EXCEPT ![w] = content[wframe[w].slot]]
  /\ inferred' = [inferred EXCEPT ![w] = TRUE]
  /\ wpc' = [wpc EXCEPT ![w] = "copy"]
  /\ UNCHANGED <<mainVars, slotVars, queueVars, producerVars, cameraVars,
                 wframe, preview>>

CopyPreview(w) ==
  /\ wpc[w] = "copy"
  /\ preview' = [preview EXCEPT ![w] = content[wframe[w].slot]]
  /\ wpc' = [wpc EXCEPT ![w] = "release"]
  /\ UNCHANGED <<mainVars, slotVars, queueVars, producerVars, cameraVars,
                 wframe, inferred, det>>

ReleaseSlot(w) ==
  /\ wpc[w] = "release" /\ PipelineMuFree
  /\ leased' = Released(wframe[w].slot)
  /\ wpc' = [wpc EXCEPT ![w] = "deliver"]
  /\ UNCHANGED <<mainVars, content, queueVars, producerVars, cameraVars,
                 wframe, inferred, det, preview>>

(* on_result_: no lock is held, so two workers may call it in any order.   *)
Deliver(w) ==
  /\ wpc[w] = "deliver"
  /\ wframe' = [wframe EXCEPT ![w] = NoFrame]
  /\ det' = [det EXCEPT ![w] = 0]
  /\ preview' = [preview EXCEPT ![w] = 0]
  /\ wpc' = [wpc EXCEPT ![w] = "check"]
  /\ UNCHANGED <<mainVars, slotVars, queueVars, producerVars, cameraVars, inferred>>

(***************************************************************************)
(* stop(), called when the control loop ends.                              *)
(***************************************************************************)
StopRequested ==
  /\ mpc = "run"
  /\ running' = FALSE
  /\ mpc' = "notify"
  /\ UNCHANGED <<slotVars, queueVars, producerVars, cameraVars, workerVars>>

StopNotifies ==
  /\ mpc = "notify"
  /\ wpc' = [w \in Workers |-> IF w \in Asleep THEN "check" ELSE wpc[w]]
  /\ mpc' = "join"
  /\ UNCHANGED <<running, slotVars, queueVars, producerVars, cameraVars,
                 wframe, inferred, det, preview>>

ThreadsDone == ppc = "done" /\ \A w \in Workers : wpc[w] = "done"

(* After the joins the driver is closed and the slots are unmapped.        *)
StopReleases ==
  /\ mpc = "join" /\ ThreadsDone
  /\ leased' = [s \in Slots |-> FALSE]
  /\ mpc' = "closed"
  /\ UNCHANGED <<running, content, queueVars, producerVars, cameraVars, workerVars>>

Producer ==
  \/ ProducerExit \/ LeaseSlot
  \/ \E b \in Buffers : CaptureFrame(b) \/ CaptureEmpty(b)
  \/ CaptureFails \/ DecodeBegins \/ DecodeEnds \/ RequeueBuffer
  \/ ReleaseFailed \/ PushReady \/ NotifyOne

WorkerInside(w) ==
  \/ WorkerExit(w) \/ PopReady(w) \/ WaitBegins(w) \/ WaitBlocks(w)
  \/ WaitTimesOut(w) \/ SkipFrame(w) \/ InferFrame(w) \/ CopyPreview(w)
  \/ ReleaseSlot(w)

Stop == StopNotifies \/ StopReleases

(* Every step but the callback, which belongs to whoever installed it.     *)
RuntimeInside ==
  \/ \E b \in Buffers : CameraShot(b)
  \/ Producer
  \/ \E w \in Workers : WorkerInside(w)
  \/ StopRequested \/ Stop

RuntimeNext == RuntimeInside \/ \E w \in Workers : Deliver(w)

(* The process has stopped the runtime; nothing more happens in it.        *)
RuntimeClosed == mpc = "closed" /\ UNCHANGED runtimeVars

RuntimeSpec == RuntimeInit /\ [][RuntimeNext \/ RuntimeClosed]_runtimeVars

(***************************************************************************)
(* Every thread that can step eventually steps (strong, so that one that   *)
(* waits for a mutex others keep taking gets it), and the 50 ms timeout of *)
(* the condition variable always fires.  Nothing makes the camera produce, *)
(* the driver answer, or anybody ask for the shutdown.                     *)
(***************************************************************************)
RuntimeFairSpec ==
  /\ RuntimeSpec
  /\ SF_runtimeVars(Producer)
  /\ \A w \in Workers : SF_runtimeVars(WorkerInside(w) \/ Deliver(w))
  /\ WF_runtimeVars(Stop)

-----------------------------------------------------------------------------
(***************************************************************************)
(* Who may touch a slot.                                                   *)
(***************************************************************************)
ProducerHolds(s) ==
  /\ pslot = s
  /\ ppc \in {"capture", "decode", "decoding", "requeue", "requeue_bad",
              "push", "release"}
QueueHolds(s)     == \E i \in DOMAIN ready : ready[i].slot = s
Reading(w)        == wpc[w] \in {"got", "copy", "release"}
WorkerHolds(w, s) == Reading(w) /\ wframe[w].slot = s

(* A slot has at most one holder, and it is marked leased exactly as long  *)
(* as it has one: the mark set by the producer travels through the queue   *)
(* to a worker without ever being dropped early, dropped twice or          *)
(* forgotten (leaseFreeZeroCopySlot, releaseZeroCopySlotLease).            *)
OneHolder ==
  mpc # "closed" =>
    \A s \in Slots :
      /\ leased[s] <=> \/ ProducerHolds(s) \/ QueueHolds(s)
                       \/ \E w \in Workers : WorkerHolds(w, s)
      /\ ProducerHolds(s) =>
           ~QueueHolds(s) /\ \A w \in Workers : ~WorkerHolds(w, s)
      /\ QueueHolds(s) => \A w \in Workers : ~WorkerHolds(w, s)
      /\ \A i, j \in DOMAIN ready : ready[i].slot = s /\ ready[j].slot = s => i = j
      /\ \A v, w \in Workers : WorkerHolds(v, s) /\ WorkerHolds(w, s) => v = w

(* No result mixes frames: what inference read, what the preview was       *)
(* copied from and the number both are labelled with are the same frame,   *)
(* although slots are refilled without the readers' consent.               *)
ResultsMatchFrames ==
  \A w \in Workers :
    /\ wpc[w] \in {"copy", "release", "deliver"} => det[w] = wframe[w].seq
    /\ wpc[w] \in {"release", "deliver"} => preview[w] = wframe[w].seq

(* The drop branch of producerLoop never runs: the queue holds one place   *)
(* per leased slot and there are fewer slots than places.                  *)
NoReadyDrops == readyDrops = 0

(***************************************************************************)
(* Liveness                                                                *)
(***************************************************************************)
(* No lease is kept for ever.                                              *)
LeasesReturn == \A s \in Slots : leased[s] ~> ~leased[s]

(* A buffer taken from the driver with a frame in it is offered to it      *)
(* again, whether or not the frame could be decoded, whoever keeps         *)
(* pipeline_mu_ and whether or not stop() was called meanwhile.  (An empty *)
(* one never is: see CaptureEmpty.)                                        *)
BuffersReturn ==
  \A b \in Buffers :
    ppc = "decode" /\ pbuf = b ~> buffers[b] \in {"queued", "refused"}

(***************************************************************************)
(* The slots implement SlotLifecycle.  The owner is read off the threads   *)
(* that use a slot, not off its leased mark.                               *)
(***************************************************************************)
SlotOwner ==
  [s \in Slots |->
     IF mpc = "closed" THEN "free"
     ELSE IF ProducerHolds(s) THEN "filling"
     ELSE IF \E w \in Workers : WorkerHolds(w, s) THEN "reading"
     ELSE IF QueueHolds(s) THEN "full"
     ELSE "free"]

SlotFrame ==
  [s \in Slots |->
     CASE SlotOwner[s] = "full" ->
            ready[CHOOSE i \in DOMAIN ready : ready[i].slot = s].seq
       [] SlotOwner[s] = "reading" ->
            wframe[CHOOSE w \in Workers : WorkerHolds(w, s)].seq
       [] OTHER -> 0]

Lifecycle == INSTANCE SlotLifecycle WITH
  SlotIds <- Slots, owner <- SlotOwner, frame <- SlotFrame,
  filled <- seq, taken <- seq - Len(ready)

(* Every step of the runtime is a step of the slot life cycle or touches   *)
(* no slot; the frames leave the queue in order and each is read once.     *)
ImplementsLifecycle == Lifecycle!LifecycleSpec
=============================================================================
