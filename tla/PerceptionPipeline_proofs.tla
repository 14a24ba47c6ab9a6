---------------------- MODULE PerceptionPipeline_proofs ----------------------
(***************************************************************************)
(* What holds of the zero-copy runtime and of the pipeline built on it,    *)
(* for any number of slots, workers, buffers and frames and any length of  *)
(* the debug queue.  First the runtime alone: its invariant, and that it   *)
(* implements SlotLifecycle.  Then the pipeline, which is a runtime whose  *)
(* callback does its work, so that what is proved of the one holds of the  *)
(* other.                                                                  *)
(***************************************************************************)
EXTENDS PerceptionPipeline, FiniteSetTheorems, TLAPS

RuntimeStep == RuntimeNext \/ RuntimeClosed

(***************************************************************************)
(* Type correctness.                                                       *)
(***************************************************************************)
(* The initial values have their types.                                    *)
LEMMA TypeInit == RuntimeInit => RuntimeTypeOK
BY RuntimeAssumption
   DEF RuntimeInit, RuntimeTypeOK, Slots, Frame, NoFrame, Garbage, ProducerPC, WorkerPC,
       BufferPlace

(* Every step of the runtime, or a stutter, keeps the types.               *)
LEMMA TypeStep == RuntimeTypeOK /\ [RuntimeStep]_runtimeVars => RuntimeTypeOK'
<1> SUFFICES ASSUME RuntimeTypeOK, [RuntimeStep]_runtimeVars
             PROVE  RuntimeTypeOK'
  OBVIOUS
<1> USE RuntimeAssumption
    DEF RuntimeTypeOK, mainVars, slotVars, queueVars, producerVars, cameraVars,
        workerVars, ProducerPC, WorkerPC
<1>1. CASE \E b \in Buffers : CameraShot(b)
  BY <1>1 DEF CameraShot, BufferPlace
<1>2. CASE Producer
  <2>1. CASE ProducerExit    BY <2>1 DEF ProducerExit
  <2>2. CASE LeaseSlot       BY <2>2 DEF LeaseSlot, FreeSlots
  <2>3. CASE \E b \in Buffers : CaptureFrame(b) \/ CaptureEmpty(b)
    BY <2>3 DEF CaptureFrame, CaptureEmpty, BufferPlace
  <2>4. CASE CaptureFails    BY <2>4 DEF CaptureFails
  <2>5. CASE DecodeBegins    BY <2>5 DEF DecodeBegins, Garbage
  <2>6. CASE DecodeEnds      BY <2>6 DEF DecodeEnds
  <2>7. CASE RequeueBuffer
    <3>1. PICK place \in {"queued", "refused"} : buffers' = [buffers EXCEPT ![pbuf] = place]
      BY <2>7 DEF RequeueBuffer
    <3>2. buffers' \in [Buffers -> BufferPlace]
      BY <3>1 DEF BufferPlace
    <3>3. QED
      BY <2>7, <3>2 DEF RequeueBuffer
  <2>8. CASE ReleaseFailed   BY <2>8 DEF ReleaseFailed, Released
  <2>9. CASE PushReady
    <3>1. [slot |-> pslot, seq |-> seq + 1] \in Frame
      BY DEF Frame
    <3>2. ready' \in Seq(Frame)
      BY <2>9, <3>1 DEF PushReady, ReadyFull
    <3>3. leased' \in [Slots -> BOOLEAN]
      <4>1. leased' = leased \/ leased' = Released(ready[1].slot)
        BY <2>9 DEF PushReady, ReadyFull
      <4>2. QED
        BY <4>1, Zenon DEF Released
    <3>4. seq' \in Nat /\ readyDrops' \in Nat
      BY <2>9 DEF PushReady, ReadyFull
    <3>5. QED
      BY <2>9, <3>2, <3>3, <3>4 DEF PushReady, ReadyFull
  <2>10. CASE NotifyOne      BY <2>10 DEF NotifyOne, Asleep
  <2>11. QED
    BY <1>2, <2>1, <2>2, <2>3, <2>4, <2>5, <2>6, <2>7, <2>8, <2>9, <2>10
    DEF Producer
<1>3. ASSUME NEW w \in Workers, WorkerInside(w) PROVE RuntimeTypeOK'
  <2>1. CASE WorkerExit(w)   BY <2>1 DEF WorkerExit
  <2>2. CASE PopReady(w)
    <3>1. Head(ready) \in Frame /\ Tail(ready) \in Seq(Frame)
      BY <2>2 DEF PopReady
    <3>2. QED
      BY <2>2, <3>1 DEF PopReady
  <2>3. CASE WaitBegins(w)   BY <2>3 DEF WaitBegins
  <2>4. CASE WaitBlocks(w)   BY <2>4 DEF WaitBlocks
  <2>5. CASE WaitTimesOut(w) BY <2>5 DEF WaitTimesOut
  <2>6. CASE SkipFrame(w)
    <3>1. NoFrame \in Frame
      BY DEF NoFrame, Frame, Slots
    <3>2. QED
      BY <2>6, <3>1 DEF SkipFrame, Released
  <2>7. CASE InferFrame(w)
    <3>1. content[wframe[w].slot] \in Nat
      BY DEF Frame
    <3>2. QED
      BY <2>7, <3>1 DEF InferFrame
  <2>8. CASE CopyPreview(w)
    <3>1. content[wframe[w].slot] \in Nat
      BY DEF Frame
    <3>2. QED
      BY <2>8, <3>1 DEF CopyPreview
  <2>9. CASE ReleaseSlot(w)  BY <2>9 DEF ReleaseSlot, Released
  <2>10. QED
    BY <1>3, <2>1, <2>2, <2>3, <2>4, <2>5, <2>6, <2>7, <2>8, <2>9
    DEF WorkerInside
<1>4. ASSUME NEW w \in Workers, Deliver(w) PROVE RuntimeTypeOK'
  <2>1. NoFrame \in Frame
    BY DEF NoFrame, Frame, Slots
  <2>2. QED
    BY <1>4, <2>1 DEF Deliver
<1>5. CASE StopRequested \/ Stop
  BY <1>5 DEF StopRequested, Stop, StopNotifies, StopReleases, Asleep
<1>6. CASE RuntimeClosed \/ UNCHANGED runtimeVars
  BY <1>6 DEF RuntimeClosed, runtimeVars
<1>7. QED
  BY <1>1, <1>2, <1>3, <1>4, <1>5, <1>6 DEF RuntimeStep, RuntimeNext, RuntimeInside

(* Every variable of the runtime keeps its type.                           *)
THEOREM RuntimeTypeCorrect == RuntimeSpec => []RuntimeTypeOK
<1>1. QED
  BY TypeInit, TypeStep, PTL DEF RuntimeSpec, RuntimeStep

(***************************************************************************)
(* The inductive invariant.  OneHolder says who may touch a slot;          *)
(* PixelsInPlace, which needs it, says what is in the slot meanwhile, and  *)
(* that is what makes results and frames match.                            *)
(***************************************************************************)
StopPhases ==
  /\ running <=> mpc = "run"
  /\ mpc = "closed" => ThreadsDone

PixelsInPlace ==
  /\ ppc \in {"requeue", "push"} => content[pslot] = seq + 1
  /\ \A i \in DOMAIN ready : content[ready[i].slot] = ready[i].seq
  /\ \A w \in Workers : Reading(w) => content[wframe[w].slot] = wframe[w].seq

RuntimeInv ==
  /\ RuntimeTypeOK
  /\ StopPhases
  /\ OneHolder
  /\ NoReadyDrops
  /\ PixelsInPlace
  /\ ResultsMatchFrames

(* The queue never holds as many frames as there are slots while the       *)
(* producer has one in hand, so it is never full.                          *)
LEMMA QueueHasRoom ==
  ASSUME RuntimeTypeOK, OneHolder, mpc # "closed", ppc = "push"
  PROVE  Len(ready) < ReadyCap
<1> DEFINE n == Len(ready)
           f == [i \in 1 .. n + 1 |-> IF i <= n THEN ready[i].slot ELSE pslot]
<1>1. n \in Nat /\ DOMAIN ready = 1 .. n /\ \A i \in 1 .. n : ready[i].slot \in Slots
  <2>1. ready \in Seq(Frame)
    BY DEF RuntimeTypeOK
  <2>2. n \in Nat /\ DOMAIN ready = 1 .. n /\ \A i \in 1 .. n : ready[i] \in Frame
    BY <2>1
  <2>3. QED
    BY <2>2 DEF Frame
<1>2. pslot \in Slots /\ ProducerHolds(pslot)
  BY DEF RuntimeTypeOK, ProducerHolds
<1>3. f \in [1 .. n + 1 -> Slots]
  BY <1>1, <1>2
<1>4. \A i, j \in 1 .. n + 1 : i # j => f[i] # f[j]
  <2>1. \A i \in 1 .. n : ready[i].slot # pslot
    BY <1>1, <1>2 DEF OneHolder, QueueHolds
  <2>2. \A i, j \in 1 .. n : i # j => ready[i].slot # ready[j].slot
    BY <1>1 DEF OneHolder
  <2>3. QED
    BY <1>1, <2>1, <2>2
<1>5. /\ IsFiniteSet(1 .. n + 1) /\ Cardinality(1 .. n + 1) = n + 1
      /\ IsFiniteSet(Slots) /\ Cardinality(Slots) = SlotCount
  BY <1>1, FS_Interval, RuntimeAssumption DEF Slots
<1>6. ~(SlotCount < n + 1)
  <2> HIDE DEF f
  <2> SUFFICES ASSUME SlotCount < n + 1 PROVE FALSE
    OBVIOUS
  <2>1. Cardinality(Slots) < Cardinality(1 .. n + 1)
    BY <1>5
  <2>2. \E i, j \in 1 .. n + 1 : i # j /\ f[i] = f[j]
    BY <2>1, <1>3, <1>5, FS_PigeonHole
  <2>3. QED
    BY <1>4, <2>2
<1>7. QED
  BY <1>1, <1>6, RuntimeAssumption, SlotsFitReadyQueue

(* Where slots and numbers of frames are found, spelled out once.          *)
LEMMA FrameTypes ==
  ASSUME RuntimeTypeOK
  PROVE  /\ Len(ready) \in Nat /\ DOMAIN ready = 1 .. Len(ready)
         /\ \A i \in DOMAIN ready : ready[i].slot \in Slots /\ ready[i].seq \in Nat
         /\ \A w \in Workers : wframe[w].slot \in Slots /\ wframe[w].seq \in Nat
<1>1. ready \in Seq(Frame) /\ wframe \in [Workers -> Frame]
  BY DEF RuntimeTypeOK
<1>2. /\ Len(ready) \in Nat /\ DOMAIN ready = 1 .. Len(ready)
      /\ \A i \in 1 .. Len(ready) : ready[i] \in Frame
  BY <1>1
<1>3. QED
  BY <1>1, <1>2 DEF Frame

(* A worker that pops takes the oldest frame and leaves the others.        *)
LEMMA PopShifts ==
  ASSUME RuntimeTypeOK, NEW w \in Workers, PopReady(w)
  PROVE  /\ 1 \in DOMAIN ready
         /\ wframe'[w] = ready[1]
         /\ DOMAIN ready' = 1 .. Len(ready) - 1
         /\ \A i \in DOMAIN ready' : i + 1 \in DOMAIN ready /\ ready'[i] = ready[i + 1]
<1>1. ready \in Seq(Frame) /\ wframe \in [Workers -> Frame]
  BY DEF RuntimeTypeOK
<1>2. ready # <<>> /\ ready' = Tail(ready) /\ wframe' = [wframe EXCEPT ![w] = Head(ready)]
  BY DEF PopReady
<1>3. Len(ready) \in Nat /\ Len(ready) # 0 /\ DOMAIN ready = 1 .. Len(ready)
  BY <1>1, <1>2
<1>4. Head(ready) = ready[1] /\ Len(ready') = Len(ready) - 1
  BY <1>1, <1>2, <1>3
<1>5. DOMAIN ready' = 1 .. Len(ready) - 1
  BY <1>1, <1>2, <1>3
<1>6. \A i \in 1 .. Len(ready) - 1 : Tail(ready)[i] = ready[i + 1]
  BY <1>1, <1>3
<1>7. QED
  BY <1>1, <1>2, <1>3, <1>4, <1>5, <1>6

(* A push that finds room adds the producer's frame at the end.            *)
LEMMA PushAppends ==
  ASSUME RuntimeTypeOK, PushReady, Len(ready) < ReadyCap
  PROVE  /\ DOMAIN ready' = 1 .. Len(ready) + 1
         /\ \A i \in DOMAIN ready : ready'[i] = ready[i]
         /\ ready'[Len(ready) + 1] = [slot |-> pslot, seq |-> seq + 1]
         /\ UNCHANGED <<leased, readyDrops>>
<1>1. ready \in Seq(Frame) /\ Len(ready) \in Nat
  BY DEF RuntimeTypeOK
<1>2. ~(Len(ready) >= ReadyCap)
  BY <1>1, RuntimeAssumption
<1>3. /\ ready' = Append(ready, [slot |-> pslot, seq |-> seq + 1])
      /\ UNCHANGED <<leased, readyDrops>>
  BY <1>2 DEF PushReady, ReadyFull
<1>4. QED
  BY <1>1, <1>3

(* Nothing is leased and nobody holds a slot when the threads start.       *)
LEMMA OneHolderInit == RuntimeInit => OneHolder
BY DEF RuntimeInit, OneHolder, ProducerHolds, QueueHolds, WorkerHolds, Reading

(* A lease changes hands only together with the mark: one case per action  *)
(* that leases, passes on or releases a slot, and the rest by the frame.   *)
LEMMA OneHolderStep ==
  ASSUME RuntimeTypeOK, StopPhases, OneHolder, [RuntimeStep]_runtimeVars
  PROVE  OneHolder'
<1> DEFINE Holding == {"capture", "decode", "decoding", "requeue", "requeue_bad",
                       "push", "release"}
<1> USE FrameTypes DEF OneHolder, ProducerHolds, QueueHolds, WorkerHolds, Reading
<1>types. /\ pslot \in Slots /\ leased \in [Slots -> BOOLEAN]
          /\ wpc \in [Workers -> WorkerPC] /\ wframe \in [Workers -> Frame]
  BY DEF RuntimeTypeOK
<1>1. CASE \E b \in Buffers : CameraShot(b)
  BY <1>1 DEF CameraShot, mainVars, slotVars, queueVars, producerVars, workerVars
<1>2. CASE LeaseSlot
  BY <1>2, <1>types DEF LeaseSlot, FreeSlots, mainVars, queueVars, workerVars
<1>3. CASE ReleaseFailed
  BY <1>3, <1>types DEF ReleaseFailed, Released, mainVars, queueVars, workerVars
<1>4. CASE PushReady
  <2>1. mpc # "closed" /\ ppc = "push"
    BY <1>4 DEF PushReady, ReadyFull, StopPhases, ThreadsDone
  <2>2. Len(ready) < ReadyCap
    BY <2>1, QueueHasRoom
  <2>3. QED
    BY <1>4, <2>1, <2>2, PushAppends, <1>types DEF PushReady, ReadyFull, mainVars, workerVars
<1>5. ASSUME NEW w \in Workers, PopReady(w) PROVE OneHolder'
  <2> DEFINE first == ready[1].slot
  <2> USE DEF mainVars, slotVars, producerVars
  <2>1. \A s : ProducerHolds(s)' <=> ProducerHolds(s)
    BY <1>5 DEF PopReady
  <2>2. \A v \in Workers, s \in Slots :
          WorkerHolds(v, s)' <=> IF v = w THEN s = first ELSE WorkerHolds(v, s)
    BY <1>5, <1>types, PopShifts DEF PopReady
  <2>3. \A s : QueueHolds(s)' <=> \E i \in 2 .. Len(ready) : ready[i].slot = s
    <3>1. ASSUME NEW i \in 2 .. Len(ready)
          PROVE  i - 1 \in DOMAIN ready' /\ ready'[i - 1] = ready[i]
      BY <1>5, PopShifts
    <3>2. \A i \in DOMAIN ready' : i + 1 \in 2 .. Len(ready) /\ ready'[i] = ready[i + 1]
      BY <1>5, PopShifts
    <3>3. QED
      BY <3>1, <3>2
  <2>4. \A s : QueueHolds(s) <=> s = first \/ \E i \in 2 .. Len(ready) : ready[i].slot = s
    BY <1>5, PopShifts
  <2>5. \A i \in 2 .. Len(ready) : mpc # "closed" => ready[i].slot # first
    BY <1>5, PopShifts
  <2>6. \A v \in Workers, s \in Slots : v = w => ~WorkerHolds(v, s)
    BY <1>5 DEF PopReady
  <2>7. first \in Slots
    BY <1>5, PopShifts
  <2>8. mpc # "closed" => \A s \in Slots : \A i, j \in DOMAIN ready' :
          ready'[i].slot = s /\ ready'[j].slot = s => i = j
    BY <1>5, PopShifts
  <2>9. leased' = leased /\ mpc' = mpc
    BY <1>5 DEF PopReady
  <2>10. ASSUME mpc # "closed", NEW s \in Slots
         PROVE  /\ leased'[s] <=> \/ ProducerHolds(s)' \/ QueueHolds(s)'
                                  \/ \E v \in Workers : WorkerHolds(v, s)'
                /\ ProducerHolds(s)' =>
                     ~QueueHolds(s)' /\ \A v \in Workers : ~WorkerHolds(v, s)'
                /\ QueueHolds(s)' => \A v \in Workers : ~WorkerHolds(v, s)'
                /\ \A v, u \in Workers :
                     WorkerHolds(v, s)' /\ WorkerHolds(u, s)' => v = u
    <3> HIDE DEF ProducerHolds, QueueHolds, WorkerHolds, Reading, first
    <3> QED
      BY <2>1, <2>2, <2>3, <2>4, <2>5, <2>6, <2>7, <2>9, <2>10 DEF OneHolder
  <2>11. QED
    <3> HIDE DEF ProducerHolds, QueueHolds, WorkerHolds, Reading
    <3> QED
      BY <2>8, <2>9, <2>10 DEF OneHolder
<1>6. ASSUME NEW w \in Workers, SkipFrame(w) \/ ReleaseSlot(w) PROVE OneHolder'
  <2>1. CASE SkipFrame(w)
    BY <2>1, <1>types DEF SkipFrame, Released, mainVars, queueVars, producerVars
  <2>2. CASE ReleaseSlot(w)
    BY <2>2, <1>types DEF ReleaseSlot, Released, mainVars, queueVars, producerVars
  <2>3. QED
    BY <1>6, <2>1, <2>2
<1>7. CASE \/ ProducerExit \/ CaptureFails \/ DecodeBegins \/ DecodeEnds
           \/ RequeueBuffer \/ \E b \in Buffers : CaptureFrame(b) \/ CaptureEmpty(b)
  BY <1>7 DEF ProducerExit, CaptureFails, DecodeBegins, DecodeEnds, RequeueBuffer,
              CaptureFrame, CaptureEmpty, mainVars, slotVars, queueVars, workerVars
<1>8. CASE NotifyOne
  BY <1>8, <1>types DEF NotifyOne, Asleep, mainVars, slotVars, queueVars
<1>9. ASSUME NEW w \in Workers,
             \/ WorkerExit(w) \/ WaitBegins(w) \/ WaitBlocks(w) \/ WaitTimesOut(w)
             \/ InferFrame(w) \/ CopyPreview(w) \/ Deliver(w)
      PROVE  OneHolder'
  BY <1>9, <1>types DEF WorkerExit, WaitBegins, WaitBlocks, WaitTimesOut, InferFrame,
     CopyPreview, Deliver, mainVars, slotVars, queueVars, producerVars
<1>10. CASE StopRequested \/ StopNotifies
  BY <1>10, <1>types DEF StopRequested, StopNotifies, Asleep, slotVars, queueVars,
     producerVars, workerVars
<1>11. CASE StopReleases
  BY <1>11 DEF StopReleases
<1>12. CASE RuntimeClosed \/ UNCHANGED runtimeVars
  BY <1>12 DEF RuntimeClosed, runtimeVars, mainVars, slotVars, queueVars, producerVars,
     workerVars
<1>13. QED
  BY <1>1, <1>2, <1>3, <1>4, <1>5, <1>6, <1>7, <1>8, <1>9, <1>10, <1>11, <1>12
  DEF RuntimeStep, RuntimeNext, RuntimeInside, Producer, WorkerInside, Stop

(* stop() goes through its phases with the flag down, and reaches the last *)
(* one only when every thread has ended.                                   *)
LEMMA StopPhasesStep ==
  ASSUME StopPhases, [RuntimeStep]_runtimeVars
  PROVE  StopPhases'
BY DEF StopPhases, ThreadsDone, RuntimeStep, RuntimeNext, RuntimeInside, RuntimeClosed,
   Producer, WorkerInside, Stop, CameraShot, ProducerExit, LeaseSlot, CaptureFrame,
   CaptureEmpty, CaptureFails, DecodeBegins, DecodeEnds, RequeueBuffer, ReleaseFailed,
   PushReady, NotifyOne, Asleep, WorkerExit, PopReady, WaitBegins, WaitBlocks,
   WaitTimesOut, SkipFrame, InferFrame, CopyPreview, ReleaseSlot, Deliver,
   StopRequested, StopNotifies, StopReleases, runtimeVars, mainVars, slotVars,
   queueVars, producerVars, cameraVars, workerVars

(* Only a push could drop a frame, and it finds room.                      *)
LEMMA NoReadyDropsStep ==
  ASSUME RuntimeTypeOK, StopPhases, OneHolder, NoReadyDrops, [RuntimeStep]_runtimeVars
  PROVE  NoReadyDrops'
<1> USE DEF NoReadyDrops
<1>1. CASE PushReady
  <2>1. Len(ready) < ReadyCap
    BY <1>1, QueueHasRoom DEF PushReady, ReadyFull, StopPhases, ThreadsDone
  <2>2. QED
    BY <1>1, <2>1, PushAppends
<1>2. CASE ~PushReady
  BY <1>2 DEF RuntimeStep, RuntimeNext, RuntimeInside, RuntimeClosed,
     Producer, WorkerInside, Stop, CameraShot, ProducerExit, LeaseSlot, CaptureFrame,
     CaptureEmpty, CaptureFails, DecodeBegins, DecodeEnds, RequeueBuffer, ReleaseFailed,
     NotifyOne, WorkerExit, PopReady, WaitBegins, WaitBlocks,
     WaitTimesOut, SkipFrame, InferFrame, CopyPreview, ReleaseSlot, Deliver,
     StopRequested, StopNotifies, StopReleases, runtimeVars, queueVars
<1>3. QED
  BY <1>1, <1>2

(* Nothing is queued and no result is under way when the threads start.    *)
LEMMA PixelsInit == RuntimeInit => PixelsInPlace /\ ResultsMatchFrames
BY DEF RuntimeInit, PixelsInPlace, ResultsMatchFrames, Reading

(* A decode overwrites a slot, and by OneHolder only the producer holds    *)
(* it; every other step moves a frame together with its slot.              *)
LEMMA PixelsStep ==
  ASSUME RuntimeTypeOK, StopPhases, OneHolder, PixelsInPlace, [RuntimeStep]_runtimeVars
  PROVE  PixelsInPlace'
<1> USE FrameTypes DEF PixelsInPlace, Reading
<1>types. /\ pslot \in Slots /\ content \in [Slots -> Nat] /\ seq \in Nat
          /\ wpc \in [Workers -> WorkerPC] /\ wframe \in [Workers -> Frame]
  BY DEF RuntimeTypeOK
<1>1. CASE DecodeBegins \/ DecodeEnds
  <2>1. mpc # "closed" /\ ProducerHolds(pslot)
    BY <1>1 DEF DecodeBegins, DecodeEnds, StopPhases, ThreadsDone, ProducerHolds
  <2>2. /\ \A i \in DOMAIN ready : ready[i].slot # pslot
        /\ \A w \in Workers : Reading(w) => wframe[w].slot # pslot
    BY <2>1, <1>types DEF OneHolder, QueueHolds, WorkerHolds
  <2>3. /\ \A s \in Slots \ {pslot} : content'[s] = content[s]
        /\ ppc' \in {"requeue", "push"} => content'[pslot] = seq + 1
        /\ UNCHANGED <<pslot, seq, ready, wpc, wframe>>
    BY <1>1, <1>types DEF DecodeBegins, DecodeEnds, queueVars, workerVars
  <2>4. \A i \in DOMAIN ready : ready[i].slot \in Slots \ {pslot}
    BY <2>2
  <2>5. \A w \in Workers : Reading(w) => wframe[w].slot \in Slots \ {pslot}
    BY <2>2
  <2>6. QED
    BY <2>3, <2>4, <2>5
<1>2. CASE PushReady
  <2>1. Len(ready) < ReadyCap
    BY <1>2, QueueHasRoom DEF PushReady, ReadyFull, StopPhases, ThreadsDone
  <2>2. /\ ppc = "push" /\ ppc' = "notify"
        /\ UNCHANGED <<content, pslot, wpc, wframe>>
    BY <1>2 DEF PushReady, ReadyFull, workerVars
  <2>3. \A i \in DOMAIN ready' : content[ready'[i].slot] = ready'[i].seq
    <3>1. ASSUME NEW i \in DOMAIN ready', i \in DOMAIN ready
          PROVE  content[ready'[i].slot] = ready'[i].seq
      BY <1>2, <2>1, <3>1, PushAppends
    <3>2. ready'[Len(ready) + 1].slot = pslot /\ ready'[Len(ready) + 1].seq = seq + 1
      BY <1>2, <2>1, PushAppends
    <3>3. \A i \in DOMAIN ready' : i \in DOMAIN ready \/ i = Len(ready) + 1
      BY <1>2, <2>1, PushAppends
    <3>4. QED
      BY <2>2, <3>1, <3>2, <3>3
  <2>4. QED
    BY <2>2, <2>3
<1>3. ASSUME NEW w \in Workers, PopReady(w) PROVE PixelsInPlace'
  BY <1>3, <1>types, PopShifts DEF PopReady, mainVars, slotVars, producerVars
<1>4. CASE \/ \E b \in Buffers : CameraShot(b) \/ CaptureFrame(b) \/ CaptureEmpty(b)
           \/ ProducerExit \/ LeaseSlot \/ CaptureFails \/ RequeueBuffer \/ ReleaseFailed
  BY <1>4 DEF CameraShot, CaptureFrame, CaptureEmpty, ProducerExit, LeaseSlot,
     CaptureFails, RequeueBuffer, ReleaseFailed, slotVars, queueVars, producerVars,
     workerVars
<1>5. CASE NotifyOne \/ StopNotifies
  BY <1>5, <1>types DEF NotifyOne, StopNotifies, Asleep, slotVars, queueVars, producerVars
<1>6. ASSUME NEW w \in Workers,
             \/ WorkerExit(w) \/ WaitBegins(w) \/ WaitBlocks(w) \/ WaitTimesOut(w)
             \/ SkipFrame(w) \/ InferFrame(w) \/ CopyPreview(w) \/ ReleaseSlot(w)
             \/ Deliver(w)
      PROVE  PixelsInPlace'
  BY <1>6, <1>types DEF WorkerExit, WaitBegins, WaitBlocks, WaitTimesOut, SkipFrame,
     InferFrame, CopyPreview, ReleaseSlot, Deliver, slotVars, queueVars, producerVars
<1>7. CASE StopRequested \/ StopReleases \/ RuntimeClosed \/ UNCHANGED runtimeVars
  BY <1>7 DEF StopRequested, StopReleases, RuntimeClosed, runtimeVars, slotVars,
     queueVars, producerVars, workerVars
<1>8. QED
  BY <1>1, <1>2, <1>3, <1>4, <1>5, <1>6, <1>7
  DEF RuntimeStep, RuntimeNext, RuntimeInside, Producer, WorkerInside, Stop

(* A worker reads pixels that are in place, so its result is of its frame. *)
LEMMA ResultsStep ==
  ASSUME RuntimeTypeOK, PixelsInPlace, ResultsMatchFrames, [RuntimeStep]_runtimeVars
  PROVE  ResultsMatchFrames'
<1> USE DEF ResultsMatchFrames, workerVars
<1>types. /\ wpc \in [Workers -> WorkerPC] /\ wframe \in [Workers -> Frame]
          /\ det \in [Workers -> Nat] /\ preview \in [Workers -> Nat]
  BY DEF RuntimeTypeOK
<1>1. ASSUME NEW w \in Workers, InferFrame(w) \/ CopyPreview(w)
      PROVE  ResultsMatchFrames'
  BY <1>1, <1>types DEF InferFrame, CopyPreview, PixelsInPlace, Reading
<1>2. ASSUME NEW w \in Workers, WorkerInside(w) \/ Deliver(w),
             ~InferFrame(w), ~CopyPreview(w)
      PROVE  ResultsMatchFrames'
  BY <1>2, <1>types DEF WorkerInside, WorkerExit, PopReady, WaitBegins, WaitBlocks,
     WaitTimesOut, SkipFrame, ReleaseSlot, Deliver
<1>3. CASE NotifyOne \/ StopNotifies
  BY <1>3, <1>types DEF NotifyOne, StopNotifies, Asleep
<1>4. CASE \/ \E b \in Buffers : CameraShot(b)
           \/ Producer /\ ~NotifyOne
           \/ StopRequested \/ StopReleases \/ RuntimeClosed \/ UNCHANGED runtimeVars
  BY <1>4 DEF CameraShot, Producer, ProducerExit, LeaseSlot, CaptureFrame, CaptureEmpty,
     CaptureFails, DecodeBegins, DecodeEnds, RequeueBuffer, ReleaseFailed, PushReady,
     StopRequested, StopReleases, RuntimeClosed, runtimeVars
<1>5. QED
  BY <1>1, <1>2, <1>3, <1>4 DEF RuntimeStep, RuntimeNext, RuntimeInside, Stop

(* The inductive invariant.                                                *)
LEMMA RuntimeInvariant == RuntimeSpec => []RuntimeInv
<1>1. RuntimeInit => RuntimeInv
  BY TypeInit, OneHolderInit, PixelsInit
     DEF RuntimeInv, RuntimeInit, StopPhases, ThreadsDone, NoReadyDrops
<1>2. RuntimeInv /\ [RuntimeStep]_runtimeVars => RuntimeInv'
  BY TypeStep, StopPhasesStep, OneHolderStep, NoReadyDropsStep, PixelsStep, ResultsStep
     DEF RuntimeInv
<1>3. QED
  BY <1>1, <1>2, PTL DEF RuntimeSpec, RuntimeStep

(* At any time a slot has one holder at most, and it is marked leased      *)
(* exactly while it has one: leases are never lost, doubled or dropped     *)
(* early, whatever the number of slots and workers.                        *)
THEOREM SlotsHaveOneHolder == RuntimeSpec => []OneHolder
BY RuntimeInvariant, PTL DEF RuntimeInv

(* A result never mixes frames: detection, preview image and sequence      *)
(* number all come from the same capture.                                  *)
THEOREM ResultsAreOfTheirFrame == RuntimeSpec => []ResultsMatchFrames
BY RuntimeInvariant, PTL DEF RuntimeInv

(* While there are no more slots than places, no frame is ever dropped     *)
(* from the ready queue: the drop branch of producerLoop is dead code.     *)
THEOREM ReadyQueueNeverDrops == RuntimeSpec => []NoReadyDrops
BY RuntimeInvariant, PTL DEF RuntimeInv

(***************************************************************************)
(* The slots implement SlotLifecycle.                                      *)
(***************************************************************************)
(* The queue holds the last frames pushed, in the order of their numbers.  *)
QueueInOrder ==
  /\ Len(ready) <= seq
  /\ \A i \in DOMAIN ready : ready[i].seq = seq - Len(ready) + i

(* Nothing is queued at the start.                                         *)
LEMMA QueueInOrderInit == RuntimeInit => QueueInOrder
BY DEF RuntimeInit, QueueInOrder

(* A push adds the next number, a pop takes the lowest away.               *)
LEMMA QueueInOrderStep ==
  ASSUME RuntimeTypeOK, StopPhases, OneHolder, QueueInOrder, [RuntimeStep]_runtimeVars
  PROVE  QueueInOrder'
<1>types. ready \in Seq(Frame) /\ Len(ready) \in Nat /\ seq \in Nat
  BY DEF RuntimeTypeOK
<1>1. CASE PushReady
  <2>1. Len(ready) < ReadyCap
    BY <1>1, QueueHasRoom DEF PushReady, ReadyFull, StopPhases, ThreadsDone
  <2>2. seq' = seq + 1 /\ ready' = Append(ready, [slot |-> pslot, seq |-> seq + 1])
    BY <1>1, <1>types, <2>1, RuntimeAssumption DEF PushReady, ReadyFull
  <2>3. Len(ready') = Len(ready) + 1
    BY <1>types, <2>2
  <2>4. ASSUME NEW i \in DOMAIN ready' PROVE ready'[i].seq = seq' - Len(ready') + i
    <3>1. CASE i \in DOMAIN ready
      BY <1>types, <1>1, <2>1, <2>2, <2>3, <3>1, PushAppends DEF QueueInOrder
    <3>2. CASE i = Len(ready) + 1
      BY <1>types, <1>1, <2>1, <2>2, <2>3, <3>2, PushAppends
    <3>3. i \in DOMAIN ready \/ i = Len(ready) + 1
      BY <1>1, <2>1, PushAppends, FrameTypes
    <3>4. QED
      BY <3>1, <3>2, <3>3
  <2>5. QED
    BY <1>types, <2>2, <2>3, <2>4 DEF QueueInOrder
<1>2. ASSUME NEW w \in Workers, PopReady(w) PROVE QueueInOrder'
  <2>1. seq' = seq /\ Len(ready') = Len(ready) - 1
    BY <1>2, <1>types DEF PopReady, mainVars
  <2>2. \A i \in DOMAIN ready' : ready'[i].seq = seq - Len(ready) + (i + 1)
    BY <1>2, PopShifts DEF QueueInOrder
  <2>3. DOMAIN ready' = 1 .. Len(ready) - 1
    BY <1>2, PopShifts
  <2>4. QED
    BY <1>types, <2>1, <2>2, <2>3 DEF QueueInOrder
<1>3. CASE UNCHANGED <<ready, seq>>
  BY <1>3 DEF QueueInOrder
<1>4. QED
  BY <1>1, <1>2, <1>3 DEF RuntimeStep, RuntimeNext, RuntimeInside, RuntimeClosed,
     Producer, WorkerInside, Stop, CameraShot, ProducerExit, LeaseSlot, CaptureFrame,
     CaptureEmpty, CaptureFails, DecodeBegins, DecodeEnds, RequeueBuffer, ReleaseFailed,
     NotifyOne, WorkerExit, WaitBegins, WaitBlocks, WaitTimesOut, SkipFrame, InferFrame,
     CopyPreview, ReleaseSlot, Deliver, StopRequested, StopNotifies, StopReleases,
     runtimeVars, queueVars

LifecycleInv == RuntimeInv /\ QueueInOrder

(* What the abstract owner and frame of each slot are, by its holder.      *)
SlotRead(s) ==
  /\ mpc = "closed" => SlotOwner[s] = "free" /\ SlotFrame[s] = 0
  /\ mpc # "closed" =>
       /\ ProducerHolds(s) => SlotOwner[s] = "filling" /\ SlotFrame[s] = 0
       /\ \A w \in Workers : WorkerHolds(w, s) =>
            SlotOwner[s] = "reading" /\ SlotFrame[s] = wframe[w].seq
       /\ \A i \in DOMAIN ready : ready[i].slot = s =>
            SlotOwner[s] = "full" /\ SlotFrame[s] = ready[i].seq
       /\ ~leased[s] => SlotOwner[s] = "free" /\ SlotFrame[s] = 0

(* The readings are those of SlotOwner and SlotFrame.                      *)
LEMMA SlotsAreRead == OneHolder => \A s \in Slots : SlotRead(s)
<1> SUFFICES ASSUME OneHolder, NEW s \in Slots PROVE SlotRead(s)
    OBVIOUS
<1>1. CASE mpc = "closed"
  BY <1>1 DEF SlotOwner, SlotFrame, SlotRead
<1>2. CASE mpc # "closed"
  <2>1. ASSUME ProducerHolds(s) PROVE SlotOwner[s] = "filling" /\ SlotFrame[s] = 0
    BY <1>2, <2>1 DEF SlotOwner, SlotFrame
  <2>2. ASSUME NEW w \in Workers, WorkerHolds(w, s)
        PROVE  SlotOwner[s] = "reading" /\ SlotFrame[s] = wframe[w].seq
    <3>1. ~ProducerHolds(s) /\ \A v \in Workers : WorkerHolds(v, s) => v = w
      BY <1>2, <2>2 DEF OneHolder
    <3>2. SlotOwner[s] = "reading"
      BY <1>2, <2>2, <3>1 DEF SlotOwner
    <3>3. w = CHOOSE v \in Workers : WorkerHolds(v, s)
      BY <2>2, <3>1
    <3>4. QED
      BY <3>2, <3>3 DEF SlotFrame
  <2>3. ASSUME NEW i \in DOMAIN ready, ready[i].slot = s
        PROVE  SlotOwner[s] = "full" /\ SlotFrame[s] = ready[i].seq
    <3>1. QueueHolds(s)
      BY <2>3 DEF QueueHolds
    <3>2. /\ ~ProducerHolds(s) /\ \A v \in Workers : ~WorkerHolds(v, s)
          /\ \A j \in DOMAIN ready : ready[j].slot = s => j = i
      BY <1>2, <2>3, <3>1 DEF OneHolder
    <3>3. SlotOwner[s] = "full"
      BY <1>2, <3>1, <3>2 DEF SlotOwner
    <3>4. i = CHOOSE j \in DOMAIN ready : ready[j].slot = s
      BY <2>3, <3>2
    <3>5. QED
      BY <3>3, <3>4 DEF SlotFrame
  <2>4. ASSUME ~leased[s] PROVE SlotOwner[s] = "free" /\ SlotFrame[s] = 0
    <3>1. ~ProducerHolds(s) /\ ~QueueHolds(s) /\ \A v \in Workers : ~WorkerHolds(v, s)
      BY <1>2, <2>4 DEF OneHolder
    <3>2. QED
      BY <1>2, <3>1 DEF SlotOwner, SlotFrame
  <2>5. QED
    BY <1>2, <2>1, <2>2, <2>3, <2>4 DEF SlotRead
<1>3. QED
  BY <1>1, <1>2

(* And so they are on both sides of a step.                                *)
LEMMA SlotsAreReadBoth ==
  ASSUME OneHolder, OneHolder'
  PROVE  \A s \in Slots : SlotRead(s) /\ SlotRead(s)'
<1>1. \A s \in Slots : SlotRead(s)
  BY SlotsAreRead
<1>2. (\A s \in Slots : SlotRead(s))'
  BY SlotsAreRead, PTL
<1>3. QED
  BY <1>1, <1>2

(* A step leaves a slot to whom it belongs, in the same frame.             *)
Keeps(s) ==
  /\ leased'[s] = leased[s]
  /\ ProducerHolds(s) => ProducerHolds(s)'
  /\ \A w \in Workers :
       WorkerHolds(w, s) => WorkerHolds(w, s)' /\ wframe'[w].seq = wframe[w].seq
  /\ \A i \in DOMAIN ready : ready[i].slot = s =>
       \E j \in DOMAIN ready' : ready'[j].slot = s /\ ready'[j].seq = ready[i].seq

(* What belongs to the same holder in the same frame reads the same.       *)
LEMMA KeptSlotReadsAlike ==
  ASSUME OneHolder, mpc # "closed", mpc' # "closed",
         NEW s \in Slots, SlotRead(s), SlotRead(s)', Keeps(s)
  PROVE  SlotOwner'[s] = SlotOwner[s] /\ SlotFrame'[s] = SlotFrame[s]
<1>1. CASE ProducerHolds(s)
  BY <1>1 DEF SlotRead, Keeps
<1>2. ASSUME NEW w \in Workers, WorkerHolds(w, s)
      PROVE  SlotOwner'[s] = SlotOwner[s] /\ SlotFrame'[s] = SlotFrame[s]
  BY <1>2 DEF SlotRead, Keeps
<1>3. ASSUME NEW i \in DOMAIN ready, ready[i].slot = s
      PROVE  SlotOwner'[s] = SlotOwner[s] /\ SlotFrame'[s] = SlotFrame[s]
  BY <1>3 DEF SlotRead, Keeps
<1>4. CASE ~leased[s]
  BY <1>4 DEF SlotRead, Keeps
<1>5. QED
  BY <1>1, <1>2, <1>3, <1>4 DEF OneHolder, QueueHolds

(* A step that keeps every slot but one changes owner and frame of that    *)
(* one alone.                                                              *)
LEMMA OneSlotMoves ==
  ASSUME OneHolder, OneHolder', mpc # "closed", mpc' # "closed",
         NEW t \in Slots, NEW who, NEW n,
         SlotOwner'[t] = who, SlotFrame'[t] = n,
         \A s \in Slots \ {t} : Keeps(s)
  PROVE  /\ SlotOwner' = [SlotOwner EXCEPT ![t] = who]
         /\ SlotFrame' = [SlotFrame EXCEPT ![t] = n]
         /\ n = SlotFrame[t] => SlotFrame' = SlotFrame
<1>1. \A s \in Slots : SlotRead(s) /\ SlotRead(s)'
  BY SlotsAreReadBoth
<1>2. \A s \in Slots \ {t} : SlotOwner'[s] = SlotOwner[s] /\ SlotFrame'[s] = SlotFrame[s]
  BY <1>1, KeptSlotReadsAlike
<1>3. /\ SlotOwner = [s \in Slots |-> SlotOwner[s]] /\ SlotOwner' = [s \in Slots |-> SlotOwner'[s]]
      /\ SlotFrame = [s \in Slots |-> SlotFrame[s]] /\ SlotFrame' = [s \in Slots |-> SlotFrame'[s]]
  BY DEF SlotOwner, SlotFrame
<1>4. QED
  BY <1>2, <1>3
(* Or of no slot at all.                                                   *)
LEMMA NoSlotMoves ==
  ASSUME OneHolder, OneHolder', mpc # "closed", mpc' # "closed",
         \A s \in Slots : Keeps(s)
  PROVE  SlotOwner' = SlotOwner /\ SlotFrame' = SlotFrame
<1>1. \A s \in Slots : SlotRead(s) /\ SlotRead(s)'
  BY SlotsAreReadBoth
<1>2. \A s \in Slots : SlotOwner'[s] = SlotOwner[s] /\ SlotFrame'[s] = SlotFrame[s]
  BY <1>1, KeptSlotReadsAlike
<1>3. QED
  BY <1>2 DEF SlotOwner, SlotFrame

(* stop() closes the runtime after the threads have ended, so nothing else *)
(* happens in a closed one.                                                *)
LEMMA ThreadsStepBeforeClose ==
  ASSUME StopPhases, RuntimeStep
  PROVE  \/ mpc # "closed"
         \/ UNCHANGED runtimeVars
<1> SUFFICES ASSUME mpc = "closed" PROVE UNCHANGED runtimeVars
  OBVIOUS
<1>1. ppc = "done" /\ \A w \in Workers : wpc[w] = "done"
  BY DEF StopPhases, ThreadsDone
<1>2. ~Producer
  BY <1>1 DEF Producer, ProducerExit, LeaseSlot, CaptureFrame, CaptureEmpty,
     CaptureFails, DecodeBegins, DecodeEnds, RequeueBuffer, ReleaseFailed, PushReady,
     NotifyOne
<1>3. \A w \in Workers : ~WorkerInside(w) /\ ~Deliver(w)
  BY <1>1 DEF WorkerInside, WorkerExit, PopReady, WaitBegins, WaitBlocks, WaitTimesOut,
     SkipFrame, InferFrame, CopyPreview, ReleaseSlot, Deliver
<1>4. QED
  BY <1>2, <1>3 DEF RuntimeStep, RuntimeNext, RuntimeInside, RuntimeClosed, CameraShot,
     StopRequested, Stop, StopNotifies, StopReleases

(* The producer leases a free slot.                                        *)
LEMMA LeaseAcquires ==
  ASSUME LifecycleInv, LifecycleInv', LeaseSlot, mpc # "closed"
  PROVE  \E s \in Slots : Lifecycle!Acquire(s)
<1> USE DEF LifecycleInv, RuntimeInv
<1>1. PICK t \in FreeSlots : pslot' = t /\ leased' = [leased EXCEPT ![t] = TRUE]
  BY DEF LeaseSlot
<1>2. /\ t \in Slots /\ ~leased[t]
      /\ ppc = "lease" /\ ppc' = "capture"
      /\ UNCHANGED <<mpc, ready, seq, wpc, wframe>>
  BY <1>1 DEF LeaseSlot, FreeSlots, mainVars, queueVars, workerVars
<1>3. SlotRead(t) /\ SlotRead(t)'
  BY <1>2, SlotsAreReadBoth
<1>4. SlotOwner[t] = "free" /\ SlotFrame[t] = 0
  BY <1>2, <1>3 DEF SlotRead
<1>5. SlotOwner'[t] = "filling" /\ SlotFrame'[t] = 0
  BY <1>1, <1>2, <1>3 DEF SlotRead, ProducerHolds
<1>6. \A s \in Slots \ {t} : Keeps(s)
  BY <1>1, <1>2 DEF Keeps, ProducerHolds, WorkerHolds, Reading, RuntimeTypeOK
<1>7. SlotOwner' = [SlotOwner EXCEPT ![t] = "filling"] /\ SlotFrame' = SlotFrame
  BY <1>2, <1>4, <1>5, <1>6, OneSlotMoves
<1>8. QED
  BY <1>2, <1>4, <1>7 DEF Lifecycle!Acquire

(* A capture or a decode that failed gives the slot back empty.            *)
LEMMA ReleaseAbandons ==
  ASSUME LifecycleInv, LifecycleInv', ReleaseFailed, mpc # "closed"
  PROVE  \E s \in Slots : Lifecycle!Abandon(s)
<1> USE DEF LifecycleInv, RuntimeInv
<1>1. PICK t \in Slots : pslot = t
  BY DEF RuntimeTypeOK
<1>2. /\ leased' = [leased EXCEPT ![t] = FALSE] /\ leased \in [Slots -> BOOLEAN]
      /\ ppc = "release" /\ ppc' = "lease"
      /\ UNCHANGED <<mpc, pslot, ready, seq, wpc, wframe>>
  BY <1>1 DEF ReleaseFailed, Released, mainVars, queueVars, workerVars, RuntimeTypeOK
<1>3. SlotRead(t) /\ SlotRead(t)'
  BY SlotsAreReadBoth
<1>4. SlotOwner[t] = "filling" /\ SlotFrame[t] = 0
  BY <1>1, <1>2, <1>3 DEF SlotRead, ProducerHolds
<1>5. SlotOwner'[t] = "free" /\ SlotFrame'[t] = 0
  BY <1>2, <1>3 DEF SlotRead
<1>6. \A s \in Slots \ {t} : Keeps(s)
  BY <1>1, <1>2 DEF Keeps, ProducerHolds, WorkerHolds, Reading
<1>7. SlotOwner' = [SlotOwner EXCEPT ![t] = "free"] /\ SlotFrame' = SlotFrame
  BY <1>2, <1>4, <1>5, <1>6, OneSlotMoves
<1>8. QED
  BY <1>2, <1>4, <1>7 DEF Lifecycle!Abandon

(* A push makes the slot full, with the next number.                       *)
LEMMA PushFills ==
  ASSUME LifecycleInv, LifecycleInv', PushReady, mpc # "closed"
  PROVE  \E s \in Slots : Lifecycle!Fill(s)
<1> USE DEF LifecycleInv, RuntimeInv
<1>1. PICK t \in Slots : pslot = t
  BY DEF RuntimeTypeOK
<1>2. /\ ppc = "push" /\ ppc' = "notify" /\ seq' = seq + 1
      /\ UNCHANGED <<mpc, pslot, wpc, wframe>>
  BY DEF PushReady, ReadyFull, mainVars, workerVars
<1>3. Len(ready) < ReadyCap
  BY <1>2, QueueHasRoom
<1>4. /\ \A i \in DOMAIN ready : i \in DOMAIN ready' /\ ready'[i] = ready[i]
      /\ Len(ready) + 1 \in DOMAIN ready'
      /\ ready'[Len(ready) + 1].slot = t /\ ready'[Len(ready) + 1].seq = seq + 1
      /\ leased' = leased
  BY <1>1, <1>3, PushAppends, FrameTypes
<1>5. Len(ready) \in Nat /\ Len(ready') = Len(ready) + 1 /\ seq \in Nat
  <2>1. ready' = Append(ready, [slot |-> pslot, seq |-> seq + 1])
    BY <1>3, FrameTypes, RuntimeAssumption DEF PushReady, ReadyFull
  <2>2. QED
    BY <2>1 DEF RuntimeTypeOK
<1>6. SlotRead(t) /\ SlotRead(t)'
  BY SlotsAreReadBoth
<1>7. SlotOwner[t] = "filling"
  BY <1>1, <1>2, <1>6 DEF SlotRead, ProducerHolds
<1>8. SlotOwner'[t] = "full" /\ SlotFrame'[t] = seq + 1
  BY <1>2, <1>4, <1>6 DEF SlotRead
<1>9. \A s \in Slots \ {t} : Keeps(s)
  BY <1>1, <1>2, <1>4 DEF Keeps, ProducerHolds, WorkerHolds, Reading
<1>10. /\ SlotOwner' = [SlotOwner EXCEPT ![t] = "full"]
       /\ SlotFrame' = [SlotFrame EXCEPT ![t] = seq + 1]
  BY <1>2, <1>8, <1>9, OneSlotMoves
<1>11. seq' - Len(ready') = seq - Len(ready)
  BY <1>2, <1>5
<1>12. QED
  BY <1>2, <1>7, <1>10, <1>11 DEF Lifecycle!Fill

(* A worker that pops takes the frame after the last one taken.            *)
LEMMA PopTakes ==
  ASSUME LifecycleInv, LifecycleInv', NEW w \in Workers, PopReady(w), mpc # "closed"
  PROVE  \E s \in Slots : Lifecycle!Take(s)
<1> USE DEF LifecycleInv, RuntimeInv
<1>1. PICK t \in Slots : ready[1].slot = t
  BY PopShifts, FrameTypes
<1>2. /\ wpc[w] = "check" /\ wpc' = [wpc EXCEPT ![w] = "got"]
      /\ wframe' = [wframe EXCEPT ![w] = ready[1]]
      /\ UNCHANGED <<mpc, leased, seq, ppc, pslot>>
  <2>1. ready # <<>> /\ ready \in Seq(Frame)
    BY DEF PopReady, RuntimeTypeOK
  <2>2. Head(ready) = ready[1]
    BY <2>1
  <2>3. QED
    BY <2>2 DEF PopReady, mainVars, slotVars, producerVars
<1>3. wpc \in [Workers -> WorkerPC] /\ wframe \in [Workers -> Frame]
  BY DEF RuntimeTypeOK
<1>4. /\ Len(ready) \in Nat /\ Len(ready') = Len(ready) - 1 /\ seq \in Nat
      /\ 1 \in DOMAIN ready
  <2>1. ready' = Tail(ready) /\ ready # <<>> /\ ready \in Seq(Frame)
    BY DEF PopReady, RuntimeTypeOK
  <2>2. Len(ready) \in Nat /\ Len(ready') = Len(ready) - 1
    BY <2>1
  <2>3. QED
    BY <2>2, PopShifts DEF RuntimeTypeOK
<1>5. SlotRead(t) /\ SlotRead(t)'
  BY SlotsAreReadBoth
<1>6. SlotOwner[t] = "full" /\ SlotFrame[t] = ready[1].seq
  BY <1>1, <1>4, <1>5 DEF SlotRead
<1>7. SlotOwner'[t] = "reading" /\ SlotFrame'[t] = ready[1].seq
  BY <1>1, <1>2, <1>3, <1>5 DEF SlotRead, WorkerHolds, Reading
<1>8. ASSUME NEW s \in Slots \ {t} PROVE Keeps(s)
  <2>1. ASSUME NEW i \in DOMAIN ready, ready[i].slot = s
        PROVE  \E j \in DOMAIN ready' : ready'[j].slot = s /\ ready'[j].seq = ready[i].seq
    <3>1. i \in 2 .. Len(ready)
      BY <1>1, <2>1, FrameTypes
    <3>2. i - 1 \in DOMAIN ready' /\ ready'[i - 1] = ready[i]
      BY <3>1, PopShifts, FrameTypes
    <3>3. QED
      BY <2>1, <3>2
  <2>2. \A v \in Workers :
          WorkerHolds(v, s) => WorkerHolds(v, s)' /\ wframe'[v].seq = wframe[v].seq
    BY <1>2, <1>3 DEF WorkerHolds, Reading
  <2>3. QED
    BY <1>2, <2>1, <2>2 DEF Keeps, ProducerHolds
<1>9. SlotOwner' = [SlotOwner EXCEPT ![t] = "reading"] /\ SlotFrame' = SlotFrame
  BY <1>2, <1>6, <1>7, <1>8, OneSlotMoves
<1>10. ready[1].seq = seq - Len(ready) + 1
  BY <1>4 DEF QueueInOrder
<1>11. seq' - Len(ready') = ready[1].seq /\ ready[1].seq > seq - Len(ready)
  BY <1>2, <1>4, <1>10
<1>12. QED
  BY <1>2, <1>6, <1>9, <1>11 DEF Lifecycle!Take

(* A worker that skips a frame or has read it gives its slot back.         *)
LEMMA ReleaseGivesBack ==
  ASSUME LifecycleInv, LifecycleInv', NEW w \in Workers,
         SkipFrame(w) \/ ReleaseSlot(w), mpc # "closed"
  PROVE  \E s \in Slots : Lifecycle!GiveBack(s)
<1> USE DEF LifecycleInv, RuntimeInv
<1>1. PICK t \in Slots : wframe[w].slot = t
  BY FrameTypes
<1>2. /\ Reading(w) /\ leased' = [leased EXCEPT ![t] = FALSE]
      /\ \A v \in Workers \ {w} : wpc'[v] = wpc[v] /\ wframe'[v] = wframe[v]
      /\ UNCHANGED <<mpc, ready, seq, ppc, pslot>>
  BY <1>1 DEF SkipFrame, ReleaseSlot, Released, Reading, mainVars, queueVars, producerVars,
     RuntimeTypeOK
<1>3. leased \in [Slots -> BOOLEAN]
  BY DEF RuntimeTypeOK
<1>4. SlotRead(t) /\ SlotRead(t)'
  BY SlotsAreReadBoth
<1>5. SlotOwner[t] = "reading"
  BY <1>1, <1>2, <1>4 DEF SlotRead, WorkerHolds
<1>6. SlotOwner'[t] = "free" /\ SlotFrame'[t] = 0
  BY <1>2, <1>3, <1>4 DEF SlotRead
<1>7. \A s \in Slots \ {t} : Keeps(s)
  BY <1>1, <1>2, <1>3 DEF Keeps, ProducerHolds, WorkerHolds, Reading
<1>8. /\ SlotOwner' = [SlotOwner EXCEPT ![t] = "free"]
      /\ SlotFrame' = [SlotFrame EXCEPT ![t] = 0]
  BY <1>2, <1>6, <1>7, OneSlotMoves
<1>9. QED
  BY <1>2, <1>5, <1>8 DEF Lifecycle!GiveBack

(* stop() frees the slots when nobody is inside one.                       *)
LEMMA CloseDiscards ==
  ASSUME LifecycleInv, LifecycleInv', StopReleases
  PROVE  Lifecycle!Discard
<1> USE DEF LifecycleInv, RuntimeInv
<1>1. /\ mpc = "join" /\ mpc' = "closed" /\ ThreadsDone
      /\ UNCHANGED <<seq, ready>>
  BY DEF StopReleases, queueVars
<1>2. \A s \in Slots : SlotRead(s) /\ SlotRead(s)'
  BY SlotsAreReadBoth
<1>3. \A s \in Slots : ~ProducerHolds(s) /\ \A w \in Workers : ~WorkerHolds(w, s)
  BY <1>1 DEF ThreadsDone, ProducerHolds, WorkerHolds, Reading
<1>4. \A s \in Slots : SlotOwner[s] \in {"free", "full"}
  BY <1>1, <1>3 DEF SlotOwner
<1>5. \A s \in Slots : SlotOwner'[s] = "free" /\ SlotFrame'[s] = 0
  BY <1>1, <1>2 DEF SlotRead
<1>6. SlotOwner' = [s \in Slots |-> "free"] /\ SlotFrame' = [s \in Slots |-> 0]
  BY <1>5 DEF SlotOwner, SlotFrame
<1>7. QED
  BY <1>1, <1>4, <1>6 DEF Lifecycle!Discard
(* Every other step leaves the slots to whom they belong.                  *)
MovesSlot ==
  \/ LeaseSlot \/ ReleaseFailed \/ PushReady \/ StopReleases
  \/ \E w \in Workers : PopReady(w) \/ SkipFrame(w) \/ ReleaseSlot(w)

LEMMA OtherStepsKeep ==
  ASSUME LifecycleInv, LifecycleInv', RuntimeStep, ~MovesSlot, mpc # "closed"
  PROVE  UNCHANGED <<SlotOwner, SlotFrame, seq, ready>>
<1> USE DEF LifecycleInv, RuntimeInv
<1> SUFFICES /\ mpc' # "closed" /\ UNCHANGED <<seq, ready, leased>>
             /\ \A s \in Slots : ProducerHolds(s) => ProducerHolds(s)'
             /\ \A w \in Workers : Reading(w) => Reading(w)' /\ wframe'[w] = wframe[w]
  <2>1. \A s \in Slots : Keeps(s)
    BY DEF Keeps, WorkerHolds
  <2>2. QED
    BY <2>1, NoSlotMoves
<1>types. wpc \in [Workers -> WorkerPC] /\ wframe \in [Workers -> Frame]
  BY DEF RuntimeTypeOK
<1> USE DEF mainVars, slotVars, queueVars, producerVars, workerVars, Reading, ProducerHolds
<1>1. CASE (\E b \in Buffers : CameraShot(b)) \/ StopRequested \/ StopNotifies
  BY <1>1, <1>types DEF CameraShot, StopRequested, StopNotifies, Asleep
<1>2. CASE Producer
  <2>1. CASE NotifyOne
    BY <2>1, <1>types DEF NotifyOne, Asleep
  <2>2. CASE ~NotifyOne
    BY <1>2, <2>2 DEF MovesSlot, Producer, ProducerExit, CaptureFrame, CaptureEmpty,
       CaptureFails, DecodeBegins, DecodeEnds, RequeueBuffer
  <2>3. QED
    BY <2>1, <2>2
<1>3. ASSUME NEW w \in Workers, WorkerInside(w) \/ Deliver(w)
      PROVE  /\ mpc' = mpc /\ UNCHANGED <<seq, ready, leased, ppc, pslot>>
             /\ \A v \in Workers : Reading(v) => Reading(v)' /\ wframe'[v] = wframe[v]
  BY <1>3, <1>types DEF MovesSlot, WorkerInside, WorkerExit, WaitBegins, WaitBlocks,
     WaitTimesOut, InferFrame, CopyPreview, Deliver
<1>4. QED
  BY <1>1, <1>2, <1>3 DEF RuntimeStep, RuntimeNext, RuntimeInside, RuntimeClosed, Stop,
     MovesSlot

(* The queue's order joins the inductive invariant.                        *)
LEMMA LifecycleInvariant == RuntimeSpec => []LifecycleInv
<1>1. LifecycleInv /\ [RuntimeStep]_runtimeVars => QueueInOrder'
  BY QueueInOrderStep DEF LifecycleInv, RuntimeInv
<1>2. QED
  BY <1>1, QueueInOrderInit, RuntimeInvariant, PTL DEF RuntimeSpec, RuntimeStep, LifecycleInv

(* The refinement, initial state and step.                                 *)
LEMMA LifecycleStarts == RuntimeInit => Lifecycle!LifecycleInit
<1> SUFFICES ASSUME RuntimeInit PROVE Lifecycle!LifecycleInit
  OBVIOUS
<1>1. OneHolder /\ mpc = "run" /\ \A s \in Slots : ~leased[s]
  BY OneHolderInit DEF RuntimeInit
<1>2. \A s \in Slots : SlotOwner[s] = "free" /\ SlotFrame[s] = 0
  BY <1>1, SlotsAreRead DEF SlotRead
<1>3. SlotOwner = [s \in Slots |-> "free"] /\ SlotFrame = [s \in Slots |-> 0]
  BY <1>2 DEF SlotOwner, SlotFrame
<1>4. seq = 0 /\ Len(ready) = 0
  <2>1. seq = 0 /\ ready = <<>> /\ <<>> \in Seq(Frame)
    BY DEF RuntimeInit
  <2>2. Len(<<>>) = 0
    OBVIOUS
  <2>3. QED
    BY <2>1, <2>2
<1>5. seq - Len(ready) = 0
  BY <1>4
<1>6. QED
  BY <1>3, <1>4, <1>5 DEF Lifecycle!LifecycleInit

LEMMA LifecycleSteps ==
  LifecycleInv /\ LifecycleInv' /\ [RuntimeStep]_runtimeVars
    => [Lifecycle!LifecycleNext]_(Lifecycle!lifecycleVars)
<1> SUFFICES ASSUME LifecycleInv, LifecycleInv', [RuntimeStep]_runtimeVars
             PROVE  [Lifecycle!LifecycleNext]_(Lifecycle!lifecycleVars)
  OBVIOUS
<1> USE DEF Lifecycle!LifecycleNext
<1>1. CASE UNCHANGED runtimeVars
  BY <1>1 DEF runtimeVars, mainVars, slotVars, queueVars, producerVars, workerVars,
     Lifecycle!lifecycleVars, SlotOwner, SlotFrame, ProducerHolds, QueueHolds,
     WorkerHolds, Reading
<1>2. CASE RuntimeStep /\ mpc # "closed"
  <2>1. CASE LeaseSlot
    BY <1>2, <2>1, LeaseAcquires
  <2>2. CASE ReleaseFailed
    BY <1>2, <2>2, ReleaseAbandons
  <2>3. CASE PushReady
    BY <1>2, <2>3, PushFills
  <2>4. CASE \E w \in Workers : PopReady(w)
    BY <1>2, <2>4, PopTakes
  <2>5. CASE \E w \in Workers : SkipFrame(w) \/ ReleaseSlot(w)
    BY <1>2, <2>5, ReleaseGivesBack
  <2>6. CASE StopReleases
    BY <2>6, CloseDiscards
  <2>7. CASE ~MovesSlot
    BY <1>2, <2>7, OtherStepsKeep DEF Lifecycle!lifecycleVars
  <2>8. QED
    BY <2>1, <2>2, <2>3, <2>4, <2>5, <2>6, <2>7 DEF MovesSlot
<1>3. QED
  BY <1>1, <1>2, ThreadsStepBeforeClose DEF LifecycleInv, RuntimeInv

(* Whatever the threads do, a slot goes round free, filling, full and      *)
(* reading with one owner at a time, and the frames are numbered in the    *)
(* order they are filled and read in that order, each once: the runtime    *)
(* implements SlotLifecycle.                                               *)
THEOREM RuntimeImplementsLifecycle == RuntimeSpec => ImplementsLifecycle
BY LifecycleStarts, LifecycleSteps, LifecycleInvariant, PTL
   DEF RuntimeSpec, RuntimeStep, ImplementsLifecycle, Lifecycle!LifecycleSpec

(***************************************************************************)
(* What nobody may keep.                                                   *)
(***************************************************************************)
(* ready_mu_ outlasts a step only for a worker between the predicate of    *)
(* its wait and the wait itself, which takes no other lock.                *)
ReadyMuBrief == \A w \in Workers : readyMu = w <=> wpc[w] = "blocking"

(* The producer has a buffer exactly while it decodes, that one and no     *)
(* other: every other buffer is with the driver, was refused by it, or,    *)
(* if it completes buffers without a frame, was dropped.                   *)
HasBuffer == ppc \in {"decode", "decoding", "requeue", "requeue_bad"}

BuffersAccounted ==
  /\ HasBuffer <=> pbuf # NoBuffer
  /\ \A b \in Buffers : buffers[b] = "dequeued" <=> b = pbuf
  /\ ~EmptyFrames => \A b \in Buffers : buffers[b] \notin {"empty", "dropped"}

(* Each step keeps both.                                                   *)
LEMMA ReadyMuBriefStep ==
  ASSUME RuntimeTypeOK, ReadyMuBrief, [RuntimeStep]_runtimeVars
  PROVE  ReadyMuBrief'
<1>0. wpc \in [Workers -> WorkerPC] /\ NoThread \notin Workers
  BY RuntimeAssumption DEF RuntimeTypeOK
<1>1. ASSUME readyMu' = readyMu, \A w \in Workers : wpc'[w] = "blocking" <=> wpc[w] = "blocking"
      PROVE  ReadyMuBrief'
  BY <1>1 DEF ReadyMuBrief
<1>2. CASE UNCHANGED runtimeVars \/ StopRequested \/ StopReleases \/ RuntimeClosed
           \/ \E b \in Buffers : CameraShot(b)
  BY <1>1, <1>2 DEF runtimeVars, queueVars, workerVars, StopRequested, StopReleases,
                    RuntimeClosed, CameraShot
<1>3. CASE Producer
  <2>1. CASE NotifyOne
    BY <1>0, <1>1, <2>1 DEF NotifyOne, Asleep, queueVars
  <2>2. CASE ~NotifyOne
    BY <1>1, <1>3, <2>2
      DEF Producer, ProducerExit, LeaseSlot, CaptureFrame, CaptureEmpty, CaptureFails,
          DecodeBegins, DecodeEnds, RequeueBuffer, ReleaseFailed, PushReady,
          queueVars, workerVars
  <2>3. QED
    BY <2>1, <2>2
<1>4. ASSUME NEW w \in Workers, WorkerInside(w) \/ Deliver(w) PROVE ReadyMuBrief'
  <2>1. CASE WaitBegins(w)
    BY <1>0, <2>1 DEF WaitBegins, ReadyMuFree, ReadyMuBrief
  <2>2. CASE WaitBlocks(w)
    BY <1>0, <2>2 DEF WaitBlocks, ReadyMuBrief
  <2>3. CASE PopReady(w) \/ WaitTimesOut(w)
    BY <1>0, <1>1, <2>3 DEF PopReady, WaitTimesOut, queueVars
  <2>4. CASE WorkerExit(w) \/ SkipFrame(w) \/ InferFrame(w) \/ CopyPreview(w)
             \/ ReleaseSlot(w) \/ Deliver(w)
    BY <1>0, <1>1, <2>4 DEF WorkerExit, SkipFrame, InferFrame, CopyPreview, ReleaseSlot,
                            Deliver, queueVars
  <2>5. QED
    BY <1>4, <2>1, <2>2, <2>3, <2>4 DEF WorkerInside
<1>5. CASE StopNotifies
  BY <1>0, <1>1, <1>5 DEF StopNotifies, Asleep, queueVars
<1>6. QED
  BY <1>2, <1>3, <1>4, <1>5 DEF RuntimeStep, RuntimeNext, RuntimeInside, Stop

LEMMA BuffersAccountedStep ==
  ASSUME RuntimeTypeOK, BuffersAccounted, [RuntimeStep]_runtimeVars
  PROVE  BuffersAccounted'
<1>0. buffers \in [Buffers -> BufferPlace]
      /\ NoBuffer \notin Buffers /\ pbuf \in Buffers \cup {NoBuffer}
  BY RuntimeAssumption DEF RuntimeTypeOK
<1>1. ASSUME UNCHANGED <<buffers, pbuf>>, HasBuffer' <=> HasBuffer
      PROVE  BuffersAccounted'
  BY <1>1 DEF BuffersAccounted
<1>2. CASE UNCHANGED runtimeVars \/ StopRequested \/ Stop \/ RuntimeClosed
           \/ \E w \in Workers : WorkerInside(w) \/ Deliver(w)
  <2>1. UNCHANGED <<producerVars, cameraVars>>
    BY <1>2
      DEF runtimeVars, StopRequested, Stop, StopNotifies, StopReleases, RuntimeClosed,
          WorkerInside, WorkerExit, PopReady, WaitBegins, WaitBlocks, WaitTimesOut,
          SkipFrame, InferFrame, CopyPreview, ReleaseSlot, Deliver
  <2>2. QED
    BY <1>1, <2>1 DEF producerVars, cameraVars, HasBuffer
<1>3. ASSUME NEW b \in Buffers, CameraShot(b) PROVE BuffersAccounted'
  <2>1. PICK how \in {"filled", "empty"} :
          /\ buffers' = [buffers EXCEPT ![b] = how]
          /\ ~EmptyFrames => how = "filled"
    BY <1>3, RuntimeAssumption DEF CameraShot
  <2>2. buffers[b] = "queued" /\ UNCHANGED producerVars
    BY <1>3 DEF CameraShot
  <2>3. QED
    BY <1>0, <2>1, <2>2 DEF BuffersAccounted, HasBuffer, producerVars
<1>4. ASSUME NEW b \in Buffers, CaptureFrame(b) PROVE BuffersAccounted'
  BY <1>0, <1>4 DEF CaptureFrame, BuffersAccounted, HasBuffer
<1>5. ASSUME NEW b \in Buffers, CaptureEmpty(b) PROVE BuffersAccounted'
  BY <1>0, <1>5 DEF CaptureEmpty, BuffersAccounted, HasBuffer
<1>6. CASE RequeueBuffer
  BY <1>0, <1>6 DEF RequeueBuffer, BuffersAccounted, HasBuffer
<1>7. CASE ProducerExit \/ LeaseSlot \/ CaptureFails \/ DecodeBegins \/ DecodeEnds
           \/ ReleaseFailed \/ PushReady \/ NotifyOne
  BY <1>1, <1>7
    DEF ProducerExit, LeaseSlot, CaptureFails, DecodeBegins, DecodeEnds, ReleaseFailed,
        PushReady, NotifyOne, cameraVars, HasBuffer
<1>8. QED
  BY <1>2, <1>3, <1>4, <1>5, <1>6, <1>7
    DEF RuntimeStep, RuntimeNext, RuntimeInside, Producer

(* Nobody keeps what the others wait for: ready_mu_ is only held from one  *)
(* step to the next by a worker about to sleep, and the producer keeps no  *)
(* buffer but the one it decodes, on the failing ways out too: it is       *)
(* offered to the driver again, which may refuse it (then it is lost, as   *)
(* is one completed without a frame).                                      *)
THEOREM NothingIsKept == RuntimeSpec => [](ReadyMuBrief /\ BuffersAccounted)
<1>1. RuntimeInit => ReadyMuBrief /\ BuffersAccounted
  BY RuntimeAssumption DEF RuntimeInit, ReadyMuBrief, BuffersAccounted, HasBuffer
<1>2. RuntimeTypeOK /\ ReadyMuBrief /\ BuffersAccounted /\ [RuntimeStep]_runtimeVars
        => (ReadyMuBrief /\ BuffersAccounted)'
  BY ReadyMuBriefStep, BuffersAccountedStep
<1>3. QED
  BY <1>1, <1>2, RuntimeTypeCorrect, PTL DEF RuntimeSpec, RuntimeStep

(***************************************************************************)
(* The pipeline.                                                           *)
(***************************************************************************)
(* The pipeline's steps are steps of the runtime, or leave it alone.       *)
LEMMA PipelineStepsRuntime == [Next]_vars => [RuntimeStep]_runtimeVars
<1> SUFFICES ASSUME [Next]_vars PROVE [RuntimeStep]_runtimeVars
  OBVIOUS
<1>1. CASE RuntimeInside
  BY <1>1 DEF RuntimeStep, RuntimeNext
<1>2. CASE \E w \in Workers : ApplyResult(w)
  BY <1>2 DEF ApplyResult, RuntimeStep, RuntimeNext
<1>3. CASE ControlTick \/ PreviewThread \/ Terminated \/ UNCHANGED vars
  BY <1>3 DEF ControlTick, PreviewThread, PreviewTakes, PreviewPublishes,
              PreviewExits, Terminated, vars
<1>4. QED
  BY <1>1, <1>2, <1>3 DEF Next

(* So the pipeline implements the runtime and keeps its invariant.         *)
LEMMA PipelineRunsRuntime == Spec => RuntimeSpec
<1>1. Init => RuntimeInit
  BY DEF Init
<1>2. QED
  BY <1>1, PipelineStepsRuntime, PTL DEF Spec, RuntimeSpec, RuntimeStep

(***************************************************************************)
(* The inductive invariant.                                                *)
(***************************************************************************)
HostTypes ==
  /\ latestSeq \in Nat /\ latestDet \in Nat
  /\ debugQueue \in Seq(DebugFrame)
  /\ control \in [seq : Nat, det : Nat]
  /\ vpc \in {"take", "publish", "done"}
  /\ held \in DebugFrame /\ published \in DebugFrame

Matched(frame) == frame.pixels = frame.seq /\ frame.overlay = frame.seq

(* Everything the host keeps carries the number of its frame.              *)
HostMatched ==
  /\ latestDet = latestSeq /\ control.det = control.seq
  /\ \A i \in DOMAIN debugQueue : Matched(debugQueue[i])
  /\ Matched(held) /\ Matched(published)

(* What is published is older than what is held, that is older than what   *)
(* is queued, in its order, and nothing is newer than the latest result.   *)
HostOrdered ==
  /\ control.seq <= latestSeq /\ published.seq <= latestSeq /\ held.seq <= latestSeq
  /\ \A i \in DOMAIN debugQueue :
       /\ published.seq < debugQueue[i].seq /\ held.seq < debugQueue[i].seq
       /\ debugQueue[i].seq <= latestSeq
  /\ vpc = "publish" => published.seq < held.seq

HostInv == HostTypes /\ HostMatched /\ HostOrdered

LEMMA HostInit == Init => HostInv
  BY DEF Init, HostInv, HostTypes, HostMatched, HostOrdered, Matched,
         NoDebugFrame, DebugFrame

(* Every frame of the queue after a push was in it before or is the new    *)
(* one.                                                                    *)
LEMMA PushedFrames ==
  ASSUME NEW queue \in Seq(DebugFrame), NEW frame \in DebugFrame
  PROVE  /\ PushMatched(queue, frame) \in Seq(DebugFrame)
         /\ \A i \in DOMAIN PushMatched(queue, frame) :
              \/ PushMatched(queue, frame)[i] = frame
              \/ \E j \in DOMAIN queue : PushMatched(queue, frame)[i] = queue[j]
<1> USE DebugCapAssumption
<1>1. CASE Len(queue) >= DebugCap
  <2> DEFINE first == Len(queue) - DebugCap + 2
             rest  == SubSeq(queue, first, Len(queue))
  <2>1. first \in Nat /\ first >= 2 /\ Len(queue) \in Nat
    BY <1>1
  <2>2. rest \in Seq(DebugFrame) /\ \A i \in DOMAIN rest : first + i - 1 \in DOMAIN queue
                                      /\ rest[i] = queue[first + i - 1]
    BY <2>1
  <2>3. PushMatched(queue, frame) = Append(rest, frame)
    BY <1>1 DEF PushMatched
  <2> HIDE DEF rest, first
  <2>4. QED
    BY <2>2, <2>3
<1>2. CASE ~(Len(queue) >= DebugCap)
  BY <1>2 DEF PushMatched
<1>3. QED
  BY <1>1, <1>2

LEMMA ApplyKeepsHost ==
  ASSUME HostInv, RuntimeTypeOK, ResultsMatchFrames, NEW w \in Workers, ApplyResult(w)
  PROVE  HostInv'
<1> USE DEF HostInv
<1> DEFINE n     == wframe[w].seq
           frame == [seq |-> n, pixels |-> preview[w], overlay |-> det[w]]
<1>1. n \in Nat /\ det[w] \in Nat /\ preview[w] \in Nat
  BY DEF RuntimeTypeOK, Frame
<1>2. det[w] = n /\ preview[w] = n
  BY DEF ApplyResult, Deliver, ResultsMatchFrames
<1>3. frame \in DebugFrame /\ Matched(frame) /\ frame.seq = n
  BY <1>1, <1>2 DEF DebugFrame, Matched
<1>4. UNCHANGED <<control, vpc, held, published>>
  BY DEF ApplyResult, previewVars
<1>5. CASE n <= latestSeq
  <2>1. UNCHANGED <<latestSeq, latestDet, debugQueue>>
    BY <1>5 DEF ApplyResult, sharedVars
  <2>2. QED
    BY <1>4, <2>1 DEF HostTypes, HostMatched, HostOrdered, Matched
<1>6. CASE ~(n <= latestSeq)
  <2>1. latestSeq' = n /\ latestDet' = det[w] /\ debugQueue' = PushMatched(debugQueue, frame)
    BY <1>6 DEF ApplyResult
  <2>2. latestSeq \in Nat /\ latestSeq < n
    BY <1>1, <1>6 DEF HostTypes
  <2>3. /\ debugQueue' \in Seq(DebugFrame)
        /\ \A i \in DOMAIN debugQueue' :
             debugQueue'[i] = frame \/ \E j \in DOMAIN debugQueue : debugQueue'[i] = debugQueue[j]
    BY <1>3, <2>1, PushedFrames DEF HostTypes
  <2>4. published.seq \in Nat /\ held.seq \in Nat /\ control.seq \in Nat
    BY DEF HostTypes, DebugFrame
  <2> HIDE DEF frame, n
  <2>5. HostTypes'
    BY <1>1, <1>4, <2>1, <2>3 DEF HostTypes
  <2>6. HostMatched'
    BY <1>2, <1>3, <1>4, <2>1, <2>3 DEF HostMatched, Matched
  <2>7. HostOrdered'
    <3>1. ASSUME NEW i \in DOMAIN debugQueue'
          PROVE  /\ published.seq < debugQueue'[i].seq /\ held.seq < debugQueue'[i].seq
                 /\ debugQueue'[i].seq <= n
      <4>1. CASE debugQueue'[i] = frame
        BY <1>1, <1>3, <2>2, <2>4, <4>1 DEF HostOrdered
      <4>2. CASE \E j \in DOMAIN debugQueue : debugQueue'[i] = debugQueue[j]
        <5>1. PICK j \in DOMAIN debugQueue : debugQueue'[i] = debugQueue[j]
          BY <4>2
        <5>2. debugQueue[j] \in DebugFrame
          BY <5>1 DEF HostTypes
        <5>3. debugQueue[j].seq \in Nat
          BY <5>2 DEF DebugFrame
        <5>4. QED
          BY <1>1, <2>2, <5>1, <5>3 DEF HostOrdered
      <4>3. QED
        BY <2>3, <4>1, <4>2
    <3>2. QED
      BY <1>1, <1>4, <2>1, <2>2, <2>4, <3>1 DEF HostOrdered
  <2>8. QED
    BY <2>5, <2>6, <2>7
<1>7. QED
  BY <1>5, <1>6

LEMMA HostStep ==
  ASSUME HostInv, RuntimeTypeOK, ResultsMatchFrames, [Next]_vars PROVE HostInv'
<1> USE DEF HostInv
<1>1. CASE \E w \in Workers : ApplyResult(w)
  BY <1>1, ApplyKeepsHost
<1>2. CASE ControlTick
  BY <1>2 DEF ControlTick, sharedVars, previewVars, HostTypes, HostMatched, HostOrdered
<1>3. CASE PreviewTakes
  <2>1. /\ held' = debugQueue[Len(debugQueue)] /\ debugQueue' = <<>> /\ vpc' = "publish"
        /\ UNCHANGED <<latestSeq, latestDet, control, published>>
    BY <1>3 DEF PreviewTakes
  <2>2. Len(debugQueue) \in DOMAIN debugQueue
    BY <1>3 DEF PreviewTakes, HostTypes
  <2>3. held' \in DebugFrame
    BY <2>1, <2>2 DEF HostTypes
  <2>4. HostTypes'
    BY <2>1, <2>3 DEF HostTypes
  <2>5. QED
    BY <2>1, <2>2, <2>4 DEF HostMatched, HostOrdered, Matched
<1>4. CASE PreviewPublishes
  <2>1. NoDebugFrame \in DebugFrame /\ Matched(NoDebugFrame) /\ NoDebugFrame.seq = 0
    BY DEF NoDebugFrame, DebugFrame, Matched
  <2>2. \A i \in DOMAIN debugQueue : debugQueue[i].seq \in Nat
    <3>1. \A i \in DOMAIN debugQueue : debugQueue[i] \in DebugFrame
      BY DEF HostTypes
    <3>2. QED
      BY <3>1 DEF DebugFrame
  <2>3. held.seq \in Nat /\ published.seq \in Nat
    BY DEF HostTypes, DebugFrame
  <2>4. HostTypes'
    BY <1>4, <2>1 DEF PreviewPublishes, sharedVars, HostTypes
  <2>5. HostMatched'
    BY <1>4, <2>1 DEF PreviewPublishes, sharedVars, HostMatched, Matched
  <2>6. HostOrdered'
    BY <1>4, <2>1, <2>2, <2>3 DEF PreviewPublishes, sharedVars, HostOrdered, HostTypes
  <2>7. QED
    BY <2>4, <2>5, <2>6
<1>5. CASE \/ RuntimeInside /\ UNCHANGED hostVars
           \/ PreviewExits \/ Terminated \/ UNCHANGED vars
  BY <1>5 DEF PreviewExits, Terminated, vars, hostVars, sharedVars, previewVars,
              HostTypes, HostMatched, HostOrdered, Matched
<1>6. QED
  BY <1>1, <1>2, <1>3, <1>4, <1>5 DEF Next, PreviewThread

LEMMA HostInvHolds == Spec => [](RuntimeInv /\ HostInv)
<1>1. RuntimeInv /\ HostInv /\ [Next]_vars => HostInv'
  BY HostStep DEF RuntimeInv
<1>2. Spec => []RuntimeInv
  BY PipelineRunsRuntime, RuntimeInvariant, PTL
<1>3. QED
  BY <1>1, <1>2, HostInit, PTL DEF Spec

(* The pipeline's variables keep their types.                              *)
THEOREM PipelineTypes == Spec => []TypeOK
<1>1. RuntimeInv /\ HostInv => TypeOK
  BY DEF RuntimeInv, HostInv, HostTypes, TypeOK
<1>2. QED
  BY <1>1, HostInvHolds, PTL

(* The slots go round as SlotLifecycle says in the whole control process   *)
(* too, whatever the callback and the preview thread do with the results.  *)
THEOREM PipelineImplementsLifecycle == Spec => ImplementsLifecycle
BY PipelineRunsRuntime, RuntimeImplementsLifecycle, PTL

(* What the control loop and the preview see carries the number of the     *)
(* frame it was computed from, whatever order the workers finish in.       *)
THEOREM ConsumersSeeTheirFrame == Spec => []ConsumersSeeMatched
<1>1. HostInv => ConsumersSeeMatched
  BY DEF HostInv, HostMatched, Matched, ConsumersSeeMatched
<1>2. QED
  BY <1>1, HostInvHolds, PTL

(* The control loop and the preview never go back to an older frame.       *)
THEOREM ConsumersNeverGoBack == Spec => ConsumersMoveForward
<1>1. HostInv /\ [Next]_vars => [control'.seq >= control.seq]_control
  <2> SUFFICES ASSUME HostInv, Next PROVE control'.seq >= control.seq \/ control' = control
    BY DEF vars, hostVars
  <2>1. CASE ControlTick
    BY <2>1 DEF ControlTick, HostInv, HostOrdered, HostTypes
  <2>2. CASE ~ControlTick
    BY <2>2 DEF Next, ApplyResult, PreviewThread, PreviewTakes, PreviewPublishes,
                PreviewExits, Terminated, vars, hostVars
  <2>3. QED
    BY <2>1, <2>2
<1>2. HostInv /\ [Next]_vars => [published'.seq > published.seq]_published
  <2> SUFFICES ASSUME HostInv, Next PROVE published'.seq > published.seq \/ published' = published
    BY DEF vars, hostVars, previewVars
  <2>1. CASE PreviewPublishes
    BY <2>1 DEF PreviewPublishes, HostInv, HostOrdered, HostTypes, DebugFrame
  <2>2. CASE ~PreviewPublishes
    BY <2>2 DEF Next, ApplyResult, ControlTick, PreviewThread, PreviewTakes,
                PreviewExits, Terminated, vars, hostVars, previewVars
  <2>3. QED
    BY <2>1, <2>2
<1>3. QED
  BY <1>1, <1>2, HostInvHolds, PTL DEF Spec, ConsumersMoveForward
=============================================================================
