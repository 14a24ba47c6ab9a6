--------------------------- MODULE MppDecoder_proofs ---------------------------
(***************************************************************************)
(* Proof, for every number of tasks and slots, that a call returns the     *)
(* image of its JPEG, keeps the decoder's tasks and loses no RGA handle.   *)
(***************************************************************************)
EXTENDS MppDecoder, FiniteSetTheorems, TLAPS

(* The hardware is used only before the third failure.                     *)
HardwareCounts ==
  /\ useSw => pc \in {"configure", "idle", "software", "closed"}
  /\ pc = "software" => useSw

(* Between the calls the decoder has nothing to do; in a call it has the   *)
(* task of this call, and then its image.                                  *)
OneTask ==
  "answer" \notin lost =>
    /\ pc # "queued" => work = <<>> /\ output # "port"
    /\ pc \in {"packet", "queued"} => packet = jpeg
    /\ pc = "queued" => \/ work = <<jpeg>> /\ output # "port"
                        \/ work = <<>> /\ output = "port" /\ pixels = jpeg
    /\ pc \in {"dequeued", "frame"} => pixels = jpeg

(* No task is missing unless a call that moves it failed; one input task   *)
(* is without a packet again as soon as one was taken back.                *)
TasksAccounted ==
  /\ "task" \notin lost => empty + spent + Len(work) = Tasks
  /\ output = "call" <=> pc \in {"dequeued", "frame"}
  /\ "output" \notin lost => output # "nobody"
  /\ lost \subseteq {"packet"} /\ pc \notin {"queued", "dequeued"} => empty > 0
  /\ pc # "packet" => ~owned

(* The handles imported so far are those of the first slots.               *)
SlotsImported ==
  /\ pc = "configure" => /\ zeroCopy
                         /\ \E n \in 0 .. Slots - 1 : held = 1 .. n
  /\ pc \notin {"configure", "closed"} =>
       IF zeroCopy THEN held = 1 .. Slots /\ ext \in held ELSE held = {} /\ ext = 0

IInv ==
  /\ TypeOK
  /\ HardwareCounts /\ OneTask /\ TasksAccounted /\ SlotsImported
  /\ ImageMatches /\ HandlesReleased

LEMMA InitIInv == Init => IInv
<1> SUFFICES ASSUME Init PROVE IInv
    OBVIOUS
<1>1. 0 \in Jpegs /\ Mixed \in Images /\ 0 \in 0 .. Slots /\ 0 \in 0 .. Slots - 1
  BY DecoderAssumption DEF Jpegs, Images
<1>2. /\ work \in Seq(Jpegs) /\ Len(work) = 0 /\ Tasks \in Nat /\ Tasks > 0
      /\ empty = Tasks /\ spent = 0 /\ output = "decoder"
  BY DecoderAssumption DEF Init
<1>3. result \in [ok : BOOLEAN, of : Jpegs, image : Images]
  BY <1>1 DEF Init
<1>4. attempts \in 0 .. kMaxMppHwAttempts /\ (useSw <=> attempts = kMaxMppHwAttempts)
  BY DEF Init, kMaxMppHwAttempts
<1>5. TypeOK
  <2>1. pc \in {"configure", "idle"}
    BY DEF Init
  <2>2. held = {} /\ lost = {} /\ ~owned /\ ~useSw /\ ~twice
    BY DEF Init
  <2>3. /\ zeroCopy \in BOOLEAN /\ owned \in BOOLEAN
        /\ useSw \in BOOLEAN /\ twice \in BOOLEAN
    BY Zenon DEF Init
  <2>4. jpeg = 0 /\ packet = 0 /\ pixels = Mixed /\ ext = 0
    BY DEF Init
  <2>5. empty \in Nat /\ spent \in Nat /\ empty + spent + Len(work) <= Tasks
    BY <1>2
  <2>6. QED
    BY <1>1, <1>2, <1>3, <1>4, <2>1, <2>2, <2>3, <2>4, <2>5 DEF TypeOK
<1>6. SlotsImported
  <2>1. held = 1 .. 0
    BY DEF Init
  <2>2. QED
    BY <1>1, <2>1 DEF Init, SlotsImported
<1>7. TasksAccounted
  BY <1>2 DEF Init, TasksAccounted
<1>8. HardwareCounts /\ OneTask /\ ImageMatches
  BY DEF Init, HardwareCounts, OneTask, ImageMatches
<1>9. HandlesReleased
  <2>1. zeroCopy => pc = "configure"
    BY DEF Init
  <2>2. QED
    BY <2>1 DEF Init, HandlesReleased
<1>10. QED
  BY <1>5, <1>6, <1>7, <1>8, <1>9 DEF IInv

(* The handle that is imported next is that of the slot after the last.    *)
LEMMA NextSlot ==
  ASSUME NEW n \in 0 .. Slots - 1
  PROVE  Cardinality(1 .. n) + 1 = n + 1
<1>1. 1 \in Int /\ n \in Int /\ n >= 0
  BY DecoderAssumption
<1>2. Cardinality(1 .. n) = IF 1 > n THEN 0 ELSE n - 1 + 1
  BY <1>1, FS_Interval
<1>3. QED
  BY <1>1, <1>2

(* What a failed call leaves, whatever it failed in.                       *)
LEMMA FailKeeps ==
  ASSUME IInv, Fail, ~useSw
  PROVE  /\ attempts' \in 0 .. kMaxMppHwAttempts
         /\ useSw' \in BOOLEAN /\ (useSw' <=> attempts' = kMaxMppHwAttempts)
         /\ pc' = IF useSw' THEN "software" ELSE "idle"
         /\ result' \in [ok : BOOLEAN, of : Jpegs, image : Images]
         /\ result'.ok => result' = result
<1>1. attempts \in 0 .. kMaxMppHwAttempts /\ attempts # kMaxMppHwAttempts
  BY DEF IInv, TypeOK
<1>2. attempts' \in 0 .. kMaxMppHwAttempts
  BY <1>1 DEF Fail, kMaxMppHwAttempts
<1>3. attempts' >= kMaxMppHwAttempts <=> attempts' = kMaxMppHwAttempts
  BY <1>2 DEF kMaxMppHwAttempts
<1>4. \/ attempts' = kMaxMppHwAttempts /\ useSw' = TRUE /\ pc' = "software"
      \/ attempts' # kMaxMppHwAttempts /\ useSw' = useSw /\ pc' = "idle"
  BY <1>3 DEF Fail
<1>5. useSw' \in BOOLEAN /\ (useSw' <=> attempts' = kMaxMppHwAttempts)
  <2>1. useSw = FALSE
    BY DEF IInv, TypeOK
  <2>2. CASE attempts' = kMaxMppHwAttempts /\ useSw' = TRUE
    BY <2>2
  <2>3. CASE attempts' # kMaxMppHwAttempts /\ useSw' = useSw
    BY <2>1, <2>3
  <2>4. QED
    BY <1>4, <2>2, <2>3
<1>6. pc' = IF useSw' THEN "software" ELSE "idle"
  BY <1>4
<1>7. result \in [ok : BOOLEAN, of : Jpegs, image : Images]
  BY DEF IInv, TypeOK
<1>8. result' = result \/ result' = [result EXCEPT !.ok = FALSE]
  BY DEF Fail
<1>9. /\ result' \in [ok : BOOLEAN, of : Jpegs, image : Images]
      /\ result'.ok => result' = result
  BY <1>7, <1>8
<1>10. QED
  BY <1>2, <1>5, <1>6, <1>9

LEMMA SetupIInv ==
  ASSUME IInv, Setup PROVE IInv'
<1> USE DecoderAssumption
<1>1. PICK n \in 0 .. Slots - 1 : held = 1 .. n
  BY DEF IInv, SlotsImported, Setup, ConfigureSlot, ConfigureImportFails, ConfigureMapFails
<1>2. Cardinality(held) + 1 = n + 1
  BY <1>1, NextSlot
<1>3. CASE ConfigureSlot
  <2>1. held' = 1 .. n + 1 /\ ext' = 1 /\ zeroCopy /\ zeroCopy' = zeroCopy
    BY <1>1, <1>2, <1>3 DEF ConfigureSlot, callVars, IInv, SlotsImported
  <2>2. pc' = IF n + 1 = Slots THEN "idle" ELSE "configure"
    BY <1>2, <1>3 DEF ConfigureSlot
  <2>3. SlotsImported' /\ HandlesReleased'
    BY <1>3, <2>1, <2>2
       DEF SlotsImported, HandlesReleased, IInv, ConfigureSlot, callVars
  <2>4. TypeOK'
    BY <1>3, <2>1, <2>2 DEF IInv, TypeOK, ConfigureSlot, callVars, portVars, inputVars, swVars
  <2>5. QED
    BY <1>3, <2>2, <2>3, <2>4
       DEF IInv, HardwareCounts, OneTask, TasksAccounted, ImageMatches,
           ConfigureSlot, callVars, portVars, inputVars, swVars
<1>4. CASE ConfigureImportFails \/ ConfigureMapFails
  <2>1. pc' = "closed" /\ held' = {} /\ ext' = 0 /\ UNCHANGED <<callVars, twice>>
    BY <1>1, <1>4 DEF ConfigureImportFails, ConfigureMapFails, ReleasedOnMapFailure
  <2>2. QED
    BY <2>1
       DEF IInv, TypeOK, HardwareCounts, OneTask, TasksAccounted, SlotsImported,
           ImageMatches, HandlesReleased, callVars, portVars, inputVars, swVars,
           Setup, ConfigureSlot, ConfigureImportFails, ConfigureMapFails
<1>5. QED
  BY <1>3, <1>4 DEF Setup

LEMMA CallIInv ==
  ASSUME IInv, Call \/ CallFails PROVE IInv'
<1> USE DecoderAssumption
<1>1. pc = "idle" /\ jpeg \in Jpegs /\ jpeg' \in Jpegs
  BY DEF IInv, TypeOK, Call, CallFails, Jpegs
<1>2. /\ UNCHANGED <<zeroCopy, held, twice, lost, empty, spent, work, output, pixels>>
      /\ ext' \in 0 .. Slots
      /\ IF zeroCopy THEN ext' \in held ELSE ext' = 0
  BY <1>1 DEF IInv, SlotsImported, Call, CallFails, portVars, inputVars
<1>3. SlotsImported'
  <2>1. pc' \notin {"configure", "closed"}
    BY DEF Call, CallFails, Fail
  <2>2. QED
    BY <1>1, <1>2, <2>1 DEF IInv, SlotsImported
<1>4. HandlesReleased'
  <2>1. pc' \notin {"configure", "closed"}
    BY DEF Call, CallFails, Fail
  <2>2. QED
    BY <1>1, <1>2, <2>1 DEF IInv, SlotsImported, HandlesReleased
<1>5. CASE Call
  <2>1. UNCHANGED <<attempts, useSw, result>>
    BY <1>5 DEF Call, swVars
  <2>2. pc' = IF useSw THEN "software" ELSE "packet"
    BY <1>5 DEF Call
  <2>3. IF useSw THEN UNCHANGED <<packet, owned>> ELSE packet' = jpeg' /\ owned' = TRUE
    BY <1>5 DEF Call
  <2>4. TypeOK'
    BY <1>1, <1>2, <2>1, <2>2, <2>3 DEF IInv, TypeOK
  <2>5. HardwareCounts' /\ OneTask' /\ TasksAccounted' /\ ImageMatches'
    BY <1>1, <1>2, <2>1, <2>2, <2>3
       DEF IInv, TypeOK, HardwareCounts, OneTask, TasksAccounted, ImageMatches
  <2>6. QED
    BY <1>3, <1>4, <2>4, <2>5 DEF IInv
<1>6. CASE CallFails
  <2>1. Fail /\ ~useSw /\ owned' = owned /\ packet' \in Jpegs
    BY <1>1, <1>6 DEF CallFails, IInv, TypeOK
  <2>2. TypeOK'
    BY <1>1, <1>2, <2>1, FailKeeps DEF IInv, TypeOK
  <2>3. HardwareCounts' /\ OneTask' /\ TasksAccounted' /\ ImageMatches'
    BY <1>1, <1>2, <2>1, FailKeeps
       DEF IInv, HardwareCounts, OneTask, TasksAccounted, ImageMatches
  <2>4. QED
    BY <1>3, <1>4, <2>2, <2>3 DEF IInv
<1>7. QED
  BY <1>5, <1>6

(* A step inside a call does not touch the slots.                          *)
LEMMA SlotsUntouched ==
  ASSUME IInv, CallStep \/ Decode
  PROVE  SlotsImported' /\ HandlesReleased'
<1>1. UNCHANGED <<zeroCopy, held, ext, twice>>
  BY DEF CallStep, Decode, slotVars, Queue, QueueTimesOut, QueueFails, Dequeue,
         DequeueTimesOut, Reclaim, ReclaimFails, Convert, ConvertFails,
         SoftwareDecode, SoftwareFails
<1>2. pc \in {"configure", "closed"} => Decode
  BY DEF CallStep, Queue, QueueTimesOut, QueueFails, Dequeue, DequeueTimesOut,
         Reclaim, ReclaimFails, Convert, ConvertFails, SoftwareDecode, SoftwareFails
<1>3. Decode => pc' = pc
  BY DEF Decode
<1>4. CallStep => pc' \notin {"configure", "closed"}
  BY DEF CallStep, Fail, Queue, QueueTimesOut, QueueFails, Dequeue, DequeueTimesOut,
         Reclaim, ReclaimFails, Convert, ConvertFails, SoftwareDecode, SoftwareFails
<1>5. QED
  BY <1>1, <1>2, <1>3, <1>4 DEF IInv, SlotsImported, HandlesReleased

(* Taking an input task leaves one task less at the port.                  *)
LEMMA TakeInputTakes ==
  ASSUME TypeOK, TakeInput
  PROVE  /\ empty' \in Nat /\ spent' \in Nat
         /\ empty' + spent' + 1 = empty + spent
         /\ empty' + spent' + 1 + Len(work) <= Tasks
         /\ empty + spent + Len(work) = Tasks => empty' + spent' + 1 + Len(work) = Tasks
<1>1. /\ empty \in Nat /\ spent \in Nat /\ Len(work) \in Nat /\ Tasks \in Nat
      /\ empty + spent + Len(work) <= Tasks
  BY DecoderAssumption DEF TypeOK
<1>2. \/ empty > 0 /\ empty' = empty - 1 /\ spent' = spent
      \/ spent > 0 /\ spent' = spent - 1 /\ empty' = empty
  BY DEF TakeInput
<1>3. QED
  BY <1>1, <1>2

LEMMA CallStepIInv ==
  ASSUME IInv, CallStep PROVE IInv'
<1> USE DecoderAssumption DEF IInv
<1> SlotsImported' /\ HandlesReleased'
  BY SlotsUntouched
<1>1. CASE Queue
  <2>1. /\ empty' \in Nat /\ spent' \in Nat
        /\ empty' + spent' + 1 + Len(work) <= Tasks
        /\ empty + spent + Len(work) = Tasks => empty' + spent' + 1 + Len(work) = Tasks
    BY <1>1, TakeInputTakes DEF Queue
  <2>2. /\ lost' \in {lost, lost \cup {"packet"}}
        /\ pc = "packet" /\ pc' = "queued" /\ owned' = FALSE
        /\ work' = Append(work, jpeg)
        /\ UNCHANGED <<zeroCopy, jpeg, packet, output, pixels, attempts, useSw, result,
                       held, ext, twice>>
    BY <1>1 DEF Queue, swVars, slotVars
  <2>3. /\ work' \in Seq(Jpegs)
        /\ empty' + spent' + Len(work') <= Tasks
        /\ empty + spent + Len(work) = Tasks => empty' + spent' + Len(work') = Tasks
    <3>1. work \in Seq(Jpegs) /\ jpeg \in Jpegs
      BY DEF TypeOK
    <3>2. work' \in Seq(Jpegs) /\ Len(work') = Len(work) + 1 /\ Len(work) \in Nat
      BY <2>2, <3>1
    <3>3. empty' + spent' + Len(work') = empty' + spent' + 1 + Len(work)
      BY <2>1, <3>2
    <3>4. QED
      BY <2>1, <3>2, <3>3
  <2>4. lost' \subseteq {"task", "output", "reclaim", "answer", "packet"}
    BY <2>2 DEF TypeOK
  <2>5. \A l \in {"task", "output", "answer"} : l \in lost' <=> l \in lost
    BY <2>2
  <2>6. TypeOK'
    BY <2>1, <2>2, <2>3, <2>4 DEF TypeOK
  <2>7. OneTask'
    <3>1. "answer" \notin lost => work' = <<jpeg>>
      BY <2>2 DEF OneTask, TypeOK
    <3>2. QED
      BY <2>2, <2>5, <3>1 DEF OneTask
  <2>8. TasksAccounted'
    BY <2>1, <2>2, <2>3, <2>5 DEF TasksAccounted, TypeOK
  <2>9. QED
    BY <2>2, <2>5, <2>6, <2>7, <2>8 DEF HardwareCounts, ImageMatches
<1>2. CASE QueueTimesOut \/ QueueFails \/ DequeueTimesOut \/ ConvertFails
  <2>1. /\ Fail /\ ~useSw
        /\ pc \in {"packet", "queued", "frame"}
        /\ UNCHANGED <<zeroCopy, jpeg, packet, work, pixels, held, ext, twice>>
    BY <1>2 DEF QueueTimesOut, QueueFails, DequeueTimesOut, ConvertFails,
                HardwareCounts, portVars, inputVars, slotVars
  <2>2. /\ lost \subseteq lost'
        /\ lost' \subseteq {"task", "output", "reclaim", "answer", "packet"}
        /\ pc = "queued" => "answer" \in lost'
    BY <1>2 DEF QueueTimesOut, QueueFails, DequeueTimesOut, ConvertFails, ReturnOutput,
                TypeOK
  <2>3. /\ empty' \in Nat /\ spent' \in Nat
        /\ empty' + spent' + Len(work) <= Tasks
        /\ "task" \notin lost' => UNCHANGED inputVars
    <3>1. /\ empty \in Nat /\ spent \in Nat /\ Len(work) \in Nat
          /\ empty + spent + Len(work) <= Tasks
      BY DEF TypeOK
    <3>2. CASE QueueFails
      <4>1. TakeInput /\ "task" \in lost'
        BY <3>2 DEF QueueFails
      <4>2. /\ empty' \in Nat /\ spent' \in Nat
            /\ empty' + spent' + 1 + Len(work) <= Tasks
        BY <4>1, TakeInputTakes
      <4>3. empty' + spent' + Len(work) <= Tasks
        BY <3>1, <4>2
      <4>4. QED
        BY <4>1, <4>2, <4>3
    <3>3. CASE QueueTimesOut \/ DequeueTimesOut \/ ConvertFails
      BY <3>1, <3>3 DEF QueueTimesOut, DequeueTimesOut, ConvertFails, portVars, inputVars
    <3>4. QED
      BY <1>2, <3>2, <3>3
  <2>4. owned' = FALSE
    <3>1. owned' = FALSE \/ (pc # "packet" /\ owned' = owned)
      BY <1>2 DEF QueueTimesOut, QueueFails, DequeueTimesOut, ConvertFails
    <3>2. pc # "packet" => owned = FALSE
      BY DEF TypeOK, TasksAccounted
    <3>3. QED
      BY <3>1, <3>2
  <2>5. \/ output' = output /\ pc # "frame"
        \/ output' = "decoder" /\ pc = "frame"
        \/ output' = "nobody" /\ "output" \in lost'
    BY <1>2 DEF QueueTimesOut, QueueFails, DequeueTimesOut, ConvertFails, ReturnOutput,
                portVars
  <2>6. TypeOK'
    <3>1. output' \in {"decoder", "port", "call", "nobody"}
      BY <2>5 DEF TypeOK
    <3>2. QED
      BY <2>1, <2>2, <2>3, <2>4, <3>1, FailKeeps DEF TypeOK
  <2>7. OneTask'
    BY <2>1, <2>2, <2>5, FailKeeps DEF OneTask
  <2>8. TasksAccounted'
    <3>1. pc' \in {"idle", "software"}
      BY <2>1, FailKeeps
    <3>2. output' # "call" /\ ("output" \notin lost' => output' # "nobody")
      BY <2>1, <2>2, <2>5 DEF TasksAccounted
    <3>3. "task" \notin lost' => empty' + spent' + Len(work') = Tasks
      BY <2>1, <2>2, <2>3 DEF TasksAccounted, inputVars
    <3>4. lost' \subseteq {"packet"} => empty' > 0
      BY <2>1, <2>2, <2>3 DEF TasksAccounted, inputVars
    <3>5. QED
      BY <2>4, <3>1, <3>2, <3>3, <3>4 DEF TasksAccounted
  <2>9. HardwareCounts' /\ ImageMatches'
    BY <2>1, <2>2, FailKeeps DEF HardwareCounts, ImageMatches
  <2>10. QED
    BY <2>6, <2>7, <2>8, <2>9
<1>3. CASE Dequeue
  <2>1. TypeOK'
    BY <1>3 DEF Dequeue, TypeOK, inputVars, swVars, slotVars
  <2>2. QED
    BY <1>3, <2>1 DEF Dequeue, HardwareCounts, OneTask, TasksAccounted,
                      ImageMatches, inputVars, swVars, TypeOK
<1>4. CASE Reclaim \/ ReclaimFails
  <2>1. /\ pc = "dequeued" /\ pc' = "frame"
        /\ UNCHANGED <<zeroCopy, jpeg, packet, owned, work, output, pixels, attempts,
                       useSw, result, held, ext, twice>>
    BY <1>4 DEF Reclaim, ReclaimFails, swVars, slotVars
  <2>2. /\ lost \subseteq lost'
        /\ lost' \subseteq {"task", "output", "reclaim", "answer", "packet"}
        /\ \A l \in {"output", "answer"} : l \in lost' <=> l \in lost
    BY <1>4 DEF Reclaim, ReclaimFails, TypeOK
  <2>3. /\ empty' \in Nat /\ spent' \in Nat
        /\ empty' + spent' + Len(work) <= Tasks
        /\ "task" \notin lost' => empty' + spent' = empty + spent
        /\ lost' \subseteq {"packet"} => empty' > 0
    <3>1. /\ empty \in Nat /\ spent \in Nat /\ Len(work) \in Nat
          /\ empty + spent + Len(work) <= Tasks
      BY DEF TypeOK
    <3>2. CASE Reclaim
      BY <3>1, <3>2 DEF Reclaim, inputVars
    <3>3. CASE UNCHANGED inputVars /\ "reclaim" \in lost'
      BY <3>1, <3>3 DEF inputVars
    <3>4. CASE TakeInput /\ "task" \in lost'
      <4>1. /\ empty' \in Nat /\ spent' \in Nat
            /\ empty' + spent' + 1 + Len(work) <= Tasks
        BY <3>4, TakeInputTakes
      <4>2. empty' + spent' + Len(work) <= Tasks
        BY <3>1, <4>1
      <4>3. QED
        BY <3>4, <4>1, <4>2
    <3>5. QED
      BY <1>4, <3>2, <3>3, <3>4 DEF ReclaimFails
  <2>4. TypeOK'
    BY <2>1, <2>2, <2>3 DEF TypeOK
  <2>5. TasksAccounted'
    BY <2>1, <2>2, <2>3 DEF TasksAccounted, TypeOK
  <2>6. QED
    BY <2>1, <2>2, <2>4, <2>5 DEF HardwareCounts, OneTask, ImageMatches
<1>5. CASE Convert
  <2>1. /\ pc = "frame" /\ pc' = "idle" /\ ~useSw /\ ~useSw' /\ attempts' = 0
        /\ UNCHANGED <<zeroCopy, jpeg, packet, owned, empty, spent, work, pixels,
                       useSw, held, ext, twice>>
    BY <1>5 DEF Convert, HardwareCounts, inputVars, slotVars
  <2>2. result' = [ok |-> TRUE, of |-> jpeg, image |-> pixels]
    BY <1>5 DEF Convert
  <2>3. \/ output' = "decoder" /\ lost' = lost
        \/ output' = "nobody" /\ lost' = lost \cup {"output"}
    BY <1>5 DEF Convert, ReturnOutput
  <2>4. /\ lost' \subseteq {"task", "output", "reclaim", "answer", "packet"}
        /\ lost \subseteq lost' /\ ("answer" \in lost' <=> "answer" \in lost)
    BY <2>3 DEF TypeOK
  <2>5. TypeOK'
    BY <2>1, <2>2, <2>3, <2>4 DEF TypeOK, kMaxMppHwAttempts
  <2>6. TasksAccounted'
    BY <2>1, <2>3, <2>4 DEF TasksAccounted
  <2>7. QED
    BY <2>1, <2>2, <2>3, <2>4, <2>5, <2>6 DEF HardwareCounts, OneTask, ImageMatches
<1>6. CASE SoftwareDecode \/ SoftwareFails
  <2>1. /\ pc = "software" /\ pc' = "idle" /\ useSw
        /\ UNCHANGED <<zeroCopy, jpeg, packet, owned, empty, spent, work, output, pixels,
                       attempts, useSw, held, ext, twice, lost>>
    BY <1>6 DEF SoftwareDecode, SoftwareFails, HardwareCounts, portVars, inputVars, swVars, slotVars
  <2>2. \/ result' = [ok |-> TRUE, of |-> jpeg, image |-> jpeg]
        \/ result' = [result EXCEPT !.ok = FALSE]
    BY <1>6 DEF SoftwareDecode, SoftwareFails
  <2>3. /\ result' \in [ok : BOOLEAN, of : Jpegs, image : Images]
        /\ result'.ok => result'.image = result'.of
    <3>1. result \in [ok : BOOLEAN, of : Jpegs, image : Images] /\ jpeg \in Images
      BY DEF TypeOK, Images
    <3>2. CASE result' = [ok |-> TRUE, of |-> jpeg, image |-> jpeg]
      BY <3>1, <3>2 DEF TypeOK
    <3>3. CASE result' = [result EXCEPT !.ok = FALSE]
      BY <3>1, <3>3
    <3>4. QED
      BY <2>2, <3>2, <3>3
  <2>4. TypeOK'
    BY <2>1, <2>3 DEF TypeOK
  <2>5. QED
    BY <2>1, <2>3, <2>4 DEF HardwareCounts, OneTask, TasksAccounted, ImageMatches
<1>7. QED
  BY <1>1, <1>2, <1>3, <1>4, <1>5, <1>6 DEF CallStep

LEMMA DecodeIInv ==
  ASSUME IInv, Decode PROVE IInv'
<1> USE DecoderAssumption DEF IInv
<1>1. SlotsImported' /\ HandlesReleased'
  BY SlotsUntouched
<1>2. /\ work \in Seq(Jpegs) /\ work # <<>>
      /\ Head(work) \in Jpegs /\ Tail(work) \in Seq(Jpegs)
      /\ Len(Tail(work)) = Len(work) - 1 /\ Len(work) \in Nat
  BY DEF Decode, TypeOK
<1>3. pixels' \in Images
  BY <1>2 DEF Decode, Decoded, Images, TypeOK
<1>4. TypeOK'
  BY <1>2, <1>3 DEF Decode, TypeOK, swVars, slotVars
<1>5. OneTask'
  <2>1. ASSUME "answer" \notin lost
        PROVE  pc = "queued" /\ work = <<jpeg>> /\ packet = jpeg
    BY <2>1, <1>2 DEF OneTask, Decode
  <2>2. ASSUME "answer" \notin lost
        PROVE  work' = <<>> /\ pixels' = jpeg
    <3>1. work = <<jpeg>> /\ packet = jpeg
      BY <2>1, <2>2
    <3>2. Head(work) = jpeg /\ Tail(work) = <<>>
      BY <3>1
    <3>3. Decoded(jpeg) = {jpeg}
      BY <2>2, <3>1 DEF Decoded
    <3>4. QED
      BY <3>2, <3>3 DEF Decode
  <2>3. QED
    BY <2>1, <2>2 DEF OneTask, Decode
<1>6. TasksAccounted'
  BY <1>2 DEF Decode, TasksAccounted, TypeOK
<1>7. QED
  BY <1>1, <1>4, <1>5, <1>6 DEF Decode, HardwareCounts, ImageMatches, swVars

LEMMA StopIInv ==
  ASSUME IInv, Stop PROVE IInv'
<1>1. twice' \in BOOLEAN
  BY Zenon DEF Stop
<1>2. TypeOK'
  <2>1. pc' = "closed" /\ held' = {} /\ ext' = 0 /\ UNCHANGED callVars
    BY DEF Stop
  <2>2. 0 \in 0 .. Slots
    BY DecoderAssumption
  <2>3. QED
    BY <1>1, <2>1, <2>2 DEF IInv, TypeOK, callVars, portVars, inputVars, swVars
<1>3. QED
  BY <1>2 DEF Stop, IInv, HardwareCounts, OneTask, TasksAccounted, SlotsImported,
              ImageMatches, HandlesReleased, callVars, portVars, inputVars, swVars

LEMMA NextIInv ==
  ASSUME IInv, [Next]_vars PROVE IInv'
<1>1. CASE Next
  BY <1>1, SetupIInv, CallIInv, CallStepIInv, DecodeIInv, StopIInv DEF Next
<1>2. CASE UNCHANGED vars
  BY <1>2 DEF IInv, TypeOK, HardwareCounts, OneTask, TasksAccounted, SlotsImported,
              ImageMatches, HandlesReleased, vars, portVars, inputVars, swVars, slotVars
<1>3. QED
  BY <1>1, <1>2

LEMMA IInvHolds == Spec => []IInv
  BY InitIInv, NextIInv, PTL DEF Spec

(* As long as no answer was given up, a call returns the image of the JPEG *)
(* it was given.                                                           *)
THEOREM ReturnsItsImage == Spec => []ImageMatches
<1>1. IInv => ImageMatches
  BY DEF IInv
<1>2. QED
  BY <1>1, IInvHolds, PTL

(* As long as no call that takes or gives back a task has failed, every    *)
(* way out of a call leaves the tasks where the next call finds them, and  *)
(* no packet but in a task that waits at the input port; one task at least *)
(* has none.                                                               *)
THEOREM LeavesNoTask == Spec => []TasksKept
<1>1. IInv => TasksKept
  <2>1. SUFFICES ASSUME IInv, pc = "idle", lost \subseteq {"packet"}
                 PROVE  /\ empty + spent = Tasks /\ empty > 0 /\ work = <<>>
                        /\ output = "decoder" /\ ~owned
    BY DEF TasksKept
  <2>2. work = <<>> /\ output = "decoder"
    BY <2>1 DEF IInv, OneTask, TasksAccounted, TypeOK
  <2>3. empty + spent = Tasks
    BY <2>1, <2>2 DEF IInv, TasksAccounted, TypeOK
  <2>4. QED
    BY <2>1, <2>2, <2>3 DEF IInv, TasksAccounted
<1>2. QED
  BY <1>1, IInvHolds, PTL

(* No handle of a slot is left behind, whichever step of the configuration *)
(* failed, nor released before the end.                                    *)
THEOREM LosesNoHandle == Spec => []HandlesReleased
<1>1. IInv => HandlesReleased
  BY DEF IInv
<1>2. QED
  BY <1>1, IInvHolds, PTL

(* The type invariant.                                                     *)
THEOREM DecoderTypes == Spec => []TypeOK
<1>1. IInv => TypeOK
  BY DEF IInv
<1>2. QED
  BY <1>1, IInvHolds, PTL
=============================================================================
