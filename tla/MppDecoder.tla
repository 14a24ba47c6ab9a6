------------------------------ MODULE MppDecoder ------------------------------
(***************************************************************************)
(* The JPEG decoder of the perception process (adapters/common/perception, *)
(* MppRgaPipeline::decodeAndConvert): a JPEG is handed to the decoder of   *)
(* the SoC as a task, its image is waited for and converted to RGB; after  *)
(* three failures in a row OpenCV is used instead.  It is called by the    *)
(* zero-copy runtime, which has the image written into one of its slots    *)
(* and gives no rgb_out, and by MppCameraSource, which gives one.          *)
(*                                                                         *)
(* The decoder (MPP) is external.  It works on its own, any call of it may *)
(* fail, and it may answer after the 500 ms for which it is waited for.  A *)
(* task whose dequeue or enqueue fails may be nobody's from then on; the   *)
(* code looks at none of the results of the enqueues that give tasks back. *)
(* A JPEG is its number, counted modulo Numbers, as is its image.          *)
(***************************************************************************)
EXTENDS Integers, Sequences, FiniteSets

CONSTANTS
  Tasks,     (* the input tasks the decoder has                            *)
  Slots,     (* the zero-copy slots are 1 .. Slots                         *)
  Numbers    (* bound: JPEGs this many calls apart are not told apart      *)

ASSUME DecoderAssumption ==
  /\ Tasks \in Nat \ {0} /\ Slots \in Nat \ {0}
  /\ Numbers \in Nat /\ Numbers >= 3

kMaxMppHwAttempts == 3

Jpegs  == 0 .. Numbers - 1
Mixed  == -1        (* parts of several images, or of none                 *)
Images == Jpegs \cup {Mixed}

VARIABLES
  zeroCopy,  (* which of the two callers it is                             *)
  pc,        (* where the call is, or the set-up and the end around it     *)
  jpeg,      (* the JPEG of this call                                      *)
  packet,    (* what pkt_mpp_buf_ holds                                    *)
  owned,     (* has the call a packet that no task carries?                *)
  empty,     (* input tasks that can be dequeued and carry no packet       *)
  spent,     (* input tasks that can be dequeued and still carry the       *)
             (* packet of a JPEG the decoder has done with                 *)
  work,      (* the JPEGs of the tasks the decoder has                     *)
  output,    (* who has the output task: the decoder, the output port with *)
             (* an answer, the call, or nobody                             *)
  pixels,    (* what dec_frm_buf_ holds                                    *)
  attempts,  (* mpp_hw_attempts_                                           *)
  useSw,     (* use_sw_decode_                                             *)
  result,    (* of the last call: did it succeed, for which JPEG, with     *)
             (* which image?                                               *)
  held,      (* the slots whose RGA handle is imported and not released    *)
  ext,       (* the slot of ext_dst_rga_handle_, 0 for none                *)
  twice,     (* history: a handle was released a second time               *)
  lost       (* history, what went wrong so far: an input task or the      *)
             (* output task is nobody's, a reclaim left its task where it  *)
             (* was, an answer was given up while the decoder had the      *)
             (* task, a task was given a second packet over its first      *)

inputVars == <<empty, spent>>
portVars == <<inputVars, work, output, pixels>>
slotVars == <<held, ext, twice>>
swVars   == <<attempts, useSw>>
vars == <<zeroCopy, pc, jpeg, packet, owned, portVars, swVars, result, slotVars, lost>>

TypeOK ==
  /\ zeroCopy \in BOOLEAN /\ owned \in BOOLEAN
  /\ useSw \in BOOLEAN /\ twice \in BOOLEAN
  /\ pc \in {"configure", "idle", "packet", "queued", "dequeued", "frame",
             "software", "closed"}
  /\ jpeg \in Jpegs /\ packet \in Jpegs
  /\ empty \in Nat /\ spent \in Nat /\ work \in Seq(Jpegs)
  /\ empty + spent + Len(work) <= Tasks
  /\ output \in {"decoder", "port", "call", "nobody"}
  /\ pixels \in Images
  /\ attempts \in 0 .. kMaxMppHwAttempts
  /\ useSw <=> attempts = kMaxMppHwAttempts
  /\ result \in [ok : BOOLEAN, of : Jpegs, image : Images]
  /\ held \subseteq 1 .. Slots /\ ext \in 0 .. Slots
  /\ lost \subseteq {"task", "output", "reclaim", "answer", "packet"}

(* init() has run; only the zero-copy caller configures slots.             *)
Init ==
  /\ zeroCopy \in BOOLEAN
  /\ pc = IF zeroCopy THEN "configure" ELSE "idle"
  /\ jpeg = 0 /\ packet = 0 /\ owned = FALSE
  /\ empty = Tasks /\ spent = 0 /\ work = <<>>
  /\ output = "decoder" /\ pixels = Mixed
  /\ attempts = 0 /\ useSw = FALSE
  /\ result = [ok |-> FALSE, of |-> 0, image |-> Mixed]
  /\ held = {} /\ ext = 0 /\ twice = FALSE
  /\ lost = {}

----------------------------------------------------------------------------
(* Configuring the slots, and the end                                      *)

callVars == <<zeroCopy, jpeg, packet, owned, portVars, swVars, result, lost>>

(* Mutation: its own is forgotten.                                         *)
ReleasedMapped == held

(* The handles released when a slot cannot be mapped: of every slot before *)
(* it, and its own.                                                        *)
ReleasedOnMapFailure == held \cup {Cardinality(held) + 1}

(* configureZeroCopySlots, one slot at a time: the handle of the next slot *)
(* is imported (the first one by setExternalDstDma) and it is mapped; an   *)
(* mmap that fails is an error only if the image has an offset.            *)
ConfigureSlot ==
  /\ pc = "configure"
  /\ LET next == Cardinality(held) + 1
     IN /\ held' = held \cup {next}
        /\ ext' = 1
        /\ pc' = IF next = Slots THEN "idle" ELSE pc
  /\ UNCHANGED <<callVars, twice>>

(* The handle of the next slot cannot be imported.                         *)
ConfigureImportFails ==
  /\ pc = "configure"
  /\ pc' = "closed" /\ held' = {} /\ ext' = 0
  /\ UNCHANGED <<callVars, twice>>

(* It was imported, but the slot cannot be mapped.                         *)
ConfigureMapFails ==
  /\ pc = "configure"
  /\ pc' = "closed" /\ ext' = 0
  /\ held' = (held \cup {Cardinality(held) + 1}) \ ReleasedOnMapFailure
  /\ UNCHANGED <<callVars, twice>>

(* stop of the caller: the slots' handles are released, then destroy()     *)
(* releases the one the decoder last wrote to.                             *)
Stop ==
  /\ pc = "idle"
  /\ pc' = "closed" /\ held' = {} /\ ext' = 0
  /\ twice' = (twice \/ ext # 0)
  /\ UNCHANGED callVars

----------------------------------------------------------------------------
(* A call                                                                  *)

(* Mutation: a failure starts the count anew.                              *)
FailForgets ==
  /\ attempts' = 0 /\ pc' = "idle"
  /\ result' = [result EXCEPT !.ok = FALSE]
  /\ UNCHANGED useSw

(* hw_failed: the third failure in a row turns to OpenCV, which is given   *)
(* the same JPEG.                                                          *)
Fail ==
  /\ attempts' = attempts + 1
  /\ IF attempts' >= kMaxMppHwAttempts
       THEN useSw' = TRUE /\ pc' = "software" /\ UNCHANGED result
       ELSE pc' = "idle" /\ result' = [result EXCEPT !.ok = FALSE] /\ UNCHANGED useSw

(* The caller passes the next JPEG, after switching to a slot it has       *)
(* leased; the JPEG is copied into the packet's buffer.                    *)
Call ==
  /\ pc = "idle"
  /\ jpeg' = (jpeg + 1) % Numbers
  /\ IF zeroCopy THEN ext' \in 1 .. Slots ELSE ext' = ext
  /\ IF useSw
       THEN pc' = "software" /\ UNCHANGED <<packet, owned>>
       ELSE pc' = "packet" /\ packet' = jpeg' /\ owned' = TRUE
  /\ UNCHANGED <<zeroCopy, portVars, swVars, result, held, twice, lost>>

(* The JPEG is too large for the buffer, or the packet cannot be made.     *)
CallFails ==
  /\ pc = "idle" /\ ~useSw
  /\ jpeg' = (jpeg + 1) % Numbers
  /\ IF zeroCopy THEN ext' \in 1 .. Slots ELSE ext' = ext
  /\ packet' \in {packet, jpeg'}
  /\ Fail
  /\ UNCHANGED <<zeroCopy, owned, portVars, held, twice, lost>>

(* An input task is dequeued, whichever the port has, and goes elsewhere.  *)
TakeInput ==
  \/ empty > 0 /\ empty' = empty - 1 /\ UNCHANGED spent
  \/ spent > 0 /\ spent' = spent - 1 /\ UNCHANGED empty

(* An input task is waited for, dequeued, given the packet over any it     *)
(* still carries, and enqueued.                                            *)
Queue ==
  /\ pc = "packet"
  /\ TakeInput
  /\ lost' = IF spent' = spent THEN lost ELSE lost \cup {"packet"}
  /\ owned' = FALSE
  /\ work' = Append(work, jpeg)
  /\ pc' = "queued"
  /\ UNCHANGED <<zeroCopy, jpeg, packet, output, pixels, swVars, result, slotVars>>

(* None comes in 500 ms, or it cannot be dequeued and stays.               *)
QueueTimesOut ==
  /\ pc = "packet"
  /\ owned' = FALSE
  /\ Fail
  /\ UNCHANGED <<zeroCopy, jpeg, packet, portVars, slotVars, lost>>

(* Its dequeue or its enqueue fails, and it is nobody's.                   *)
QueueFails ==
  /\ pc = "packet"
  /\ TakeInput
  /\ lost' = lost \cup {"task"}
  /\ owned' = FALSE
  /\ Fail
  /\ UNCHANGED <<zeroCopy, jpeg, packet, work, output, pixels, slotVars>>

(* Mutation: the result of poll is not looked at.                          *)
DequeueUnpolled ==
  /\ pc = "queued"
  /\ output' = "call"
  /\ pc' = "dequeued"
  /\ UNCHANGED <<zeroCopy, jpeg, packet, owned, inputVars, work, pixels, swVars,
                 result, slotVars, lost>>

(* The answer is there and is dequeued.                                    *)
Dequeue ==
  /\ pc = "queued" /\ output = "port"
  /\ output' = "call"
  /\ pc' = "dequeued"
  /\ UNCHANGED <<zeroCopy, jpeg, packet, owned, inputVars, work, pixels, swVars,
                 result, slotVars, lost>>

(* It is not there after 500 ms, or cannot be dequeued: the packet is      *)
(* freed although the decoder has it, and the answer stays where it is, or *)
(* its task is nobody's.                                                   *)
DequeueTimesOut ==
  /\ pc = "queued"
  /\ \/ UNCHANGED output /\ lost' = lost \cup {"answer"}
     \/ /\ output = "port" /\ output' = "nobody"
        /\ lost' = lost \cup {"answer", "output"}
  /\ Fail
  /\ UNCHANGED <<zeroCopy, jpeg, packet, owned, inputVars, work, pixels, slotVars>>

(* Mutation: it is not enqueued again.                                     *)
ReclaimKeeping ==
  /\ pc = "dequeued"
  /\ TakeInput
  /\ pc' = "frame"
  /\ UNCHANGED <<zeroCopy, jpeg, packet, owned, work, output, pixels, swVars, result,
                 slotVars, lost>>

(* An input task is taken back, not necessarily the one of this call, its  *)
(* packet, if it has one, is deinitialised, and it is enqueued again.      *)
Reclaim ==
  /\ pc = "dequeued"
  /\ \/ empty > 0 /\ UNCHANGED inputVars
     \/ spent > 0 /\ spent' = spent - 1 /\ empty' = empty + 1
  /\ pc' = "frame"
  /\ UNCHANGED <<zeroCopy, jpeg, packet, owned, work, output, pixels, swVars, result,
                 slotVars, lost>>

(* It cannot be dequeued, which is only logged, and stays, or it is        *)
(* nobody's; or it was, and cannot be enqueued, which nothing looks at.    *)
ReclaimFails ==
  /\ pc = "dequeued"
  /\ \/ UNCHANGED inputVars /\ lost' = lost \cup {"reclaim"}
     \/ TakeInput /\ lost' = lost \cup {"task"}
  /\ pc' = "frame"
  /\ UNCHANGED <<zeroCopy, jpeg, packet, owned, work, output, pixels, swVars, result,
                 slotVars>>

(* The output task is enqueued again, and nothing looks at the result.     *)
ReturnOutput ==
  \/ output' = "decoder" /\ UNCHANGED lost
  \/ output' = "nobody" /\ lost' = lost \cup {"output"}

(* The image is converted and the output task returned.                    *)
Convert ==
  /\ pc = "frame"
  /\ result' = [ok |-> TRUE, of |-> jpeg, image |-> pixels]
  /\ ReturnOutput
  /\ attempts' = 0
  /\ pc' = "idle"
  /\ UNCHANGED <<zeroCopy, jpeg, packet, owned, inputVars, work, pixels, useSw,
                 slotVars>>

(* There is no frame, its geometry is wrong, or neither RGA nor, given an  *)
(* rgb_out, the CPU converts it; the output task is returned.              *)
ConvertFails ==
  /\ pc = "frame"
  /\ ReturnOutput
  /\ Fail
  /\ UNCHANGED <<zeroCopy, jpeg, packet, owned, inputVars, work, pixels, slotVars>>

(* OpenCV decodes into rgb_out.                                            *)
SoftwareDecode ==
  /\ pc = "software" /\ ~zeroCopy
  /\ result' = [ok |-> TRUE, of |-> jpeg, image |-> jpeg]
  /\ pc' = "idle"
  /\ UNCHANGED <<zeroCopy, jpeg, packet, owned, portVars, swVars, slotVars, lost>>

(* There is no rgb_out, or the JPEG is broken or too large.                *)
SoftwareFails ==
  /\ pc = "software"
  /\ result' = [result EXCEPT !.ok = FALSE]
  /\ pc' = "idle"
  /\ UNCHANGED <<zeroCopy, jpeg, packet, owned, portVars, swVars, slotVars, lost>>

----------------------------------------------------------------------------
(* The decoder itself                                                      *)

(* What it makes of the task's packet.  All packets share one buffer: a    *)
(* task that a call has left behind may be decoded from the JPEG of a      *)
(* later call, or from parts of both, and its own packet is freed.         *)
Decoded(of) ==
  IF packet = of /\ "answer" \notin lost THEN {of} ELSE {of, packet, Mixed}

(* A task is decoded into the one output frame, as soon as the decoder has *)
(* the output task, and both tasks are handed back, the input task with    *)
(* its packet.                                                             *)
Decode ==
  /\ work # <<>> /\ output = "decoder"
  /\ pixels' \in Decoded(Head(work))
  /\ work' = Tail(work)
  /\ spent' = spent + 1
  /\ output' = "port"
  /\ UNCHANGED <<zeroCopy, pc, jpeg, packet, owned, empty, swVars, result, slotVars,
                 lost>>

Setup == ConfigureSlot \/ ConfigureImportFails \/ ConfigureMapFails

CallStep ==
  \/ Queue \/ QueueTimesOut \/ QueueFails
  \/ Dequeue \/ DequeueTimesOut
  \/ Reclaim \/ ReclaimFails
  \/ Convert \/ ConvertFails
  \/ SoftwareDecode \/ SoftwareFails

Next == Setup \/ Call \/ CallFails \/ CallStep \/ Decode \/ Stop

Spec == Init /\ [][Next]_vars

(* The caller goes on calling, a call goes on, and OpenCV does not fail    *)
(* for ever.  Nothing is assumed of the decoder.                           *)
FairSpec ==
  Spec /\ WF_vars(Setup) /\ WF_vars(Call \/ CallFails) /\ WF_vars(CallStep)
       /\ SF_vars(SoftwareDecode)

----------------------------------------------------------------------------
(* Properties                                                              *)

(* As long as no answer was given up while the decoder had the task, the   *)
(* image a call returns is the one of the JPEG it was given: the answer    *)
(* read at the output port (steps 6 to 9) is that of the task queued in    *)
(* step 5, and nothing overwrites packet buffer or frame in between.       *)
ImageMatches == "answer" \notin lost /\ result.ok => result.image = result.of

(* "Without reclaim + re-enqueue, the next poll(INPUT) will block/timeout  *)
(* because the MPP task pool is exhausted."  As long as no call of the     *)
(* decoder that takes or gives back a task has failed, every way out of a  *)
(* call leaves all tasks where the next call finds them: the input tasks   *)
(* at their port, one at least without a packet, the output task with the  *)
(* decoder, and no packet of its own.  When the pool has one task that     *)
(* means that no packet is left at all.                                    *)
TasksKept ==
  pc = "idle" /\ lost \subseteq {"packet"} =>
    /\ empty + spent = Tasks /\ empty > 0 /\ work = <<>>
    /\ output = "decoder"
    /\ ~owned

(* No RGA handle is left behind, however far the configuration of the      *)
(* slots came before it failed; and as long as the runtime runs no handle  *)
(* in use has been released twice.                                         *)
HandlesReleased ==
  /\ pc = "closed" => held = {}
  /\ pc # "closed" => ~twice
  /\ pc \notin {"configure", "closed"} /\ zeroCopy => held = 1 .. Slots /\ ext \in held

(* MppCameraSource goes on getting images until it stops, even if every    *)
(* call of the decoder fails from some time on.                            *)
FramesKeepComing ==
  ~zeroCopy => []<>(pc = "closed" \/ (pc = "idle" /\ result.ok /\ result.of = jpeg))

----------------------------------------------------------------------------
(* Claims the code does not keep                                           *)

(* ImageMatches without its condition: after one late answer every later   *)
(* call reads the answer of the call before it.                            *)
AlwaysMatches == result.ok => result.image = result.of

(* TasksKept without its condition: tasks whose calls fail are lost.       *)
TasksAlwaysKept == pc = "idle" /\ ~useSw => empty + spent + Len(work) = Tasks

(* "Reclaim input task and release packet": when the pool has several      *)
(* tasks, the one taken back may be another than the one of this call, and *)
(* this one keeps its packet until it is given the next.                   *)
PacketsReleased == lost = {} /\ pc = "idle" => spent = 0

(* "HW decode failed %d times - switching to OpenCV software decode": the  *)
(* zero-copy runtime gives no rgb_out, so that no frame comes any more.    *)
FallbackDecodes == [](useSw => <>(pc = "closed" \/ (pc = "idle" /\ result.ok)))

(* "The caller owns the returned handle and must call                      *)
(* releaseExternalBuffer()": stop does, and destroy() releases the last    *)
(* one again.                                                              *)
HandlesReleasedOnce == ~twice

=============================================================================
