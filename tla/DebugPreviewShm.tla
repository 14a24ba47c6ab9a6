--------------------------- MODULE DebugPreviewShm ---------------------------
(***************************************************************************)
(* The shared memory through which bf_flight hands preview images to       *)
(* bf_debugd (adapters/common/ipc, debug_preview_shm): a ring of image     *)
(* slots behind a header whose seq is stored last.  The reader accepts     *)
(* what it copied when seq did not change meanwhile.  No lock is shared.   *)
(*                                                                         *)
(* An image and its overlay are each abstracted to the number of the frame *)
(* they show; a slot that is being rewritten shows frame 0.  Stores and    *)
(* loads take effect in program order.                                     *)
(***************************************************************************)
EXTENDS Naturals

CONSTANTS
  SlotCount,     (* DebugPreviewWriterConfig.slot_count, 3 by default      *)
  MaxFrames,     (* bound: frames published over all lives of the writer   *)
  MaxRestarts    (* bound: how often the writer process is started again   *)

(* With one slot the writer would overwrite the image being read while seq *)
(* still has the value the reader saw.                                     *)
ASSUME PreviewAssumption ==
  /\ SlotCount \in Nat /\ SlotCount >= 2
  /\ MaxFrames \in Nat /\ MaxRestarts \in Nat

Slots == 0 .. SlotCount - 1
Torn  == 0

VARIABLES
  seq, index, stamp, geometry, (* the header: seq, write_index, stamp_ns, *)
                               (* and whether width and height are set    *)
  pixels, overlay,   (* what each slot shows                              *)
  wpc, wseq,         (* the writer: where it is in publish, its own seq_  *)
  frames,            (* frames the writer has begun to publish            *)
  newest,            (* the frame of the last store to seq                *)
  restarts,
  rpc,               (* the reader: where it is                           *)
  rseq, rindex, rstamp, rpixels, roverlay, (* what it has read            *)
  lastSeq,           (* last_seq_                                         *)
  shown              (* the last frame it returned                        *)

header      == <<seq, index, stamp, geometry>>
slotVars    == <<pixels, overlay>>
writerVars  == <<wpc, wseq, frames, newest, restarts>>
readerVars  == <<rpc, rseq, rindex, rstamp, rpixels, roverlay,
                 lastSeq, shown>>
vars == <<header, slotVars, writerVars, readerVars>>

TypeOK ==
  /\ seq \in Nat /\ index \in Slots /\ stamp \in Nat /\ geometry \in BOOLEAN
  /\ pixels \in [Slots -> Nat] /\ overlay \in [Slots -> Nat]
  /\ wpc \in {"idle", "pixels", "overlay", "geometry", "index", "stamp", "seq"}
  /\ wseq \in Nat /\ frames \in Nat /\ newest \in Nat /\ restarts \in Nat
  /\ rpc \in {"idle", "index", "stamp", "pixels", "overlay", "check"}
  /\ rseq \in Nat /\ rindex \in Slots /\ rstamp \in Nat
  /\ rpixels \in Nat /\ roverlay \in Nat
  /\ lastSeq \in Nat
  /\ shown \in [seq : Nat, stamp : Nat, pixels : Nat, overlay : Nat]

(* The writer has just opened the memory: a zeroed header.                 *)
Init ==
  /\ seq = 0 /\ index = 0 /\ stamp = 0 /\ geometry = FALSE
  /\ pixels = [s \in Slots |-> Torn] /\ overlay = [s \in Slots |-> Torn]
  /\ wpc = "idle" /\ wseq = 0 /\ frames = 0 /\ newest = 0 /\ restarts = 0
  /\ rpc = "idle"
  /\ rseq = 0 /\ rindex = 0 /\ rstamp = 0 /\ rpixels = Torn /\ roverlay = Torn
  /\ lastSeq = 0
  /\ shown = [seq |-> 0, stamp |-> 0, pixels |-> 0, overlay |-> 0]

(***************************************************************************)
(* publishWithOverlay, one store at a time.                                *)
(***************************************************************************)
(* Mutation: the ring is not used.                                         *)
WriteSlotFirst == 0
WriteSlot == wseq % SlotCount

WriterGoes(from, to) == wpc = from /\ wpc' = to

PublishClears ==
  /\ WriterGoes("idle", "pixels")
  /\ frames < MaxFrames
  /\ frames' = frames + 1
  /\ pixels' = [pixels EXCEPT ![WriteSlot] = Torn]
  /\ overlay' = [overlay EXCEPT ![WriteSlot] = Torn]
  /\ UNCHANGED <<header, wseq, newest, restarts, readerVars>>

PublishPixels ==
  /\ WriterGoes("pixels", "overlay")
  /\ pixels' = [pixels EXCEPT ![WriteSlot] = frames]
  /\ UNCHANGED <<header, overlay, wseq, frames, newest, restarts, readerVars>>

PublishOverlay ==
  /\ WriterGoes("overlay", "geometry")
  /\ overlay' = [overlay EXCEPT ![WriteSlot] = frames]
  /\ UNCHANGED <<header, pixels, wseq, frames, newest, restarts, readerVars>>

PublishGeometry ==
  /\ WriterGoes("geometry", "index")
  /\ geometry' = TRUE
  /\ UNCHANGED <<seq, index, stamp, slotVars, wseq, frames, newest, restarts, readerVars>>

PublishIndex ==
  /\ WriterGoes("index", "stamp")
  /\ index' = WriteSlot
  /\ UNCHANGED <<seq, stamp, geometry, slotVars, wseq, frames, newest, restarts, readerVars>>

PublishStamp ==
  /\ WriterGoes("stamp", "seq")
  /\ stamp' = frames
  /\ UNCHANGED <<seq, index, geometry, slotVars, wseq, frames, newest, restarts, readerVars>>

(* Mutation: the count is stored before it is incremented.                 *)
PublishOldSeq ==
  /\ WriterGoes("seq", "idle")
  /\ wseq' = wseq + 1
  /\ seq' = wseq
  /\ newest' = frames
  /\ UNCHANGED <<index, stamp, geometry, slotVars, frames, restarts, readerVars>>

PublishSeq ==
  /\ WriterGoes("seq", "idle")
  /\ wseq' = wseq + 1
  /\ seq' = wseq + 1
  /\ newest' = frames
  /\ UNCHANGED <<index, stamp, geometry, slotVars, frames, restarts, readerVars>>

(***************************************************************************)
(* bf_flight dies anywhere in publish and is started again; open() zeroes  *)
(* the header the reader still has mapped and counts from 0.  Starting the *)
(* process takes seconds and a read milliseconds, so the reader is between *)
(* two reads.                                                              *)
(***************************************************************************)
WriterRestarts ==
  /\ restarts < MaxRestarts
  /\ rpc = "idle"
  /\ restarts' = restarts + 1
  /\ seq' = 0 /\ index' = 0 /\ stamp' = 0 /\ geometry' = FALSE
  /\ wpc' = "idle" /\ wseq' = 0
  /\ UNCHANGED <<slotVars, frames, newest, readerVars>>

(***************************************************************************)
(* readLatestWithOverlay.                                                  *)
(***************************************************************************)
ReaderGoes(from, to) == rpc = from /\ rpc' = to

(* Forgets the old count when the writer's is smaller.                     *)
Known == IF seq < lastSeq THEN 0 ELSE lastSeq

(* Nothing was published yet, or nothing since the last call.              *)
ReadNothing ==
  /\ rpc = "idle"
  /\ seq = 0 \/ seq = Known
  /\ lastSeq' = IF seq = 0 THEN 0 ELSE Known
  /\ UNCHANGED <<header, slotVars, writerVars, rpc, rseq, rindex,
                 rstamp, rpixels, roverlay, shown>>

ReadSeq ==
  /\ ReaderGoes("idle", "index")
  /\ seq # 0 /\ seq # Known
  /\ lastSeq' = Known
  /\ rseq' = seq
  /\ UNCHANGED <<header, slotVars, writerVars, rindex, rstamp,
                 rpixels, roverlay, shown>>

ReadIndex ==
  /\ ReaderGoes("index", "stamp")
  /\ rindex' = index
  /\ UNCHANGED <<header, slotVars, writerVars, rseq, rstamp,
                 rpixels, roverlay, lastSeq, shown>>

(* The header fields are checked before anything is copied.                *)
ReadStamp ==
  /\ rpc = "stamp"
  /\ rstamp' = stamp
  /\ rpc' = IF geometry THEN "pixels" ELSE "idle"
  /\ UNCHANGED <<header, slotVars, writerVars, rseq, rindex, rpixels, roverlay,
                 lastSeq, shown>>

ReadPixels ==
  /\ ReaderGoes("pixels", "overlay")
  /\ rpixels' = pixels[rindex]
  /\ UNCHANGED <<header, slotVars, writerVars, rseq, rindex, rstamp,
                 roverlay, lastSeq, shown>>

ReadOverlay ==
  /\ ReaderGoes("overlay", "check")
  /\ roverlay' = overlay[rindex]
  /\ UNCHANGED <<header, slotVars, writerVars, rseq, rindex, rstamp,
                 rpixels, lastSeq, shown>>

(* Mutation: seq is not looked at again.                                   *)
ReadUnchecked ==
  /\ ReaderGoes("check", "idle")
  /\ shown' = [seq |-> rseq, stamp |-> rstamp, pixels |-> rpixels, overlay |-> roverlay]
  /\ lastSeq' = rseq
  /\ UNCHANGED <<header, slotVars, writerVars, rseq, rindex, rstamp, rpixels, roverlay>>

ReadAccepts ==
  /\ ReaderGoes("check", "idle")
  /\ seq = rseq
  /\ shown' = [seq |-> rseq, stamp |-> rstamp, pixels |-> rpixels, overlay |-> roverlay]
  /\ lastSeq' = rseq
  /\ UNCHANGED <<header, slotVars, writerVars, rseq, rindex, rstamp, rpixels, roverlay>>

(* seq moved: try again, from the top of the loop; the eighth time the     *)
(* call returns and the next call starts there as well.                    *)
ReadRetries ==
  /\ ReaderGoes("check", "idle")
  /\ seq # rseq
  /\ UNCHANGED <<header, slotVars, writerVars, rseq, rindex, rstamp, rpixels,
                 roverlay, lastSeq, shown>>

Publish ==
  \/ PublishClears \/ PublishPixels \/ PublishOverlay \/ PublishGeometry
  \/ PublishIndex \/ PublishStamp \/ PublishSeq

Read ==
  \/ ReadNothing \/ ReadSeq \/ ReadIndex \/ ReadStamp \/ ReadPixels
  \/ ReadOverlay \/ ReadAccepts \/ ReadRetries

Next == Publish \/ WriterRestarts \/ Read

Spec == Init /\ [][Next]_vars

(* Both loops keep running; nothing makes the camera deliver a new frame,  *)
(* but a publish that was begun is finished.                               *)
FairSpec ==
  /\ Spec
  /\ WF_vars(Publish /\ wpc # "idle")
  /\ WF_vars(Read)

-----------------------------------------------------------------------------
(* A frame that is returned was complete, and image and overlay belong     *)
(* together, although the writer never waits for the reader.               *)
NoTornFrame ==
  shown.seq # 0 => shown.pixels # Torn /\ shown.overlay = shown.pixels

(* The header is updated field by field before seq, so a reader may get    *)
(* the image, or the stamp, or both, of the next frame under the number of *)
(* the previous one, but never of another frame (in the first life of the  *)
(* writer, where the frame's number is its seq).                           *)
LabelOffByAtMostOne ==
  restarts = 0 /\ shown.seq # 0 =>
    {shown.pixels, shown.stamp} \subseteq {shown.seq, shown.seq + 1}

(* The preview never goes back to an older image, not even over a restart  *)
(* of the writer, which begins to count again at 1.                        *)
NeverBackwards == [][shown'.pixels >= shown.pixels]_shown

(* When the writer pauses, its last frame is eventually shown (a restart   *)
(* may take it from the header before it was read).                        *)
LastFrameShown ==
  \A n \in 1 .. MaxFrames :
    newest = n ~> shown.pixels >= n \/ restarts > 0
=============================================================================
