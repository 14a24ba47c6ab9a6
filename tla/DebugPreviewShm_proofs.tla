----------------------- MODULE DebugPreviewShm_proofs -----------------------
(***************************************************************************)
(* What the preview memory promises for a ring of any size from two up,    *)
(* any number of frames and any number of restarts of the writer.          *)
(***************************************************************************)
EXTENDS DebugPreviewShm, Integers, TLAPS

(***************************************************************************)
(* Where the frames of the ring are.                                       *)
(***************************************************************************)
Place(n) == n % SlotCount

LEMMA PlaceIsSlot == \A n \in Nat : Place(n) \in Slots
  BY PreviewAssumption DEF Place, Slots

LEMMA NoMultipleIsOne == ASSUME NEW q \in Int PROVE SlotCount * q # 1
<1> USE PreviewAssumption
<1>1. CASE q >= 1
  <2>1. SlotCount * q = SlotCount * (q - 1) + SlotCount
    OBVIOUS
  <2>2. SlotCount * (q - 1) >= 0
    BY <1>1
  <2>3. QED
    BY <1>1, <2>1, <2>2
<1>2. CASE q <= 0
  <2>1. SlotCount * q <= 0
    BY <1>2
  <2>2. QED
    BY <2>1
<1>3. QED
  BY <1>1, <1>2

(* The frame published last is not where the next one is written.          *)
LEMMA NextPlaceDiffers == \A n \in Nat \ {0} : Place(n - 1) # Place(n)
<1> SUFFICES ASSUME NEW n \in Nat \ {0}, Place(n - 1) = Place(n) PROVE FALSE
  OBVIOUS
<1> DEFINE a == (n - 1) \div SlotCount
           b == n \div SlotCount
<1>1. n - 1 = SlotCount * a + Place(n - 1) /\ a \in Int
  BY PreviewAssumption DEF Place
<1>2. n = SlotCount * b + Place(n) /\ b \in Int
  BY PreviewAssumption DEF Place
<1>3. Place(n) \in Int
  BY PlaceIsSlot, PreviewAssumption DEF Slots
<1> HIDE DEF a, b
<1>4. SlotCount * b - SlotCount * a = 1
  BY <1>1, <1>2, <1>3, PreviewAssumption
<1>5. SlotCount * (b - a) = SlotCount * b - SlotCount * a /\ b - a \in Int
  BY <1>1, <1>2, PreviewAssumption
<1>6. QED
  BY <1>4, <1>5, NoMultipleIsOne

(***************************************************************************)
(* The inductive invariant.                                                *)
(***************************************************************************)
Complete(s) == pixels[s] # Torn /\ overlay[s] = pixels[s]

(* The writer: its count is the header's; the frame published last is      *)
(* complete; the one being written is complete before the header says      *)
(* anything of it.                                                         *)
WriterInv ==
  /\ wseq = seq
  /\ wpc # "idle" => frames # 0
  /\ wpc \in {"overlay", "geometry", "index", "stamp", "seq"} =>
       pixels[Place(seq)] = frames
  /\ wpc \in {"geometry", "index", "stamp", "seq"} =>
       overlay[Place(seq)] = frames
  /\ wpc \in {"stamp", "seq"} => index = Place(seq)
  /\ seq # 0 =>
       /\ Complete(Place(seq - 1))
       /\ wpc \notin {"stamp", "seq"} => index = Place(seq - 1)

(* What a reader copies from while the count stays: the frame published    *)
(* last, or the next one once the header says where it is.                 *)
Readable(s) ==
  \/ s = Place(seq - 1)
  \/ wpc \in {"stamp", "seq"} /\ s = Place(seq)

(* The reader: what it has copied is still there, if the count is.         *)
ReaderInv ==
  /\ rpc # "idle" => rseq # 0 /\ rseq <= seq
  /\ rseq = seq =>
       /\ rpc \in {"stamp", "pixels", "overlay", "check"} => Readable(rindex)
       /\ rpc \in {"overlay", "check"} => rpixels = pixels[rindex]
       /\ rpc = "check" => roverlay = overlay[rindex]

(* In the writer's first life frames and counts agree.                     *)
FirstLife ==
  restarts = 0 =>
    /\ frames = IF wpc = "idle" THEN seq ELSE seq + 1
    /\ seq # 0 => pixels[Place(seq - 1)] = seq
    /\ stamp = IF wpc = "seq" THEN seq + 1 ELSE seq
    /\ rpc \in {"pixels", "overlay", "check"} /\ rseq = seq => rstamp \in {seq, seq + 1}

(* Over all lives: what is shown is not newer than the frame published     *)
(* last, or it is the next one, and the reader waits for the next count.   *)
Forward ==
  /\ newest <= frames
  /\ seq # 0 => pixels[Place(seq - 1)] = newest
  /\ rpc # "idle" => lastSeq < rseq
  /\ shown.pixels <= frames
  /\ \/ seq = 0 \/ shown.pixels <= newest
     \/ lastSeq = seq /\ wpc \in {"stamp", "seq"}

PreviewInv ==
  /\ TypeOK /\ WriterInv /\ ReaderInv /\ FirstLife /\ Forward
  /\ NoTornFrame /\ LabelOffByAtMostOne

LEMMA PreviewInit == Init => PreviewInv
<1> SUFFICES ASSUME Init PROVE PreviewInv
  OBVIOUS
<1>1. 0 \in Slots
  BY PreviewAssumption DEF Slots
<1>2. TypeOK
  BY <1>1 DEF Init, TypeOK, Torn
<1>3. QED
  BY <1>2 DEF Init, PreviewInv, WriterInv, ReaderInv, FirstLife, Forward,
              NoTornFrame, LabelOffByAtMostOne

(* No step of the writer disturbs what the reader has; only the count of   *)
(* the last store makes the reader throw it away.                          *)
LEMMA PublishKeeps ==
  ASSUME PreviewInv, Publish PROVE PreviewInv'
<1> USE DEF PreviewInv
<1>1. seq \in Nat /\ Place(seq) \in Slots /\ WriteSlot = Place(seq) /\ frames \in Nat
  BY PlaceIsSlot DEF TypeOK, WriterInv, WriteSlot, Place
<1>2. seq # 0 => Place(seq - 1) \in Slots /\ Place(seq - 1) # Place(seq)
  BY <1>1, PlaceIsSlot, NextPlaceDiffers
<1>3. pixels \in [Slots -> Nat] /\ overlay \in [Slots -> Nat] /\ rseq \in Nat /\ rindex \in Slots
  BY DEF TypeOK
<1>4. UNCHANGED <<restarts, rpc, rseq, rindex, rstamp, rpixels, roverlay, lastSeq, shown>>
  BY DEF Publish, PublishClears, PublishPixels, PublishOverlay, PublishGeometry,
         PublishIndex, PublishStamp, PublishSeq, readerVars
<1>types. newest \in Nat /\ lastSeq \in Nat /\ shown.pixels \in Nat
  BY DEF TypeOK
<1>5. NoTornFrame' /\ LabelOffByAtMostOne'
  BY <1>4 DEF NoTornFrame, LabelOffByAtMostOne
<1>6. CASE PublishClears \/ PublishPixels \/ PublishOverlay
  <2>1. /\ seq' = seq /\ wseq' = wseq /\ index' = index /\ stamp' = stamp
        /\ geometry' = geometry /\ newest' = newest
        /\ wpc \in {"idle", "pixels", "overlay"}
        /\ wpc' = (IF wpc = "idle" THEN "pixels" ELSE IF wpc = "pixels" THEN "overlay" ELSE "geometry")
        /\ frames' = (IF wpc = "idle" THEN frames + 1 ELSE frames)
    BY <1>6 DEF PublishClears, PublishPixels, PublishOverlay, WriterGoes, header
  <2>2. /\ pixels' \in [Slots -> Nat] /\ overlay' \in [Slots -> Nat]
        /\ \A s \in Slots \ {Place(seq)} : pixels'[s] = pixels[s] /\ overlay'[s] = overlay[s]
        /\ wpc = "pixels" => pixels'[Place(seq)] = frames
        /\ wpc = "overlay" => pixels' = pixels /\ overlay'[Place(seq)] = frames
    BY <1>1, <1>3, <1>6 DEF PublishClears, PublishPixels, PublishOverlay, WriterGoes, Torn
  <2>3. TypeOK'
    BY <1>4, <2>1, <2>2, <1>1 DEF TypeOK
  <2>4. WriterInv'
    BY <1>1, <1>2, <2>1, <2>2 DEF WriterInv, Complete
  <2>5. ReaderInv'
    BY <1>1, <1>2, <1>3, <1>4, <2>1, <2>2 DEF ReaderInv, Readable
  <2>6. FirstLife'
    BY <1>1, <1>2, <1>4, <2>1, <2>2 DEF FirstLife
  <2>7. Forward'
    BY <1>1, <1>2, <1>4, <1>types, <2>1, <2>2 DEF Forward
  <2>8. QED
    BY <1>5, <2>3, <2>4, <2>5, <2>6, <2>7
<1>7. CASE PublishGeometry \/ PublishIndex \/ PublishStamp
  <2>1. /\ UNCHANGED <<seq, wseq, pixels, overlay, frames, newest>>
        /\ wpc \in {"geometry", "index", "stamp"}
        /\ wpc' = (IF wpc = "geometry" THEN "index" ELSE IF wpc = "index" THEN "stamp" ELSE "seq")
        /\ index' = (IF wpc = "index" THEN Place(seq) ELSE index)
        /\ stamp' = (IF wpc = "stamp" THEN frames ELSE stamp)
        /\ geometry' \in BOOLEAN
    BY <1>1, <1>7 DEF PublishGeometry, PublishIndex, PublishStamp, WriterGoes, slotVars, TypeOK
  <2>2. TypeOK'
    BY <1>1, <1>4, <2>1 DEF TypeOK
  <2>3. WriterInv'
    BY <2>1 DEF WriterInv, Complete
  <2>4. ReaderInv'
    BY <1>4, <2>1 DEF ReaderInv, Readable
  <2>5. FirstLife'
    BY <1>1, <1>4, <2>1 DEF FirstLife
  <2>6. Forward'
    BY <1>1, <1>4, <1>types, <2>1 DEF Forward
  <2>7. QED
    BY <1>5, <2>2, <2>3, <2>4, <2>5, <2>6
<1>8. CASE PublishSeq
  <2>1. /\ UNCHANGED <<index, stamp, geometry, pixels, overlay, frames>>
        /\ wpc = "seq" /\ wpc' = "idle" /\ wseq' = seq + 1 /\ seq' = seq + 1 /\ newest' = frames
    BY <1>8 DEF PublishSeq, WriterGoes, slotVars, WriterInv
  <2>2. seq' - 1 = seq /\ seq' # 0
    BY <1>1, <2>1
  <2>3. TypeOK'
    BY <1>1, <1>4, <2>1 DEF TypeOK
  <2>4. WriterInv'
    BY <1>1, <2>1, <2>2 DEF WriterInv, Complete, Torn
  <2>5. ReaderInv'
    BY <1>1, <1>3, <1>4, <2>1 DEF ReaderInv
  <2>6. FirstLife'
    BY <1>1, <1>3, <1>4, <2>1, <2>2 DEF FirstLife, WriterInv, ReaderInv
  <2>7. Forward'
    BY <1>1, <1>4, <1>types, <2>1, <2>2 DEF Forward, WriterInv
  <2>8. QED
    BY <1>5, <2>3, <2>4, <2>5, <2>6, <2>7
<1>9. QED
  BY <1>6, <1>7, <1>8 DEF Publish

LEMMA RestartKeeps ==
  ASSUME PreviewInv, WriterRestarts PROVE PreviewInv'
<1> USE DEF PreviewInv
<1>1. /\ rpc = "idle" /\ restarts \in Nat /\ restarts' = restarts + 1
      /\ seq' = 0 /\ index' = 0 /\ stamp' = 0 /\ geometry' = FALSE
      /\ wpc' = "idle" /\ wseq' = 0
      /\ UNCHANGED <<pixels, overlay, frames, newest, rpc, rseq, rindex, rstamp,
                     rpixels, roverlay, lastSeq, shown>>
  BY DEF WriterRestarts, slotVars, readerVars, TypeOK
<1>2. 0 \in Slots
  BY PreviewAssumption DEF Slots
<1>3. restarts' \in Nat /\ seq' \in Nat /\ index' \in Slots /\ stamp' \in Nat /\ wseq' \in Nat
  BY <1>1, <1>2
<1>4. geometry' \in BOOLEAN
  BY <1>1, Zenon
<1>5. TypeOK'
  BY <1>1, <1>3, <1>4 DEF TypeOK
<1>6. QED
  BY <1>1, <1>5 DEF WriterInv, ReaderInv, FirstLife, Forward, NoTornFrame, LabelOffByAtMostOne

LEMMA ReadKeeps ==
  ASSUME PreviewInv, Read PROVE PreviewInv'
<1> USE DEF PreviewInv
<1>1. /\ UNCHANGED <<seq, index, stamp, geometry, pixels, overlay>>
      /\ UNCHANGED <<wpc, wseq, frames, newest, restarts>>
  BY DEF Read, ReadNothing, ReadSeq, ReadIndex, ReadStamp, ReadPixels, ReadOverlay,
         ReadAccepts, ReadRetries, header, slotVars, writerVars
<1>2. WriterInv'
  BY <1>1 DEF WriterInv, Complete
<1>3. seq \in Nat /\ rseq \in Nat /\ lastSeq \in Nat /\ Known \in Nat /\ rindex \in Slots
  BY DEF TypeOK, Known
<1>types. newest \in Nat /\ frames \in Nat /\ shown.pixels \in Nat
  BY DEF TypeOK
<1>4. CASE ReadNothing \/ ReadSeq \/ ReadIndex \/ ReadStamp
  <2>1. shown' = shown /\ rpixels' = rpixels /\ roverlay' = roverlay
    BY <1>4 DEF ReadNothing, ReadSeq, ReadIndex, ReadStamp
  <2>2. TypeOK'
    BY <1>1, <1>3, <1>4, <2>1 DEF TypeOK, ReadNothing, ReadSeq, ReadIndex, ReadStamp, ReaderGoes
  <2>3. ReaderInv'
    BY <1>1, <1>3, <1>4, <2>1
       DEF ReaderInv, WriterInv, Readable, ReadNothing, ReadSeq, ReadIndex, ReadStamp, ReaderGoes
  <2>4. FirstLife'
    BY <1>1, <1>3, <1>4, <2>1
       DEF FirstLife, ReadNothing, ReadSeq, ReadIndex, ReadStamp, ReaderGoes
  <2>5. NoTornFrame' /\ LabelOffByAtMostOne'
    BY <1>1, <2>1 DEF NoTornFrame, LabelOffByAtMostOne
  <2>6. Forward'
    BY <1>1, <1>3, <1>4, <1>types, <2>1
       DEF Forward, Known, ReadNothing, ReadSeq, ReadIndex, ReadStamp, ReaderGoes
  <2>7. QED
    BY <1>2, <2>2, <2>3, <2>4, <2>5, <2>6
<1>5. CASE ReadPixels \/ ReadOverlay \/ ReadRetries
  <2>1. UNCHANGED <<shown, rseq, rindex, rstamp, lastSeq>>
    BY <1>5 DEF ReadPixels, ReadOverlay, ReadRetries
  <2>2. TypeOK'
    BY <1>1, <1>3, <1>5, <2>1 DEF TypeOK, ReadPixels, ReadOverlay, ReadRetries, ReaderGoes
  <2>3. ReaderInv'
    BY <1>1, <1>5, <2>1 DEF ReaderInv, Readable, ReadPixels, ReadOverlay, ReadRetries, ReaderGoes
  <2>4. FirstLife'
    BY <1>1, <1>5, <2>1 DEF FirstLife, ReadPixels, ReadOverlay, ReadRetries, ReaderGoes
  <2>5. NoTornFrame' /\ LabelOffByAtMostOne'
    BY <1>1, <2>1 DEF NoTornFrame, LabelOffByAtMostOne
  <2>6. Forward'
    BY <1>1, <1>5, <2>1 DEF Forward, ReadPixels, ReadOverlay, ReadRetries, ReaderGoes
  <2>7. QED
    BY <1>2, <2>2, <2>3, <2>4, <2>5, <2>6
<1>6. CASE ReadAccepts
  <2>1. /\ rpc = "check" /\ rpc' = "idle" /\ rseq = seq /\ lastSeq' = rseq
        /\ shown' = [seq |-> rseq, stamp |-> rstamp, pixels |-> rpixels, overlay |-> roverlay]
        /\ UNCHANGED <<rseq, rindex, rstamp, rpixels, roverlay>>
    BY <1>6 DEF ReadAccepts, ReaderGoes
  <2>2. seq # 0 /\ Readable(rindex) /\ rpixels = pixels[rindex] /\ roverlay = overlay[rindex]
    BY <2>1 DEF ReaderInv
  <2>3. Complete(rindex)
    BY <2>2 DEF Readable, WriterInv, Complete, Torn
  <2>4. TypeOK'
    BY <1>1, <2>1 DEF TypeOK
  <2>5. ReaderInv' /\ FirstLife'
    BY <1>1, <2>1 DEF ReaderInv, FirstLife
  <2>6. NoTornFrame'
    BY <2>1, <2>2, <2>3 DEF NoTornFrame, Complete
  <2>7. LabelOffByAtMostOne'
    <3>1. ASSUME restarts = 0 PROVE {rpixels, rstamp} \subseteq {seq, seq + 1}
      BY <2>1, <2>2, <3>1 DEF FirstLife, Readable, WriterInv
    <3>2. QED
      BY <1>1, <2>1, <3>1 DEF LabelOffByAtMostOne
  <2>8. Forward'
    <3>1. shown'.pixels = rpixels
      BY <2>1
    <3>2. /\ rpixels <= frames
          /\ rpixels <= newest \/ wpc \in {"stamp", "seq"}
      BY <1>3, <1>types, <2>2 DEF Forward, Readable, WriterInv
    <3>3. QED
      BY <1>1, <1>3, <1>types, <2>1, <3>1, <3>2 DEF Forward
  <2>9. QED
    BY <1>2, <2>4, <2>5, <2>6, <2>7, <2>8
<1>7. QED
  BY <1>4, <1>5, <1>6 DEF Read

LEMMA PreviewInvHolds == Spec => []PreviewInv
<1>1. PreviewInv /\ [Next]_vars => PreviewInv'
  <2> SUFFICES ASSUME PreviewInv, [Next]_vars PROVE PreviewInv'
    OBVIOUS
  <2>1. CASE UNCHANGED vars
    BY <2>1 DEF vars, header, slotVars, writerVars, readerVars, PreviewInv, TypeOK,
                WriterInv, Complete, ReaderInv, Readable, FirstLife, Forward,
                NoTornFrame, LabelOffByAtMostOne
  <2>2. QED
    BY <2>1, PublishKeeps, RestartKeeps, ReadKeeps DEF Next
<1>2. QED
  BY <1>1, PreviewInit, PTL DEF Spec

(* Every variable of the memory, its writer and its reader keeps its type. *)
THEOREM PreviewTypes == Spec => []TypeOK
  BY PreviewInvHolds, PTL DEF PreviewInv

(* The reader never returns a torn image or one with another's overlay,    *)
(* however large the ring and however fast the writer.                     *)
THEOREM ImagesAreWhole == Spec => []NoTornFrame
  BY PreviewInvHolds, PTL DEF PreviewInv

(* The label of an image is off by one frame at most.                      *)
THEOREM LabelsAreClose == Spec => []LabelOffByAtMostOne
  BY PreviewInvHolds, PTL DEF PreviewInv

(* The preview never goes back to an older image, in one life of the       *)
(* writer or over several.                                                 *)
THEOREM PreviewNeverGoesBack == Spec => NeverBackwards
<1>1. PreviewInv /\ [Next]_vars => [shown'.pixels >= shown.pixels]_shown
  <2> SUFFICES ASSUME PreviewInv, [Next]_vars, shown' # shown
               PROVE  shown'.pixels >= shown.pixels
    OBVIOUS
  <2>1. ReadAccepts
    BY DEF Next, Publish, PublishClears, PublishPixels, PublishOverlay, PublishGeometry,
           PublishIndex, PublishStamp, PublishSeq, WriterRestarts, Read, ReadNothing,
           ReadSeq, ReadIndex, ReadStamp, ReadPixels, ReadOverlay, ReadRetries,
           vars, readerVars
  <2>2. rpc = "check" /\ rseq = seq /\ shown'.pixels = rpixels
    BY <2>1 DEF ReadAccepts, ReaderGoes
  <2>3. seq # 0 /\ Readable(rindex) /\ rpixels = pixels[rindex] /\ lastSeq < seq
    BY <2>2 DEF PreviewInv, ReaderInv, Forward
  <2>4. seq \in Nat /\ lastSeq \in Nat /\ newest \in Nat /\ frames \in Nat
        /\ shown.pixels \in Nat
    BY DEF PreviewInv, TypeOK
  <2>5. shown.pixels <= newest /\ newest <= frames
    BY <2>3, <2>4 DEF PreviewInv, Forward
  <2>6. rpixels = newest \/ rpixels = frames
    BY <2>3 DEF PreviewInv, Readable, WriterInv, Forward
  <2>7. QED
    BY <2>2, <2>4, <2>5, <2>6
<1>2. QED
  BY <1>1, PreviewInvHolds, PTL DEF Spec, NeverBackwards
=============================================================================
