------------------------- MODULE TelemetryRing_proofs -------------------------
(***************************************************************************)
(* What the telemetry memory promises for any size of the ring and of the  *)
(* series and any number of samples and restarts, as long as the reads are *)
(* short enough for RingAssumption.                                        *)
(***************************************************************************)
EXTENDS TelemetryRing, TLAPS

(***************************************************************************)
(* Where the samples of the ring are.                                      *)
(***************************************************************************)
Place(n) == n % Capacity

LEMMA Constants ==
  /\ Capacity \in Nat /\ Window \in Nat /\ Lag \in Nat
  /\ Capacity > 1 /\ Window >= 1 /\ Window + Lag + 1 <= Capacity
  BY RingAssumption

LEMMA PlaceIsSlot == \A n \in Nat : Place(n) \in Slots
  BY Constants DEF Place, Slots

LEMMA NoMultipleBetween ==
  ASSUME NEW q \in Int PROVE Capacity * q <= 0 \/ Capacity * q >= Capacity
<1> USE Constants
<1>1. CASE q >= 1
  <2>1. Capacity * q = Capacity * (q - 1) + Capacity
    OBVIOUS
  <2>2. Capacity * (q - 1) >= 0
    BY <1>1
  <2>3. QED
    BY <1>1, <2>1, <2>2
<1>2. CASE q <= 0
  BY <1>2
<1>3. QED
  BY <1>1, <1>2

(* Less than a turn of the ring apart, two samples have different places.  *)
LEMMA PlacesDiffer ==
  \A i, j \in Nat : i < j /\ j < i + Capacity => Place(i) # Place(j)
<1> SUFFICES ASSUME NEW i \in Nat, NEW j \in Nat, i < j, j < i + Capacity, Place(i) = Place(j)
             PROVE  FALSE
  OBVIOUS
<1> DEFINE a == i \div Capacity
           b == j \div Capacity
<1>1. i = Capacity * a + Place(i) /\ a \in Int
  BY Constants DEF Place
<1>2. j = Capacity * b + Place(j) /\ b \in Int
  BY Constants DEF Place
<1>3. Place(j) \in Int
  BY PlaceIsSlot, Constants DEF Slots
<1> HIDE DEF a, b
<1>4. Capacity * b - Capacity * a = j - i
  BY <1>1, <1>2, <1>3, Constants
<1>5. Capacity * (b - a) = Capacity * b - Capacity * a /\ b - a \in Int
  BY <1>1, <1>2, Constants
<1>6. QED
  BY <1>4, <1>5, NoMultipleBetween, Constants

(***************************************************************************)
(* The inductive invariant.                                                *)
(***************************************************************************)
(* How many samples were begun in this life of the writer, and before it.  *)
BegunHere   == IF wpc \in {"copy", "number", "index"} THEN index + 1 ELSE index
BegunBefore == begun - BegunHere

(* The publishes of this life that were not overwritten are in place.      *)
RingInv ==
  /\ BegunHere <= begun
  /\ index = IF wpc = "seq" THEN seq + 1 ELSE seq
  /\ \A i \in Nat : i < index /\ BegunHere <= i + Capacity =>
       ring[Place(i)].sample = BegunBefore + i + 1 /\ ring[Place(i)].seq # 0
  /\ wpc \in {"number", "index"} => ring[Place(index)].sample = begun
  /\ wpc = "index" => ring[Place(index)].seq # 0

(* The sample i is on its place until the reads that go on are over.       *)
Stays(i) == i < index /\ BegunHere + room <= i + Capacity

(* The sample readLatest is about to return is on its place, and not older *)
(* than the one it returned before.                                        *)
LatestInv ==
  /\ latest <= BegunBefore + index
  /\ rpc # "idle" => rseq # 0 /\ rseq <= seq
  /\ rpc \in {"copy", "rest"} =>
       \E i \in Nat :
         /\ Stays(i) /\ rslot = Place(i) /\ latest <= BegunBefore + i + 1
         /\ rpc = "rest" => rhalf = BegunBefore + i + 1

(* What seriesJson will read next is not overwritten while it lasts; what  *)
(* it read last is the sample before.                                      *)
SeriesInv ==
  /\ spc = "start" => spos <= seq /\ BegunHere + room <= spos + 1 + Lag /\ sout = <<>>
  /\ spc = "loop" => /\ BegunHere + room <= spos + Capacity
                     /\ sout # <<>> => sout[Len(sout)] = BegunBefore + spos

TelemetryInv == TypeOK /\ RingInv /\ LatestInv /\ SeriesInv /\ SeriesWholeAndGapless

LEMMA TelemetryInit == Init => TelemetryInv
<1> SUFFICES ASSUME Init PROVE TelemetryInv
  OBVIOUS
<1>1. 0 \in Slots
  BY Constants DEF Slots
<1>2. TypeOK
  BY <1>1, Constants DEF Init, TypeOK, Torn
<1>3. RingInv /\ LatestInv /\ SeriesInv /\ SeriesWholeAndGapless
  BY Constants DEF Init, RingInv, LatestInv, SeriesInv, SeriesWholeAndGapless,
                   BegunHere, BegunBefore
<1>4. QED
  BY <1>2, <1>3 DEF TelemetryInv

LEMMA Bounds ==
  \A a, b, c, d \in Int : a <= b /\ c <= d => a + c <= b + d
  OBVIOUS

LEMMA Further ==
  ASSUME NEW a \in Int, NEW b \in Int, NEW c \in Int, NEW d \in Int, a <= b + c, c <= d
  PROVE  a <= b + d
  OBVIOUS

LEMMA Appended ==
  ASSUME NEW s \in Seq(Nat), NEW n \in Nat
  PROVE  /\ Append(s, n) \in Seq(Nat)
         /\ Len(s) \in Nat /\ Len(Append(s, n)) = Len(s) + 1
         /\ Append(s, n)[Len(s) + 1] = n
         /\ \A i \in 1 .. Len(s) : Append(s, n)[i] = s[i]
  OBVIOUS

(* The types in the form the steps below cite them.                        *)
Typed ==
  /\ seq \in Nat /\ index \in Nat /\ begun \in Nat /\ room \in Nat /\ room <= Lag
  /\ spos \in Nat /\ rseq \in Nat /\ latest \in Nat /\ rhalf \in Nat /\ lastSeq \in Nat
  /\ rslot \in Slots /\ sout \in Seq(Nat) /\ Len(sout) \in Nat
  /\ ring \in [Slots -> [sample : Nat, seq : Nat]]
  /\ BegunHere \in Nat /\ BegunBefore \in Int /\ Place(index) \in Slots

LEMMA Types == TypeOK => Typed
<1> SUFFICES ASSUME TypeOK PROVE Typed
  OBVIOUS
<1>1. /\ seq \in Nat /\ index \in Nat /\ begun \in Nat /\ room \in 0 .. Lag
      /\ spos \in Nat /\ rseq \in Nat /\ latest \in Nat /\ rhalf \in Nat /\ lastSeq \in Nat
      /\ rslot \in Slots /\ sout \in Seq(Nat)
      /\ ring \in [Slots -> [sample : Nat, seq : Nat]]
  BY DEF TypeOK
<1>2. BegunHere \in Nat
  BY <1>1 DEF BegunHere
<1>3. BegunBefore \in Int
  BY <1>1, <1>2 DEF BegunBefore
<1>4. Place(index) \in Slots
  BY <1>1, PlaceIsSlot
<1>5. room \in Nat /\ room <= Lag /\ Len(sout) \in Nat
  BY <1>1, Constants
<1>6. QED
  BY <1>1, <1>2, <1>3, <1>4, <1>5 DEF Typed

(* A step of the writer that leaves alone what stays, and uses up the room *)
(* for what it begins, leaves the readers what they have.                  *)
LEMMA ReadersKeep ==
  ASSUME TelemetryInv, TypeOK', Publish,
         BegunBefore' = BegunBefore, index' >= index, seq' >= seq,
         Reading => BegunHere' + room' = BegunHere + room
  PROVE  LatestInv' /\ SeriesInv' /\ SeriesWholeAndGapless'
<1>i. LatestInv /\ SeriesInv /\ SeriesWholeAndGapless /\ TypeOK
  BY DEF TelemetryInv
<1>0. /\ seq \in Nat /\ index \in Nat /\ room \in Nat /\ spos \in Nat /\ rseq \in Nat
      /\ latest \in Nat /\ BegunHere \in Nat /\ BegunBefore \in Int
  BY <1>i, Types DEF Typed
<1>1. UNCHANGED <<rpc, rseq, rslot, rhalf, lastSeq, latest, spc, spos, sout>>
  BY DEF Publish, PublishBegins, PublishCopies, PublishNumbers, PublishIndex, PublishSeq,
         latestVars, seriesVars
<1>2. index' \in Nat /\ seq' \in Nat /\ room' \in Nat /\ BegunHere' \in Nat
  <2>1. index' \in Nat /\ seq' \in Nat /\ room' \in 0 .. Lag
    BY DEF TypeOK
  <2>2. room' \in Nat
    BY <2>1, Constants
  <2>3. BegunHere' = index' \/ BegunHere' = index' + 1
    BY DEF BegunHere
  <2>4. QED
    BY <2>1, <2>2, <2>3
<1>3. SeriesWholeAndGapless'
  BY <1>i, <1>1 DEF SeriesWholeAndGapless
<1>4. SeriesInv'
  <2>1. spc # "idle" => BegunHere' + room' = BegunHere + room
    BY DEF Reading
  <2>2. CASE spc = "start"
    <3>1. spos <= seq /\ BegunHere + room <= spos + 1 + Lag /\ sout = <<>>
      BY <1>i, <2>2 DEF SeriesInv
    <3>2. BegunHere' + room' = BegunHere + room
      BY <2>1, <2>2
    <3>3. spos <= seq'
      BY <1>0, <1>2, <3>1
    <3>4. BegunHere' + room' <= spos + 1 + Lag
      BY <3>1, <3>2
    <3>5. QED
      BY <1>1, <2>2, <3>1, <3>3, <3>4 DEF SeriesInv
  <2>3. CASE spc = "loop"
    <3>1. BegunHere + room <= spos + Capacity
          /\ (sout # <<>> => sout[Len(sout)] = BegunBefore + spos)
      BY <1>i, <2>3 DEF SeriesInv
    <3>2. BegunHere' + room' <= spos + Capacity
      BY <2>1, <2>3, <3>1
    <3>3. QED
      BY <1>1, <2>3, <3>1, <3>2 DEF SeriesInv
  <2>4. CASE spc = "idle"
    BY <1>i, <1>1, <2>4 DEF SeriesInv
  <2>5. spc \in {"idle", "start", "loop"}
    BY <1>i DEF TypeOK
  <2>6. QED
    BY <2>2, <2>3, <2>4, <2>5
<1>5. latest <= BegunBefore + index'
  <2>1. latest <= BegunBefore + index
    BY <1>i DEF LatestInv
  <2>2. index \in Int /\ index' \in Int /\ latest \in Int /\ BegunBefore \in Int
    BY <1>0, <1>2
  <2>3. index <= index'
    BY <1>0, <1>2
  <2>4. QED
    BY <2>1, <2>2, <2>3, Further
<1>6. LatestInv'
  <2>1. rpc # "idle" => rseq # 0 /\ rseq <= seq'
    <3>1. rseq <= seq => rseq <= seq'
      BY <1>0, <1>2
    <3>2. rpc # "idle" => rseq # 0 /\ rseq <= seq
      BY <1>i DEF LatestInv
    <3>3. QED
      BY <3>1, <3>2
  <2>2. ASSUME rpc \in {"copy", "rest"}
        PROVE  \E i \in Nat :
                 /\ i < index' /\ BegunHere' + room' <= i + Capacity /\ rslot = Place(i)
                 /\ latest <= BegunBefore + i + 1
                 /\ rpc = "rest" => rhalf = BegunBefore + i + 1
    <3>1. PICK i \in Nat :
            /\ i < index /\ BegunHere + room <= i + Capacity /\ rslot = Place(i)
            /\ latest <= BegunBefore + i + 1
            /\ rpc = "rest" => rhalf = BegunBefore + i + 1
      BY <1>i, <2>2 DEF LatestInv, Stays
    <3>2. BegunHere' + room' = BegunHere + room
      BY <2>2 DEF Reading
    <3>3. i < index'
      BY <1>0, <1>2, <3>1
    <3>4. BegunHere' + room' <= i + Capacity
      BY <3>1, <3>2
    <3>5. QED
      BY <3>1, <3>3, <3>4
  <2>3. QED
    BY <1>1, <1>5, <2>1, <2>2 DEF LatestInv, Stays
<1>7. QED
  BY <1>3, <1>4, <1>6

LEMMA PublishKeeps == ASSUME TelemetryInv, Publish PROVE TelemetryInv'
<1> USE DEF TelemetryInv
<1>0. TypeOK /\ Typed
  BY Types
<1> USE DEF Typed
<1>1. WriteSlot = Place(index)
  BY DEF WriteSlot, Place
<1>2. CASE PublishBegins
  <2>1. /\ wpc = "idle" /\ wpc' = "copy" /\ begun' = begun + 1
        /\ ring' = [ring EXCEPT ![Place(index)] = [sample |-> Torn, seq |-> 0]]
        /\ UNCHANGED <<seq, index, newest, restarts, latestVars, seriesVars>>
        /\ IF Reading THEN room > 0 /\ room' = room - 1 ELSE room' = room
    BY <1>1, <1>2 DEF PublishBegins
  <2>2. TypeOK'
    BY <2>1, <1>0, Constants DEF TypeOK, Torn, latestVars, seriesVars
  <2>3. BegunHere' = BegunHere + 1 /\ BegunHere = index /\ BegunBefore' = BegunBefore
    BY <2>1, <1>0 DEF BegunHere, BegunBefore
  <2>4. RingInv'
    <3>1. ASSUME NEW i \in Nat, i < index, index + 1 <= i + Capacity
          PROVE  ring'[Place(i)] = ring[Place(i)]
      BY <2>1, <3>1, PlacesDiffer, PlaceIsSlot, <1>0, Constants
    <3>2. QED
      BY <2>1, <2>3, <3>1, <1>0, Constants DEF RingInv
  <2>5. LatestInv' /\ SeriesInv' /\ SeriesWholeAndGapless'
    <3>1. Reading => BegunHere' + room' = BegunHere + room
      BY <2>1, <2>3, <1>0
    <3>2. QED
      BY <2>1, <2>2, <2>3, <3>1, <1>0, ReadersKeep
  <2>6. QED
    BY <2>2, <2>4, <2>5
<1>3. CASE PublishCopies \/ PublishNumbers
  <2>1. /\ wpc \in {"copy", "number"} /\ wpc' = (IF wpc = "copy" THEN "number" ELSE "index")
        /\ UNCHANGED <<seq, index, begun, newest, restarts, latestVars, seriesVars, room>>
        /\ ring' = IF wpc = "copy" THEN [ring EXCEPT ![Place(index)].sample = begun]
                   ELSE [ring EXCEPT ![Place(index)].seq = seq + 1]
    BY <1>1, <1>3 DEF PublishCopies, PublishNumbers
  <2>2. /\ ring' \in [Slots -> [sample : Nat, seq : Nat]]
        /\ \A s \in Slots \ {Place(index)} : ring'[s] = ring[s]
        /\ wpc = "copy" => ring'[Place(index)].sample = begun
        /\ wpc = "number" => /\ ring'[Place(index)].seq = seq + 1
                             /\ ring'[Place(index)].sample = ring[Place(index)].sample
    <3>1. CASE wpc = "copy"
      BY <2>1, <3>1, <1>0
    <3>2. CASE wpc = "number"
      <4>1. ring' = [ring EXCEPT ![Place(index)].seq = seq + 1]
        BY <2>1, <3>2
      <4>2. ring[Place(index)] \in [sample : Nat, seq : Nat] /\ seq + 1 \in Nat
        BY <1>0
      <4>3. ring \in [Slots -> [sample : Nat, seq : Nat]] /\ Place(index) \in Slots
        BY <1>0
      <4> HIDE <1>0 DEF Typed, TelemetryInv
      <4>4. \A s \in Slots \ {Place(index)} : ring'[s] = ring[s]
        BY <4>1, <4>3
      <4>5. /\ ring'[Place(index)].seq = seq + 1
            /\ ring'[Place(index)].sample = ring[Place(index)].sample
            /\ ring'[Place(index)] \in [sample : Nat, seq : Nat]
        BY <4>1, <4>2, <4>3
      <4>6. ring' \in [Slots -> [sample : Nat, seq : Nat]]
        BY <4>1, <4>3, <4>4, <4>5
      <4>7. QED
        BY <3>2, <4>4, <4>5, <4>6
    <3>3. QED
      BY <2>1, <3>1, <3>2
  <2>3. TypeOK'
    BY <2>1, <2>2 DEF TypeOK, latestVars, seriesVars
  <2>4. BegunHere' = BegunHere /\ BegunHere = index + 1 /\ BegunBefore' = BegunBefore
    BY <2>1, <1>0 DEF BegunHere, BegunBefore
  <2>5. RingInv'
    <3>1. ASSUME NEW i \in Nat, i < index, index + 1 <= i + Capacity
          PROVE  ring'[Place(i)] = ring[Place(i)]
      <4>1. Place(i) # Place(index)
        <5>1. index \in Nat /\ index < i + Capacity
          BY <3>1, <1>0, Constants
        <5>2. QED
          BY <3>1, <5>1, PlacesDiffer
      <4>2. QED
        BY <2>2, <4>1, PlaceIsSlot
    <3>2. \A i \in Nat : i < index /\ index + 1 <= i + Capacity =>
            ring'[Place(i)].sample = BegunBefore + i + 1 /\ ring'[Place(i)].seq # 0
      BY <2>4, <3>1 DEF RingInv
    <3>3. begun' = begun /\ index' = index /\ seq' = seq
          /\ wpc' \in {"number", "index"} /\ (wpc' = "index" <=> wpc = "number")
      BY <2>1
    <3>4. ring'[Place(index)].sample = begun /\ (wpc' = "index" => ring'[Place(index)].seq # 0)
      BY <2>1, <2>2, <1>0 DEF RingInv
    <3>5. index = seq /\ BegunHere <= begun
      BY <2>1 DEF RingInv
    <3> HIDE <1>0 DEF TelemetryInv, Typed
    <3>6. QED
      BY <2>4, <3>2, <3>3, <3>4, <3>5 DEF RingInv
  <2>6. LatestInv' /\ SeriesInv' /\ SeriesWholeAndGapless'
    BY <2>1, <2>3, <2>4, <1>0, ReadersKeep
  <2>7. QED
    BY <2>3, <2>5, <2>6
<1>4. CASE PublishIndex
  <2>1. /\ wpc = "index" /\ wpc' = "seq" /\ index' = index + 1
        /\ UNCHANGED <<seq, ring, begun, newest, restarts, latestVars, seriesVars, room>>
    BY <1>4 DEF PublishIndex
  <2>2. TypeOK'
    BY <2>1, <1>0 DEF TypeOK, latestVars, seriesVars
  <2>3. BegunHere' = BegunHere /\ BegunHere = index + 1 /\ BegunBefore' = BegunBefore
    BY <2>1, <1>0 DEF BegunHere, BegunBefore
  <2>4. RingInv'
    <3>1. ASSUME NEW i \in Nat, i < index + 1, index + 1 <= i + Capacity
          PROVE  ring[Place(i)].sample = BegunBefore + i + 1 /\ ring[Place(i)].seq # 0
      <4>1. CASE i = index
        BY <2>1, <2>3, <4>1, <1>0 DEF RingInv, BegunBefore
      <4>2. CASE i < index
        BY <2>3, <3>1, <4>2 DEF RingInv
      <4>3. QED
        BY <3>1, <4>1, <4>2, <1>0
    <3>2. QED
      BY <2>1, <2>3, <3>1, <1>0 DEF RingInv
  <2>5. LatestInv' /\ SeriesInv' /\ SeriesWholeAndGapless'
    BY <2>1, <2>2, <2>3, <1>0, ReadersKeep
  <2>6. QED
    BY <2>2, <2>4, <2>5
<1>5. CASE PublishSeq
  <2>1. /\ wpc = "seq" /\ wpc' = "idle" /\ seq' = seq + 1 /\ newest' = begun
        /\ UNCHANGED <<index, ring, begun, restarts, latestVars, seriesVars, room>>
    BY <1>5 DEF PublishSeq
  <2>2. TypeOK'
    BY <2>1, <1>0 DEF TypeOK, latestVars, seriesVars
  <2>3. BegunHere' = BegunHere /\ BegunBefore' = BegunBefore
    BY <2>1, <1>0 DEF BegunHere, BegunBefore
  <2>4. RingInv'
    BY <2>1, <2>3, <1>0 DEF RingInv
  <2>5. LatestInv' /\ SeriesInv' /\ SeriesWholeAndGapless'
    BY <2>1, <2>2, <2>3, <1>0, ReadersKeep
  <2>6. QED
    BY <2>2, <2>4, <2>5
<1>6. QED
  BY <1>2, <1>3, <1>4, <1>5 DEF Publish

LEMMA RestartKeeps == ASSUME TelemetryInv, WriterRestarts PROVE TelemetryInv'
<1> USE DEF TelemetryInv
<1>0. TypeOK /\ Typed
  BY Types
<1> USE DEF Typed
<1>1. /\ rpc = "idle" /\ spc = "idle" /\ restarts' = restarts + 1
      /\ seq' = 0 /\ index' = 0 /\ wpc' = "idle"
      /\ UNCHANGED <<ring, begun, newest, latestVars, seriesVars, room>>
  BY DEF WriterRestarts, Reading
<1>2. TypeOK'
  BY <1>1 DEF TypeOK, latestVars, seriesVars
<1>3. BegunHere' = 0 /\ BegunBefore' = begun
  BY <1>1, <1>0 DEF BegunHere, BegunBefore
<1>4. RingInv'
  BY <1>1, <1>3, <1>0 DEF RingInv
<1>5. BegunBefore + index <= begun
  BY <1>0 DEF BegunBefore, BegunHere
<1>6. LatestInv' /\ SeriesInv' /\ SeriesWholeAndGapless'
  BY <1>1, <1>3, <1>5, <1>0 DEF LatestInv, SeriesInv, SeriesWholeAndGapless, latestVars, seriesVars
<1>7. QED
  BY <1>2, <1>4, <1>6

(* Neither reader changes what the writer has.                             *)
LEMMA MemoryKeeps ==
  ASSUME TelemetryInv, UNCHANGED <<memory, writer>>
  PROVE  RingInv' /\ BegunHere' = BegunHere /\ BegunBefore' = BegunBefore
         /\ UNCHANGED <<seq, index, ring, wpc, begun, newest, restarts>>
  BY DEF TelemetryInv, RingInv, BegunHere, BegunBefore, memory, writer

LEMMA ReadLatestKeeps == ASSUME TelemetryInv, ReadLatest PROVE TelemetryInv'
<1> USE DEF TelemetryInv
<1>0. TypeOK /\ Typed
  BY Types
<1> USE DEF Typed
<1>1. UNCHANGED <<memory, writer>> /\ UNCHANGED <<spc, spos, sout>>
  BY DEF ReadLatest, ReadSeq, ReadIndex, ReadCopies, ReadReturns, seriesVars
<1>2. /\ RingInv' /\ BegunHere' = BegunHere /\ BegunBefore' = BegunBefore
      /\ UNCHANGED <<seq, index, ring, wpc, begun, newest, restarts>>
  BY <1>1, MemoryKeeps
<1>3. SeriesWholeAndGapless'
  BY <1>1 DEF SeriesWholeAndGapless
<1>4. room' \in 0 .. Lag /\ (spc # "idle" => room' = room)
  BY <1>0, Constants DEF ReadLatest, ReadSeq, ReadIndex, ReadCopies, ReadReturns, Fresh, Reading
<1>5. SeriesInv'
  BY <1>1, <1>2, <1>4 DEF SeriesInv
<1>6. CASE ReadSeq
  <2>1. /\ rpc' = "index" /\ seq # 0 /\ rseq' = seq
        /\ UNCHANGED <<rslot, rhalf, lastSeq, latest>>
    BY <1>6 DEF ReadSeq
  <2>2. TypeOK'
    BY <1>1, <1>2, <1>4, <2>1 DEF TypeOK
  <2>3. LatestInv'
    BY <1>2, <2>1, <1>0 DEF LatestInv
  <2>4. QED
    BY <1>2, <1>3, <1>5, <2>2, <2>3
<1>7. CASE ReadIndex
  <2>1. /\ rpc = "index" /\ rpc' = "copy" /\ rslot' = LatestSlot
        /\ UNCHANGED <<rseq, rhalf, lastSeq, latest, room>>
    BY <1>7 DEF ReadIndex
  <2>2. index - 1 \in Nat /\ rslot' = Place(index - 1)
    BY <2>1, <1>0 DEF LatestInv, RingInv, LatestSlot, Place
  <2>3. TypeOK'
    BY <1>1, <1>2, <1>4, <2>1, <2>2, PlaceIsSlot DEF TypeOK
  <2>4. Stays(index - 1)' /\ latest <= BegunBefore + (index - 1) + 1
    BY <1>2, <2>1, <2>2, <1>0, Constants DEF Stays, LatestInv, BegunHere
  <2>5. LatestInv'
    BY <1>2, <2>1, <2>2, <2>4 DEF LatestInv
  <2>6. QED
    BY <1>2, <1>3, <1>5, <2>3, <2>5
<1>8. CASE ReadCopies \/ ReadReturns
  <2>1. /\ rpc \in {"copy", "rest"} /\ rpc' = (IF rpc = "copy" THEN "rest" ELSE "idle")
        /\ UNCHANGED <<rseq, rslot, room>>
        /\ rhalf' = (IF rpc = "copy" THEN ring[rslot].sample ELSE rhalf)
        /\ latest' = (IF rpc = "copy" THEN latest
                      ELSE IF ring[rslot].sample = rhalf THEN rhalf ELSE Torn)
        /\ lastSeq' = (IF rpc = "copy" THEN lastSeq ELSE rseq)
    BY <1>8 DEF ReadCopies, ReadReturns
  <2>2. PICK i \in Nat :
          /\ Stays(i) /\ rslot = Place(i) /\ latest <= BegunBefore + i + 1
          /\ rpc = "rest" => rhalf = BegunBefore + i + 1
    BY <2>1 DEF LatestInv
  <2>3. ring[rslot].sample = BegunBefore + i + 1 /\ i < index
    <3>1. i < index /\ BegunHere <= i + Capacity
      BY <2>2, <1>0, Constants DEF Stays
    <3>2. QED
      BY <2>2, <3>1 DEF RingInv
  <2>4. ring[rslot].sample \in Nat
    BY <2>2, PlaceIsSlot, <1>0
  <2>5. rhalf' \in Nat /\ latest' \in Nat /\ lastSeq' \in Nat
    BY <2>1, <2>4, <1>0 DEF Torn, TypeOK
  <2>6. TypeOK'
    BY <1>1, <1>2, <1>4, <2>1, <2>5 DEF TypeOK
  <2>7. latest' <= BegunBefore + index /\ latest' <= BegunBefore + i + 1
    <3>1. latest <= BegunBefore + index
      BY DEF LatestInv
    <3>2. CASE rpc = "copy"
      BY <2>1, <2>2, <3>1, <3>2
    <3>3. CASE rpc = "rest"
      BY <2>1, <2>2, <2>3, <3>3, <1>0
    <3>4. QED
      BY <2>1, <3>2, <3>3
  <2>8. LatestInv'
    <3>1. rpc' # "idle" => rseq' # 0 /\ rseq' <= seq'
      BY <1>2, <2>1 DEF LatestInv
    <3>2. ASSUME rpc' \in {"copy", "rest"}
          PROVE  /\ i < index' /\ BegunHere' + room' <= i + Capacity /\ rslot' = Place(i)
                 /\ latest' <= BegunBefore' + i + 1
                 /\ rpc' = "rest" => rhalf' = BegunBefore' + i + 1
      BY <1>2, <2>1, <2>2, <2>3, <2>7, <3>2 DEF Stays
    <3>3. QED
      BY <1>2, <2>7, <3>1, <3>2 DEF LatestInv, Stays
  <2>9. QED
    BY <1>2, <1>3, <1>5, <2>6, <2>8
<1>9. QED
  BY <1>6, <1>7, <1>8 DEF ReadLatest

LEMMA SeriesKeeps == ASSUME TelemetryInv, Series PROVE TelemetryInv'
<1> USE DEF TelemetryInv
<1>0. TypeOK /\ Typed
  BY Types
<1> USE DEF Typed
<1>1. UNCHANGED <<memory, writer>> /\ UNCHANGED <<rpc, rseq, rslot, rhalf, lastSeq, latest>>
  BY DEF Series, SeriesBegins, SeriesStarts, SeriesTakes, SeriesEnds, latestVars
<1>2. /\ RingInv' /\ BegunHere' = BegunHere /\ BegunBefore' = BegunBefore
      /\ UNCHANGED <<seq, index, ring, wpc, begun, newest, restarts>>
  BY <1>1, MemoryKeeps
<1>3. room' \in 0 .. Lag /\ (rpc # "idle" => room' = room)
  BY <1>0, Constants DEF Series, SeriesBegins, SeriesStarts, SeriesTakes, SeriesEnds, Fresh, Reading
<1>4. ASSUME NEW i \in Nat, rpc # "idle" PROVE Stays(i)' <=> Stays(i)
  BY <1>2, <1>3, <1>4 DEF Stays
<1>5. LatestInv'
  BY <1>1, <1>2, <1>4 DEF LatestInv
<1>6. CASE SeriesBegins
  <2>1. spos' = seq /\ spc' = "start" /\ sout' = <<>>
    BY <1>6 DEF SeriesBegins
  <2>2. TypeOK' /\ SeriesWholeAndGapless'
    BY <1>1, <1>2, <1>3, <2>1, <1>0 DEF TypeOK, SeriesWholeAndGapless
  <2>3. SeriesInv'
    <3>1. BegunHere <= index + 1
      BY <1>0 DEF BegunHere
    <3>2. wpc = "seq" => BegunHere = index
      BY DEF BegunHere
    <3>3. BegunHere <= seq + 1
      <4>1. index = IF wpc = "seq" THEN seq + 1 ELSE seq
        BY DEF RingInv
      <4>2. QED
        BY <3>1, <3>2, <4>1
    <3>4. BegunHere + room' <= seq + 1 + Lag
      <4>1. room' \in Int /\ room' <= Lag /\ Lag \in Int
        BY <1>3, Constants
      <4>2. BegunHere \in Int /\ seq + 1 \in Int
        BY <1>0
      <4>3. QED
        BY <3>3, <4>1, <4>2, Bounds
    <3>5. QED
      BY <1>2, <2>1, <3>4, <1>0 DEF SeriesInv
  <2>4. QED
    BY <1>2, <1>5, <2>2, <2>3
<1>7. CASE SeriesStarts
  <2>1. /\ spc = "start" /\ spc' = "loop" /\ spos' = SeriesStart(spos)
        /\ sout' = sout /\ room' = room /\ sout = <<>>
    BY <1>7 DEF SeriesStarts, SeriesInv
  <2>2. spos <= index /\ BegunHere <= index + 1 /\ BegunHere + room <= spos + 1 + Lag
    BY <2>1, <1>0 DEF SeriesInv, RingInv, BegunHere
  <2>3. spos' \in Nat /\ BegunHere + room <= spos' + Capacity
    BY <2>1, <2>2, <1>0, Constants DEF SeriesStart
  <2>4. TypeOK' /\ SeriesWholeAndGapless'
    BY <1>1, <1>2, <1>3, <2>1, <2>3 DEF TypeOK, SeriesWholeAndGapless
  <2>5. SeriesInv'
    BY <1>2, <2>1, <2>3 DEF SeriesInv
  <2>6. QED
    BY <1>2, <1>5, <2>4, <2>5
<1>8. CASE SeriesTakes
  <2>1. /\ spc = "loop" /\ spc' = spc /\ spos < index /\ spos' = spos + 1 /\ room' = room
        /\ BegunHere + room <= spos + Capacity
    BY <1>8 DEF SeriesTakes, SeriesInv
  <2>2. /\ ring[Place(spos)].sample = BegunBefore + spos + 1 /\ ring[Place(spos)].seq # 0
        /\ ring[Place(spos)].sample \in Nat
    <3>1. BegunHere <= spos + Capacity
      BY <2>1, <1>0, Constants
    <3>2. spos \in Nat /\ Place(spos) \in Slots
      BY <1>0, PlaceIsSlot
    <3>3. ring[Place(spos)].sample = BegunBefore + spos + 1 /\ ring[Place(spos)].seq # 0
      BY <2>1, <3>1, <3>2 DEF RingInv
    <3>4. QED
      BY <3>2, <3>3, <1>0
  <2>3. sout' = Append(sout, BegunBefore + spos + 1)
    BY <1>8, <2>2 DEF SeriesTakes, Place
  <2>4. sout' \in Seq(Nat) /\ Len(sout') = Len(sout) + 1 /\ sout'[Len(sout')] = BegunBefore + spos + 1
    <3>1. BegunBefore + spos + 1 \in Nat
      BY <2>2
    <3>2. sout \in Seq(Nat)
      BY <1>0
    <3>3. QED
      BY <2>3, <3>1, <3>2, Appended
  <2>5. TypeOK'
    BY <1>1, <1>2, <1>3, <2>1, <2>4, <1>0 DEF TypeOK
  <2>6. SeriesInv'
    <3>1. BegunHere + room' <= spos' + Capacity
      BY <1>3, <2>1, <1>0, Constants
    <3>2. sout'[Len(sout')] = BegunBefore + spos'
      BY <2>1, <2>4, <1>0
    <3>3. QED
      BY <1>2, <2>1, <3>1, <3>2 DEF SeriesInv
  <2>7. SeriesWholeAndGapless'
    <3>1. BegunBefore + spos + 1 # Torn
      BY <1>0 DEF RingInv, BegunBefore, Torn
    <3>2. \A i \in 1 .. Len(sout) : sout'[i] = sout[i]
      BY <2>2, <2>3, <1>0
    <3>3. Len(sout) \in Nat /\ (Len(sout) > 0 => sout[Len(sout)] = BegunBefore + spos)
      BY <2>1, <1>0 DEF SeriesInv
    <3>4. QED
      <4> SUFFICES ASSUME NEW i \in 1 .. Len(sout')
                   PROVE  sout'[i] # Torn /\ (i > 1 => sout'[i] = sout'[i - 1] + 1)
        BY DEF SeriesWholeAndGapless
      <4>1. CASE i = Len(sout) + 1
        <5>1. sout'[i] = BegunBefore + spos + 1
          BY <2>4, <4>1
        <5>2. i > 1 => sout'[i - 1] = sout[Len(sout)] /\ Len(sout) > 0
          BY <3>2, <3>3, <4>1
        <5>3. QED
          BY <3>1, <3>3, <5>1, <5>2
      <4>2. CASE i \in 1 .. Len(sout)
        BY <3>2, <3>3, <4>2 DEF SeriesWholeAndGapless
      <4>3. QED
        BY <2>4, <3>3, <4>1, <4>2
  <2>8. QED
    BY <1>2, <1>5, <2>5, <2>6, <2>7
<1>9. CASE SeriesEnds
  <2>1. spc' = "idle" /\ UNCHANGED <<spos, sout, room>>
    BY <1>9 DEF SeriesEnds
  <2>2. TypeOK' /\ SeriesInv' /\ SeriesWholeAndGapless'
    BY <1>1, <1>2, <1>3, <2>1 DEF TypeOK, SeriesInv, SeriesWholeAndGapless
  <2>3. QED
    BY <1>2, <1>5, <2>2
<1>10. QED
  BY <1>6, <1>7, <1>8, <1>9 DEF Series

LEMMA TelemetryInvHolds == Spec => []TelemetryInv
<1>1. TelemetryInv /\ [Next]_vars => TelemetryInv'
  <2> SUFFICES ASSUME TelemetryInv, [Next]_vars PROVE TelemetryInv'
    OBVIOUS
  <2>1. CASE UNCHANGED vars
    BY <2>1 DEF vars, memory, writer, latestVars, seriesVars, TelemetryInv, TypeOK, RingInv,
                LatestInv, SeriesInv, SeriesWholeAndGapless, Stays, BegunHere, BegunBefore
  <2>2. QED
    BY <2>1, PublishKeeps, RestartKeeps, ReadLatestKeeps, SeriesKeeps DEF Next
<1>2. QED
  BY <1>1, TelemetryInit, PTL DEF Spec

(* The variables of both processes keep their types.                       *)
THEOREM TelemetryTypes == Spec => []TypeOK
  BY TelemetryInvHolds, PTL DEF TelemetryInv

(* A series is whole and without a gap, whatever the size of the ring, as  *)
(* long as the writer does not get around to what is being read.           *)
THEOREM SeriesIsWhole == Spec => []SeriesWholeAndGapless
  BY TelemetryInvHolds, PTL DEF TelemetryInv

(* The latest sample is whole and never older than the one read before.    *)
THEOREM LatestNeverGoesBack == Spec => LatestMovesForward
<1>1. TelemetryInv /\ [Next]_vars => [latest' >= latest /\ latest' # Torn]_latest
  <2> SUFFICES ASSUME TelemetryInv, [Next]_vars, latest' # latest
               PROVE  latest' >= latest /\ latest' # Torn
    OBVIOUS
  <2> USE DEF TelemetryInv
  <2>0. Typed
    BY Types
  <2> USE DEF Typed
  <2>1. ReadReturns
    BY DEF Next, Publish, PublishBegins, PublishCopies, PublishNumbers, PublishIndex,
           PublishSeq, WriterRestarts, ReadLatest, ReadSeq, ReadIndex, ReadCopies, Series,
           SeriesBegins, SeriesStarts, SeriesTakes, SeriesEnds, vars, latestVars
  <2>2. PICK i \in Nat : /\ Stays(i) /\ rslot = Place(i) /\ latest <= BegunBefore + i + 1
                         /\ rhalf = BegunBefore + i + 1
    BY <2>1 DEF ReadReturns, LatestInv
  <2>3. ring[rslot].sample = rhalf
    <3>1. i < index /\ BegunHere <= i + Capacity
      BY <2>2, <2>0, Constants DEF Stays
    <3>2. QED
      BY <2>2, <3>1 DEF RingInv
  <2>4. BegunBefore \in Nat
    BY <2>0 DEF RingInv, BegunBefore
  <2>5. QED
    BY <2>1, <2>2, <2>3, <2>4, <2>0 DEF ReadReturns, Torn
<1>2. QED
  BY <1>1, TelemetryInvHolds, PTL DEF Spec, LatestMovesForward
=============================================================================
