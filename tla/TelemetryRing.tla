---------------------------- MODULE TelemetryRing ----------------------------
(***************************************************************************)
(* The shared memory through which bf_flight hands one telemetry sample a  *)
(* control tick to bf_debugd (adapters/common/ipc, strike_telemetry_shm):  *)
(* a ring of samples behind a header with seq and write_index.  Nothing is *)
(* locked between the processes and no reader looks at seq twice.          *)
(*                                                                         *)
(* bf_debugd reads it in two ways: its main loop asks for the latest       *)
(* sample, and the HTTP threads build the series of the last samples.      *)
(* A sample is the number of its publish; a slot being written holds Torn. *)
(***************************************************************************)
EXTENDS Integers, Sequences

CONSTANTS
  Capacity,    (* sample_capacity, 4096 in bf_flight                       *)
  Window,      (* how many samples seriesJson gives, 256                   *)
  Lag,         (* samples the writer begins at most while one read goes on *)
  MaxSamples,  (* bound: publishes over all lives of the writer            *)
  MaxRestarts  (* bound: how often the writer process is started again     *)

(* A read takes microseconds and the writer needs twenty seconds for the   *)
(* 3800 slots between the oldest one read and the one it writes.           *)
ASSUME RingAssumption ==
  /\ Window \in Nat \ {0} /\ Lag \in Nat
  /\ Capacity \in Nat /\ Window + Lag < Capacity
  /\ MaxSamples \in Nat /\ MaxRestarts \in Nat

Slots == 0 .. Capacity - 1
Torn  == 0

VARIABLES
  seq, index,     (* the header                                            *)
  ring,           (* per slot: the sample, and its own seq field           *)
  wpc,            (* the writer: where it is in publish                    *)
  begun,          (* publishes begun                                       *)
  newest,         (* the sample of the last store to seq                   *)
  restarts,
  rpc, rseq, rslot, rhalf,  (* readLatest: where it is and what it read    *)
  lastSeq,        (* last_seq_                                             *)
  latest,         (* the sample returned last                              *)
  spc, spos, sout,(* seriesJson: where it is, i, and the vector ring       *)
  room            (* begins the writer has left in the reads going on      *)

memory  == <<seq, index, ring>>
writer  == <<wpc, begun, newest, restarts>>
latestVars == <<rpc, rseq, rslot, rhalf, lastSeq, latest>>
seriesVars == <<spc, spos, sout>>
vars == <<memory, writer, latestVars, seriesVars, room>>

TypeOK ==
  /\ seq \in Nat /\ index \in Nat
  /\ ring \in [Slots -> [sample : Nat, seq : Nat]]
  /\ wpc \in {"idle", "copy", "number", "index", "seq"}
  /\ begun \in Nat /\ newest \in Nat /\ restarts \in Nat
  /\ rpc \in {"idle", "index", "copy", "rest"}
  /\ rseq \in Nat /\ rslot \in Slots /\ rhalf \in Nat
  /\ lastSeq \in Nat /\ latest \in Nat
  /\ spc \in {"idle", "start", "loop"} /\ spos \in Nat /\ sout \in Seq(Nat)
  /\ room \in 0 .. Lag

Init ==
  /\ seq = 0 /\ index = 0
  /\ ring = [s \in Slots |-> [sample |-> Torn, seq |-> 0]]
  /\ wpc = "idle" /\ begun = 0 /\ newest = 0 /\ restarts = 0
  /\ rpc = "idle" /\ rseq = 0 /\ rslot = 0 /\ rhalf = Torn
  /\ lastSeq = 0 /\ latest = 0
  /\ spc = "idle" /\ spos = 0 /\ sout = <<>>
  /\ room = Lag

(* The lag is counted over every stretch in which some read goes on.       *)
Reading == rpc # "idle" \/ spc # "idle"

(***************************************************************************)
(* StrikeTelemetryWriter::publish, store by store.                         *)
(***************************************************************************)
WriteSlot == index % Capacity

PublishBegins ==
  /\ wpc = "idle" /\ begun < MaxSamples
  /\ Reading => room > 0
  /\ room' = IF Reading THEN room - 1 ELSE room
  /\ begun' = begun + 1
  /\ ring' = [ring EXCEPT ![WriteSlot] = [sample |-> Torn, seq |-> 0]]
  /\ wpc' = "copy"
  /\ UNCHANGED <<seq, index, newest, restarts, latestVars, seriesVars>>

PublishCopies ==
  /\ wpc = "copy" /\ wpc' = "number"
  /\ ring' = [ring EXCEPT ![WriteSlot].sample = begun]
  /\ UNCHANGED <<seq, index, begun, newest, restarts, latestVars, seriesVars, room>>

PublishNumbers ==
  /\ wpc = "number" /\ wpc' = "index"
  /\ ring' = [ring EXCEPT ![WriteSlot].seq = seq + 1]
  /\ UNCHANGED <<seq, index, begun, newest, restarts, latestVars, seriesVars, room>>

PublishIndex ==
  /\ wpc = "index" /\ wpc' = "seq"
  /\ index' = index + 1
  /\ UNCHANGED <<seq, ring, begun, newest, restarts, latestVars, seriesVars, room>>

PublishSeq ==
  /\ wpc = "seq" /\ wpc' = "idle"
  /\ seq' = seq + 1
  /\ newest' = begun
  /\ UNCHANGED <<index, ring, begun, restarts, latestVars, seriesVars, room>>

Publish ==
  \/ PublishBegins \/ PublishCopies \/ PublishNumbers
  \/ PublishIndex \/ PublishSeq

(***************************************************************************)
(* bf_flight dies anywhere in publish and is started again.  open() zeroes *)
(* the header the reader has mapped and leaves the samples.  Starting the  *)
(* process takes seconds, so no read is going on.                          *)
(***************************************************************************)
WriterRestarts ==
  /\ restarts < MaxRestarts /\ ~Reading
  /\ restarts' = restarts + 1
  /\ seq' = 0 /\ index' = 0
  /\ wpc' = "idle"
  /\ UNCHANGED <<ring, begun, newest, latestVars, seriesVars, room>>

(***************************************************************************)
(* StrikeTelemetryReader::readLatest.                                      *)
(***************************************************************************)
Fresh == IF Reading THEN room ELSE Lag

ReadSeq ==
  /\ rpc = "idle"
  /\ seq # 0 /\ seq # lastSeq
  /\ rpc' = "index"
  /\ rseq' = seq
  /\ room' = Fresh
  /\ UNCHANGED <<memory, writer, rslot, rhalf, lastSeq, latest, seriesVars>>

(* Mutation: the slot the writer will use next.                            *)
NextSlot == index % Capacity
LatestSlot == (IF index = 0 THEN 0 ELSE index - 1) % Capacity

ReadIndex ==
  /\ rpc = "index" /\ rpc' = "copy"
  /\ rslot' = LatestSlot
  /\ UNCHANGED <<memory, writer, rseq, rhalf, lastSeq, latest, seriesVars, room>>

(* The sample is copied piece by piece.                                    *)
ReadCopies ==
  /\ rpc = "copy" /\ rpc' = "rest"
  /\ rhalf' = ring[rslot].sample
  /\ UNCHANGED <<memory, writer, rseq, rslot, lastSeq, latest, seriesVars, room>>

(* Mutation: the number remembered is the one the header has by now.       *)
ReadRemembersLater ==
  /\ rpc = "rest" /\ rpc' = "idle"
  /\ latest' = IF ring[rslot].sample = rhalf THEN rhalf ELSE Torn
  /\ lastSeq' = seq
  /\ UNCHANGED <<memory, writer, rseq, rslot, rhalf, seriesVars, room>>

ReadReturns ==
  /\ rpc = "rest" /\ rpc' = "idle"
  /\ latest' = IF ring[rslot].sample = rhalf THEN rhalf ELSE Torn
  /\ lastSeq' = rseq
  /\ UNCHANGED <<memory, writer, rseq, rslot, rhalf, seriesVars, room>>

ReadLatest == ReadSeq \/ ReadIndex \/ ReadCopies \/ ReadReturns

(***************************************************************************)
(* StrikeTelemetryReader::seriesJson.                                      *)
(***************************************************************************)
(* start: read seq, then write_index.                                      *)
SeriesBegins ==
  /\ spc = "idle"
  /\ spos' = seq
  /\ spc' = "start"
  /\ sout' = <<>>
  /\ room' = Fresh
  /\ UNCHANGED <<memory, writer, latestVars>>

(* Mutation: every slot of the ring, the one being written included.       *)
WholeRing(n) == IF n > Capacity - 1 THEN index - Capacity ELSE 0
SeriesStart(n) == IF n > Window THEN index - Window ELSE 0

SeriesStarts ==
  /\ spc = "start" /\ spc' = "loop"
  /\ spos' = SeriesStart(spos)
  /\ UNCHANGED <<memory, writer, latestVars, sout, room>>

(* One round of the loop, which reads write_index again.                   *)
SeriesTakes ==
  /\ spc = "loop" /\ spos < index
  /\ spos' = spos + 1
  /\ sout' = IF ring[spos % Capacity].seq = 0
             THEN sout
             ELSE Append(sout, ring[spos % Capacity].sample)
  /\ UNCHANGED <<memory, writer, latestVars, spc, room>>

SeriesEnds ==
  /\ spc = "loop" /\ spos >= index
  /\ spc' = "idle"
  /\ UNCHANGED <<memory, writer, latestVars, spos, sout, room>>

Series == SeriesBegins \/ SeriesStarts \/ SeriesTakes \/ SeriesEnds

Next == Publish \/ WriterRestarts \/ ReadLatest \/ Series

Spec == Init /\ [][Next]_vars

(* bf_debugd's main loop reads the telemetry every 33 ms; a publish or a   *)
(* series that was begun is finished, and nothing makes a new one begin.   *)
FairSpec ==
  /\ Spec
  /\ WF_vars(Publish /\ wpc # "idle")
  /\ WF_vars(ReadLatest)
  /\ WF_vars(Series /\ spc # "idle")

-----------------------------------------------------------------------------
(* A series holds whole samples, one for each publish and without a gap,   *)
(* although samples are appended while it is built and nothing is checked  *)
(* afterwards; so does what readLatest has returned.                       *)
SeriesWholeAndGapless ==
  \A i \in 1 .. Len(sout) :
    /\ sout[i] # Torn
    /\ i > 1 => sout[i] = sout[i - 1] + 1

(* The latest sample is always whole and never goes back to an older one,  *)
(* over restarts of the writer too, whose counters begin again.            *)
LatestMovesForward == [][latest' >= latest /\ latest' # Torn]_latest

(* When the control loop stops publishing, its last sample is read (a      *)
(* restart may take it from the header before it was).                     *)
LastSampleRead ==
  \A n \in 1 .. MaxSamples :
    newest = n ~> latest >= n \/ restarts > 0
=============================================================================
