----------------------------- MODULE ParamTuning -----------------------------
(***************************************************************************)
(* Changing a parameter from the browser.  A handler thread of bf_debugd   *)
(* writes the POSTed update to the one-place param_block shared memory;    *)
(* the control loop of bf_flight polls it, applies it and writes all its   *)
(* parameters to the snapshot shared memory; the handler waits for the     *)
(* snapshot's count to grow and answers with what it then reads there.     *)
(*                                                                         *)
(* Each POST sets a parameter of its own and is abstracted to its number,  *)
(* so the parameters are the set of the POSTs that took effect.  Mixed is  *)
(* what a reader gets from a payload that is being overwritten.  A payload *)
(* and its length are stored before the count, in program order.           *)
(***************************************************************************)
EXTENDS Naturals

CONSTANTS
  Handlers,        (* the HTTP server's request threads                    *)
  MaxPosts,        (* bound: POSTs of a run                                *)
  MaxDebugdStarts, (* bound: how often bf_debugd is started again          *)
  MaxFlightStarts, (* bound: how often bf_flight is started again          *)
  Prompt,          (* does the loop serve the block within the 500 ms a    *)
                   (* handler waits?                                       *)
  Mixed, NoHandler

ASSUME ParamAssumption ==
  /\ MaxPosts \in Nat /\ MaxDebugdStarts \in Nat /\ MaxFlightStarts \in Nat
  /\ Prompt \in BOOLEAN
  /\ NoHandler \notin Handlers
  /\ Mixed \notin Nat

NoUpdate == 0
NoAnswer == [update |-> NoUpdate, params |-> {}]
Update   == Nat \cup {Mixed}

VARIABLES
  block,     (* param_block: count, last complete update, is it whole?     *)
  writer,    (* the handler that holds ParamBlockWriter.mu_                *)
  hpc, sent, before, (* the handlers: where each is, its update and the    *)
                     (* snapshot count it read before writing              *)
  answer,    (* the last snapshot each answered a POST with                *)
  posts,     (* POSTs so far                                               *)
  snap,      (* the snapshot: count, parameters, is it whole, has it a     *)
             (* length?                                                    *)
  fpc, fseq, fgot,   (* the control loop: where it is, what it has read    *)
  lastSeq,   (* ParamBlockReader.last_seq_                                 *)
  params,    (* the controller's parameters                                *)
  taken,     (* the updates ever handed to the controller                  *)
  debugdStarts, flightStarts,
  orderly    (* history: so far every POST came when the one before it was *)
             (* answered and served, and no process was started again      *)

handlerVars == <<writer, hpc, sent, before, answer, posts>>
flightVars  == <<fpc, fseq, fgot, lastSeq, params, taken>>
startVars   == <<debugdStarts, flightStarts, orderly>>
vars        == <<block, snap, handlerVars, flightVars, startVars>>

TypeOK ==
  /\ block \in [seq : Nat, update : Nat, whole : BOOLEAN]
  /\ snap \in [seq : Nat, params : SUBSET Update, whole : BOOLEAN, sized : BOOLEAN]
  /\ writer \in Handlers \cup {NoHandler}
  /\ hpc \in [Handlers -> {"idle", "write", "copying", "count", "wait", "read"}]
  /\ sent \in [Handlers -> Nat] /\ before \in [Handlers -> Nat]
  /\ answer \in [Handlers -> [update : Nat, params : SUBSET Update]]
  /\ posts \in Nat
  /\ fpc \in {"poll", "copy", "check", "publish", "publishing", "count"}
  /\ fseq \in Nat /\ fgot \in Update /\ lastSeq \in Nat
  /\ params \subseteq Update /\ taken \subseteq Update
  /\ debugdStarts \in Nat /\ flightStarts \in Nat /\ orderly \in BOOLEAN

(* Both processes are up: bf_debugd has opened an empty block, bf_flight   *)
(* has published the parameters of its configuration file and enters its   *)
(* loop.  FlightRestarts adds the moments before that.                     *)
Init ==
  /\ block = [seq |-> 0, update |-> NoUpdate, whole |-> TRUE]
  /\ snap = [seq |-> 1, params |-> {}, whole |-> TRUE, sized |-> TRUE]
  /\ writer = NoHandler
  /\ hpc = [h \in Handlers |-> "idle"]
  /\ sent = [h \in Handlers |-> NoUpdate]
  /\ before = [h \in Handlers |-> 0]
  /\ answer = [h \in Handlers |-> NoAnswer]
  /\ posts = 0
  /\ fpc = "poll" /\ fseq = 0 /\ fgot = NoUpdate /\ lastSeq = 0
  /\ params = {} /\ taken = {}
  /\ debugdStarts = 0 /\ flightStarts = 0 /\ orderly = TRUE

HandlerGoes(h, from, to) == hpc[h] = from /\ hpc' = [hpc EXCEPT ![h] = to]
FlightGoes(from, to)     == fpc = from /\ fpc' = to

(* Has the loop taken what is in the block?                                *)
Served == fpc = "poll" /\ block.seq = lastSeq

(***************************************************************************)
(* The POST handler of bf_debugd and ParamBlockWriter::writeJson.          *)
(***************************************************************************)
PostArrives(h) ==
  /\ HandlerGoes(h, "idle", "write")
  /\ posts < MaxPosts
  /\ posts' = posts + 1
  /\ sent' = [sent EXCEPT ![h] = posts + 1]
  /\ before' = [before EXCEPT ![h] = snap.seq]
  /\ orderly' = (orderly /\ Served /\ \A g \in Handlers : hpc[g] = "idle")
  /\ UNCHANGED <<block, snap, writer, answer, flightVars, debugdStarts, flightStarts>>

(* The body is longer than the block: an error is answered.                *)
PostTooLong(h) ==
  /\ HandlerGoes(h, "write", "idle")
  /\ UNCHANGED <<block, snap, writer, sent, before, answer, posts, flightVars, startVars>>

PostOverwrites(h) ==
  /\ HandlerGoes(h, "write", "copying")
  /\ writer = NoHandler
  /\ writer' = h
  /\ block' = [block EXCEPT !.whole = FALSE]
  /\ UNCHANGED <<snap, sent, before, answer, posts, flightVars, startVars>>

PostCopied(h) ==
  /\ HandlerGoes(h, "copying", "count")
  /\ block' = [block EXCEPT !.update = sent[h], !.whole = TRUE]
  /\ UNCHANGED <<snap, writer, sent, before, answer, posts, flightVars, startVars>>

(* Mutation: the mutex of the block is not unlocked.                       *)
PostCountedLocked(h) ==
  /\ HandlerGoes(h, "count", "wait")
  /\ block' = [block EXCEPT !.seq = @ + 1]
  /\ UNCHANGED <<snap, writer, sent, before, answer, posts, flightVars, startVars>>

PostCounted(h) ==
  /\ HandlerGoes(h, "count", "wait")
  /\ block' = [block EXCEPT !.seq = @ + 1]
  /\ writer' = NoHandler
  /\ UNCHANGED <<snap, sent, before, answer, posts, flightVars, startVars>>

(* Mutation: >= for >.                                                     *)
PostSeesOldSnapshot(h) ==
  /\ HandlerGoes(h, "wait", "read")
  /\ snap.seq >= before[h]
  /\ UNCHANGED <<block, snap, writer, sent, before, answer, posts, flightVars, startVars>>

(* Polled every 5 ms: has the snapshot's count grown?                      *)
PostSeesSnapshot(h) ==
  /\ HandlerGoes(h, "wait", "read")
  /\ snap.seq > before[h]
  /\ UNCHANGED <<block, snap, writer, sent, before, answer, posts, flightVars, startVars>>

(* readCurrentJson does not look at the count again, so it may return a    *)
(* snapshot that is being overwritten.                                     *)
PostAnswers(h) ==
  /\ HandlerGoes(h, "read", "idle")
  /\ snap.sized
  /\ \E content \in {snap.params} \cup IF snap.whole THEN {} ELSE {params, {Mixed}} :
       answer' = [answer EXCEPT ![h] = [update |-> sent[h], params |-> content]]
  /\ UNCHANGED <<block, snap, writer, sent, before, posts, flightVars, startVars>>

(* "pending" is answered: the snapshot is empty ...                        *)
PostReadsNothing(h) ==
  /\ HandlerGoes(h, "read", "idle")
  /\ ~snap.sized
  /\ UNCHANGED <<block, snap, writer, sent, before, answer, posts, flightVars, startVars>>

(* ... or 500 ms have passed.                                              *)
PostTimesOut(h) ==
  /\ HandlerGoes(h, "wait", "idle")
  /\ Prompt => Served /\ snap.seq <= before[h]
  /\ UNCHANGED <<block, snap, writer, sent, before, answer, posts, flightVars, startVars>>

(***************************************************************************)
(* The control loop of bf_flight and ParamBlockReader::readLatestJson.     *)
(***************************************************************************)
FlightSeesUpdate ==
  /\ FlightGoes("poll", "copy")
  /\ block.seq # 0 /\ block.seq # lastSeq
  /\ fseq' = block.seq
  /\ UNCHANGED <<block, snap, handlerVars, fgot, lastSeq, params, taken, startVars>>

(* While the block is being overwritten the copy may hold the old update,  *)
(* the new one, or a mixture of both.                                      *)
FlightCopies ==
  /\ FlightGoes("copy", "check")
  /\ \E content \in {block.update} \cup
                    IF block.whole \/ writer = NoHandler THEN {}
                    ELSE {sent[writer], Mixed} :
       fgot' = content
  /\ UNCHANGED <<block, snap, handlerVars, fseq, lastSeq, params, taken, startVars>>

(* Mutation: a read that failed counts as done.                            *)
FlightGivesUp ==
  /\ FlightGoes("check", "poll")
  /\ block.seq # fseq
  /\ lastSeq' = block.seq
  /\ UNCHANGED <<block, snap, handlerVars, fseq, fgot, params, taken, startVars>>

FlightRetries ==
  /\ FlightGoes("check", "poll")
  /\ block.seq # fseq
  /\ UNCHANGED <<block, snap, handlerVars, fseq, fgot, lastSeq, params, taken, startVars>>

FlightAccepts(next) ==
  /\ FlightGoes("check", next)
  /\ block.seq = fseq
  /\ lastSeq' = fseq
  /\ taken' = taken \cup {fgot}

(* Mutation: the snapshot is not written again.                            *)
FlightAppliesSilently ==
  /\ FlightAccepts("poll")
  /\ params' = params \cup {fgot}
  /\ UNCHANGED <<block, snap, handlerVars, fseq, fgot, startVars>>

(* A mixture that still parses is applied like any other update.           *)
FlightApplies ==
  /\ FlightAccepts("publish")
  /\ params' = params \cup {fgot}
  /\ UNCHANGED <<block, snap, handlerVars, fseq, fgot, startVars>>

(* An unknown name, or JSON that does not parse.                           *)
FlightRefuses ==
  /\ FlightAccepts("poll")
  /\ UNCHANGED <<block, snap, handlerVars, fseq, fgot, params, startVars>>

(* publishParamsSnapshot, also once before the loop begins.                *)
SnapshotOverwritten ==
  /\ FlightGoes("publish", "publishing")
  /\ snap' = [snap EXCEPT !.whole = FALSE]
  /\ UNCHANGED <<block, handlerVars, fseq, fgot, lastSeq, params, taken, startVars>>

SnapshotCopied ==
  /\ FlightGoes("publishing", "count")
  /\ snap' = [snap EXCEPT !.params = params, !.whole = TRUE, !.sized = TRUE]
  /\ UNCHANGED <<block, handlerVars, fseq, fgot, lastSeq, params, taken, startVars>>

SnapshotCounted ==
  /\ FlightGoes("count", "poll")
  /\ snap' = [snap EXCEPT !.seq = @ + 1]
  /\ UNCHANGED <<block, handlerVars, fseq, fgot, lastSeq, params, taken, startVars>>

(***************************************************************************)
(* Either process dies and is started again: it opens its own memory with  *)
(* the count back at 0, which the other still has mapped.  Starting        *)
(* bf_debugd takes seconds and a read of the block microseconds, so it is  *)
(* not inside one; a handler may be anywhere when bf_flight starts.        *)
(***************************************************************************)
DebugdRestarts ==
  /\ debugdStarts < MaxDebugdStarts
  /\ fpc \notin {"copy", "check"}
  /\ debugdStarts' = debugdStarts + 1 /\ orderly' = FALSE
  /\ block' = [block EXCEPT !.seq = 0]
  /\ writer' = NoHandler
  /\ hpc' = [h \in Handlers |-> "idle"]
  /\ UNCHANGED <<snap, sent, before, answer, posts, flightVars, flightStarts>>

(* The new process has the parameters of its configuration file, and its   *)
(* reader has seen nothing: it takes the old update from the block again.  *)
FlightRestarts ==
  /\ flightStarts < MaxFlightStarts
  /\ flightStarts' = flightStarts + 1 /\ orderly' = FALSE
  /\ snap' = [snap EXCEPT !.seq = 0, !.sized = FALSE]
  /\ fpc' = "publish"
  /\ lastSeq' = 0
  /\ params' = {}
  /\ UNCHANGED <<block, handlerVars, fseq, fgot, taken, debugdStarts>>

Handler(h) ==
  \/ PostOverwrites(h) \/ PostCopied(h) \/ PostCounted(h)
  \/ PostSeesSnapshot(h) \/ PostAnswers(h) \/ PostReadsNothing(h)
  \/ PostTimesOut(h)

Flight ==
  \/ FlightSeesUpdate \/ FlightCopies \/ FlightRetries \/ FlightApplies
  \/ FlightRefuses \/ SnapshotOverwritten \/ SnapshotCopied \/ SnapshotCounted

Next ==
  \/ \E h \in Handlers : PostArrives(h) \/ PostTooLong(h) \/ Handler(h)
  \/ Flight
  \/ DebugdRestarts \/ FlightRestarts

Spec == Init /\ [][Next]_vars

(* The control loop keeps running; a handler that runs gets on, its        *)
(* deadline passes, and the mutex of the block is not withheld from it.    *)
(* No update is assumed to be too long to be written.                      *)
FairSpec ==
  /\ Spec
  /\ WF_vars(Flight)
  /\ \A h \in Handlers : WF_vars(Handler(h)) /\ SF_vars(PostOverwrites(h))

-----------------------------------------------------------------------------
(* A POST that is answered with a snapshot is answered with one that holds *)
(* its own update: the wait of the handler (bf_debugd, main.cpp) is there  *)
(* so that the browser does not get a stale one.                           *)
Holds(a) == a.update # NoUpdate => a.update \in a.params
AnswerHoldsUpdate == \A h \in Handlers : Holds(answer[h])

(* As long as POSTs come one after the other that is so, and the           *)
(* controller only applies updates somebody sent, although neither reader  *)
(* can tell a payload that is being overwritten from a whole one.          *)
OrderlyPostsTakeEffect ==
  orderly => AnswerHoldsUpdate /\ params \subseteq 1 .. posts

(* Between two updates the snapshot is whole and says what the controller  *)
(* uses, whatever was applied, refused, or left half done by a restart.    *)
SnapshotIsCurrent ==
  fpc \in {"poll", "copy", "check"} =>
    snap.whole /\ snap.sized /\ snap.params = params

(* An update that is complete in the block does not stay there unseen: the *)
(* loop takes it, or a handler overwrites it.                              *)
Posted(u) == block.seq # 0 /\ writer = NoHandler /\ block.update = u /\ u # NoUpdate
UpdatesTaken == \A u \in 1 .. MaxPosts : Posted(u) ~> u \in taken \/ ~Posted(u)

(* So it is in one life of bf_debugd, restarts of bf_flight included.      *)
UpdatesTakenInOneLife ==
  \A u \in 1 .. MaxPosts :
    Posted(u) ~> u \in taken \/ ~Posted(u) \/ debugdStarts > 0

(* Every POST is answered.                                                 *)
PostsAnswered == \A h \in Handlers : hpc[h] # "idle" ~> hpc[h] = "idle"
=============================================================================
