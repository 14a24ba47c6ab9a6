-------------------------- MODULE ParamTuning_proofs --------------------------
(***************************************************************************)
(* What holds of a change of parameters for any number of handlers, POSTs  *)
(* and restarts, with any timing.                                          *)
(***************************************************************************)
EXTENDS ParamTuning, TLAPS

(***************************************************************************)
(* The inductive invariant.                                                *)
(***************************************************************************)
(* The snapshot says what the controller uses from the time it is copied,  *)
(* before it is counted.                                                   *)
SnapshotInv ==
  fpc \in {"poll", "copy", "check", "count"} =>
    snap.whole /\ snap.sized /\ snap.params = params

Busy(h)    == hpc[h] # "idle"
Writing(h) == hpc[h] \in {"write", "copying", "count"}

(* While POSTs come one after the other, one handler is busy at most, and  *)
(* the last POST is its.                                                   *)
OneHandler ==
  /\ \A g, h \in Handlers : Busy(g) /\ Busy(h) => g = h
  /\ \A h \in Handlers : Busy(h) => sent[h] = posts /\ posts # 0

(* The loop only looks at the block when nobody writes to it, and what it  *)
(* finds there is the last POST.                                           *)
LoopHasLast ==
  /\ \A h \in Handlers : Writing(h) => Served
  /\ \A h \in Handlers : hpc[h] = "count" => block.whole /\ block.update = posts
  /\ ~Served => block.whole /\ block.update = posts /\ posts # 0
  /\ fpc \in {"copy", "check"} => fseq = block.seq
  /\ fpc = "check" => fgot = posts
  /\ fpc \in {"publish", "publishing", "count"} => block.seq = lastSeq /\ posts \in params
  /\ params \subseteq 1 .. posts

(* The count of the snapshot only grows for the POST that is waited for.   *)
CountIsForLast ==
  \A h \in Handlers :
    /\ Busy(h) => snap.seq >= before[h]
    /\ Busy(h) /\ (Writing(h) \/ ~Served) => snap.seq = before[h]
    /\ Busy(h) /\ snap.seq > before[h] => posts \in params
    /\ hpc[h] = "read" => snap.seq > before[h]

OrderlyInv ==
  orderly => OneHandler /\ LoopHasLast /\ CountIsForLast /\ AnswerHoldsUpdate

TuneInv == TypeOK /\ SnapshotInv /\ OrderlyInv

LEMMA TuneInit == Init => TuneInv
<1> SUFFICES ASSUME Init PROVE TuneInv
  OBVIOUS
<1>1. TypeOK
  BY DEF Init, TypeOK, Update, NoUpdate, NoAnswer
<1>2. QED
  BY <1>1 DEF Init, TuneInv, SnapshotInv, OrderlyInv, OneHandler, LoopHasLast, Busy,
              Writing, Served, CountIsForLast, AnswerHoldsUpdate, Holds, NoAnswer, NoUpdate

(***************************************************************************)
(* The handlers.                                                           *)
(***************************************************************************)
LEMMA ArrivalKeeps ==
  ASSUME TuneInv, NEW h \in Handlers, PostArrives(h) PROVE TuneInv'
<1> USE DEF TuneInv
<1>1. posts \in Nat /\ snap.seq \in Nat
  BY DEF TypeOK
<1>2. TypeOK'
  BY <1>1 DEF PostArrives, HandlerGoes, TypeOK, flightVars
<1>3. SnapshotInv'
  BY DEF PostArrives, SnapshotInv, flightVars
<1>4. OrderlyInv'
  <2> SUFFICES ASSUME orderly' PROVE (OneHandler /\ LoopHasLast /\ CountIsForLast /\ AnswerHoldsUpdate)'
    BY DEF OrderlyInv
  <2>1. orderly /\ Served /\ \A g \in Handlers : hpc[g] = "idle"
    BY Zenon DEF PostArrives
  <2>2. /\ hpc' = [hpc EXCEPT ![h] = "write"] /\ posts' = posts + 1
        /\ sent' = [sent EXCEPT ![h] = posts + 1] /\ before' = [before EXCEPT ![h] = snap.seq]
        /\ UNCHANGED <<block, snap, answer, fpc, fseq, fgot, lastSeq, params>>
    BY DEF PostArrives, HandlerGoes, flightVars
  <2>3. /\ hpc' \in [Handlers -> {"idle", "write"}] /\ hpc'[h] = "write"
        /\ \A g \in Handlers : g # h => hpc'[g] = "idle"
        /\ sent'[h] = posts' /\ posts' # 0 /\ before'[h] = snap.seq
    BY <1>1, <2>1, <2>2 DEF TypeOK
  <2>4. OneHandler'
    BY <2>3 DEF OneHandler, Busy
  <2>5. fpc = "poll" /\ Served'
    BY <2>1, <2>2 DEF Served
  <2>6. params \subseteq 1 .. posts
    BY <2>1 DEF OrderlyInv, LoopHasLast
  <2>7. params' \subseteq 1 .. posts'
    BY <1>1, <2>2, <2>6
  <2>8. LoopHasLast'
    BY <2>2, <2>3, <2>5, <2>7 DEF LoopHasLast, Writing
  <2>9. CountIsForLast'
    BY <1>1, <2>2, <2>3, <2>5 DEF CountIsForLast, Busy, Writing
  <2>10. AnswerHoldsUpdate'
    BY <2>1, <2>2 DEF OrderlyInv, AnswerHoldsUpdate, Holds
  <2>11. QED
    BY <2>4, <2>8, <2>9, <2>10
<1>5. QED
  BY <1>2, <1>3, <1>4

LEMMA WriteKeeps ==
  ASSUME TuneInv, NEW h \in Handlers, PostOverwrites(h) \/ PostCopied(h) \/ PostCounted(h)
  PROVE  TuneInv'
<1> USE DEF TuneInv
<1>1. /\ UNCHANGED <<snap, sent, before, answer, posts, fpc, fseq, fgot, lastSeq, params,
                     taken, debugdStarts, flightStarts, orderly>>
      /\ hpc[h] \in {"write", "copying", "count"}
      /\ hpc' = [hpc EXCEPT ![h] = IF hpc[h] = "write" THEN "copying"
                                   ELSE IF hpc[h] = "copying" THEN "count" ELSE "wait"]
  BY DEF PostOverwrites, PostCopied, PostCounted, HandlerGoes, flightVars, startVars
<1>2. /\ hpc[h] = "write" => block' = [block EXCEPT !.whole = FALSE]
      /\ hpc[h] = "copying" => block' = [block EXCEPT !.update = sent[h], !.whole = TRUE]
      /\ hpc[h] = "count" => block' = [block EXCEPT !.seq = block.seq + 1]
      /\ writer' \in Handlers \cup {NoHandler}
  BY DEF PostOverwrites, PostCopied, PostCounted, HandlerGoes, TypeOK
<1>3. /\ block \in [seq : Nat, update : Nat, whole : BOOLEAN] /\ sent[h] \in Nat
      /\ lastSeq \in Nat /\ snap.seq \in Nat
      /\ hpc \in [Handlers -> {"idle", "write", "copying", "count", "wait", "read"}]
  BY DEF TypeOK
<1>4. /\ block' \in [seq : Nat, update : Nat, whole : BOOLEAN]
      /\ hpc[h] # "count" => block'.seq = block.seq
      /\ hpc[h] = "copying" => block'.update = sent[h] /\ block'.whole
      /\ hpc[h] = "count" => /\ block'.update = block.update /\ block'.whole = block.whole
                             /\ block'.seq = block.seq + 1
  <2>1. CASE hpc[h] = "write"
    BY <1>2, <1>3, <2>1
  <2>2. CASE hpc[h] = "copying"
    BY <1>2, <1>3, <2>2
  <2>3. CASE hpc[h] = "count"
    <3>1. block.seq + 1 \in Nat
      BY <1>3
    <3>2. QED
      BY <1>2, <1>3, <2>3, <3>1
  <2>4. QED
    BY <1>1, <2>1, <2>2, <2>3
<1>5. TypeOK'
  BY <1>1, <1>2, <1>3, <1>4 DEF TypeOK
<1>6. SnapshotInv'
  BY <1>1 DEF SnapshotInv
<1>7. OrderlyInv'
  <2> SUFFICES ASSUME orderly PROVE (OneHandler /\ LoopHasLast /\ CountIsForLast /\ AnswerHoldsUpdate)'
    BY <1>1 DEF OrderlyInv
  <2> USE DEF OrderlyInv
  <2>1. /\ hpc'[h] = (IF hpc[h] = "write" THEN "copying"
                      ELSE IF hpc[h] = "copying" THEN "count" ELSE "wait")
        /\ \A g \in Handlers : g # h => hpc'[g] = hpc[g] /\ hpc[g] = "idle"
    BY <1>1, <1>3 DEF OneHandler, Busy
  <2>2. OneHandler'
    BY <1>1, <2>1 DEF OneHandler, Busy
  <2>3. fpc = "poll" /\ block.seq = lastSeq /\ sent[h] = posts /\ posts # 0 /\ snap.seq = before[h]
    BY <1>1 DEF LoopHasLast, OneHandler, CountIsForLast, Writing, Busy, Served
  <2>4. hpc[h] = "count" => block.whole /\ block.update = posts
    BY DEF LoopHasLast
  <2>5. Served' <=> hpc[h] # "count"
    BY <1>1, <1>3, <1>4, <2>3 DEF Served
  <2>6. LoopHasLast'
    BY <1>1, <1>4, <2>1, <2>3, <2>4, <2>5 DEF LoopHasLast, Writing
  <2>7. CountIsForLast'
    BY <1>1, <1>3, <2>1, <2>3 DEF CountIsForLast, Busy, Writing
  <2>8. AnswerHoldsUpdate'
    BY <1>1 DEF AnswerHoldsUpdate, Holds
  <2>9. QED
    BY <2>2, <2>6, <2>7, <2>8
<1>8. QED
  BY <1>5, <1>6, <1>7

LEMMA WaitKeeps ==
  ASSUME TuneInv, NEW h \in Handlers,
         \/ PostTooLong(h) \/ PostSeesSnapshot(h)
         \/ PostReadsNothing(h) \/ PostTimesOut(h)
  PROVE  TuneInv'
<1> USE DEF TuneInv
<1>1. /\ UNCHANGED <<block, snap, writer, sent, before, answer, posts>>
      /\ UNCHANGED <<fpc, fseq, fgot, lastSeq, params, taken, debugdStarts, flightStarts, orderly>>
      /\ \/ hpc[h] # "idle" /\ hpc' = [hpc EXCEPT ![h] = "idle"]
         \/ hpc[h] = "wait" /\ hpc' = [hpc EXCEPT ![h] = "read"] /\ snap.seq > before[h]
  BY DEF PostTooLong, PostSeesSnapshot, PostReadsNothing, PostTimesOut, HandlerGoes,
         flightVars, startVars
<1>2. hpc \in [Handlers -> {"idle", "write", "copying", "count", "wait", "read"}]
  BY DEF TypeOK
<1>3. TypeOK'
  BY <1>1, <1>2 DEF TypeOK
<1>4. \A g \in Handlers :
        /\ Busy(g)' => Busy(g)
        /\ Writing(g)' => Writing(g)
        /\ hpc'[g] = "count" => hpc[g] = "count"
        /\ hpc'[g] = "read" => hpc[g] = "read" \/ snap.seq > before[g]
  BY <1>1, <1>2 DEF Busy, Writing
<1>5. SnapshotInv'
  BY <1>1 DEF SnapshotInv
<1>6. (OneHandler' /\ LoopHasLast' /\ CountIsForLast') \/ ~orderly
  BY <1>1, <1>4 DEF OrderlyInv, OneHandler, LoopHasLast, CountIsForLast, Served
<1>7. AnswerHoldsUpdate' \/ ~orderly
  BY <1>1 DEF OrderlyInv, AnswerHoldsUpdate, Holds
<1>8. QED
  BY <1>1, <1>3, <1>5, <1>6, <1>7 DEF OrderlyInv

LEMMA AnswerKeeps ==
  ASSUME TuneInv, NEW h \in Handlers, PostAnswers(h) PROVE TuneInv'
<1> USE DEF TuneInv
<1>1. /\ UNCHANGED <<block, snap, writer, sent, before, posts>>
      /\ UNCHANGED <<fpc, fseq, fgot, lastSeq, params, taken, debugdStarts, flightStarts, orderly>>
      /\ hpc[h] = "read" /\ hpc' = [hpc EXCEPT ![h] = "idle"]
  BY DEF PostAnswers, HandlerGoes, flightVars, startVars
<1>2. PICK content \in {snap.params} \cup IF snap.whole THEN {} ELSE {params, {Mixed}} :
        answer' = [answer EXCEPT ![h] = [update |-> sent[h], params |-> content]]
  BY Zenon DEF PostAnswers
<1>3. /\ hpc \in [Handlers -> {"idle", "write", "copying", "count", "wait", "read"}]
      /\ content \in SUBSET Update /\ sent[h] \in Nat
      /\ answer \in [Handlers -> [update : Nat, params : SUBSET Update]]
  BY <1>2 DEF TypeOK, Update
<1>4. TypeOK'
  <2>1. answer' \in [Handlers -> [update : Nat, params : SUBSET Update]]
    BY <1>2, <1>3
  <2>2. hpc' \in [Handlers -> {"idle", "write", "copying", "count", "wait", "read"}]
    BY <1>1, <1>3
  <2>3. QED
    BY <1>1, <2>1, <2>2 DEF TypeOK
<1>5. \A g \in Handlers :
        /\ Busy(g)' => Busy(g)
        /\ Writing(g)' => Writing(g)
        /\ hpc'[g] = "count" => hpc[g] = "count"
        /\ hpc'[g] = "read" => hpc[g] = "read"
  BY <1>1, <1>3 DEF Busy, Writing
<1>6. SnapshotInv'
  BY <1>1 DEF SnapshotInv
<1>7. (OneHandler' /\ LoopHasLast' /\ CountIsForLast') \/ ~orderly
  BY <1>1, <1>5 DEF OrderlyInv, OneHandler, LoopHasLast, CountIsForLast, Served
<1>8. AnswerHoldsUpdate' \/ ~orderly
  <2> SUFFICES ASSUME orderly PROVE AnswerHoldsUpdate'
    OBVIOUS
  <2>1. Busy(h) /\ snap.seq > before[h] /\ snap.seq \in Nat /\ before[h] \in Nat
    BY <1>1 DEF OrderlyInv, CountIsForLast, Busy, TypeOK
  <2>2. posts \in params /\ sent[h] = posts /\ Served
    BY <2>1 DEF OrderlyInv, CountIsForLast, OneHandler
  <2>3. content = params
    BY <1>2, <2>2 DEF SnapshotInv, Served
  <2>4. Holds([update |-> sent[h], params |-> content])
    BY <2>2, <2>3 DEF Holds
  <2>5. \A g \in Handlers : answer'[g] = IF g = h THEN [update |-> sent[h], params |-> content]
                                         ELSE answer[g]
    BY <1>2, <1>3
  <2>6. QED
    BY <2>4, <2>5 DEF OrderlyInv, AnswerHoldsUpdate
<1>9. QED
  BY <1>1, <1>4, <1>6, <1>7, <1>8 DEF OrderlyInv

(***************************************************************************)
(* The control loop.                                                       *)
(***************************************************************************)
LEMMA LoopReadsKeeps ==
  ASSUME TuneInv, FlightSeesUpdate \/ FlightCopies \/ FlightRetries PROVE TuneInv'
<1> USE DEF TuneInv
<1>1. /\ UNCHANGED <<block, snap, handlerVars, lastSeq, params, taken, startVars>>
      /\ fpc \in {"poll", "copy", "check"} /\ fpc' \in {"poll", "copy", "check"}
  BY DEF FlightSeesUpdate, FlightCopies, FlightRetries, FlightGoes
<1>2. /\ fpc' = "copy" => fpc = "poll" /\ block.seq # lastSeq /\ fseq' = block.seq
      /\ fpc' = "check" => fpc = "copy" /\ fseq' = fseq
      /\ fpc' = "poll" => fpc = "check" /\ block.seq # fseq
  BY DEF FlightSeesUpdate, FlightCopies, FlightRetries, FlightGoes
<1>3. fseq' \in Nat /\ fgot' \in Update
  <2>1. block.update \in Nat /\ block.seq \in Nat /\ \A h \in Handlers : sent[h] \in Nat
    BY DEF TypeOK
  <2>2. CASE FlightCopies
    <3>1. PICK content \in {block.update} \cup IF block.whole \/ writer = NoHandler THEN {}
                                              ELSE {sent[writer], Mixed} : fgot' = content
      BY <2>2, Zenon DEF FlightCopies
    <3>2. writer \in Handlers \cup {NoHandler}
      BY DEF TypeOK
    <3>3. content \in Update
      BY <2>1, <3>1, <3>2 DEF Update
    <3>4. QED
      BY <2>2, <3>1, <3>3 DEF FlightCopies, TypeOK
  <2>3. CASE FlightSeesUpdate \/ FlightRetries
    BY <2>1, <2>3 DEF FlightSeesUpdate, FlightRetries, TypeOK
  <2>4. QED
    BY <2>2, <2>3
<1>4. TypeOK'
  BY <1>1, <1>3 DEF TypeOK, handlerVars, startVars
<1>5. SnapshotInv'
  BY <1>1 DEF SnapshotInv
<1>6. OrderlyInv'
  <2> SUFFICES ASSUME orderly PROVE (OneHandler /\ LoopHasLast /\ CountIsForLast /\ AnswerHoldsUpdate)'
    BY <1>1 DEF OrderlyInv, startVars
  <2> USE DEF OrderlyInv, handlerVars, startVars
  <2>1. OneHandler' /\ AnswerHoldsUpdate'
    BY <1>1 DEF OneHandler, AnswerHoldsUpdate, Holds, Busy
  <2>2. fpc' # "poll"
    BY <1>2 DEF LoopHasLast
  <2>3. ~Served /\ ~Served'
    BY <1>1, <1>2, <2>2 DEF Served
  <2>4. fpc' = "check" => fgot' = posts
    <3> SUFFICES ASSUME fpc' = "check" PROVE fgot' = posts
      OBVIOUS
    <3>1. block.whole /\ block.update = posts
      BY <2>3 DEF LoopHasLast
    <3>2. FlightCopies
      BY <1>2 DEF FlightSeesUpdate, FlightRetries, FlightGoes
    <3>3. \E content \in {block.update} \cup IF block.whole \/ writer = NoHandler THEN {}
                                             ELSE {sent[writer], Mixed} : fgot' = content
      BY <3>2, Zenon DEF FlightCopies
    <3>4. QED
      BY <3>1, <3>3
  <2>5. LoopHasLast'
    BY <1>1, <1>2, <2>2, <2>3, <2>4 DEF LoopHasLast, Writing
  <2>6. CountIsForLast'
    BY <1>1, <2>3 DEF CountIsForLast, Busy, Writing
  <2>7. QED
    BY <2>1, <2>5, <2>6
<1>7. QED
  BY <1>4, <1>5, <1>6

LEMMA LoopTakesKeeps ==
  ASSUME TuneInv, FlightApplies \/ FlightRefuses PROVE TuneInv'
<1> USE DEF TuneInv
<1>1. /\ UNCHANGED <<block, snap, handlerVars, fseq, fgot, startVars>>
      /\ fpc = "check" /\ block.seq = fseq /\ lastSeq' = fseq /\ taken' = taken \cup {fgot}
      /\ \/ fpc' = "publish" /\ params' = params \cup {fgot}
         \/ fpc' = "poll" /\ params' = params
  BY DEF FlightApplies, FlightRefuses, FlightAccepts, FlightGoes
<1>2. TypeOK'
  BY <1>1 DEF TypeOK, handlerVars, startVars
<1>3. SnapshotInv'
  BY <1>1 DEF SnapshotInv
<1>4. OrderlyInv'
  <2> SUFFICES ASSUME orderly PROVE (OneHandler /\ LoopHasLast /\ CountIsForLast /\ AnswerHoldsUpdate)'
    BY <1>1 DEF OrderlyInv, startVars
  <2> USE DEF OrderlyInv, handlerVars, startVars
  <2>1. OneHandler' /\ AnswerHoldsUpdate'
    BY <1>1 DEF OneHandler, AnswerHoldsUpdate, Holds, Busy
  <2>2. ~Served /\ (Served' <=> fpc' = "poll")
    BY <1>1 DEF Served
  <2>3. /\ fgot = posts /\ posts # 0 /\ posts \in Nat /\ block.whole /\ block.update = posts
        /\ \A h \in Handlers : ~Writing(h)
    BY <1>1, <2>2 DEF LoopHasLast, TypeOK
  <2>4. params' \subseteq 1 .. posts
    BY <1>1, <2>3 DEF LoopHasLast
  <2>5. LoopHasLast'
    BY <1>1, <2>2, <2>3, <2>4 DEF LoopHasLast, Writing
  <2>6. CountIsForLast'
    BY <1>1, <2>2, <2>3 DEF CountIsForLast, Busy, Writing
  <2>7. QED
    BY <2>1, <2>5, <2>6
<1>5. QED
  BY <1>2, <1>3, <1>4

LEMMA LoopPublishesKeeps ==
  ASSUME TuneInv, SnapshotOverwritten \/ SnapshotCopied \/ SnapshotCounted PROVE TuneInv'
<1> USE DEF TuneInv
<1>1. /\ UNCHANGED <<block, handlerVars, fseq, fgot, lastSeq, params, taken, startVars>>
      /\ fpc \in {"publish", "publishing", "count"}
      /\ fpc' = (IF fpc = "publish" THEN "publishing" ELSE IF fpc = "publishing" THEN "count" ELSE "poll")
  BY DEF SnapshotOverwritten, SnapshotCopied, SnapshotCounted, FlightGoes
<1>2. /\ snap \in [seq : Nat, params : SUBSET Update, whole : BOOLEAN, sized : BOOLEAN]
      /\ params \subseteq Update /\ snap.seq + 1 \in Nat
  BY DEF TypeOK
<1>3. /\ snap' \in [seq : Nat, params : SUBSET Update, whole : BOOLEAN, sized : BOOLEAN]
      /\ snap'.seq = (IF fpc = "count" THEN snap.seq + 1 ELSE snap.seq)
      /\ fpc = "publishing" => snap'.params = params /\ snap'.whole /\ snap'.sized
      /\ fpc = "count" => /\ snap'.params = snap.params /\ snap'.whole = snap.whole
                          /\ snap'.sized = snap.sized
  <2>1. CASE SnapshotOverwritten
    BY <1>2, <2>1 DEF SnapshotOverwritten, FlightGoes
  <2>2. CASE SnapshotCopied
    BY <1>2, <2>2 DEF SnapshotCopied, FlightGoes
  <2>3. CASE SnapshotCounted
    BY <1>2, <2>3 DEF SnapshotCounted, FlightGoes
  <2>4. QED
    BY <2>1, <2>2, <2>3
<1>4. TypeOK'
  BY <1>1, <1>3 DEF TypeOK, handlerVars, startVars
<1>5. SnapshotInv'
  BY <1>1, <1>3 DEF SnapshotInv
<1>6. OrderlyInv'
  <2> SUFFICES ASSUME orderly PROVE (OneHandler /\ LoopHasLast /\ CountIsForLast /\ AnswerHoldsUpdate)'
    BY <1>1 DEF OrderlyInv, startVars
  <2> USE DEF OrderlyInv, handlerVars, startVars
  <2>1. OneHandler' /\ AnswerHoldsUpdate'
    BY <1>1 DEF OneHandler, AnswerHoldsUpdate, Holds, Busy
  <2>2. ~Served /\ block.seq = lastSeq /\ posts \in params
    BY <1>1 DEF LoopHasLast, Served
  <2>3. Served' <=> fpc = "count"
    BY <1>1, <2>2 DEF Served
  <2>4. \A h \in Handlers : ~Writing(h)
    BY <2>2 DEF LoopHasLast
  <2>5. LoopHasLast'
    BY <1>1, <2>2, <2>3, <2>4 DEF LoopHasLast, Writing
  <2>6. CountIsForLast'
    <3>1. \A h \in Handlers : Busy(h) => snap.seq = before[h] /\ before[h] \in Nat /\ hpc[h] # "read"
      BY <2>2 DEF CountIsForLast, Busy, TypeOK
    <3>2. QED
      BY <1>1, <1>3, <2>2, <2>3, <2>4, <3>1 DEF CountIsForLast, Busy, Writing
  <2>7. QED
    BY <2>1, <2>5, <2>6
<1>7. QED
  BY <1>4, <1>5, <1>6

LEMMA RestartKeeps ==
  ASSUME TuneInv, DebugdRestarts \/ FlightRestarts PROVE TuneInv'
<1> USE DEF TuneInv
<1>1. orderly' = FALSE
  BY DEF DebugdRestarts, FlightRestarts
<1>types. orderly' \in BOOLEAN /\ debugdStarts + 1 \in Nat /\ flightStarts + 1 \in Nat
  <2>1. orderly' \in BOOLEAN
    BY <1>1, Zenon
  <2>2. QED
    BY <2>1 DEF TypeOK
<1>2. CASE DebugdRestarts
  <2>1. TypeOK'
    <3>1. block' \in [seq : Nat, update : Nat, whole : BOOLEAN]
      BY <1>2 DEF DebugdRestarts, TypeOK
    <3>2. hpc' \in [Handlers -> {"idle", "write", "copying", "count", "wait", "read"}]
      BY <1>2 DEF DebugdRestarts
    <3>3. writer' \in Handlers \cup {NoHandler} /\ debugdStarts' \in Nat
      BY <1>2, <1>types DEF DebugdRestarts
    <3>4. QED
      BY <1>2, <1>types, <3>1, <3>2, <3>3 DEF DebugdRestarts, TypeOK, flightVars
  <2>2. SnapshotInv'
    BY <1>2 DEF DebugdRestarts, SnapshotInv, flightVars
  <2>3. QED
    BY <1>1, <2>1, <2>2 DEF OrderlyInv
<1>3. CASE FlightRestarts
  <2>1. TypeOK'
    <3>1. snap' \in [seq : Nat, params : SUBSET Update, whole : BOOLEAN, sized : BOOLEAN]
      BY <1>3 DEF FlightRestarts, TypeOK
    <3>2. /\ fpc' \in {"poll", "copy", "check", "publish", "publishing", "count"}
          /\ flightStarts' \in Nat /\ lastSeq' \in Nat /\ params' \subseteq Update
      BY <1>3, <1>types DEF FlightRestarts
    <3>3. QED
      BY <1>3, <1>types, <3>1, <3>2 DEF FlightRestarts, TypeOK, handlerVars
  <2>2. SnapshotInv'
    BY <1>3 DEF FlightRestarts, SnapshotInv
  <2>3. QED
    BY <1>1, <2>1, <2>2 DEF OrderlyInv
<1>4. QED
  BY <1>2, <1>3

LEMMA TuneInvHolds == Spec => []TuneInv
<1>1. TuneInv /\ [Next]_vars => TuneInv'
  <2> SUFFICES ASSUME TuneInv, [Next]_vars PROVE TuneInv'
    OBVIOUS
  <2>1. CASE UNCHANGED vars
    BY <2>1 DEF vars, handlerVars, flightVars, startVars, TuneInv, TypeOK, SnapshotInv,
                OrderlyInv, OneHandler, LoopHasLast, CountIsForLast, AnswerHoldsUpdate,
                Holds, Busy, Writing, Served
  <2>2. QED
    BY <2>1, ArrivalKeeps, WriteKeeps, WaitKeeps, AnswerKeeps, LoopReadsKeeps,
       LoopTakesKeeps, LoopPublishesKeeps, RestartKeeps DEF Next, Handler, Flight
<1>2. QED
  BY <1>1, TuneInit, PTL DEF Spec

(* Every variable keeps its type.                                          *)
THEOREM TuneTypes == Spec => []TypeOK
  BY TuneInvHolds, PTL DEF TuneInv

(* Between two updates the snapshot is whole and says what the controller  *)
(* uses, whatever was applied, refused or left half done by a restart.     *)
THEOREM SnapshotSaysWhatIsUsed == Spec => []SnapshotIsCurrent
<1>1. TuneInv => SnapshotIsCurrent
  BY DEF TuneInv, SnapshotInv, SnapshotIsCurrent
<1>2. QED
  BY <1>1, TuneInvHolds, PTL

(* POSTs that come one after the other are answered with a snapshot that   *)
(* holds them, and nothing is applied that nobody sent.                    *)
THEOREM OrderlyPostsAreAnswered == Spec => []OrderlyPostsTakeEffect
<1>1. TuneInv => OrderlyPostsTakeEffect
  BY DEF TuneInv, OrderlyInv, LoopHasLast, OrderlyPostsTakeEffect
<1>2. QED
  BY <1>1, TuneInvHolds, PTL
=============================================================================
