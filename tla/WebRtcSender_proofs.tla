-------------------------- MODULE WebRtcSender_proofs --------------------------
(***************************************************************************)
(* Proofs about the WebRTC sender, for any number of offers and frames and *)
(* any depth to which dispatches are nested: every frame is accounted for, *)
(* frames are pushed in order, and one pipeline plays at a time.           *)
(***************************************************************************)
EXTENDS WebRtcSender, FiniteSetTheorems, SequenceTheorems, TLAPS

(***************************************************************************)
(* The inductive invariant, first what holds of frames.                    *)
(***************************************************************************)
(* The mailbox holds the newest frame, which nobody has taken.             *)
MailboxIsNew ==
  /\ consumed <= latest
  /\ mailbox # None => mailbox = latest /\ consumed < latest

(* What was pushed was taken before, and what is about to be pushed is     *)
(* newer.                                                                  *)
PushIsNew ==
  /\ lastPushed <= consumed
  /\ Running("push", "push") => lastPushed < Top.frame /\ Top.frame <= consumed

InHand == IF Running("push", "push") THEN 1 ELSE 0
InBox  == IF mailbox = None THEN 0 ELSE 1

FramesCounted == latest = dropped + pushed + errors + InHand + InBox

(***************************************************************************)
(* What holds of pipelines while no offer is dispatched inside another.    *)
(***************************************************************************)
IsOffer(i) == stack[i].task.kind = "offer"

OneOfferDispatched == \A i, j \in 1 .. Len(stack) : IsOffer(i) /\ IsOffer(j) => i = j

(* A stop is only under way once the sender no longer runs.                *)
StopIsLate ==
  /\ mpc \in {"invoke", "join", "done"} => ~running
  /\ \A i \in 1 .. Len(sources) : sources[i].kind = "stop" => ~running
  /\ \A i \in 1 .. Len(stack) : stack[i].task.kind = "stop" => ~running

Live(o) == state[o] \in {"ready", "playing"}

(* The pipeline of the offer under way: not stored yet, stored and alive,  *)
(* or torn down by a stop in the middle of the offer.                      *)
OfferHas(o, alive) ==
  \/ pipeline = o /\ state[o] = alive
  \/ pipeline = NoPipeline /\ state[o] = "freed" /\ ~running

OfferAt(o, pc) ==
  /\ pc \in {"size", "build"} => pipeline = NoPipeline
  /\ pc \in {"negotiate", "gather", "play"} => OfferHas(o, "ready")
  /\ pc = "expose" => OfferHas(o, "playing")

PipelinesKnown ==
  /\ OneOfferDispatched
  /\ \A i \in 1 .. Len(stack) : IsOffer(i) => OfferAt(stack[i].task.of, stack[i].pc)
  /\ \A o \in Offers : Live(o) => o = pipeline
  /\ FedAfterPlaying

IInv ==
  /\ TypeOK
  /\ MailboxIsNew /\ PushIsNew /\ FramesCounted
  /\ StopIsLate /\ (~nested => PipelinesKnown)

-----------------------------------------------------------------------------
(***************************************************************************)
(* The stack of dispatches.                                                *)
(***************************************************************************)
Places == {"start", "push", "again", "size", "build", "negotiate",
           "gather", "play", "expose"}

(* A place written over the innermost leaves the others where they are.    *)
LEMMA Replacing ==
  ASSUME NEW S, NEW s \in Seq(S), s # <<>>, NEW x \in S, NEW t, t = <<x>> \o Tail(s)
  PROVE  /\ t \in Seq(S) /\ t # <<>> /\ Head(t) = x /\ Len(t) = Len(s) /\ t[1] = x
         /\ \A i \in 2 .. Len(s) : t[i] = s[i]
<1>1. Tail(s) \in Seq(S) /\ Len(Tail(s)) = Len(s) - 1 /\ Len(s) \in Nat /\ Len(s) >= 1
  BY HeadTailProperties, EmptySeq, LenProperties
<1>2. \A i \in 1 .. Len(Tail(s)) : Tail(s)[i] = s[i + 1]
  BY HeadTailProperties
<1>3. <<x>> \in Seq(S) /\ Len(<<x>>) = 1 /\ <<x>>[1] = x
  OBVIOUS
<1>4. t \in Seq(S) /\ Len(t) = Len(s)
  BY <1>1, <1>3, ConcatProperties
<1>5. t[1] = x /\ \A i \in 2 .. Len(s) : t[i] = s[i]
  BY <1>1, <1>2, <1>3, ConcatProperties
<1>6. t # <<>> /\ Head(t) = x
  BY <1>1, <1>4, <1>5, HeadTailProperties, EmptySeq
<1>7. QED
  BY <1>4, <1>5, <1>6

(* A dispatch comes on top of the others.                                  *)
LEMMA Stacking ==
  ASSUME NEW S, NEW s \in Seq(S), NEW x \in S, NEW t, t = <<x>> \o s
  PROVE  /\ t \in Seq(S) /\ t # <<>> /\ Head(t) = x /\ Len(t) = Len(s) + 1 /\ t[1] = x
         /\ \A i \in 1 .. Len(s) : t[i + 1] = s[i]
<1>1. Len(s) \in Nat
  BY LenProperties
<1>3. <<x>> \in Seq(S) /\ Len(<<x>>) = 1 /\ <<x>>[1] = x
  OBVIOUS
<1>4. t \in Seq(S) /\ Len(t) = Len(s) + 1
  BY <1>1, <1>3, ConcatProperties
<1>5. t[1] = x /\ \A i \in 1 .. Len(s) : t[i + 1] = s[i]
  BY <1>1, <1>3, ConcatProperties
<1>6. t # <<>> /\ Head(t) = x
  BY <1>1, <1>4, <1>5, HeadTailProperties, EmptySeq
<1>7. QED
  BY <1>4, <1>5, <1>6

(* What returns uncovers the one it was dispatched in.                     *)
LEMMA Uncovering ==
  ASSUME NEW S, NEW s \in Seq(S), s # <<>>, NEW t, t = Tail(s)
  PROVE  /\ t \in Seq(S) /\ Len(t) = Len(s) - 1 /\ Len(s) \in Nat \ {0}
         /\ \A i \in 1 .. Len(t) : t[i] = s[i + 1]
         /\ t # <<>> => Head(t) = s[2] /\ 2 \in 1 .. Len(s)
<1>1. t \in Seq(S) /\ Len(t) = Len(s) - 1 /\ Len(s) \in Nat /\ Len(s) >= 1
  BY HeadTailProperties, EmptySeq, LenProperties
<1>2. \A i \in 1 .. Len(t) : t[i] = s[i + 1]
  BY HeadTailProperties
<1>3. ASSUME t # <<>> PROVE Head(t) = s[2] /\ 2 \in 1 .. Len(s)
  <2>1. Head(t) = t[1] /\ Len(t) \in Nat /\ Len(t) >= 1
    BY <1>1, <1>3, HeadTailProperties, EmptySeq, LenProperties
  <2>2. QED
    BY <1>1, <1>2, <2>1
<1>4. QED
  BY <1>1, <1>2, <1>3

(* The place of the innermost dispatch changes.                            *)
LEMMA GoesOn ==
  ASSUME TypeOK, stack # <<>>, NEW p \in Places, Goes(p)
  PROVE  /\ stack' \in Seq(Frames) /\ stack' # <<>> /\ Len(stack') = Len(stack)
         /\ Head(stack').task = Top.task /\ Head(stack').pc = p
         /\ stack'[1].task = stack[1].task /\ stack'[1].pc = p
         /\ \A i \in 2 .. Len(stack) : stack'[i] = stack[i]
<1>1. stack \in Seq(Frames)
  BY DEF TypeOK
<1>2. Top \in Frames /\ Top = stack[1]
  BY <1>1, HeadTailProperties DEF Top
<1> DEFINE f == [Top EXCEPT !.pc = p]
<1>3. f \in Frames /\ f.task = Top.task /\ f.pc = p
  BY <1>2 DEF Frames, Places
<1>4. stack' = <<f>> \o Tail(stack)
  BY DEF Goes
<1> HIDE DEF f
<1>5. QED
  BY <1>1, <1>2, <1>3, <1>4, Replacing

(* A push takes a frame.                                                   *)
TakesFrame == stack' = <<[Top EXCEPT !.pc = "push", !.frame = mailbox]>> \o Tail(stack)

LEMMA FrameTaken ==
  ASSUME TypeOK, stack # <<>>, TakesFrame
  PROVE  /\ stack' \in Seq(Frames) /\ stack' # <<>> /\ Len(stack') = Len(stack)
         /\ Head(stack').task = Top.task /\ Head(stack').frame = mailbox
         /\ Head(stack').pc = "push"
         /\ stack'[1].task = stack[1].task /\ stack[1] = Top
         /\ \A i \in 2 .. Len(stack) : stack'[i] = stack[i]
<1>1. stack \in Seq(Frames) /\ mailbox \in Nat
  BY DEF TypeOK
<1>2. Top \in Frames /\ Top = stack[1]
  BY <1>1, HeadTailProperties DEF Top
<1> DEFINE f == [Top EXCEPT !.pc = "push", !.frame = mailbox]
<1>3. f \in Frames /\ f.task = Top.task /\ f.frame = mailbox /\ f.pc = "push"
  BY <1>1, <1>2 DEF Frames
<1>4. stack' = <<f>> \o Tail(stack)
  BY DEF TakesFrame
<1> HIDE DEF f
<1>5. QED
  BY <1>1, <1>2, <1>3, <1>4, Replacing

(* The innermost dispatch ends.                                            *)
LEMMA ReturnsTo ==
  ASSUME TypeOK, stack # <<>>, Returns
  PROVE  /\ stack' \in Seq(Frames)
         /\ Len(stack) \in Nat \ {0} /\ Len(stack') = Len(stack) - 1
         /\ \A i \in 1 .. Len(stack') : stack'[i] = stack[i + 1]
         /\ stack' # <<>> => Head(stack').pc \in {"size", "gather"}
BY Uncovering DEF TypeOK, Returns

(* A task is dispatched.                                                   *)
LEMMA DispatchedOnTop ==
  ASSUME TypeOK, Dispatch
  PROVE  /\ stack' \in Seq(Frames) /\ stack' # <<>> /\ Len(stack) \in Nat
         /\ Len(stack') = Len(stack) + 1
         /\ stack'[1].task = Head(sources) /\ stack'[1].pc = "start"
         /\ Head(stack').pc = "start"
         /\ \A i \in 1 .. Len(stack) : stack'[i + 1] = stack[i]
         /\ stack # <<>> => stack[1].pc \in {"size", "gather"}
         /\ sources # <<>> /\ Head(sources) \in Tasks
<1>1. stack \in Seq(Frames) /\ sources \in Seq(Tasks) /\ sources # <<>>
  BY DEF TypeOK, Dispatch
<1>2. Head(sources) \in Tasks
  BY <1>1, HeadTailProperties
<1> DEFINE f == [task |-> Head(sources), frame |-> None, pc |-> "start"]
<1>3. f \in Frames /\ f.task = Head(sources) /\ f.pc = "start"
  BY <1>2 DEF Frames, None
<1>4. stack' = <<f>> \o stack
  BY DEF Dispatch
<1>5. stack # <<>> => Top = stack[1] /\ Top.pc \in {"size", "gather"}
  BY <1>1 DEF Dispatch, Waiting, Running, Top
<1>6. Len(stack) \in Nat
  BY <1>1, LenProperties
<1> HIDE DEF f
<1>7. QED
  BY <1>1, <1>2, <1>3, <1>4, <1>5, <1>6, Stacking

(* Those are all the ways the stack changes.                               *)
LEMMA StackSteps ==
  ASSUME Next
  PROVE  \/ stack' = stack
         \/ stack # <<>> /\ \E p \in Places : Goes(p)
         \/ stack # <<>> /\ TakesFrame
         \/ stack # <<>> /\ Returns
         \/ Dispatch
<1>1. CASE MainThread
  BY <1>1 DEF MainThread, AcceptFrame, ScheduleFrame, StopBegins, StopInvokes, StopJoins,
              loopVars
<1>2. CASE \E o \in Offers : HttpThread(o)
  BY <1>2 DEF HttpThread, OfferArrives, OfferInvokes, loopVars
<1>3. CASE PushTask
  BY <1>3 DEF PushTask, PushTakes, PushDrops, PushBuffer, PushFails, PushAgain,
              Running, Places, TakesFrame
<1>4. CASE OfferDispatch
  BY <1>4 DEF OfferDispatch, OfferUnusable, OfferTearsDown, OfferSized, OfferNotBuilt,
              OfferBuilt, OfferNotReady, OfferNotAnswered, OfferNegotiated,
              OfferGathered, OfferPlays, OfferNotPlaying, OfferExposes,
              Refuse, Running, Places
<1>5. CASE StopTask
  BY <1>5 DEF StopTask, Running
<1>6. QED
  BY <1>1, <1>2, <1>3, <1>4, <1>5 DEF Next, LoopThread

-----------------------------------------------------------------------------
(***************************************************************************)
(* Types.                                                                  *)
(***************************************************************************)
StackTyped ==
  stack \in Seq(Frames) /\ \A i \in 2 .. Len(stack) : stack[i].pc \in {"size", "gather"}

LEMMA StackStaysTyped ==
  ASSUME TypeOK, Next
  PROVE  StackTyped'
<1>1. StackTyped
  BY DEF TypeOK, StackTyped
<1>2. CASE stack' = stack
  BY <1>1, <1>2 DEF StackTyped
<1>3. ASSUME stack # <<>>, NEW p \in Places, Goes(p)
      PROVE  StackTyped'
  BY <1>1, <1>3, GoesOn DEF StackTyped
<1>4. CASE stack # <<>> /\ TakesFrame
  BY <1>1, <1>4, FrameTaken DEF StackTyped
<1>5. CASE stack # <<>> /\ Returns
  <2>1. /\ stack' \in Seq(Frames)
        /\ Len(stack) \in Nat \ {0} /\ Len(stack') = Len(stack) - 1
        /\ \A i \in 1 .. Len(stack') : stack'[i] = stack[i + 1]
    BY <1>5, ReturnsTo
  <2>2. ASSUME NEW i \in 2 .. Len(stack') PROVE stack'[i].pc \in {"size", "gather"}
    <3>1. i \in 1 .. Len(stack') /\ i + 1 \in 2 .. Len(stack)
      BY <2>1
    <3>2. QED
      BY <1>1, <2>1, <3>1 DEF StackTyped
  <2>3. QED
    BY <2>1, <2>2 DEF StackTyped
<1>6. CASE Dispatch
  <2>1. /\ stack' \in Seq(Frames) /\ Len(stack) \in Nat /\ Len(stack') = Len(stack) + 1
        /\ \A i \in 1 .. Len(stack) : stack'[i + 1] = stack[i]
        /\ stack # <<>> => stack[1].pc \in {"size", "gather"}
    BY <1>6, DispatchedOnTop
  <2>2. ASSUME NEW i \in 2 .. Len(stack') PROVE stack'[i].pc \in {"size", "gather"}
    <3>1. i - 1 \in 1 .. Len(stack) /\ (i - 1) + 1 = i
      BY <2>1
    <3>2. stack'[i] = stack[i - 1]
      BY <2>1, <3>1
    <3>3. CASE i - 1 = 1
      <4>1. stack # <<>>
        BY <1>1, <3>1, EmptySeq DEF StackTyped
      <4>2. QED
        BY <2>1, <3>2, <3>3, <4>1
    <3>4. CASE i - 1 # 1
      BY <1>1, <3>1, <3>2, <3>4 DEF StackTyped
    <3>5. QED
      BY <3>3, <3>4
  <2>3. QED
    BY <2>1, <2>2 DEF StackTyped
<1>7. QED
  BY <1>2, <1>3, <1>4, <1>5, <1>6, StackSteps

LEMMA TopTyped ==
  ASSUME TypeOK, stack # <<>>
  PROVE  Top \in Frames /\ Top = stack[1] /\ Len(stack) \in Nat \ {0}
<1>1. stack \in Seq(Frames)
  BY DEF TypeOK
<1>2. QED
  BY <1>1, HeadTailProperties, EmptySeq DEF Top

(* Which offer the innermost dispatch is for.                              *)
LEMMA CurrentIsOffer ==
  ASSUME TypeOK, NEW pc, Running("offer", pc)
  PROVE  Current \in Offers
<1>2. Top \in Frames
  BY TopTyped DEF Running
<1>3. Top.task \in Tasks /\ Top.task.kind = "offer"
  BY <1>2 DEF Frames, Running
<1>4. QED
  BY <1>3 DEF Tasks, Current

(* Each step keeps the types.                                              *)
LEMMA TypesStep ==
  ASSUME TypeOK, [Next]_vars
  PROVE  TypeOK'
<1> USE DEF TypeOK
<1>1. CASE UNCHANGED vars
  BY <1>1 DEF vars, mainVars, boxVars, countVars, loopVars, mediaVars
<1> SUFFICES ASSUME Next PROVE TypeOK'
  BY <1>1
<1>0. StackTyped'
  BY StackStaysTyped
<1> USE DEF mainVars, boxVars, countVars, loopVars, mediaVars, StackTyped
<1>2. CASE MainThread
  <2>1. CASE AcceptFrame
    BY <1>0, <2>1 DEF AcceptFrame
  <2>2. CASE ScheduleFrame
    BY <1>0, <2>2 DEF ScheduleFrame, Tasks, Push
  <2>3. CASE StopBegins
    BY <1>0, <2>3 DEF StopBegins
  <2>4. CASE StopInvokes
    BY <1>0, <2>4 DEF StopInvokes, Tasks, Stop
  <2>5. CASE StopJoins
    BY <1>0, <2>5 DEF StopJoins
  <2>6. QED
    BY <1>2, <2>1, <2>2, <2>3, <2>4, <2>5 DEF MainThread
<1>3. ASSUME NEW o \in Offers, HttpThread(o) PROVE TypeOK'
  <2>1. CASE OfferArrives(o)
    BY <1>0, <2>1 DEF OfferArrives
  <2>2. CASE OfferInvokes(o)
    BY <1>0, <2>2 DEF OfferInvokes, Tasks, OfferTask
  <2>3. QED
    BY <1>3, <2>1, <2>2 DEF HttpThread
<1>4. CASE Dispatch
  BY <1>0, <1>4 DEF Dispatch
<1>5. CASE PushTask
  <2>1. CASE PushTakes
    <3>1. /\ mailbox' = None /\ consumed' = latest /\ scheduled' = FALSE
          /\ UNCHANGED <<mainVars, latest, countVars, sources, quit, nested, offer,
                         mediaVars>>
      BY <2>1 DEF PushTakes
    <3>2. mailbox' \in Nat /\ latest' \in Nat /\ consumed' \in Nat
      BY <3>1 DEF None
    <3>3. QED
      BY <1>0, <3>1, <3>2
  <2>2. CASE PushDrops
    BY <1>0, <2>2 DEF PushDrops
  <2>3. CASE PushBuffer
    <3>1. Top.frame \in Nat
      BY <2>3, TopTyped DEF PushBuffer, Running, Frames
    <3>2. QED
      BY <1>0, <2>3, <3>1 DEF PushBuffer
  <2>4. CASE PushFails
    BY <1>0, <2>4 DEF PushFails
  <2>6. CASE PushAgain
    <3>1. /\ scheduled' = TRUE \/ UNCHANGED scheduled
          /\ UNCHANGED <<mainVars, mailbox, latest, consumed, countVars, sources, quit,
                         nested, offer, mediaVars>>
      BY <2>6 DEF PushAgain
    <3>2. QED
      BY <1>0, <3>1
  <2>5. QED
    BY <1>5, <2>1, <2>2, <2>3, <2>4, <2>6 DEF PushTask
<1>6. CASE OfferDispatch
  <2>1. Current \in Offers
    BY <1>6, CurrentIsOffer
      DEF OfferDispatch, OfferUnusable, OfferTearsDown, OfferSized, OfferNotBuilt,
          OfferBuilt, OfferNotReady, OfferNotAnswered, OfferNegotiated,
          OfferGathered, OfferPlays, OfferNotPlaying, OfferExposes
  <2>2. CASE OfferUnusable \/ OfferNotBuilt \/ OfferNotAnswered
    BY <1>0, <2>1, <2>2 DEF OfferUnusable, OfferNotBuilt, OfferNotAnswered, Refuse
  <2>3. CASE OfferSized \/ OfferNegotiated \/ OfferGathered
    BY <1>0, <2>3 DEF OfferSized, OfferNegotiated, OfferGathered
  <2>4. CASE OfferTearsDown
    BY <1>0, <2>4 DEF OfferTearsDown, Free
  <2>5. CASE OfferBuilt \/ OfferPlays
    BY <1>0, <2>1, <2>5 DEF OfferBuilt, OfferPlays
  <2>6. CASE OfferNotReady \/ OfferNotPlaying
    BY <1>0, <2>1, <2>6 DEF OfferNotReady, OfferNotPlaying, Refuse
  <2>7. CASE OfferExposes
    BY <1>0, <2>1, <2>7 DEF OfferExposes
  <2>8. QED
    BY <1>6, <2>2, <2>3, <2>4, <2>5, <2>6, <2>7 DEF OfferDispatch
<1>7. CASE StopTask
  BY <1>0, <1>7 DEF StopTask, Free
<1>8. QED
  BY <1>2, <1>3, <1>4, <1>5, <1>6, <1>7 DEF Next, LoopThread

-----------------------------------------------------------------------------
(***************************************************************************)
(* Frames.                                                                 *)
(***************************************************************************)
FramesInv == MailboxIsNew /\ PushIsNew /\ FramesCounted

(* A frame is in the loop thread's hands: a push is innermost and at       *)
(* "push".                                                                 *)
HasFrame == Running("push", "push")

(* It leaves them when the push goes on or ends, and whatever is           *)
(* dispatched or resumed instead has none.                                 *)
LEMMA HandEmptied ==
  ASSUME TypeOK, stack # <<>>,
         Returns \/ (\E p \in Places \ {"push"} : Goes(p)) \/ Dispatch
  PROVE  ~HasFrame'
<1>1. CASE Returns
  BY <1>1, ReturnsTo DEF HasFrame, Running, Top
<1>2. ASSUME NEW p \in Places \ {"push"}, Goes(p) PROVE ~HasFrame'
  BY <1>2, GoesOn DEF HasFrame, Running, Top
<1>3. CASE Dispatch
  BY <1>3, DispatchedOnTop DEF HasFrame, Running, Top
<1>4. QED
  BY <1>1, <1>2, <1>3

LEMMA HandKept ==
  ASSUME stack' = stack
  PROVE  HasFrame' = HasFrame /\ Top' = Top
BY DEF HasFrame, Running, Top

(* Only the frames in hand and their counters matter.                      *)
LEMMA FramesKept ==
  ASSUME FramesInv, ~HasFrame, ~HasFrame',
         UNCHANGED <<mailbox, latest, consumed, countVars>>
  PROVE  FramesInv'
BY DEF FramesInv, MailboxIsNew, PushIsNew, FramesCounted, InHand, InBox, HasFrame,
       countVars

(* Each step accounts for the frame it moves.                              *)
LEMMA FramesStep ==
  ASSUME TypeOK, FramesInv, [Next]_vars
  PROVE  FramesInv'
<1> USE DEF mainVars, boxVars, countVars, loopVars, mediaVars
<1>0. /\ mailbox \in Nat /\ latest \in Nat /\ consumed \in Nat
      /\ dropped \in Nat /\ pushed \in Nat /\ errors \in Nat /\ lastPushed \in Nat
  BY DEF TypeOK
<1>1. ASSUME stack' = stack, UNCHANGED <<mailbox, latest, consumed, countVars>>
      PROVE  FramesInv'
  BY <1>1, HandKept
    DEF FramesInv, MailboxIsNew, PushIsNew, FramesCounted, InHand, InBox, HasFrame
<1>2. CASE UNCHANGED vars
  BY <1>1, <1>2 DEF vars
<1>3. CASE AcceptFrame
  <2>1. stack' = stack /\ HasFrame' = HasFrame /\ Top' = Top
    BY <1>3, HandKept DEF AcceptFrame
  <2>2. /\ mailbox' = latest + 1 /\ latest' = latest + 1
        /\ UNCHANGED <<consumed, pushed, errors, lastPushed>>
        /\ dropped' = IF mailbox # None /\ latest # consumed THEN dropped + 1 ELSE dropped
    BY <1>3 DEF AcceptFrame
  <2>3. MailboxIsNew'
    BY <1>0, <2>2 DEF FramesInv, MailboxIsNew, None
  <2>4. PushIsNew'
    BY <2>1, <2>2 DEF FramesInv, PushIsNew, HasFrame
  <2>5. InHand' = InHand /\ InHand \in Nat
    BY <2>1 DEF InHand, HasFrame
  <2>6. dropped' + InBox' = dropped + InBox + 1 /\ InBox \in Nat /\ InBox' \in Nat
    BY <1>0, <2>2 DEF FramesInv, MailboxIsNew, InBox, None
  <2>7. latest = dropped + pushed + errors + InHand + InBox
    BY DEF FramesInv, FramesCounted
  <2>8. dropped' \in Nat
    BY <1>0, <2>2
  <2>9. FramesCounted'
    <3>1. latest' = latest + 1 /\ pushed' = pushed /\ errors' = errors
      BY <2>2
    <3>2. PICK h \in Nat, b \in Nat, d1 \in Nat, b1 \in Nat :
            h = InHand /\ b = InBox /\ d1 = dropped' /\ b1 = InBox'
      BY <2>5, <2>6, <2>8
    <3>3. d1 + b1 = dropped + b + 1 /\ latest = dropped + pushed + errors + h + b
      BY <2>6, <2>7, <3>2
    <3>4. latest + 1 = d1 + pushed + errors + h + b1
      BY <1>0, <3>3
    <3>5. QED
      BY <2>5, <3>1, <3>2, <3>4 DEF FramesCounted
  <2>10. QED
    BY <2>3, <2>4, <2>9 DEF FramesInv
<1>4. CASE ScheduleFrame \/ StopBegins \/ StopInvokes \/ StopJoins
  BY <1>1, <1>4 DEF ScheduleFrame, StopBegins, StopInvokes, StopJoins
<1>5. CASE \E o \in Offers : HttpThread(o)
  BY <1>1, <1>5 DEF HttpThread, OfferArrives, OfferInvokes
<1>6. CASE Dispatch
  <2>1. ~HasFrame
    BY <1>6 DEF Dispatch, Waiting, HasFrame, Running
  <2>2. ~HasFrame'
    BY <1>6, DispatchedOnTop DEF HasFrame, Running, Top
  <2>3. UNCHANGED <<mailbox, latest, consumed, countVars>>
    BY <1>6 DEF Dispatch
  <2>4. QED
    BY <2>1, <2>2, <2>3, FramesKept
<1>7. CASE PushTakes
  <2>1. ~HasFrame /\ stack # <<>> /\ Top.task.kind = "push"
    BY <1>7 DEF PushTakes, HasFrame, Running
  <2>2. mailbox' = None /\ consumed' = latest
        /\ UNCHANGED <<latest, dropped, pushed, errors, lastPushed>>
    BY <1>7 DEF PushTakes
  <2>3. CASE mailbox = None
    <3>1. ~HasFrame'
      BY <1>7, <2>1, <2>3, HandEmptied DEF PushTakes
    <3>2. QED
      BY <1>0, <2>1, <2>2, <2>3, <3>1
        DEF FramesInv, MailboxIsNew, PushIsNew, FramesCounted, InHand, InBox, HasFrame
  <2>4. CASE mailbox # None
    <3>1. TakesFrame
      BY <1>7, <2>4 DEF PushTakes, TakesFrame
    <3>2. Top'.frame = mailbox
      BY <2>1, <3>1, FrameTaken DEF Top
    <3>3. mailbox = latest /\ consumed < latest /\ lastPushed <= consumed
      BY <2>4 DEF FramesInv, MailboxIsNew, PushIsNew
    <3>4. MailboxIsNew' /\ PushIsNew'
      BY <1>0, <2>2, <3>2, <3>3 DEF MailboxIsNew, PushIsNew
    <3>5. InHand = 0 /\ InBox = 1 /\ InBox' = 0
      BY <2>1, <2>2, <2>4 DEF InHand, InBox, HasFrame
    <3>6. InHand' = 1
      <4>1. stack' # <<>> /\ Top'.task = Top.task
        BY <2>1, <3>1, FrameTaken DEF Top
      <4>2. Top'.pc = "push"
        BY <2>1, <3>1, FrameTaken DEF Top
      <4>3. QED
        BY <2>1, <4>1, <4>2 DEF InHand, Running
    <3>7. latest = dropped + pushed + errors + InHand + InBox
      BY DEF FramesInv, FramesCounted
    <3>8. FramesCounted'
      BY <1>0, <2>2, <3>5, <3>6, <3>7 DEF FramesCounted
    <3>9. QED
      BY <3>4, <3>8 DEF FramesInv
  <2>5. QED
    BY <2>3, <2>4
<1>8. ASSUME HasFrame, ~HasFrame', UNCHANGED <<mailbox, latest, consumed>>,
             \/ dropped' = dropped + 1 /\ UNCHANGED <<pushed, errors, lastPushed>>
             \/ errors' = errors + 1 /\ UNCHANGED <<pushed, dropped, lastPushed>>
             \/ /\ pushed' = pushed + 1 /\ lastPushed' = Top.frame
                /\ UNCHANGED <<dropped, errors>>
      PROVE  FramesInv'
  <2>1. Top.frame <= consumed /\ lastPushed <= consumed
    BY <1>8 DEF FramesInv, PushIsNew, HasFrame
  <2>2. MailboxIsNew' /\ PushIsNew'
    BY <1>8, <2>1 DEF FramesInv, MailboxIsNew, PushIsNew, HasFrame
  <2>3. InHand = 1 /\ InHand' = 0 /\ InBox' = InBox /\ InBox \in Nat
    BY <1>8 DEF InHand, InBox, HasFrame
  <2>4. latest = dropped + pushed + errors + InHand + InBox
    BY DEF FramesInv, FramesCounted
  <2>5. FramesCounted'
    BY <1>0, <1>8, <2>3, <2>4 DEF FramesCounted
  <2>6. QED
    BY <2>2, <2>5 DEF FramesInv
<1>9. CASE PushDrops \/ PushFails
  <2>1. HasFrame /\ stack # <<>> /\ Returns
    BY <1>9 DEF PushDrops, PushFails, HasFrame, Running
  <2>2. ~HasFrame'
    BY <2>1, HandEmptied
  <2>3. QED
    BY <1>8, <1>9, <2>1, <2>2 DEF PushDrops, PushFails
<1>10. CASE PushBuffer
  <2>1. HasFrame /\ stack # <<>> /\ Goes("again")
    BY <1>10 DEF PushBuffer, HasFrame, Running
  <2>2. ~HasFrame'
    BY <2>1, HandEmptied DEF Places
  <2>3. QED
    BY <1>8, <1>10, <2>1, <2>2 DEF PushBuffer
<1>11. CASE PushAgain
  <2>1. ~HasFrame /\ stack # <<>> /\ (Goes("start") \/ Returns)
    BY <1>11 DEF PushAgain, HasFrame, Running
  <2>2. ~HasFrame'
    BY <2>1, HandEmptied DEF Places
  <2>3. UNCHANGED <<mailbox, latest, consumed, countVars>>
    BY <1>11 DEF PushAgain
  <2>4. QED
    BY <2>1, <2>2, <2>3, FramesKept
<1>12. CASE OfferDispatch \/ StopTask
  <2>1. /\ stack # <<>> /\ Top.task.kind # "push"
        /\ UNCHANGED <<mailbox, latest, consumed, countVars>>
    BY <1>12
      DEF OfferDispatch, OfferUnusable, OfferTearsDown, OfferSized, OfferNotBuilt,
          OfferBuilt, OfferNotReady, OfferNotAnswered, OfferNegotiated, OfferGathered,
          OfferPlays, OfferNotPlaying, OfferExposes, StopTask, Running
  <2>2. Returns \/ \E p \in Places \ {"push"} : Goes(p)
    BY <1>12
      DEF OfferDispatch, OfferUnusable, OfferTearsDown, OfferSized, OfferNotBuilt,
          OfferBuilt, OfferNotReady, OfferNotAnswered, OfferNegotiated, OfferGathered,
          OfferPlays, OfferNotPlaying, OfferExposes, StopTask, Refuse, Places
  <2>3. ~HasFrame /\ ~HasFrame'
    BY <2>1, <2>2, HandEmptied DEF HasFrame, Running
  <2>4. QED
    BY <2>1, <2>3, FramesKept
<1>13. QED
  BY <1>2, <1>3, <1>4, <1>5, <1>6, <1>7, <1>9, <1>10, <1>11, <1>12
    DEF Next, MainThread, LoopThread, PushTask

-----------------------------------------------------------------------------
(***************************************************************************)
(* The stop.                                                               *)
(***************************************************************************)
(* What the loop thread dispatches is of a task it was dispatching, or the *)
(* first of the sources.                                                   *)
LEMMA TasksOnStack ==
  ASSUME TypeOK, Next, NEW i \in 1 .. Len(stack')
  PROVE  \/ \E j \in 1 .. Len(stack) : stack'[i].task = stack[j].task
         \/ Dispatch /\ stack'[i].task = Head(sources)
<1>1. CASE stack' = stack
  BY <1>1
<1>2. ASSUME stack # <<>>, \/ TakesFrame
                           \/ \E p \in Places : Goes(p)
      PROVE  \E j \in 1 .. Len(stack) : stack'[i].task = stack[j].task
  <2>1. /\ Len(stack') = Len(stack) /\ stack'[1].task = stack[1].task
        /\ \A j \in 2 .. Len(stack) : stack'[j] = stack[j]
    BY <1>2, GoesOn, FrameTaken
  <2>2. QED
    BY <2>1
<1>3. CASE stack # <<>> /\ Returns
  <2>1. /\ Len(stack) \in Nat \ {0} /\ Len(stack') = Len(stack) - 1
        /\ \A j \in 1 .. Len(stack') : stack'[j] = stack[j + 1]
    BY <1>3, ReturnsTo
  <2>2. i + 1 \in 1 .. Len(stack)
    BY <2>1
  <2>3. QED
    BY <2>1, <2>2
<1>4. CASE Dispatch
  <2>1. /\ Len(stack) \in Nat /\ Len(stack') = Len(stack) + 1
        /\ stack'[1].task = Head(sources)
        /\ \A j \in 1 .. Len(stack) : stack'[j + 1] = stack[j]
    BY <1>4, DispatchedOnTop
  <2>2. CASE i = 1
    BY <1>4, <2>1, <2>2
  <2>3. CASE i # 1
    <3>1. i - 1 \in 1 .. Len(stack) /\ (i - 1) + 1 = i
      BY <2>1, <2>3
    <3>2. QED
      BY <2>1, <3>1
  <2>4. QED
    BY <2>2, <2>3
<1>5. QED
  BY <1>1, <1>2, <1>3, <1>4, StackSteps

(* A stop comes from stop() alone, which first clears running_.            *)
LEMMA StopStep ==
  ASSUME TypeOK, StopIsLate, [Next]_vars
  PROVE  StopIsLate'
<1> USE DEF mainVars, boxVars, countVars, loopVars, mediaVars
<1>1. CASE UNCHANGED vars
  BY <1>1 DEF vars, StopIsLate
<1> SUFFICES ASSUME Next PROVE StopIsLate'
  BY <1>1
<1>2. ~running => ~running'
  BY DEF Next, MainThread, AcceptFrame, ScheduleFrame, StopBegins, StopInvokes, StopJoins,
         HttpThread, OfferArrives, OfferInvokes, LoopThread, Dispatch,
         PushTask, PushTakes, PushDrops, PushBuffer, PushFails, PushAgain,
         OfferDispatch, OfferUnusable, OfferTearsDown, OfferSized, OfferNotBuilt,
         OfferBuilt, OfferNotReady, OfferNotAnswered, OfferNegotiated, OfferGathered,
         OfferPlays, OfferNotPlaying, OfferExposes, StopTask
<1>3. mpc' \in {"invoke", "join", "done"} => ~running'
  <2>1. CASE MainThread
    BY <2>1 DEF MainThread, AcceptFrame, ScheduleFrame, StopBegins, StopInvokes, StopJoins,
                StopIsLate
  <2>2. CASE ~MainThread
    <3>1. UNCHANGED <<running, mpc>>
      BY <2>2
        DEF Next, HttpThread, OfferArrives, OfferInvokes, LoopThread, Dispatch,
            PushTask, PushTakes, PushDrops, PushBuffer, PushFails, PushAgain,
            OfferDispatch, OfferUnusable, OfferTearsDown, OfferSized, OfferNotBuilt,
            OfferBuilt, OfferNotReady, OfferNotAnswered, OfferNegotiated, OfferGathered,
            OfferPlays, OfferNotPlaying, OfferExposes, StopTask
    <3>2. QED
      BY <3>1 DEF StopIsLate
  <2>3. QED
    BY <2>1, <2>2
<1>4. \A i \in 1 .. Len(sources') : sources'[i].kind = "stop" => ~running'
  <2>0. sources \in Seq(Tasks)
    BY DEF TypeOK
  <2>1. ASSUME NEW t \in Tasks, sources' = Append(sources, t),
               t.kind = "stop" => ~running'
        PROVE  \A i \in 1 .. Len(sources') : sources'[i].kind = "stop" => ~running'
    <3>1. /\ Len(sources') = Len(sources) + 1 /\ Len(sources) \in Nat
          /\ \A i \in 1 .. Len(sources) : sources'[i] = sources[i]
          /\ sources'[Len(sources) + 1] = t
      BY <2>0, <2>1, AppendProperties, LenProperties
    <3>2. ASSUME NEW i \in 1 .. Len(sources') PROVE sources'[i].kind = "stop" => ~running'
      <4>1. i \in 1 .. Len(sources) \/ i = Len(sources) + 1
        BY <3>1
      <4>2. QED
        BY <1>2, <2>1, <3>1, <4>1 DEF StopIsLate
    <3>3. QED
      BY <3>2
  <2>2. CASE sources' = sources
    BY <1>2, <2>2 DEF StopIsLate
  <2>3. CASE ScheduleFrame
    BY <2>1, <2>2, <2>3 DEF ScheduleFrame, Push, Tasks
  <2>4. CASE StopInvokes
    BY <2>1, <2>4, <1>3 DEF StopInvokes, Stop, Tasks
  <2>5. ASSUME NEW o \in Offers, OfferInvokes(o)
        PROVE  \A i \in 1 .. Len(sources') : sources'[i].kind = "stop" => ~running'
    BY <2>1, <2>5 DEF OfferInvokes, OfferTask, Tasks
  <2>6. CASE Dispatch
    <3>1. /\ Len(sources') = Len(sources) - 1 /\ Len(sources) \in Nat \ {0}
          /\ \A i \in 1 .. Len(sources') : sources'[i] = sources[i + 1]
      BY <2>0, <2>6, HeadTailProperties, EmptySeq DEF Dispatch
    <3>2. ASSUME NEW i \in 1 .. Len(sources') PROVE sources'[i].kind = "stop" => ~running'
      <4>1. i + 1 \in 1 .. Len(sources)
        BY <3>1
      <4>2. QED
        BY <1>2, <3>1, <4>1 DEF StopIsLate
    <3>3. QED
      BY <3>2
  <2>7. QED
    BY <2>2, <2>3, <2>4, <2>5, <2>6
      DEF Next, MainThread, AcceptFrame, StopBegins, StopJoins,
          HttpThread, OfferArrives, LoopThread,
          PushTask, PushTakes, PushDrops, PushBuffer, PushFails, PushAgain,
          OfferDispatch, OfferUnusable, OfferTearsDown, OfferSized, OfferNotBuilt,
          OfferBuilt, OfferNotReady, OfferNotAnswered, OfferNegotiated, OfferGathered,
          OfferPlays, OfferNotPlaying, OfferExposes, StopTask
<1>5. ASSUME NEW i \in 1 .. Len(stack') PROVE stack'[i].task.kind = "stop" => ~running'
  <2>1. CASE \E j \in 1 .. Len(stack) : stack'[i].task = stack[j].task
    BY <1>2, <2>1 DEF StopIsLate
  <2>2. CASE Dispatch /\ stack'[i].task = Head(sources)
    <3>1. sources \in Seq(Tasks) /\ sources # <<>>
      BY <2>2 DEF TypeOK, Dispatch
    <3>2. Head(sources) = sources[1] /\ 1 \in 1 .. Len(sources)
      BY <3>1, EmptySeq
    <3>3. QED
      BY <1>2, <2>2, <3>2 DEF StopIsLate
  <2>3. QED
    BY <2>1, <2>2, TasksOnStack
<1>6. QED
  BY <1>3, <1>4, <1>5 DEF StopIsLate

-----------------------------------------------------------------------------
(***************************************************************************)
(* Pipelines.  First the offers on the stack.                              *)
(***************************************************************************)
(* The offers under way stay where they are, but for one that starts.      *)
OffersStay ==
  /\ OneOfferDispatched'
  /\ \A i \in 1 .. Len(stack') : IsOffer(i)' =>
       \/ stack'[i].pc = "start"
       \/ \E j \in 1 .. Len(stack) : /\ IsOffer(j) /\ stack'[i].task = stack[j].task
                                     /\ stack'[i].pc = stack[j].pc

LEMMA OthersMove ==
  ASSUME TypeOK, OneOfferDispatched,
         \/ stack' = stack
         \/ stack # <<>> /\ Top.task.kind # "offer" /\ TakesFrame
         \/ stack # <<>> /\ Top.task.kind # "offer" /\ \E p \in Places : Goes(p)
         \/ stack # <<>> /\ Returns
  PROVE  OffersStay
<1>1. CASE stack' = stack
  BY <1>1 DEF OffersStay, OneOfferDispatched, IsOffer
<1>2. ASSUME stack # <<>>, Top.task.kind # "offer",
             TakesFrame \/ \E p \in Places : Goes(p)
      PROVE  OffersStay
  <2>1. /\ Len(stack') = Len(stack) /\ stack'[1].task = stack[1].task
        /\ \A j \in 2 .. Len(stack) : stack'[j] = stack[j]
    BY <1>2, GoesOn, FrameTaken
  <2>2. stack[1].task.kind # "offer"
    BY <1>2, TopTyped
  <2>3. \A i \in 1 .. Len(stack') : IsOffer(i)' => IsOffer(i) /\ stack'[i] = stack[i]
    BY <2>1, <2>2 DEF IsOffer
  <2>4. OneOfferDispatched'
    BY <2>1, <2>3 DEF OneOfferDispatched
  <2>5. QED
    BY <2>1, <2>3, <2>4 DEF OffersStay
<1>3. CASE stack # <<>> /\ Returns
  <2>1. /\ Len(stack) \in Nat \ {0} /\ Len(stack') = Len(stack) - 1
        /\ \A j \in 1 .. Len(stack') : stack'[j] = stack[j + 1]
    BY <1>3, ReturnsTo
  <2>2. \A i \in 1 .. Len(stack') : i + 1 \in 1 .. Len(stack)
    BY <2>1
  <2>3. \A i \in 1 .. Len(stack') : IsOffer(i)' => IsOffer(i + 1)
    BY <2>1 DEF IsOffer
  <2>4. ASSUME NEW i \in 1 .. Len(stack'), NEW j \in 1 .. Len(stack'),
               IsOffer(i)', IsOffer(j)'
        PROVE  i = j
    <3>1. i + 1 = j + 1
      BY <2>2, <2>3, <2>4 DEF OneOfferDispatched
    <3>2. QED
      BY <2>1, <3>1
  <2>5. OneOfferDispatched'
    BY <2>4 DEF OneOfferDispatched
  <2>6. QED
    BY <2>1, <2>2, <2>3, <2>5 DEF OffersStay
<1>4. QED
  BY <1>1, <1>2, <1>3

(* An offer dispatched while none is under way starts.                     *)
LEMMA OfferStarts ==
  ASSUME TypeOK, OneOfferDispatched, Dispatch, ~nested'
  PROVE  OffersStay
<1>1. /\ Len(stack) \in Nat /\ Len(stack') = Len(stack) + 1
      /\ stack'[1].task = Head(sources) /\ stack'[1].pc = "start"
      /\ \A j \in 1 .. Len(stack) : stack'[j + 1] = stack[j]
  BY DispatchedOnTop
<1>2. stack # <<>> => Head(sources).kind # "offer"
  BY DEF Dispatch
<1>3. ASSUME NEW i \in 1 .. Len(stack'), i # 1
      PROVE  i - 1 \in 1 .. Len(stack) /\ stack'[i] = stack[i - 1] /\ stack # <<>>
  <2>1. i - 1 \in 1 .. Len(stack) /\ (i - 1) + 1 = i
    BY <1>1, <1>3
  <2>2. stack # <<>>
    <3>1. stack \in Seq(Frames)
      BY DEF TypeOK
    <3>2. QED
      BY <2>1, <3>1, EmptySeq
  <2>3. QED
    BY <1>1, <2>1, <2>2
<1>4. ASSUME NEW i \in 1 .. Len(stack'), NEW j \in 1 .. Len(stack'),
             IsOffer(i)', IsOffer(j)'
      PROVE  i = j
  <2>1. CASE i = 1 /\ j # 1
    BY <1>1, <1>2, <1>3, <1>4, <2>1 DEF IsOffer
  <2>2. CASE i # 1 /\ j = 1
    BY <1>1, <1>2, <1>3, <1>4, <2>2 DEF IsOffer
  <2>3. CASE i # 1 /\ j # 1
    <3>1. /\ IsOffer(i - 1) /\ i - 1 \in 1 .. Len(stack)
          /\ IsOffer(j - 1) /\ j - 1 \in 1 .. Len(stack)
      BY <1>3, <1>4, <2>3 DEF IsOffer
    <3>2. i - 1 = j - 1
      BY <3>1 DEF OneOfferDispatched
    <3>3. QED
      BY <3>2
  <2>4. QED
    BY <2>1, <2>2, <2>3
<1>5. OneOfferDispatched'
  BY <1>4 DEF OneOfferDispatched
<1>6. ASSUME NEW i \in 1 .. Len(stack'), IsOffer(i)'
      PROVE  \/ stack'[i].pc = "start"
             \/ \E j \in 1 .. Len(stack) : /\ IsOffer(j) /\ stack'[i].task = stack[j].task
                                           /\ stack'[i].pc = stack[j].pc
  <2>1. CASE i = 1
    BY <1>1, <2>1
  <2>2. CASE i # 1
    BY <1>3, <1>6, <2>2 DEF IsOffer
  <2>3. QED
    BY <2>1, <2>2
<1>7. QED
  BY <1>5, <1>6 DEF OffersStay

(* The offer under way goes on: it is the only one.                        *)
LEMMA OfferMoves ==
  ASSUME TypeOK, OneOfferDispatched, stack # <<>>, Top.task.kind = "offer",
         NEW p \in Places, Goes(p)
  PROVE  /\ OneOfferDispatched'
         /\ \A i \in 1 .. Len(stack') : IsOffer(i)' =>
              stack'[i].task.of = Current /\ stack'[i].pc = p
<1>1. /\ Len(stack') = Len(stack) /\ stack'[1].task = stack[1].task /\ stack'[1].pc = p
      /\ \A j \in 2 .. Len(stack) : stack'[j] = stack[j]
  BY GoesOn
<1>2. Top = stack[1] /\ Len(stack) \in Nat \ {0}
  BY TopTyped
<1>3. \A i \in 1 .. Len(stack') : IsOffer(i)' => IsOffer(i)
  BY <1>1 DEF IsOffer
<1>4. IsOffer(1) /\ 1 \in 1 .. Len(stack)
  BY <1>2 DEF IsOffer
<1>5. \A i \in 1 .. Len(stack') : IsOffer(i)' => i = 1
  BY <1>1, <1>3, <1>4 DEF OneOfferDispatched
<1>6. OneOfferDispatched'
  BY <1>5 DEF OneOfferDispatched
<1>7. QED
  BY <1>1, <1>2, <1>5, <1>6 DEF Current

(* It ends: no offer is left.                                              *)
LEMMA OfferEnds ==
  ASSUME TypeOK, OneOfferDispatched, stack # <<>>, Top.task.kind = "offer", Returns
  PROVE  \A i \in 1 .. Len(stack') : ~IsOffer(i)'
<1>1. /\ Len(stack) \in Nat \ {0} /\ Len(stack') = Len(stack) - 1
      /\ \A j \in 1 .. Len(stack') : stack'[j] = stack[j + 1]
  BY ReturnsTo
<1>2. IsOffer(1) /\ 1 \in 1 .. Len(stack)
  BY <1>1, TopTyped DEF IsOffer
<1>3. ASSUME NEW i \in 1 .. Len(stack'), IsOffer(i)'
      PROVE  FALSE
  <2>1. i + 1 \in 1 .. Len(stack) /\ IsOffer(i + 1)
    BY <1>1, <1>3 DEF IsOffer
  <2>2. i + 1 = 1
    BY <1>2, <2>1 DEF OneOfferDispatched
  <2>3. QED
    BY <1>1, <2>2
<1>4. QED
  BY <1>3

(* No pipeline is left alive that the sender no longer knows.              *)
OnlyOneLive == \A o \in Offers : Live(o) => o = pipeline

(* Steps that leave the pipelines alone.                                   *)
LEMMA PipelinesKept ==
  ASSUME PipelinesKnown, OffersStay, UNCHANGED <<pipeline, state>>,
         running' => running, appsrc' = appsrc \/ ~running'
  PROVE  PipelinesKnown'
<1>1. ASSUME NEW i \in 1 .. Len(stack'), IsOffer(i)'
      PROVE  OfferAt(stack[i].task.of, stack[i].pc)'
  <2>1. CASE stack'[i].pc = "start"
    BY <2>1 DEF OfferAt
  <2>2. ASSUME NEW j \in 1 .. Len(stack), IsOffer(j), stack'[i].task = stack[j].task,
               stack'[i].pc = stack[j].pc
        PROVE  OfferAt(stack[i].task.of, stack[i].pc)'
    <3>1. OfferAt(stack[j].task.of, stack[j].pc)
      BY <2>2 DEF PipelinesKnown
    <3>2. QED
      BY <2>2, <3>1 DEF OfferAt, OfferHas
  <2>3. QED
    BY <1>1, <2>1, <2>2 DEF OffersStay
<1>2. OneOfferDispatched'
  BY DEF OffersStay
<1>3. (\A o \in Offers : Live(o) => o = pipeline)'
  BY DEF PipelinesKnown, Live
<1>4. FedAfterPlaying'
  BY DEF PipelinesKnown, FedAfterPlaying
<1>5. QED
  BY <1>1, <1>2, <1>3, <1>4 DEF PipelinesKnown

(* Steps of the offer under way.                                           *)
LEMMA OfferKeepsPipelines ==
  ASSUME TypeOK, PipelinesKnown, OfferDispatch
  PROVE  PipelinesKnown'
<1> USE DEF mainVars, boxVars, countVars, loopVars, mediaVars
<1>0. NoPipeline \notin Offers
  BY SenderAssumption
<1>1. PICK c \in Offers : c = Current
  BY CurrentIsOffer
    DEF OfferDispatch, OfferUnusable, OfferTearsDown, OfferSized, OfferNotBuilt,
        OfferBuilt, OfferNotReady, OfferNotAnswered, OfferNegotiated,
        OfferGathered, OfferPlays, OfferNotPlaying, OfferExposes
<1>2. stack # <<>> /\ Top.task.kind = "offer"
  BY DEF OfferDispatch, OfferUnusable, OfferTearsDown, OfferSized, OfferNotBuilt,
         OfferBuilt, OfferNotReady, OfferNotAnswered, OfferNegotiated,
         OfferGathered, OfferPlays, OfferNotPlaying, OfferExposes, Running
<1>3. OneOfferDispatched /\ OnlyOneLive /\ FedAfterPlaying
  BY DEF PipelinesKnown, OnlyOneLive
<1>4. OfferAt(c, Top.pc)
  <2>1. Top = stack[1] /\ 1 \in 1 .. Len(stack)
    BY <1>2, TopTyped
  <2>2. QED
    BY <1>1, <1>2, <2>1 DEF PipelinesKnown, IsOffer, Current
<1>5. /\ state \in [Offers -> {"none", "ready", "playing", "freed"}]
      /\ pipeline \in Offers \cup {NoPipeline} /\ appsrc \in Offers \cup {NoPipeline}
  BY DEF TypeOK
<1>6. ASSUME Returns, OnlyOneLive', FedAfterPlaying'
      PROVE  PipelinesKnown'
  BY <1>2, <1>3, <1>6, OfferEnds DEF PipelinesKnown, OneOfferDispatched, OnlyOneLive
<1>7. ASSUME NEW p \in Places, Goes(p), OfferAt(c, p)', OnlyOneLive', FedAfterPlaying'
      PROVE  PipelinesKnown'
  <2>1. /\ OneOfferDispatched'
        /\ \A i \in 1 .. Len(stack') : IsOffer(i)' =>
             stack'[i].task.of = c /\ stack'[i].pc = p
    BY <1>1, <1>2, <1>3, <1>7, OfferMoves
  <2>2. \A i \in 1 .. Len(stack') : IsOffer(i)' =>
          OfferAt(stack[i].task.of, stack[i].pc)'
    BY <1>7, <2>1 DEF OfferAt, OfferHas
  <2>3. QED
    BY <1>7, <2>1, <2>2 DEF PipelinesKnown, OnlyOneLive
<1> USE DEF Places
<1>8. CASE OfferUnusable \/ OfferNotBuilt \/ OfferNotAnswered
  BY <1>3, <1>6, <1>8
    DEF OfferUnusable, OfferNotBuilt, OfferNotAnswered, Refuse, OnlyOneLive, Live,
        FedAfterPlaying
<1>9. CASE OfferTearsDown
  <2>1. /\ pipeline' = NoPipeline /\ state' = Free(pipeline) /\ running' = running
        /\ appsrc' = IF pipeline = NoPipeline THEN appsrc ELSE NoPipeline
        /\ Goes("size")
    BY <1>9 DEF OfferTearsDown
  <2>2. OfferAt(c, "size")'
    BY <2>1 DEF OfferAt
  <2>3. OnlyOneLive'
    BY <1>0, <1>3, <1>5, <2>1 DEF OnlyOneLive, Live, Free
  <2>4. FedAfterPlaying'
    BY <1>3, <2>1 DEF FedAfterPlaying
  <2>5. QED
    BY <1>7, <2>1, <2>2, <2>3, <2>4
<1>10. CASE OfferSized
  <2>1. Goes("build") /\ UNCHANGED <<running, pipeline, appsrc, state>> /\ Top.pc = "size"
    BY <1>10 DEF OfferSized, Running
  <2>2. OfferAt(c, "build")'
    BY <1>4, <2>1 DEF OfferAt
  <2>3. OnlyOneLive' /\ FedAfterPlaying'
    BY <1>3, <2>1 DEF OnlyOneLive, Live, FedAfterPlaying
  <2>4. QED
    BY <1>7, <2>1, <2>2, <2>3
<1>11. CASE OfferBuilt
  <2>1. /\ pipeline' = c /\ appsrc' = NoPipeline /\ state' = [state EXCEPT ![c] = "ready"]
        /\ Goes("negotiate") /\ Top.pc = "build"
    BY <1>1, <1>11 DEF OfferBuilt, Running
  <2>2. pipeline = NoPipeline
    BY <1>4, <2>1 DEF OfferAt
  <2>3. OfferAt(c, "negotiate")'
    BY <1>5, <2>1 DEF OfferAt, OfferHas
  <2>4. OnlyOneLive' /\ FedAfterPlaying'
    BY <1>0, <1>3, <1>5, <2>1, <2>2 DEF OnlyOneLive, Live, FedAfterPlaying
  <2>5. QED
    BY <1>7, <2>1, <2>3, <2>4
<1>12. CASE OfferNotReady
  <2>1. /\ pipeline' = NoPipeline /\ appsrc' = NoPipeline
        /\ state' = [state EXCEPT ![c] = "freed"] /\ Returns /\ Top.pc = "build"
    BY <1>1, <1>12 DEF OfferNotReady, Running, Refuse
  <2>2. pipeline = NoPipeline
    BY <1>4, <2>1 DEF OfferAt
  <2>3. OnlyOneLive' /\ FedAfterPlaying'
    BY <1>0, <1>3, <1>5, <2>1, <2>2 DEF OnlyOneLive, Live, FedAfterPlaying
  <2>4. QED
    BY <1>6, <2>1, <2>3
<1>13. CASE OfferNegotiated \/ OfferGathered
  <2>1. PICK p \in {"gather", "play"} :
          /\ Goes(p) /\ UNCHANGED <<running, pipeline, appsrc, state>>
          /\ Top.pc \in {"negotiate", "gather"}
    BY <1>13 DEF OfferNegotiated, OfferGathered, Running
  <2>2. OfferAt(c, p)'
    BY <1>4, <2>1 DEF OfferAt, OfferHas
  <2>3. OnlyOneLive' /\ FedAfterPlaying'
    BY <1>3, <2>1 DEF OnlyOneLive, Live, FedAfterPlaying
  <2>4. QED
    BY <1>7, <2>1, <2>2, <2>3
<1>14. CASE OfferPlays
  <2>1. /\ state' = IF state[c] = "freed" THEN state ELSE [state EXCEPT ![c] = "playing"]
        /\ UNCHANGED <<running, pipeline, appsrc>> /\ Goes("expose") /\ Top.pc = "play"
    BY <1>1, <1>14 DEF OfferPlays, Running
  <2>2. OfferHas(c, "ready")
    BY <1>4, <2>1 DEF OfferAt
  <2>3. OfferAt(c, "expose")'
    BY <1>5, <2>1, <2>2 DEF OfferAt, OfferHas
  <2>4. OnlyOneLive' /\ FedAfterPlaying'
    BY <1>3, <1>5, <2>1, <2>2 DEF OnlyOneLive, Live, FedAfterPlaying, OfferHas
  <2>5. QED
    BY <1>7, <2>1, <2>3, <2>4
<1>15. CASE OfferNotPlaying
  <2>1. /\ pipeline' = NoPipeline /\ appsrc' = NoPipeline
        /\ state' = [state EXCEPT ![c] = "freed"] /\ Returns /\ Top.pc = "play"
    BY <1>1, <1>15 DEF OfferNotPlaying, Running, Refuse
  <2>2. pipeline = c \/ pipeline = NoPipeline
    BY <1>4, <2>1 DEF OfferAt, OfferHas
  <2>3. OnlyOneLive' /\ FedAfterPlaying'
    BY <1>0, <1>3, <1>5, <2>1, <2>2 DEF OnlyOneLive, Live, FedAfterPlaying
  <2>4. QED
    BY <1>6, <2>1, <2>3
<1>16. CASE OfferExposes
  <2>1. /\ appsrc' = c /\ UNCHANGED <<running, pipeline, state>>
        /\ Returns /\ Top.pc = "expose"
    BY <1>1, <1>16 DEF OfferExposes, Running
  <2>2. OfferHas(c, "playing")
    BY <1>4, <2>1 DEF OfferAt
  <2>3. OnlyOneLive' /\ FedAfterPlaying'
    BY <1>3, <2>1, <2>2 DEF OnlyOneLive, Live, FedAfterPlaying, OfferHas
  <2>4. QED
    BY <1>6, <2>1, <2>3
<1>17. QED
  BY <1>8, <1>9, <1>10, <1>11, <1>12, <1>13, <1>14, <1>15, <1>16 DEF OfferDispatch

(* The stop frees the pipeline, in the middle of an offer too.             *)
LEMMA StopKeepsPipelines ==
  ASSUME TypeOK, StopIsLate, PipelinesKnown, StopTask
  PROVE  PipelinesKnown'
<1> USE DEF mainVars, boxVars, countVars, loopVars, mediaVars
<1>0. NoPipeline \notin Offers
  BY SenderAssumption
<1>1. stack # <<>> /\ Top.task.kind = "stop" /\ Returns
  BY DEF StopTask, Running
<1>2. running' = running /\ ~running
  BY <1>1, TopTyped DEF StopTask, StopIsLate
<1>3. OffersStay
  BY <1>1, OthersMove DEF PipelinesKnown
<1>4. pipeline' = NoPipeline /\ state' = Free(pipeline)
  BY DEF StopTask
<1>5. state \in [Offers -> {"none", "ready", "playing", "freed"}]
      /\ pipeline \in Offers \cup {NoPipeline}
  BY DEF TypeOK
<1>6. OnlyOneLive'
  BY <1>0, <1>4, <1>5 DEF OnlyOneLive, PipelinesKnown, Live, Free
<1>7. FedAfterPlaying'
  BY <1>2 DEF FedAfterPlaying
<1>8. ASSUME NEW i \in 1 .. Len(stack'), IsOffer(i)'
      PROVE  OfferAt(stack[i].task.of, stack[i].pc)'
  <2>1. CASE stack'[i].pc = "start"
    BY <2>1 DEF OfferAt
  <2>2. ASSUME NEW j \in 1 .. Len(stack), IsOffer(j), stack'[i].task = stack[j].task,
               stack'[i].pc = stack[j].pc
        PROVE  OfferAt(stack[i].task.of, stack[i].pc)'
    <3>1. OfferAt(stack[j].task.of, stack[j].pc)
      BY <2>2 DEF PipelinesKnown
    <3>2. stack[j].task.of \in Offers
      <4>1. stack[j] \in Frames
        BY <2>2 DEF TypeOK
      <4>2. stack[j].task \in Tasks
        BY <4>1 DEF Frames
      <4>3. QED
        BY <2>2, <4>2 DEF Tasks, IsOffer
    <3>3. QED
      BY <1>0, <1>2, <1>4, <1>5, <2>2, <3>1, <3>2 DEF OfferAt, OfferHas, Free
  <2>3. QED
    BY <1>3, <1>8, <2>1, <2>2 DEF OffersStay
<1>9. QED
  BY <1>3, <1>6, <1>7, <1>8 DEF PipelinesKnown, OffersStay, OnlyOneLive

(* As long as no offer is dispatched inside another, the pipelines are     *)
(* known.                                                                  *)
LEMMA PipelinesStep ==
  ASSUME TypeOK, StopIsLate, ~nested => PipelinesKnown, [Next]_vars, ~nested'
  PROVE  PipelinesKnown'
<1> USE DEF mainVars, boxVars, countVars, loopVars, mediaVars
<1>1. ~nested
  BY DEF vars, Next, MainThread, AcceptFrame, ScheduleFrame, StopBegins, StopInvokes, StopJoins,
         HttpThread, OfferArrives, OfferInvokes, LoopThread, Dispatch,
         PushTask, PushTakes, PushDrops, PushBuffer, PushFails, PushAgain,
         OfferDispatch, OfferUnusable, OfferTearsDown, OfferSized, OfferNotBuilt,
         OfferBuilt, OfferNotReady, OfferNotAnswered, OfferNegotiated, OfferGathered,
         OfferPlays, OfferNotPlaying, OfferExposes, StopTask
<1>2. PipelinesKnown /\ OneOfferDispatched
  BY <1>1 DEF PipelinesKnown
<1>3. ASSUME OffersStay, UNCHANGED <<running, mediaVars>>
      PROVE  PipelinesKnown'
  BY <1>2, <1>3, PipelinesKept
<1>4. CASE UNCHANGED vars
  BY <1>2, <1>3, <1>4, OthersMove DEF vars
<1>5. CASE AcceptFrame \/ ScheduleFrame \/ StopInvokes \/ StopJoins
  BY <1>2, <1>3, <1>5, OthersMove DEF AcceptFrame, ScheduleFrame, StopInvokes, StopJoins
<1>6. CASE StopBegins
  <2>1. stack' = stack /\ ~running' /\ UNCHANGED <<pipeline, state>>
    BY <1>6 DEF StopBegins
  <2>2. QED
    BY <1>2, <2>1, OthersMove, PipelinesKept
<1>7. CASE \E o \in Offers : HttpThread(o)
  BY <1>2, <1>3, <1>7, OthersMove DEF HttpThread, OfferArrives, OfferInvokes
<1>8. CASE Dispatch
  BY <1>2, <1>3, <1>8, OfferStarts DEF Dispatch
<1>9. CASE PushTask
  <2>1. UNCHANGED <<running, mediaVars>> /\ stack # <<>> /\ Top.task.kind # "offer"
    BY <1>9 DEF PushTask, PushTakes, PushDrops, PushBuffer, PushFails, PushAgain, Running
  <2>2. Returns \/ TakesFrame \/ \E p \in Places : Goes(p)
    BY <1>9 DEF PushTask, PushTakes, PushDrops, PushBuffer, PushFails, PushAgain,
                TakesFrame, Places
  <2>3. QED
    BY <1>2, <1>3, <2>1, <2>2, OthersMove
<1>10. CASE OfferDispatch
  BY <1>2, <1>10, OfferKeepsPipelines
<1>11. CASE StopTask
  BY <1>2, <1>11, StopKeepsPipelines
<1>12. QED
  BY <1>4, <1>5, <1>6, <1>7, <1>8, <1>9, <1>10, <1>11
    DEF Next, MainThread, LoopThread

-----------------------------------------------------------------------------
(***************************************************************************)
(* The theorems.                                                           *)
(***************************************************************************)
LEMMA SenderStarts == Init => IInv
<1> SUFFICES ASSUME Init PROVE IInv
  OBVIOUS
<1>0. Len(<<>>) = 0
  OBVIOUS
<1>1. stack = <<>> /\ sources = <<>> /\ Len(stack) = 0 /\ Len(sources) = 0
  BY <1>0 DEF Init
<1>2. TypeOK
  <2>1. stack \in Seq(Frames) /\ sources \in Seq(Tasks)
    BY <1>1, EmptySeq
  <2>2. \A i \in 2 .. Len(stack) : stack[i].pc \in {"size", "gather"}
    BY <1>1
  <2>3. /\ offer \in [Offers -> {"new", "checked", "waiting", "answered", "refused"}]
        /\ state \in [Offers -> {"none", "ready", "playing", "freed"}]
    BY DEF Init
  <2>4. /\ mailbox = 0 /\ latest = 0 /\ consumed = 0 /\ scheduled = FALSE
        /\ dropped = 0 /\ pushed = 0 /\ errors = 0 /\ lastPushed = 0
        /\ quit = FALSE /\ nested = FALSE /\ running = TRUE /\ mpc = "frames"
        /\ pipeline = NoPipeline /\ appsrc = NoPipeline
    BY DEF Init, None
  <2>5. {mailbox, latest, consumed} \subseteq Nat
    BY <2>4
  <2>6. {dropped, pushed, errors, lastPushed} \subseteq Nat
    BY <2>4
  <2>7. /\ {pipeline, appsrc} \subseteq Offers \cup {NoPipeline}
        /\ {quit, nested} \subseteq BOOLEAN
    BY <2>4
  <2>8. running \in BOOLEAN /\ scheduled \in BOOLEAN
    BY <2>4
  <2>9. QED
    BY <2>1, <2>2, <2>3, <2>4, <2>5, <2>6, <2>7, <2>8 DEF TypeOK
<1>3. FramesInv
  BY <1>1
    DEF Init, FramesInv, MailboxIsNew, PushIsNew, FramesCounted, InHand, InBox, Running,
        None
<1>4. StopIsLate
  BY <1>1 DEF Init, StopIsLate
<1>5. PipelinesKnown
  BY <1>1 DEF Init, PipelinesKnown, OneOfferDispatched, Live, FedAfterPlaying
<1>6. QED
  BY <1>2, <1>3, <1>4, <1>5 DEF IInv, FramesInv

LEMMA SenderSteps == IInv /\ [Next]_vars => IInv'
<1> SUFFICES ASSUME IInv, [Next]_vars PROVE IInv'
  OBVIOUS
<1>1. TypeOK'
  BY TypesStep DEF IInv
<1>2. FramesInv'
  BY FramesStep DEF IInv, FramesInv
<1>3. StopIsLate'
  BY StopStep DEF IInv
<1>4. (~nested => PipelinesKnown)'
  BY PipelinesStep DEF IInv
<1>5. QED
  BY <1>1, <1>2, <1>3, <1>4 DEF IInv, FramesInv

LEMMA SenderInv == Spec => []IInv
BY SenderStarts, SenderSteps, PTL DEF Spec

(* The sender's variables have their types, and only the innermost         *)
(* dispatch is anywhere but in one of the two waits of an offer.           *)
THEOREM SenderTypes == Spec => []TypeOK
BY SenderInv, PTL DEF IInv

(* Every frame accepted is in the mailbox, in the loop thread's hands or   *)
(* counted once (WebRtcH264Sender::stats, pushBgrFrame and                 *)
(* pushLatestFrameOnGstThread).                                            *)
THEOREM FramesAreAccounted == Spec => []FramesAccounted
<1>1. IInv => FramesAccounted
  <2> SUFFICES ASSUME IInv PROVE FramesAccounted
    OBVIOUS
  <2> DEFINE held == {i \in 1 .. Len(stack) :
                        stack[i].task.kind = "push" /\ stack[i].pc = "push"}
  <2>1. \A i \in 2 .. Len(stack) : stack[i].pc # "push"
    BY DEF IInv, TypeOK
  <2>2. Cardinality(held) = InHand
    <3>1. CASE HasFrame
      <4>1. Top = stack[1] /\ Len(stack) \in Nat \ {0}
        BY <3>1, TopTyped DEF HasFrame, Running, IInv
      <4>2. held = {1}
        BY <2>1, <3>1, <4>1 DEF HasFrame, Running
      <4>3. QED
        BY <3>1, <4>2, FS_Singleton DEF InHand, HasFrame
    <3>2. CASE ~HasFrame
      <4>1. held = {}
        <5>1. CASE stack = <<>>
          <6>1. Len(stack) = 0
            BY <5>1
          <6>2. QED
            BY <6>1
        <5>2. CASE stack # <<>>
          <6>1. Top = stack[1] /\ Len(stack) \in Nat \ {0}
            BY <5>2, TopTyped DEF IInv
          <6>2. QED
            BY <2>1, <3>2, <5>2, <6>1 DEF HasFrame, Running
        <5>3. QED
          BY <5>1, <5>2
      <4>2. QED
        BY <3>2, <4>1, FS_EmptySet DEF InHand, HasFrame
    <3>3. QED
      BY <3>1, <3>2
  <2>3. latest = dropped + pushed + errors + InHand + InBox
    BY DEF IInv, FramesCounted
  <2>4. QED
    BY <2>2, <2>3 DEF FramesAccounted, InBox
<1>2. QED
  BY <1>1, SenderInv, PTL

(* While no offer is dispatched inside another, a pipeline is fed only     *)
(* once it plays and none is alive that the sender no longer knows         *)
(* (handleOfferOnGstThread).                                               *)
THEOREM OnePipelineAtATime == Spec => []OnePipelinePlays
<1>1. IInv => OnePipelinePlays
  BY DEF IInv, PipelinesKnown, OnePipelinePlays, Live
<1>2. QED
  BY <1>1, SenderInv, PTL

(* The browser never gets an older frame after a newer one, nor one twice  *)
(* (pushLatestFrameOnGstThread).                                           *)
THEOREM FramesArePushedInOrder == Spec => PushesInOrder
<1>1. IInv /\ [Next]_vars => [pushed' > pushed => lastPushed' > lastPushed]_vars
  <2> SUFFICES ASSUME IInv, Next, pushed' > pushed PROVE lastPushed' > lastPushed
    OBVIOUS
  <2>1. pushed \in Nat
    BY DEF IInv, TypeOK
  <2>2. CASE PushBuffer
    <3>1. pushed' = pushed + 1 /\ lastPushed' = Top.frame
      BY <2>1, <2>2 DEF PushBuffer
    <3>2. lastPushed < Top.frame
      BY <2>2 DEF PushBuffer, IInv, PushIsNew
    <3>3. Top.frame \in Nat /\ lastPushed \in Nat
      BY <2>2, TopTyped DEF PushBuffer, Running, IInv, TypeOK, Frames
    <3>4. QED
      BY <3>1, <3>2, <3>3
  <2>3. CASE ~PushBuffer
    <3>1. pushed' = pushed
      BY <2>3
        DEF Next, MainThread, AcceptFrame, ScheduleFrame, StopBegins, StopInvokes, StopJoins,
            HttpThread, OfferArrives, OfferInvokes, LoopThread, Dispatch,
            PushTask, PushTakes, PushDrops, PushFails, PushAgain,
            OfferDispatch, OfferUnusable, OfferTearsDown, OfferSized, OfferNotBuilt,
            OfferBuilt, OfferNotReady, OfferNotAnswered, OfferNegotiated, OfferGathered,
            OfferPlays, OfferNotPlaying, OfferExposes, StopTask, countVars
    <3>2. QED
      BY <2>1, <3>1
  <2>4. QED
    BY <2>2, <2>3
<1>2. QED
  BY <1>1, SenderInv, PTL DEF Spec, PushesInOrder

-----------------------------------------------------------------------------
(***************************************************************************)
(* Wakeups: why no frame is left in the mailbox, as far as safety goes.    *)
(***************************************************************************)
(* A push that has not taken its frame yet: dispatched, or a source.       *)
AtStart == Running("push", "start")
PushSource(i) == sources[i].kind = "push"

(* The flag scheduled says that there is one, and there is never a second. *)
PushesOnce ==
  /\ \A i, j \in 1 .. Len(sources) : PushSource(i) /\ PushSource(j) => i = j
  /\ AtStart => \A i \in 1 .. Len(sources) : ~PushSource(i)
  /\ scheduled <=> AtStart \/ \E i \in 1 .. Len(sources) : PushSource(i)

(* A frame nobody has taken is in the mailbox, and a push is scheduled for *)
(* it or the main thread is about to schedule one.                         *)
FrameExpected ==
  latest # consumed => mailbox # None /\ (scheduled \/ mpc = "schedule")

(* Only a push is ever at its start again, and nothing resumed is there.   *)
LEMMA StartLeft ==
  ASSUME TypeOK, stack # <<>>, Returns \/ \E p \in Places \ {"start"} : Goes(p)
  PROVE  ~AtStart'
<1>1. CASE Returns
  BY <1>1, ReturnsTo DEF AtStart, Running, Top
<1>2. ASSUME NEW p \in Places \ {"start"}, Goes(p) PROVE ~AtStart'
  BY <1>2, GoesOn DEF AtStart, Running, Top
<1>3. QED
  BY <1>1, <1>2

LEMMA StartKept ==
  ASSUME stack' = stack
  PROVE  AtStart' <=> AtStart
BY DEF AtStart, Running, Top

(* What a source attached changes.                                         *)
LEMMA SourceAttached ==
  ASSUME TypeOK, NEW t \in Tasks, sources' = Append(sources, t)
  PROVE  /\ Len(sources) \in Nat /\ Len(sources') = Len(sources) + 1
         /\ \A i \in 1 .. Len(sources) : (PushSource(i)' <=> PushSource(i))
         /\ sources'[Len(sources')] = t
<1>1. sources \in Seq(Tasks)
  BY DEF TypeOK
<1>2. /\ Len(sources') = Len(sources) + 1 /\ Len(sources) \in Nat
      /\ \A i \in 1 .. Len(sources) : sources'[i] = sources[i]
      /\ sources'[Len(sources')] = t
  BY <1>1, AppendProperties, LenProperties
<1>3. QED
  BY <1>2 DEF PushSource

(* And what one dispatched changes.                                        *)
LEMMA SourceDispatched ==
  ASSUME TypeOK, Dispatch
  PROVE  /\ Len(sources) \in Nat \ {0} /\ Len(sources') = Len(sources) - 1
         /\ \A i \in 1 .. Len(sources') : i + 1 \in 1 .. Len(sources)
         /\ \A i \in 1 .. Len(sources') : (PushSource(i)' <=> PushSource(i + 1))
         /\ (AtStart' <=> PushSource(1)) /\ ~AtStart
<1>1. sources \in Seq(Tasks) /\ sources # <<>> /\ sources' = Tail(sources)
  BY DEF TypeOK, Dispatch
<1>2. /\ Len(sources) \in Nat \ {0} /\ Len(sources') = Len(sources) - 1
      /\ \A i \in 1 .. Len(sources') : sources'[i] = sources[i + 1]
      /\ Head(sources) = sources[1]
  BY <1>1, HeadTailProperties, EmptySeq
<1>3. \A i \in 1 .. Len(sources') : i + 1 \in 1 .. Len(sources)
  BY <1>2
<1>4. (AtStart' <=> PushSource(1))
  BY <1>2, DispatchedOnTop DEF AtStart, Running, Top, PushSource
<1>5. ~AtStart
  BY DEF Dispatch, Waiting, AtStart, Running
<1>6. QED
  BY <1>2, <1>3, <1>4, <1>5 DEF PushSource

LEMMA PushesOnceStep ==
  ASSUME TypeOK, PushesOnce, [Next]_vars
  PROVE  PushesOnce'
<1> USE DEF mainVars, boxVars, countVars, loopVars, mediaVars
<1>1. ASSUME UNCHANGED <<sources, scheduled>>, AtStart' <=> AtStart
      PROVE  PushesOnce'
  BY <1>1 DEF PushesOnce, PushSource
<1>2. ASSUME NEW t \in Tasks, sources' = Append(sources, t), stack' = stack,
             IF t.kind = "push" THEN ~scheduled /\ scheduled' = TRUE
                                ELSE scheduled' = scheduled
      PROVE  PushesOnce'
  <2>1. /\ Len(sources) \in Nat /\ Len(sources') = Len(sources) + 1
        /\ \A i \in 1 .. Len(sources) : (PushSource(i)' <=> PushSource(i))
        /\ sources'[Len(sources')] = t
    BY <1>2, SourceAttached
  <2>2. AtStart' <=> AtStart
    BY <1>2, StartKept
  <2>3. \A i \in 1 .. Len(sources') : i \in 1 .. Len(sources) \/ i = Len(sources')
    BY <2>1
  <2>4. 1 .. Len(sources) \subseteq 1 .. Len(sources') /\ Len(sources') \in 1 .. Len(sources')
    BY <2>1
  <2>5. CASE t.kind = "push"
    <3>1. ~AtStart /\ \A i \in 1 .. Len(sources) : ~PushSource(i)
      BY <1>2, <2>5 DEF PushesOnce
    <3>2. \A i \in 1 .. Len(sources') : PushSource(i)' <=> i = Len(sources')
      BY <1>2, <2>1, <2>3, <2>5, <3>1 DEF PushSource
    <3>3. scheduled' /\ ~AtStart'
      BY <1>2, <2>1, <2>2, <2>5, <3>1
    <3>4. QED
      BY <2>4, <3>2, <3>3 DEF PushesOnce
  <2>6. CASE t.kind # "push"
    <3>1. \A i \in 1 .. Len(sources') : PushSource(i)'
            => i \in 1 .. Len(sources) /\ PushSource(i)
      BY <2>1, <2>3, <2>6 DEF PushSource
    <3>2. scheduled' = scheduled
      BY <1>2, <2>6
    <3>3. (\E i \in 1 .. Len(sources') : PushSource(i)')
             <=> \E i \in 1 .. Len(sources) : PushSource(i)
      BY <2>1, <2>4, <3>1
    <3>4. QED
      BY <2>2, <3>1, <3>2, <3>3 DEF PushesOnce
  <2>7. QED
    BY <2>5, <2>6
<1>3. CASE UNCHANGED vars
  BY <1>1, <1>3, StartKept DEF vars
<1>4. CASE AcceptFrame \/ StopBegins \/ StopJoins
  BY <1>1, <1>4, StartKept DEF AcceptFrame, StopBegins, StopJoins
<1>5. CASE ScheduleFrame
  <2>1. CASE scheduled
    <3>1. scheduled \in BOOLEAN
      BY DEF TypeOK
    <3>2. UNCHANGED <<sources, scheduled>> /\ stack' = stack
      BY <1>5, <2>1, <3>1 DEF ScheduleFrame
    <3>3. QED
      BY <1>1, <3>2, StartKept
  <2>2. CASE ~scheduled
    <3>1. Push \in Tasks /\ Push.kind = "push"
      BY DEF Push, Tasks
    <3>2. sources' = Append(sources, Push) /\ stack' = stack /\ scheduled' = TRUE
      BY <1>5, <2>2 DEF ScheduleFrame
    <3>3. QED
      BY <1>2, <2>2, <3>1, <3>2
  <2>3. QED
    BY <2>1, <2>2
<1>6. CASE StopInvokes
  <2>1. Stop \in Tasks /\ Stop.kind = "stop"
    BY DEF Stop, Tasks
  <2>2. sources' = Append(sources, Stop) /\ stack' = stack /\ scheduled' = scheduled
    BY <1>6 DEF StopInvokes
  <2>3. QED
    BY <1>2, <2>1, <2>2
<1>7. ASSUME NEW o \in Offers, HttpThread(o) PROVE PushesOnce'
  <2>1. OfferTask(o) \in Tasks /\ OfferTask(o).kind = "offer"
    BY DEF OfferTask, Tasks
  <2>2. \/ UNCHANGED <<sources, scheduled>> /\ stack' = stack
        \/ sources' = Append(sources, OfferTask(o)) /\ stack' = stack /\ scheduled' = scheduled
    BY <1>7 DEF HttpThread, OfferArrives, OfferInvokes
  <2>3. QED
    BY <1>1, <1>2, <2>1, <2>2, StartKept
<1>8. CASE Dispatch
  <2>1. /\ Len(sources) \in Nat \ {0} /\ Len(sources') = Len(sources) - 1
        /\ \A i \in 1 .. Len(sources') : i + 1 \in 1 .. Len(sources)
        /\ \A i \in 1 .. Len(sources') : (PushSource(i)' <=> PushSource(i + 1))
        /\ (AtStart' <=> PushSource(1)) /\ ~AtStart
    BY <1>8, SourceDispatched
  <2>2. scheduled' = scheduled
    BY <1>8 DEF Dispatch
  <2>3. ASSUME NEW i \in 1 .. Len(sources'), NEW j \in 1 .. Len(sources'),
               PushSource(i)', PushSource(j)'
        PROVE  i = j
    <3>1. i + 1 = j + 1
      BY <2>1, <2>3 DEF PushesOnce
    <3>2. QED
      BY <3>1
  <2>4. ASSUME AtStart', NEW i \in 1 .. Len(sources') PROVE ~PushSource(i)'
    <3>1. ASSUME PushSource(i + 1) PROVE FALSE
      <4>1. i + 1 = 1
        BY <2>1, <2>4, <3>1 DEF PushesOnce
      <4>2. QED
        BY <4>1
    <3>2. QED
      BY <2>1, <3>1
  <2>5. (AtStart' \/ \E i \in 1 .. Len(sources') : PushSource(i)')
           <=> \E i \in 1 .. Len(sources) : PushSource(i)
    <3>1. \A i \in 1 .. Len(sources) :
            i = 1 \/ (i - 1 \in 1 .. Len(sources') /\ (i - 1) + 1 = i)
      BY <2>1
    <3>2. \A i \in 1 .. Len(sources) : i = 1 \/ (PushSource(i - 1)' <=> PushSource(i))
      BY <2>1, <3>1
    <3>3. 1 \in 1 .. Len(sources)
      BY <2>1
    <3>4. QED
      BY <2>1, <3>1, <3>2, <3>3
  <2>6. QED
    BY <2>1, <2>2, <2>3, <2>4, <2>5 DEF PushesOnce
<1>9. CASE PushTakes
  <2>1. AtStart /\ stack # <<>> /\ scheduled' = FALSE /\ sources' = sources
    BY <1>9 DEF PushTakes, AtStart, Running
  <2>2. ~AtStart'
    <3>1. CASE Returns
      BY <2>1, <3>1, StartLeft
    <3>2. CASE TakesFrame
      BY <2>1, <3>2, FrameTaken DEF AtStart, Running, Top
    <3>3. QED
      BY <1>9, <3>1, <3>2 DEF PushTakes, TakesFrame
  <2>3. \A i \in 1 .. Len(sources) : ~PushSource(i)
    BY <2>1 DEF PushesOnce
  <2>4. QED
    BY <2>1, <2>2, <2>3 DEF PushesOnce, PushSource
<1>10. CASE PushAgain
  <2>1. ~AtStart /\ stack # <<>> /\ Top.task.kind = "push" /\ sources' = sources
    BY <1>10 DEF PushAgain, AtStart, Running
  <2>2. CASE ~scheduled /\ scheduled' = TRUE /\ Goes("start")
    <3>1. AtStart'
      BY <2>1, <2>2, GoesOn DEF AtStart, Running, Top, Places
    <3>2. \A i \in 1 .. Len(sources) : ~PushSource(i)
      BY <2>2 DEF PushesOnce
    <3>3. QED
      BY <2>1, <2>2, <3>1, <3>2 DEF PushesOnce, PushSource
  <2>3. CASE Returns /\ scheduled' = scheduled
    <3>1. ~AtStart'
      BY <2>1, <2>3, StartLeft
    <3>2. QED
      BY <1>1, <2>1, <2>3, <3>1
  <2>4. QED
    BY <1>10, <2>2, <2>3 DEF PushAgain
<1>11. CASE PushDrops \/ PushBuffer \/ PushFails \/ OfferDispatch \/ StopTask
  <2>1. ~AtStart /\ stack # <<>> /\ UNCHANGED <<sources, scheduled>>
    BY <1>11
      DEF PushDrops, PushBuffer, PushFails,
          OfferDispatch, OfferUnusable, OfferTearsDown, OfferSized, OfferNotBuilt,
          OfferBuilt, OfferNotReady, OfferNotAnswered, OfferNegotiated, OfferGathered,
          OfferPlays, OfferNotPlaying, OfferExposes, StopTask, AtStart, Running
  <2>2. Returns \/ \E p \in Places \ {"start"} : Goes(p)
    BY <1>11
      DEF PushDrops, PushBuffer, PushFails,
          OfferDispatch, OfferUnusable, OfferTearsDown, OfferSized, OfferNotBuilt,
          OfferBuilt, OfferNotReady, OfferNotAnswered, OfferNegotiated, OfferGathered,
          OfferPlays, OfferNotPlaying, OfferExposes, StopTask, Refuse, Places
  <2>3. QED
    BY <1>1, <2>1, <2>2, StartLeft
<1>12. QED
  BY <1>3, <1>4, <1>5, <1>6, <1>7, <1>8, <1>9, <1>10, <1>11
    DEF Next, MainThread, LoopThread, PushTask

LEMMA FrameExpectedStep ==
  ASSUME TypeOK, FrameExpected, [Next]_vars
  PROVE  FrameExpected'
<1> USE DEF mainVars, boxVars, countVars, loopVars, mediaVars
<1>1. ASSUME UNCHANGED <<mailbox, latest, consumed, mpc>>, scheduled' = scheduled \/ scheduled'
      PROVE  FrameExpected'
  BY <1>1 DEF FrameExpected
<1>2. CASE AcceptFrame
  <2>1. latest \in Nat /\ mailbox' = latest + 1 /\ mpc' = "schedule"
    BY <1>2 DEF AcceptFrame, TypeOK
  <2>2. QED
    BY <2>1 DEF FrameExpected, None
<1>3. CASE ScheduleFrame \/ StopBegins \/ StopInvokes \/ StopJoins
  BY <1>3 DEF ScheduleFrame, StopBegins, StopInvokes, StopJoins, FrameExpected
<1>4. CASE PushTakes
  BY <1>4 DEF PushTakes, FrameExpected
<1>5. CASE PushAgain
  BY <1>1, <1>5 DEF PushAgain
<1>6. QED
  BY <1>1, <1>2, <1>3, <1>4, <1>5
    DEF vars, Next, MainThread, HttpThread, OfferArrives, OfferInvokes, LoopThread, Dispatch,
        PushTask, PushDrops, PushBuffer, PushFails,
        OfferDispatch, OfferUnusable, OfferTearsDown, OfferSized, OfferNotBuilt,
        OfferBuilt, OfferNotReady, OfferNotAnswered, OfferNegotiated, OfferGathered,
        OfferPlays, OfferNotPlaying, OfferExposes, StopTask

(* However frames, pushes and offers interleave, a frame that nobody has   *)
(* taken has exactly one push coming for it, so that the mailbox cannot be *)
(* forgotten nor the main context filled with pushes                       *)
(* (scheduleLatestFramePush and the end of pushLatestFrameOnGstThread).    *)
THEOREM NoWakeupLost == Spec => [](PushesOnce /\ FrameExpected)
<1>1. Init => PushesOnce /\ FrameExpected
  <2> SUFFICES ASSUME Init PROVE PushesOnce /\ FrameExpected
    OBVIOUS
  <2>1. sources = <<>> /\ stack = <<>> /\ scheduled = FALSE /\ latest = consumed
    BY DEF Init
  <2>2. Len(<<>>) = 0
    OBVIOUS
  <2>3. QED
    BY <2>1, <2>2 DEF PushesOnce, FrameExpected, AtStart, Running
<1>2. TypeOK /\ PushesOnce /\ FrameExpected /\ [Next]_vars => (PushesOnce /\ FrameExpected)'
  BY PushesOnceStep, FrameExpectedStep
<1>3. QED
  BY <1>1, <1>2, SenderTypes, PTL DEF Spec
=============================================================================
