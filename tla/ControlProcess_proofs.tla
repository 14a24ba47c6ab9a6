------------------------ MODULE ControlProcess_proofs ------------------------
(***************************************************************************)
(* Proofs about the control process (bf_control_host.cpp), whose threads   *)
(* two modules model from two points of view: that the state watchdog      *)
(* bounds the age of the status a command rests on, for every setting of   *)
(* the limits, and that the override sink implements StickOwner and holds  *)
(* the same sticks while the override lasts, for every number of switches  *)
(* and every length of the serial line.                                    *)
(***************************************************************************)
EXTENDS StateWatchdog, RcOverride, TLAPS

(***************************************************************************)
(* The watchdog.                                                           *)
(***************************************************************************)
(* The status is not older than the publication says, plus the time since. *)
PublicationBounds == sharedSeen => statusAge <= sharedAge + sharedFor

(* Nor much older than the control loop's clock.  At most one less than    *)
(* each limit is lost, hence the 2.                                        *)
ClockBounds == statusAge + 2 <= okAge + PollFresh + StatusFresh

(* What an untripped decision rested on.                                   *)
DecisionBounded ==
  tick = "stage" /\ Enabled /\ ~tripped
    => decidedAge + 2 <= Timeout + PollFresh + StatusFresh

WatchdogInv == WatchdogTypeOK /\ PublicationBounds /\ ClockBounds /\ DecisionBounded

LEMMA OlderIsAge == \A age \in Ages : Older(age) \in Ages
  BY WatchdogAssumption DEF Older, Ages

(* Ages that grow together keep their order, the cap included.             *)
LEMMA OlderKeepsOrder ==
  ASSUME NEW a \in Ages, NEW b \in Ages, NEW k \in Nat, a <= b + k
  PROVE  Older(a) <= Older(b) + k
  BY WatchdogAssumption DEF Older, Ages

LEMMA WatchdogInvInit == WatchdogInit => WatchdogInv
<1> SUFFICES ASSUME WatchdogInit PROVE WatchdogInv
    OBVIOUS
<1>1. 0 \in Ages
  BY WatchdogAssumption DEF Ages
<1>2. WatchdogTypeOK
  BY <1>1 DEF WatchdogInit, WatchdogTypeOK
<1>3. ClockBounds
  BY WatchdogAssumption DEF WatchdogInit, ClockBounds
<1>4. QED
  BY <1>2, <1>3 DEF WatchdogInit, WatchdogInv, PublicationBounds, DecisionBounded

LEMMA WatchdogInvStep == WatchdogInv /\ [WatchdogNext]_watchdogVars => WatchdogInv'
<1> SUFFICES ASSUME WatchdogInv, [WatchdogNext]_watchdogVars PROVE WatchdogInv'
    OBVIOUS
<1> USE WatchdogAssumption DEF WatchdogInv
<1>1. CASE Passes
  <2>1. WatchdogTypeOK'
    BY <1>1, OlderIsAge DEF Passes, WatchdogTypeOK
  <2>2. PublicationBounds'
    <3>1. CASE sharedSeen
      <4>1. Older(statusAge) <= Older(sharedFor) + sharedAge
        BY <3>1, OlderKeepsOrder DEF WatchdogTypeOK, PublicationBounds, Ages
      <4>2. QED
        BY <1>1, <4>1, OlderIsAge DEF Passes, PublicationBounds, WatchdogTypeOK, Ages
    <3>2. CASE ~sharedSeen
      BY <1>1, <3>2 DEF Passes, PublicationBounds
    <3>3. QED
      BY <3>1, <3>2
  <2>3. ClockBounds'
    <3> DEFINE slack == PollFresh + StatusFresh - 2
    <3>1. slack \in Nat /\ statusAge <= okAge + slack
      BY DEF ClockBounds, WatchdogTypeOK, Ages
    <3> HIDE DEF slack
    <3>2. Older(statusAge) <= Older(okAge) + slack
      BY <3>1, OlderKeepsOrder DEF WatchdogTypeOK
    <3>3. QED
      BY <1>1, <3>2, OlderIsAge DEF Passes, ClockBounds, slack, WatchdogTypeOK, Ages
  <2>4. DecisionBounded'
    BY <1>1 DEF Passes, DecisionBounded
  <2>5. QED
    BY <2>1, <2>2, <2>3, <2>4
<1>2. ASSUME NEW status \in BOOLEAN, Cycle(status) PROVE WatchdogInv'
  BY <1>2
     DEF Cycle, HasAge, tickVars, WatchdogTypeOK, PublicationBounds, ClockBounds,
         DecisionBounded, Ages
<1>3. CASE Reads
  <2>1. StateOk => statusAge + 2 <= PollFresh + StatusFresh
    BY DEF StateOk, PublicationBounds, WatchdogTypeOK, Ages
  <2>2. QED
    BY <1>3, <2>1
       DEF Reads, pollVars, WatchdogTypeOK, PublicationBounds, ClockBounds,
         DecisionBounded, Ages
<1>4. CASE Decides
  <2>1. WatchdogTypeOK' /\ PublicationBounds' /\ ClockBounds'
    BY <1>4 DEF Decides, Trips, pollVars, WatchdogTypeOK, PublicationBounds, ClockBounds
  <2>2. DecisionBounded'
    <3>1. CASE Enabled /\ ~Trips
      <4>1. okAge <= Timeout
        BY <3>1 DEF Trips, WatchdogTypeOK, Ages
      <4>2. statusAge + 2 <= Timeout + PollFresh + StatusFresh
        BY <4>1 DEF ClockBounds, WatchdogTypeOK, Ages
      <4>3. QED
        BY <1>4, <4>2 DEF Decides, DecisionBounded
    <3>2. CASE ~(Enabled /\ ~Trips)
      BY <1>4, <3>2, Zenon DEF Decides, DecisionBounded
    <3>3. QED
      BY <3>1, <3>2
  <2>3. QED
    BY <2>1, <2>2
<1>5. CASE Stages
  BY <1>5
     DEF Stages, pollVars, WatchdogTypeOK, PublicationBounds,
         ClockBounds, DecisionBounded
<1>6. CASE UNCHANGED watchdogVars
  BY <1>6
     DEF watchdogVars, pollVars, tickVars, WatchdogTypeOK, PublicationBounds,
         ClockBounds, DecisionBounded
<1>7. QED
  BY <1>1, <1>2, <1>3, <1>4, <1>5, <1>6 DEF WatchdogNext, IoCycle, TickSteps

LEMMA WatchdogInvHolds == WatchdogSpec => []WatchdogInv
  BY WatchdogInvInit, WatchdogInvStep, PTL DEF WatchdogSpec

(* The watchdog's variables have their types, whatever the limits.         *)
THEOREM WatchdogTypes == WatchdogSpec => []WatchdogTypeOK
  BY WatchdogInvHolds, PTL DEF WatchdogInv

(* Whatever the limits and however the two threads are scheduled, no       *)
(* command is staged on a status older than the three limits together.     *)
THEOREM WatchdogBoundsStatusAge == WatchdogSpec => CommandStatusAge
<1>1. WatchdogInv /\ [WatchdogNext]_watchdogVars
        => [Stages /\ commandStaged' /\ Enabled
              => decidedAge + 2 <= Timeout + PollFresh + StatusFresh]_watchdogVars
  BY DEF WatchdogInv, DecisionBounded, Stages
<1>2. QED
  BY <1>1, WatchdogInvHolds, PTL DEF WatchdogSpec, CommandStatusAge

(***************************************************************************)
(* The override sink.                                                      *)
(***************************************************************************)
(* The cached override is the switch or the grace hold, never both.        *)
CacheConsistent ==
  /\ debounced \in BOOLEAN /\ grace \in BOOLEAN
  /\ cached = (debounced \/ grace)
  /\ ~(debounced /\ grace)

(* A valid latch was taken in a window that no reading has ended since.    *)
LatchInWindow ==
  /\ latchValid \in BOOLEAN /\ wasActive \in BOOLEAN
  /\ latchValid => wasActive

SinkInv == CacheConsistent /\ LatchInWindow

LEMMA SinkInvInit == Init => SinkInv
  BY DEF Init, SinkInv, CacheConsistent, LatchInWindow

LEMMA TakeStatusKeepsCache ==
  ASSUME SinkInv, NEW status, TakeStatus(status)
  PROVE  CacheConsistent'
<1>1. debounced' = Debounced(status) /\ grace' = GraceAfter(status)
      /\ cached' = (debounced' \/ grace')
  BY DEF TakeStatus
<1>2. Debounced(status) \in BOOLEAN /\ GraceAfter(status) \in BOOLEAN
  BY DEF Debounced, GraceAfter
<1>3. ~(Debounced(status) /\ GraceAfter(status))
  BY DEF Debounced, GraceAfter, RawOn, RawOff, SinkInv, CacheConsistent
<1>4. QED
  BY <1>1, <1>2, <1>3 DEF CacheConsistent

LEMMA TakeReadingKeepsWindow ==
  ASSUME SinkInv, NEW rc, TakeReading(rc)
  PROVE  LatchInWindow'
  BY Zenon DEF TakeReading, LatchInWindow, SinkInv, latchVars

LEMMA SinkInvStep == SinkInv /\ [Next]_vars => SinkInv'
<1> SUFFICES ASSUME SinkInv, [Next]_vars PROVE SinkInv'
    OBVIOUS
<1>1. CASE Drain
  <2>1. PICK n \in 0 .. Len(replies) :
          /\ TakeStatus(LastOf(SubSeq(replies, 1, n), "mode"))
          /\ TakeReading(LastOf(SubSeq(replies, 1, n), "own"))
    BY <1>1, Zenon DEF Drain
  <2>2. QED
    BY <2>1, TakeStatusKeepsCache, TakeReadingKeepsWindow DEF SinkInv
<1>2. CASE GraceElapses
  BY <1>2 DEF GraceElapses, latchVars, SinkInv, CacheConsistent, LatchInWindow
<1>3. ASSUME UNCHANGED sinkVars PROVE SinkInv'
  BY <1>3 DEF sinkVars, graceVars, latchVars, SinkInv, CacheConsistent, LatchInWindow
<1>4. CASE Switches \/ Answers \/ Flush \/ Ask \/ ControlLoop \/ TunesDryRun
  BY <1>3, <1>4 DEF Switches, Answers, Flush, Ask, ControlLoop, Tick, Publish, TunesDryRun
<1>5. CASE UNCHANGED vars
  BY <1>3, <1>5 DEF vars
<1>6. QED
  BY <1>1, <1>2, <1>4, <1>5 DEF Next, IoThread

LEMMA SinkInvHolds == Spec => []SinkInv
  BY SinkInvInit, SinkInvStep, PTL DEF Spec

(* The sticks held stay the same while the override is on, whatever comes  *)
(* over the line and however late.                                         *)
THEOREM LatchIsHeld == Spec => LatchHeld
<1>1. SinkInv /\ [Next]_vars
        => [cached /\ cached' /\ latchValid => latchValid' /\ latched' = latched]_vars
  <2> SUFFICES ASSUME SinkInv, [Next]_vars, cached, cached', latchValid
               PROVE  latchValid' /\ latched' = latched
      OBVIOUS
  <2>1. ASSUME UNCHANGED latchVars PROVE latchValid' /\ latched' = latched
    BY <2>1 DEF latchVars
  <2>2. CASE Drain
    <3>1. PICK rc : TakeReading(rc)
      BY <2>2, Zenon DEF Drain
    <3>2. QED
      BY <3>1, <2>1, Zenon DEF TakeReading, InHoldWindow, SinkInv, LatchInWindow
  <2>3. CASE Switches \/ Answers \/ Flush \/ Ask \/ ControlLoop \/ TunesDryRun
    BY <2>1, <2>3
       DEF Switches, Answers, Flush, Ask, ControlLoop, Tick, Publish, TunesDryRun,
           sinkVars
  <2>4. CASE GraceElapses \/ UNCHANGED vars
    BY <2>1, <2>4 DEF GraceElapses, vars, sinkVars
  <2>5. QED
    BY <2>2, <2>3, <2>4 DEF Next, IoThread
<1>2. QED
  BY <1>1, SinkInvHolds, PTL DEF Spec, LatchHeld

(* The abstract owner, and what a drain may make of it.                    *)
WhoOwns == IF debounced THEN "companion" ELSE IF grace THEN "releasing" ELSE "pilot"

LEMMA DrainMovesOwner ==
  ASSUME SinkInv, Drain
  PROVE  [Owner!TakeOver \/ Owner!LetGo \/ Owner!Released]_<<WhoOwns, staged>>
<1>1. PICK status : TakeStatus(status)
  BY Zenon DEF Drain
<1>2. debounced' = Debounced(status) /\ grace' = GraceAfter(status) /\ staged' = staged
  BY <1>1 DEF TakeStatus, Drain
<1>3. debounced' \in BOOLEAN /\ grace' \in BOOLEAN
  BY <1>2 DEF Debounced, GraceAfter
<1>4. grace' => debounced \/ grace
  BY <1>2 DEF GraceAfter
<1>5. debounced \in BOOLEAN /\ grace \in BOOLEAN
  BY DEF SinkInv, CacheConsistent
<1>6. QED
  BY <1>2, <1>3, <1>4, <1>5
     DEF Owner!TakeOver, Owner!LetGo, Owner!Released, WhoOwns

(* A tick prepares a frame only while the cached override is on at the     *)
(* moment it stages it.                                                    *)
LEMMA PublishPrepares ==
  ASSUME SinkInv, Publish
  PROVE  \/ staged' = "none"
         \/ staged' = staged
         \/ cached /\ staged' \in {"sticks", "command"}
  BY DEF Publish, StageWire, StagePhysicalHold, ComputeWire

(* The override sink, the polling thread and the control loop together     *)
(* implement StickOwner.                                                   *)
THEOREM SinkImplementsStickOwner == Spec => ImplementsStickOwner
<1>1. Init => Owner!Init
  BY DEF Init, Owner!Init
<1>2. SinkInv /\ SinkInv' /\ [Next]_vars => [Owner!Next]_<<WhoOwns, staged>>
  <2> SUFFICES ASSUME SinkInv, [Next]_vars PROVE [Owner!Next]_<<WhoOwns, staged>>
      OBVIOUS
  <2>1. CASE Drain
    BY <2>1, DrainMovesOwner DEF Owner!Next
  <2>2. CASE Publish
    <3>1. UNCHANGED WhoOwns
      BY <2>2 DEF Publish, sinkVars, graceVars, WhoOwns
    <3>2. cached => WhoOwns # "pilot"
      BY DEF SinkInv, CacheConsistent, WhoOwns
    <3>3. QED
      BY <2>2, <3>1, <3>2, PublishPrepares
         DEF Owner!Next, Owner!Withdraw, Owner!Prepare, Owner!Frames, WhoOwns
  <2>3. ASSUME UNCHANGED <<sinkVars, staged>> PROVE UNCHANGED <<WhoOwns, staged>>
    BY <2>3 DEF sinkVars, graceVars, WhoOwns
  <2>4. CASE Switches \/ Answers \/ Flush \/ Ask \/ Tick \/ TunesDryRun
    BY <2>3, <2>4 DEF Switches, Answers, Flush, Ask, Tick, TunesDryRun
  <2>5. CASE GraceElapses \/ UNCHANGED vars
    BY <2>5 DEF GraceElapses, vars, sinkVars, graceVars, WhoOwns
  <2>6. QED
    BY <2>1, <2>2, <2>4, <2>5 DEF Next, IoThread, ControlLoop
<1>3. QED
  BY <1>1, <1>2, SinkInvHolds, PTL
     DEF Spec, ImplementsStickOwner, Owner!Spec, WhoOwns
=============================================================================
