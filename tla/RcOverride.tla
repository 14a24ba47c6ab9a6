------------------------------ MODULE RcOverride ------------------------------
(***************************************************************************)
(* Who owns the sticks: the pilot's override switch as the companion sees  *)
(* it through a lossy serial line, the latch of the pilot's sticks and the *)
(* grace hold (adapters/bf/common, BfRateSink), the thread that polls and  *)
(* sends (mspIoThread), and the control loop's gate (bf_control_host.cpp). *)
(*                                                                         *)
(* What the controller commands is any command, a stick reading is known   *)
(* by the number of times the switch had been turned on when it was taken  *)
(* and by whether the channels were then the pilot's own, and of a frame   *)
(* only matters whether it carries latched sticks or a command.  Time is   *)
(* the subject of StateWatchdog: here a watchdog may trip at any tick.     *)
(***************************************************************************)
EXTENDS Naturals, Sequences, SequencesExt

CONSTANTS
  GraceHold,    (* override_grace_hold_s is not 0                          *)
  TuneDryRun,   (* the web page's switch for dry_run is used               *)
  MaxSwitches,  (* bound: times the pilot turns override on                *)
  MaxLine       (* bound: requests and replies on the serial line          *)

ASSUME OverrideAssumption ==
  /\ GraceHold \in BOOLEAN /\ TuneDryRun \in BOOLEAN
  /\ MaxSwitches \in Nat /\ MaxLine \in Nat

VARIABLES
  fcOn, era,   (* the flight controller's switch, and how often it came on *)
  asked,       (* requests it has not answered                             *)
  replies,     (* its answers that have not been drained                   *)
  io,          (* mspIoThread: flush, ask, drain                           *)
  debounced,   (* override_debounced_active_                               *)
  grace,       (* override_grace_hold_active_                              *)
  graceDue,    (* override_grace_until_ has passed                         *)
  cached,      (* cached_override_active_                                  *)
  wasActive,   (* override_was_active_                                     *)
  physical,    (* last_physical_channels_, a sequence of at most one       *)
  latched,     (* override_latched_channels_, likewise                     *)
  latchValid,  (* override_latch_valid_                                    *)
  staged,      (* staged_: what the frame carries, "none" if not valid     *)
  loop,        (* the control loop: tick, publish                          *)
  seen,        (* override_active of this tick                             *)
  seenGrace,   (* override_grace of this tick                              *)
  prevEngaged, (* prev_strike_engaged                                      *)
  freshSeen,   (* engaged_fresh_seen                                       *)
  dryRun,      (* the controller's params_.dry_run; cfg.dry_run is false   *)
  engagements, (* history: times the override came to be known as on       *)
  latchedIn,   (* history: in which of them the latch was taken            *)
  freshHere    (* history: a fresh detection since the loop's rising edge  *)

fcVars    == <<fcOn, era>>
lineVars  == <<asked, replies>>
graceVars == <<debounced, grace, graceDue, cached, engagements>>
latchVars == <<wasActive, physical, latched, latchValid, latchedIn>>
sinkVars  == <<graceVars, latchVars>>
loopVars  == <<loop, seen, seenGrace, prevEngaged, freshSeen, freshHere>>
vars == <<fcVars, lineVars, io, sinkVars, staged, loopVars, dryRun>>

Readings == [own : BOOLEAN, era : 0 .. MaxSwitches]
Replies  == [mode : {"override", "other"}] \cup Readings

TypeOK ==
  /\ fcOn \in BOOLEAN /\ era \in 0 .. MaxSwitches
  /\ asked \in Seq({"status", "rc"}) /\ replies \in Seq(Replies)
  /\ Len(asked) + Len(replies) <= MaxLine + 1
  /\ io \in {"flush", "ask", "drain"}
  /\ {debounced, grace, graceDue, cached, wasActive, latchValid} \subseteq BOOLEAN
  /\ cached = (debounced \/ grace) /\ ~(debounced /\ grace)
  /\ physical \in BoundedSeq(Readings, 1) /\ latched \in BoundedSeq(Readings, 1)
  /\ latchValid => latched # <<>>
  /\ staged \in {"none", "sticks", "command"}
  /\ loop \in {"tick", "publish"}
  /\ {seen, seenGrace, prevEngaged, freshSeen, dryRun, freshHere} \subseteq BOOLEAN
  /\ engagements \in 0 .. MaxSwitches /\ latchedIn \in 0 .. engagements

Init ==
  /\ fcOn = FALSE /\ era = 0
  /\ asked = <<>> /\ replies = <<>> /\ io = "flush"
  /\ debounced = FALSE /\ grace = FALSE /\ graceDue = FALSE /\ cached = FALSE
  /\ wasActive = FALSE /\ physical = <<>> /\ latched = <<>> /\ latchValid = FALSE
  /\ staged = "none"
  /\ loop = "tick" /\ seen = FALSE /\ prevEngaged = FALSE /\ freshSeen = FALSE
  /\ seenGrace = FALSE /\ dryRun = FALSE /\ freshHere = FALSE
  /\ engagements = 0 /\ latchedIn = 0

(***************************************************************************)
(* The flight controller and the line.  Answers come in the order of the   *)
(* requests, and any of them may be lost.                                  *)
(***************************************************************************)
Switches ==
  /\ fcOn \/ era < MaxSwitches
  /\ fcOn' = ~fcOn
  /\ era' = IF fcOn THEN era ELSE era + 1
  /\ UNCHANGED <<lineVars, io, sinkVars, staged, loopVars, dryRun>>

Answer ==
  IF Head(asked) = "status" THEN [mode |-> IF fcOn THEN "override" ELSE "other"]
                            ELSE [own |-> ~fcOn, era |-> era]

Answers ==
  /\ asked # <<>>
  /\ asked' = Tail(asked)
  /\ replies' \in {replies, Append(replies, Answer)}
  /\ UNCHANGED <<fcVars, io, sinkVars, staged, loopVars, dryRun>>

GraceElapses ==
  /\ grace /\ ~graceDue /\ graceDue' = TRUE
  /\ UNCHANGED <<fcVars, lineVars, io, debounced, grace, cached, engagements,
                 latchVars, staged, loopVars, dryRun>>

(***************************************************************************)
(* mspIoThread.  One cycle: the staged frame, the requests that are due,   *)
(* and whatever has come in, which BfRateSink then takes in.               *)
(***************************************************************************)
Flush ==
  /\ io = "flush" /\ io' = "ask"
  /\ UNCHANGED <<fcVars, lineVars, sinkVars, staged, loopVars, dryRun>>

NeedsRcPoll == ~(cached /\ latchValid)

(* A request the line has no room for is lost.                             *)
Ask ==
  /\ io = "ask" /\ io' = "drain"
  /\ \E due \in {<<>>, <<"status">>, <<"rc">>, <<"status", "rc">>} :
       LET sent == SelectSeq(due, LAMBDA r : r = "status" \/ NeedsRcPoll)
       IN asked' \in {asked} \cup
            (IF Len(asked \o replies \o sent) <= MaxLine THEN {asked \o sent} ELSE {})
  /\ UNCHANGED <<fcVars, replies, sinkVars, staged, loopVars, dryRun>>

(* The mode flag of the last status that came, if one has.                 *)
RawOn(status)  == status # <<>> /\ status[1].mode = "override"
RawOff(status) == status # <<>> /\ status[1].mode # "override"

(* applyOverrideDebouncing and, for a poll without a status, the expiry in *)
(* applyPollContextLocked.  A latch is what makes a grace hold possible.   *)
Debounced(status) == RawOn(status) \/ (debounced /\ ~RawOff(status))

(* Mutation: only a status can end the grace hold.                         *)
GraceAfterStatus(status) ==
  /\ ~RawOn(status)
  /\ \/ RawOff(status) /\ debounced /\ GraceHold /\ latchValid
     \/ grace /\ (status # <<>> => ~graceDue)

GraceAfter(status) ==
  /\ ~RawOn(status)
  /\ \/ RawOff(status) /\ debounced /\ GraceHold /\ latchValid
     \/ grace /\ ~graceDue

TakeStatus(status) ==
  /\ debounced' = Debounced(status)
  /\ grace' = GraceAfter(status)
  /\ graceDue' = (grace' /\ graceDue)
  /\ cached' = (debounced' \/ grace')
  /\ engagements' = engagements + (IF cached' /\ ~cached THEN 1 ELSE 0)

(* Mutation: the window is the switch's, without the grace hold.           *)
WindowOfSwitch == debounced'
InHoldWindow == cached'

(* updatePhysicalAndOverrideLatch.                                         *)
TakeReading(rc) ==
  LET rising == ~wasActive
  IN IF rc = <<>> THEN UNCHANGED latchVars
     ELSE IF ~InHoldWindow THEN
       /\ physical' = rc /\ wasActive' = FALSE /\ latchValid' = FALSE
       /\ UNCHANGED <<latched, latchedIn>>
     ELSE
       /\ wasActive' = TRUE
       /\ UNCHANGED physical
       /\ IF (rising \/ ~latchValid) /\ physical # <<>>
            THEN latched' = physical /\ latchValid' = TRUE /\ latchedIn' = engagements'
            ELSE UNCHANGED <<latched, latchValid, latchedIn>>

LastOf(s, key) ==
  LET t == SelectSeq(s, LAMBDA r : key \in DOMAIN r)
  IN IF t = <<>> THEN <<>> ELSE <<Last(t)>>

(* drainResponses and ingestPoll: of each kind the last answer counts.     *)
Drain ==
  /\ io = "drain" /\ io' = "flush"
  /\ \E n \in 0 .. Len(replies) :
       LET got == SubSeq(replies, 1, n)
       IN /\ replies' = SubSeq(replies, n + 1, Len(replies))
          /\ TakeStatus(LastOf(got, "mode"))
          /\ TakeReading(LastOf(got, "own"))
  /\ UNCHANGED <<fcVars, asked, staged, loopVars, dryRun>>

IoThread == Flush \/ Ask \/ Drain

(***************************************************************************)
(* The control loop.                                                       *)
(***************************************************************************)
(* The rising edge clears engaged_fresh_seen unless there is a latch, with *)
(* a throttle that looks plausible.                                        *)
Tick ==
  /\ loop = "tick" /\ loop' = "publish"
  /\ seen' = cached /\ seenGrace' = grace /\ prevEngaged' = cached
  /\ LET rising == cached /\ ~prevEngaged
     IN \E fresh \in BOOLEAN, hadLatch \in {FALSE, latchValid} :
          /\ freshSeen' = ((freshSeen /\ (rising => hadLatch)) \/ (cached /\ fresh))
          /\ freshHere' = ((freshHere /\ ~rising) \/ (cached /\ fresh))
  /\ UNCHANGED <<fcVars, lineVars, io, sinkVars, staged, dryRun>>

(* Mutation: the tick's own copy of the override is trusted.               *)
ComputeWireOfTick(active) ==
  IF ~seen THEN "none" ELSE IF latchValid /\ ~active THEN "sticks" ELSE "command"

(* computeWire: a command that commands nothing leaves the sticks latched. *)
ComputeWire(active) ==
  IF ~cached THEN "none" ELSE IF latchValid /\ ~active THEN "sticks" ELSE "command"

(* Mutation: a hold that cannot be computed leaves what was staged.        *)
StageHoldOnly == staged' = IF cached /\ latchValid THEN "sticks" ELSE staged
StagePhysicalHold == staged' = IF cached /\ latchValid THEN "sticks" ELSE "none"

StageWire(active) == staged' = IF dryRun THEN staged ELSE ComputeWire(active)

(* decideBfPublish.                                                        *)
Commands(command, gate) ==
  gate /\ ((command = "Algorithm" /\ freshSeen) \/ command = "LevelOnly")

Publish ==
  /\ loop = "publish" /\ loop' = "tick"
  /\ \E command \in {"None", "Algorithm", "LevelOnly"} :
     \E mayCommand, tripped, handover, active \in BOOLEAN :
       LET gate == mayCommand /\ seen /\ ~tripped
       IN IF Commands(command, gate) \/ (handover /\ gate /\ latchValid)
            THEN StageWire(active) ELSE StagePhysicalHold
  /\ UNCHANGED <<fcVars, lineVars, io, sinkVars, seen, seenGrace, prevEngaged,
                 freshSeen, freshHere, dryRun>>

(* applyParamUpdateJson between two ticks.                                 *)
TunesDryRun ==
  /\ TuneDryRun /\ loop = "tick"
  /\ dryRun' = ~dryRun
  /\ UNCHANGED <<fcVars, lineVars, io, sinkVars, staged, loopVars>>

ControlLoop == Tick \/ Publish

Next ==
  Switches \/ Answers \/ GraceElapses \/ IoThread \/ ControlLoop \/ TunesDryRun

Spec == Init /\ [][Next]_vars

(* Both threads run for ever and time passes.  Nothing is assumed of the   *)
(* pilot, of the flight controller or of the line.                         *)
FairSpec ==
  Spec /\ WF_vars(IoThread) /\ WF_vars(ControlLoop) /\ WF_vars(GraceElapses)

-----------------------------------------------------------------------------
Owner == INSTANCE StickOwner WITH
  owner <- IF debounced THEN "companion" ELSE IF grace THEN "releasing" ELSE "pilot",
  frame <- staged

(* The sink and the two threads implement the pilot's contract.  So no     *)
(* frame is prepared after the override is known to be off, even when it   *)
(* was on as the tick that computed the command began.                     *)
ImplementsStickOwner == Owner!Spec

(* As long as an engagement lasts, gaps and late answers included, the     *)
(* sticks it holds are the same.                                           *)
LatchHeld ==
  [][cached /\ cached' /\ latchValid => latchValid' /\ latched' = latched]_vars

(* Once the override is known to be off, what the I/O thread re-sends      *)
(* every cycle is withdrawn.                                               *)
WithdrawnWhenOff == ~cached ~> staged = "none" \/ cached

(* A grace hold ends, even if no status ever comes again.                  *)
GraceEnds == grace ~> ~grace

(* bf_fc_adapters.hpp, of override_grace_hold_s: "After raw OVERRIDE OFF,  *)
(* keep sending latched MSP SET_RAW_RC for this long".                     *)
GraceSendsLatched == [][Publish /\ seenGrace /\ grace => staged' # "command"]_vars

(* bf_fc_adapters.hpp, of the latch: "captured at OVERRIDE rising edge":   *)
(* it is not one of an earlier engagement.                                 *)
LatchOfThisEngagement == cached /\ latchValid => latchedIn = engagements

(* algorithm_overview.md, of dry_run: it "should not output actual         *)
(* algorithm control": a tick under it leaves no command to be sent.       *)
DryRunSilences == [][Publish /\ dryRun => staged' # "command"]_vars

(* bf_flight_common.yaml, of engage_require_fresh_detection: after the     *)
(* takeover a fresh detection must be seen before commands are sent.       *)
FreshOfThisEngagement == loop = "publish" /\ seen /\ freshSeen => freshHere
=============================================================================
