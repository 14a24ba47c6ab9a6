----------------------------- MODULE StateWatchdog -----------------------------
(***************************************************************************)
(* The state watchdog of the control process (bf_control_host.cpp): the    *)
(* I/O thread takes in the flight controller's statuses and publishes how  *)
(* old the last one is, the control loop decides from that whether it may  *)
(* command, and the I/O thread sends again what is staged.                 *)
(*                                                                         *)
(* Time is counted in units between any two steps, and ages stop at Cap.   *)
(* The controller wants to command whenever the override is on; what it    *)
(* commands, and the pilot's switch itself, are the subject of RcOverride. *)
(***************************************************************************)
EXTENDS Naturals

CONSTANTS
  PollFresh,    (* 200 ms: the age of a publication that still counts      *)
  StatusFresh,  (* 250 ms: the age of a status that still counts           *)
  Timeout,      (* watchdog_state_timeout_s                                *)
  OverrunWarn,  (* watchdog_overrun_warn_s                                 *)
  Enabled,      (* watchdog_enabled                                        *)
  Cap           (* bound: ages beyond it are not told apart                *)

ASSUME WatchdogAssumption ==
  /\ PollFresh \in Nat \ {0} /\ StatusFresh \in Nat \ {0}
  /\ Timeout \in Nat /\ OverrunWarn \in Nat /\ Enabled \in BOOLEAN
  /\ Cap \in Nat /\ Cap > PollFresh + StatusFresh + Timeout /\ Cap > OverrunWarn

VARIABLES
  statusSeen, (* a status has come: last_status_ok_at_ is set              *)
  statusAge,  (* the time since, BfStateSource                             *)
  have,       (* MspPollShared: have                                       *)
  sharedSeen, (* whether its stats had an age (it is -1 without a status)  *)
  sharedAge,  (* its stats.status_age_ms                                   *)
  sharedFor,  (* the time since its last_update                            *)
  tick,       (* the control loop: read, decide, stage                     *)
  okAge,      (* the time since last_state_ok_time                         *)
  tripped,    (* state_watchdog_tripped                                    *)
  commandStaged, (* a command is staged                                    *)
  decidedAge, (* history: how old the status was when it was decided       *)
  gap,        (* the time since the control loop's tick began              *)
  sent        (* the I/O thread's last frame carried a command             *)

pollVars == <<statusSeen, statusAge, have, sharedSeen, sharedAge, sharedFor>>
tickVars == <<tick, okAge, tripped, commandStaged, decidedAge, gap>>
watchdogVars == <<pollVars, tickVars, sent>>

Ages == 0 .. Cap

WatchdogTypeOK ==
  /\ {statusSeen, have, sharedSeen, tripped, commandStaged, sent} \subseteq BOOLEAN
  /\ statusAge \in Ages /\ sharedAge \in Ages /\ sharedFor \in Ages
  /\ okAge \in Ages /\ decidedAge \in Ages /\ gap \in Ages
  /\ tick \in {"read", "decide", "stage"}
  /\ sharedSeen => statusSeen

WatchdogInit ==
  /\ statusSeen = FALSE /\ statusAge = 0
  /\ have = FALSE /\ sharedSeen = FALSE /\ sharedAge = 0 /\ sharedFor = 0
  /\ tick = "read" /\ okAge = 0 /\ tripped = FALSE
  /\ commandStaged = FALSE /\ decidedAge = 0 /\ gap = 0 /\ sent = FALSE

Older(age) == IF age < Cap THEN age + 1 ELSE age

Passes ==
  /\ statusAge' = Older(statusAge) /\ sharedFor' = Older(sharedFor)
  /\ okAge' = Older(okAge) /\ gap' = Older(gap)
  /\ UNCHANGED <<statusSeen, have, sharedSeen, sharedAge, tick, tripped, commandStaged,
                 decidedAge, sent>>

HasAge == statusSeen'

(* One cycle of mspIoThread: flushStagedWire, then what came in, with a    *)
(* status among it or not, and the publication to the control loop.        *)
Cycle(status) ==
  /\ sent' = commandStaged
  /\ statusSeen' = (statusSeen \/ status)
  /\ statusAge' = IF status THEN 0 ELSE statusAge
  /\ have' = TRUE /\ sharedFor' = 0
  /\ sharedSeen' = HasAge /\ sharedAge' = statusAge'
  /\ UNCHANGED tickVars

(* Mutations: the age of the publication, or the age of the status in it,  *)
(* is not looked at.                                                       *)
AnyPublication == have /\ sharedSeen /\ sharedAge < StatusFresh
AnyStatus      == have /\ sharedFor < PollFresh

StateOk ==
  /\ have /\ sharedFor < PollFresh
  /\ sharedSeen /\ sharedAge < StatusFresh

Reads ==
  /\ tick = "read" /\ tick' = "decide"
  /\ gap' = 0
  /\ okAge' = IF StateOk THEN 0 ELSE okAge
  /\ UNCHANGED <<pollVars, tripped, commandStaged, decidedAge, sent>>

Trips == Enabled /\ okAge > Timeout

(* After controller.update, at exec_end.                                   *)
Decides ==
  /\ tick = "decide" /\ tick' = "stage"
  /\ tripped' = Trips
  /\ decidedAge' = statusAge
  /\ UNCHANGED <<pollVars, okAge, commandStaged, gap, sent>>

(* The override has been reported on by some status, or it is not on.      *)
Stages ==
  /\ tick = "stage" /\ tick' = "read"
  /\ \E on \in BOOLEAN : commandStaged' = (statusSeen /\ on /\ ~tripped)
  /\ UNCHANGED <<pollVars, okAge, tripped, decidedAge, gap, sent>>

TickSteps == Reads \/ Decides \/ Stages
IoCycle == \E status \in BOOLEAN : Cycle(status)

WatchdogNext == Passes \/ IoCycle \/ TickSteps

WatchdogSpec == WatchdogInit /\ [][WatchdogNext]_watchdogVars

(* Both threads run for ever, and time passes.                             *)
WatchdogFairSpec ==
  /\ WatchdogSpec
  /\ WF_watchdogVars(Passes) /\ WF_watchdogVars(TickSteps) /\ WF_watchdogVars(IoCycle)

-----------------------------------------------------------------------------
(* What the watchdog does bound: a command is staged only on a decision    *)
(* made when the last status was not older than the three limits together: *)
(* the age a publication may have, the age a status may have in it, and    *)
(* the timeout, which starts when both were last met.                      *)
CommandStatusAge ==
  [][Stages /\ commandStaged' /\ Enabled
       => decidedAge + 2 <= Timeout + PollFresh + StatusFresh]_watchdogVars

(* When no status comes any more, the command is withdrawn for good.       *)
SilenceWithdraws ==
  Enabled => (<>[][~Cycle(TRUE)]_watchdogVars => <>[](~commandStaged /\ ~sent))

(* bf_flight_common.yaml, of watchdog_state_timeout_s: algorithm commands  *)
(* are blocked once the state has stagnated for longer than it.            *)
StagnationBlocks ==
  [][Stages /\ commandStaged' /\ Enabled => decidedAge <= Timeout]_watchdogVars

(* algorithm_overview.md, of the watchdog: it blocks the output when the   *)
(* flight controller's state stagnates or the control loop overruns.       *)
OverrunBlocks ==
  [][IoCycle /\ sent' /\ Enabled => gap <= OverrunWarn]_watchdogVars
=============================================================================
