# Verification of the Circle pilot onboard software

TLA+ specifications of the concurrent and distributed infrastructure of the
onboard software under `src/`, model-checked with TLC and partly proved with
TLAPS. All source paths below are relative to `src/`.

## Scope

The software flies a drone that homes on another aircraft. This development
covers the machinery *around* the controllers: how camera frames move between
threads and through the decoder, how the processes exchange data through shared
memory, how the debug daemon serves browsers, how processes shut down, and the
interlocks that leave the sticks with the pilot. It deliberately does **not**
model target detection, selection and tracking, or the homing and engagement
controllers (`core/src/strike`, `core/src/strike_png`, `core/src/vision`). For
the modelled parts a frame is its number, and a controller is an arbitrary
source of commands. No result here says anything about the excluded parts.

The excluded parts, the drivers of the vision hardware, parsing and
presentation are most of the repository's lines; the models stand for a small
share of them, and for most of those that run concurrently.

## Inventory

| Component | State it keeps | Operations | Hard because | Correct when |
|---|---|---|---|---|
| Zero-copy camera runtime (`adapters/common/perception/src/zero_copy_perception_runtime.cpp`, `zero_copy_frame_slot.cpp`) | slot leases, ready queue, `seq_`, V4L2 buffers, threads | `start`, `producerLoop`, `inferWorkerLoop`, `stop` | one producer, up to four workers, two mutexes, a condition variable, failing captures, shutdown at any time | each slot has one holder, results match their frame, leases and buffers return, shutdown ends |
| JPEG decoder (`adapters/common/perception/src/mpp_rga_pipeline.cpp`) | input tasks, packet, frame buffer, RGA handles, failure count | `decodeAndConvert`, `configureZeroCopySlots`, `destroy` | an external decoder that answers late or not at all; many ways out of a call | the image is the JPEG's, no task or handle is lost before a call that moves a task fails, images keep coming |
| Results in the control process (`adapters/bf/bf_runtime/src/bf_control_host.cpp`) | `PerceptionShared`, the loop's snapshot, the preview thread's frame | `applyZeroCopyInferResult`, `pushMatchedDebugFrame`, the tick, `previewThread` | results arrive out of order | consumers never go back, see consistent data, nothing is silently lost |
| Preview shared memory (`adapters/common/ipc/src/debug_preview_shm.cpp`) | ring of images, header with `seq` | `publishWithOverlay`, `readLatestWithOverlay`, `open` | no lock between processes, restarts | never a torn image, never backwards, last frame shown |
| Parameter block and snapshot (`adapters/common/ipc/src/param_block_shm.cpp`, `strike_params_snapshot_shm.cpp`) | one payload and count each | `writeJson`, `readLatestJson`, `currentSeq`, `readCurrentJson` | one place, no lock between processes, counts reset by restarts | an update is applied, an answer holds it |
| Telemetry shared memory (`adapters/common/ipc/src/strike_telemetry_shm.cpp`) | ring of samples, two counters | `publish`, `readLatest`, `seriesJson` | overwritten in place, nothing re-checked, several readers, restarts | samples whole, in order, without a gap |
| `bf_debugd` (`adapters/bf/bf_debugd/src/main.cpp`) | reader and writer objects shared by request threads | HTTP handlers, the preview loop | concurrent requests, deadlines | every request is answered, with current data |
| HTTP server (`adapters/common/debug/include/circle/debug/debug_video_server.hpp`) | latest JPEG, client counts, detached threads | `start`, accept, streams, event sessions, `stop` | browsers stall or vanish; shutdown under connections | counts are right, streams move forward, shutdown ends |
| WebRTC sender (`adapters/common/debug/src/webrtc_h264_sender.cpp`) | frame mailbox, pipeline, tasks on a `GMainLoop` | `publish`, offers, push task, `stop` | tasks dispatched in the middle of other tasks, failures of every GStreamer call | frames accounted for, no lost wakeup, one pipeline, nobody waits for ever |
| Flight-controller link (`adapters/bf/common/src/msp_client.cpp`, `mspIoThread`) | receive buffer, poll results | requests, `drainResponses`, `pollState`, `transact` | late and lost replies without request numbers | bounded staleness |
| Override latch, grace and physical hold (`adapters/bf/common/src/bf_fc_adapters.cpp`) | debounced override, latched sticks, staged wire frame | `ingestPoll`, `stageWire`, `flushStagedWire` | poll order, lost polls, two threads | the latch is held, a stale frame is not sent for ever, the sticks go back to the pilot |
| Gating and watchdog (`adapters/bf/bf_runtime/src/bf_gating.cpp`, control loop) | freshness of the last poll, watchdog clock | `decideBfPublish`, the watchdog, the overrun check | stale inputs, two threads' timing | no command on a status older than a known bound |
| Controllers, vision algorithms | – | – | – | out of scope, see above |
| NPU and fallback camera, web UI, meters, YAML, launch scripts | – | – | I/O, numerics, presentation | not modelled |

Interactions: camera driver → producer → decoder → ready queue → workers →
callback → `PerceptionShared` → control loop and preview thread; preview thread
→ preview memory → `bf_debugd` → WebRTC sender and MJPEG streams → browser;
control loop → telemetry memory → `bf_debugd` → browser; browser → `bf_debugd`
→ parameter block → control loop → snapshot memory → `bf_debugd` → browser;
control loop → staged wire frame → MSP I/O thread → flight controller → poll
results → control loop.

The hazards that drive the properties are listed in `PROJECT.json`, each at its
line, with the properties that would catch it going wrong.

## Modules

| Module | Models | Notes |
|---|---|---|
| `ZeroCopyRuntime` | the camera runtime | an action ends where another thread can see or stop the thread: at every lock, wait and unlock |
| `SlotLifecycle` | abstract: the life of a slot | what the pool promises, without threads or locks |
| `PerceptionPipeline` | runtime + control process | `EXTENDS ZeroCopyRuntime`; the callback action `Deliver` becomes `ApplyResult` |
| `MppDecoder` | the JPEG decoder | one action per step of a call at which the external decoder can act or fail |
| `DebugPreviewShm` | preview memory, its writer and reader | one store or load per action |
| `TelemetryRing` | telemetry memory, writer and both readers | one store or load per action |
| `ParamTuning` | parameter round trip | handlers, parameter block, control loop, snapshot, restarts |
| `DebugServer` | HTTP server | accept thread, a handler per connection, the main thread's publishing and `stop()` |
| `WebRtcSender` | WebRTC sender | the loop thread is a stack of dispatches |
| `RcOverride` | pilot's switch, serial line, sink, I/O thread, gate | the command is any command |
| `StickOwner` | abstract: who owns the sticks | what `RcOverride` promises the pilot |
| `StateWatchdog` | ages of the status, watchdog, overrun check | discrete time |
| `MC...` | model values | only constants for TLC |
| `..._proofs` | theorems | TLAPS |

Definitions introduced by a comment that begins with "Mutation" are faulty
variants of the definition that follows them. No specification uses them. They
exist so that each property can be seen to fail when the code is wrong in a
plausible way; `PROJECT.json` pairs them with the properties.

### State and actions

`ZeroCopyRuntime`: `leased` is `ZeroCopyFrameSlot.leased`, `ready` is
`ready_queue_`, `content[s]` the number of the frame whose pixels slot `s`
holds (0 while it is being written or after a failed decode). `ppc`, `wpc` and
`mpc` say where the producer, each worker and the thread calling `stop()` are.
`pipeline_mu_` is held across steps only while the producer decodes
(`PipelineMuFree`), so every action that takes it waits for the decode to end.
`ready_mu_` is held across steps only between a worker's false predicate and
its sleep (`readyMu`), the window in which the lock-free notification of
`stop()` is lost. The push of a frame, its `++seq_` and the drop branch are one
action because they run under one lock and `seq_` is the producer's own.
`buffers` says who has each of the driver's mmap buffers; the driver and the
camera are external and unconstrained up to the bound `MaxFrames`: a capture may
fail, a buffer be completed without a frame in it, and `VIDIOC_QBUF` refuse a
buffer, whose result `requeueV4L2Buffer` ignores.
Inference and the preview copy read `content` at two separate moments, so an
overwrite between them would show.

`PerceptionPipeline`: `latestSeq` and `latestDet` are `latest_pipeline_seq` and
`latest_detection`, `debugQueue` is `matched_debug_queue`. One application of a
result is one action: it runs under `PerceptionShared.mu`. The early return on
a missing grab time cannot happen here, since the runtime always stamps it. The
control tick is reduced to the copy it takes under that mutex.

`MppDecoder`: `zeroCopy` is which of the two callers it is: the runtime, which
configures the slots' RGA handles and gives no `rgb_out`, or `MppCameraSource`,
which gives one. `Call` to `Convert` are the numbered steps of
`decodeAndConvert`, and each way out has its own action. `Decode`, the external
decoder's step, can happen while the call waits or after it gave up. Input tasks
at their port either are `empty` or still carry the packet of a JPEG that is done
(`spent`); a dequeue gets either kind, so the reclaim may take back another task
than the call's own. `output` says who has the output task. A task whose dequeue
or enqueue fails may be nobody's from then on; the enqueues at lines 720, 726, 759
and 985 ignore that. `lost` records what has gone wrong so far, and the safety
properties say how far they depend on it. `attempts` and `useSw` are the fallback to OpenCV.

`DebugPreviewShm`: the writer's `memset`, two `memcpy`s, geometry, index, stamp
and `seq` stores are separate actions in program order, and so are the reader's
loads. `stamp` and `pixels` hold the frame number.

`TelemetryRing`: `ring[s]` holds the sample and its own `seq` field, which are
stored apart; `latest` is what the main loop's `readLatest` returned, `sout` the
vector `seriesJson` builds. `Lag` bounds how many samples the writer begins
while one read goes on: a read takes microseconds and a sample is written every
5 ms, so that 1 is generous, while the ring has 3800 slots to spare
(`RingAssumption`).

`ParamTuning`: every POST sets a parameter of its own, so the parameters are
the set of the POSTs that took effect. `block.whole` and `snap.whole` are false
while a payload is being overwritten; reading then gives the old content, the
new one, or `Mixed`. A parameter update that is refused (unknown name, invalid
JSON) is a choice of the model. `orderly` is history: every POST came when the
one before it was answered and served, and no process was restarted.

`DebugServer`: `pc`, `kind`, `chunk`, `shown` are a handler's place and locals,
`active` the atomic client counts by which the main loop decides whether to
encode at all. `link` is the browser's side: it reads, has stopped reading, or
is gone. `ShortRequest` is a request answered at once, with no state.

`WebRtcSender`: `sources` are the idle sources attached to the main context and
`stack` what the loop thread is dispatching, innermost first. `processOffer`
iterates the main context while it waits for the encoder's size or for ICE
candidates (`pc` `"size"`, `"gather"`), and there `Dispatch` may start another
task on top. `state[o]` is the life of the pipeline built for offer `o`.

`RcOverride`: `asked` and `replies` are the serial line in order, with losses
when requests are made or answered; `io` is where `mspIoThread` is; `debounced`,
`grace`, `cached`, `latched`, `staged` are the sink's members of those names.
`Drain` takes what has arrived, in one `ingestPoll`, like `drainResponses`.
`Tick` and `Publish` are the control loop's reading of the override and its
staging, two steps between which a poll can be taken in. A stick reading is
known by when it was taken and whether the channels were then the pilot's own.

`StateWatchdog`: `statusAge` is the age of the last status in `BfStateSource`,
`sharedAge` what the publication says of it, `sharedFor` the age of that
publication, `okAge` the watchdog's clock. `Passes` lets time go by between any
two steps, so either thread may be late by any amount.

## Runs

| Run | Bounds | Shows |
|---|---|---|
| `Runtime` | 2 slots, 2 workers, 1 buffer, 3 frames, rate limit and empty frames | `OneHolder`, `ResultsMatchFrames`, `NoReadyDrops`, `ImplementsLifecycle`, `LeasesReturn`, `BuffersReturn` |
| `Pipeline` | 2 slots, 2 workers, 1 buffer, 2 frames, debug queue of 1, no rate limit | `ConsumersSeeMatched`, `ConsumersMoveForward`, `EveryFrameSuperseded`, `ShutdownCompletes` |
| `Preview` | ring of 2, 5 frames, 2 restarts | `NoTornFrame`, `LabelOffByAtMostOne`, `NeverBackwards`, `LastFrameShown` |
| `Tune` | 2 handlers, 2 POSTs, 1 restart of each process, any timing | `OrderlyPostsTakeEffect`, `SnapshotIsCurrent`, `UpdatesTakenInOneLife`, `PostsAnswered` |
| `Telemetry` | ring of 4, series of 2, 7 samples, 1 restart, lag 1 | `SeriesWholeAndGapless`, `LatestMovesForward`, `LastSampleRead` |
| `WebRtc` | 2 offers, both under way, 4 frames | `FramesAccounted`, `OnePipelinePlays`, `PushesInOrder`, `NewestFrameTaken`, `WaitsEnd` |
| `Server` | 2 connections, 2 frames, WebRTC transport | `ClientsCounted`, `StreamsMoveForward`, `NewestFrameShown`, `ShutdownEnds` |
| `Override` | 2 switchings, 2 messages on the line, grace hold, `dry_run` tuned | `ImplementsStickOwner`, `LatchHeld`, `WithdrawnWhenOff`, `GraceEnds` |
| `Watchdog` | limits of 2, 2, 3 and 2 units, ages up to 8 | `CommandStatusAge`, `SilenceWithdraws` |
| `Decoder` | 2 tasks, 2 slots, JPEG numbers modulo 3 | `ImageMatches`, `TasksKept`, `HandlesReleased`, `FramesKeepComing` |
| `TuneDebugdRestart` | 1 handler, 2 POSTs, 1 restart of `bf_debugd` | a violation of `UpdatesTaken` |
| `OverrideDryRun` | as `Override` | a violation of `DryRunSilences` |

The state spaces have between a few thousand and a few hundred thousand states
and are explored completely. The type invariants are no property of a run: they
are proved, all but that of `RcOverride`, which adding `TypeOK` to the INVARIANTS
of `Override` checks.

Why the bounds are enough. *Runtime, Pipeline*: two slots are what lets a frame
be filled while another is queued or read, two workers suffice to finish out of
order, and three frames make a slot be used again; the flight configuration has
3 slots and 3 workers (`config/bf_flight_common.yaml:35-36`), and the theorems
hold for every number of slots, workers and buffers. `ReadyCap` equals the
number of slots, its smallest legal value, where a queue that fills up is most
likely. *Preview*: with the smallest ring a reader is overtaken soonest, and
five frames go round it twice. *Telemetry*: a
ring of four is the smallest that `RingAssumption` allows for a series of two
and a lag of one, so that the oldest slot of a series is next to the one being
written; seven samples go round it. *Tune*: two POSTs are enough to
overlap, and one restart to reset a count. *WebRtc*: two offers nest one in the
other; four frames fill the mailbox while one is being pushed and one dropped.
*Server*: connections do not interact except through the counts. *Override*: a
reading of the first engagement can only be confused with one of the second; two
messages let a late answer meet the next request. *Watchdog*: `Cap` is above
the sum of all limits (`WatchdogAssumption`), and the theorem holds for all of
them. *Decoder*: a JPEG is confused with the one before it, never with an older
one, so three numbers tell them apart; the theorems hold for every number of
tasks and slots. `Tune`, `WebRtc`, `Server` and `Decoder` do not check for
deadlock, because the processes stop there and nothing is left to do.

### What the violations say

* `TuneDebugdRestart`: `ParamBlockWriter::open` resets the count, and the
  control loop's reader only compares it for equality with the last one it
  took. One POST, a restart of `bf_debugd`, one POST: the second has count 1
  again and is never applied.
* `OverrideDryRun`: `dry_run` can be switched on from the web page, while the
  gate reads the flag of the configuration. `stageWire` then returns without
  clearing the staged frame, and the I/O thread goes on sending the last one.

### Claims stated and not kept

The modules also state, each with the comment or document it comes from, what
the code does not keep. No run lists them; adding one to the configuration named
makes TLC print a behaviour that breaks it.

| Claim | Configuration | What happens |
|---|---|---|
| `AnswerHoldsUpdate` | `Tune` | two browsers post within a control period: the first update is overwritten, its POST answered with the snapshot of the second |
| `FedAfterPlaying` | `WebRtc` | an offer dispatched inside another takes the pipeline away from it |
| `GraceSendsLatched` | `Override` | a grace hold counts as override for the gate, which does not look at the grace flag, so that a command may be staged |
| `LatchOfThisEngagement` | `Override` | the latch is dropped only by a stick reading taken while the override is off; when none arrives between two engagements, the second keeps the older latch |
| `FreshOfThisEngagement` | `Override` | the loop clears the flag at a rising edge only when there is no latch, but the I/O thread may have taken one in the poll that reported the override; the flag of the earlier engagement then stays set |
| `StagnationBlocks` | `Watchdog` | the clock starts when the limits were last met, so that the age of the status is the sum of three limits |
| `OverrunBlocks` | `Watchdog` | the check runs in the loop that overran; meanwhile the I/O thread goes on sending |
| `AlwaysMatches` | `Decoder` | after one answer that came too late, every call reads the answer of the call before |
| `TasksAlwaysKept` | `Decoder` | a reclaim or an enqueue that fails loses its task for good; the code warns of the former and does not look at the latter |
| `PacketsReleased` | `Decoder` | with two tasks the reclaim takes back the other one; the packet stays in this call's task until that gets its next |
| `FallbackDecodes` | `Decoder` | the zero-copy runtime gives no `rgb_out`, and the OpenCV path fails without it |
| `HandlesReleasedOnce` | `Decoder` | `stop()` releases the last slot's handle and `destroy()` releases it again |

Known weaknesses that contradict no statement of the repository: a buffer
completed with `bytesused == 0` is never queued again (`CaptureEmpty`;
`BuffersReturn` is about buffers with a frame in them), nor is one that
`VIDIOC_QBUF` refused (`RequeueBuffer`); when all are gone every capture fails;
the packet of a call that gave up its answer is deinitialised while its task
still carries it; with overlapping POSTs a
mixture of two payloads can be taken; the preview may show an image under the
number of the frame before it (`LabelOffByAtMostOne` bounds it).

## Fairness

* Runtime and pipeline: strong fairness of each thread. A thread that waits for
  a mutex others keep taking is enabled again and again and must get it in the
  end; the 50 ms limit of `wait_for` ends a wait. Capture is part of it only as
  "some outcome of `captureMjpeg` happens", which its 2 ms poll guarantees. The
  camera, the driver's buffers, the shutdown request and the control tick are
  not fair: nothing obliges them.
* `DebugPreviewShm`, `TelemetryRing`: the reading loop, a series and a publish
  that has begun are fair; a new publish is not.
* `ParamTuning`: the control loop and a running handler (a loop with a period, a
  deadline of 500 ms); the block's mutex does not starve a handler.
  `PostTooLong` is not fair: no handler may rely on its update being refused.
  `Prompt = TRUE`, used by `TuneDebugdRestart` only, says that the control loop
  (5 ms) serves the block within a handler's 500 ms.
* `DebugServer`: each thread of the daemon, nothing of the browsers; so
  `ShutdownEnds` excepts an event session whose browser has stopped reading.
* `WebRtcSender`: the loop thread, whose waits have limits, and a thread that has
  begun a frame, an offer or a stop.
* `RcOverride`, `StateWatchdog`: both threads run and time passes. Nothing is
  assumed of the pilot, the flight controller or the line.
* `MppDecoder`: the caller calls, a call goes on (every poll has a limit), and
  OpenCV does not fail for ever (strong fairness of `SoftwareDecode`). Nothing
  is assumed of the hardware decoder.

## Theorems

Every safety property the passing runs check, invariant, action property or
refinement, is also proved, for every value of the constants that satisfies the
`ASSUME`s of its module; the one exception is `TypeOK` of `RcOverride` (below).

`PerceptionPipeline_proofs`, first part: the runtime, for every number of slots,
workers, buffers and frames, from `RuntimeAssumption` and `SlotsFitReadyQueue` (slots are clamped to
four, the queue has sixteen places): `RuntimeTypeCorrect`,
`SlotsHaveOneHolder` (`OneHolder`), `ResultsAreOfTheirFrame`
(`ResultsMatchFrames`), `ReadyQueueNeverDrops` (`NoReadyDrops`).
The inductive invariant `RuntimeInv` joins the types, `StopPhases` (the flag
and the phases of `stop()`), `OneHolder`, `NoReadyDrops`, `PixelsInPlace` and
`ResultsMatchFrames`. `OneHolder` is inductive only while no frame is dropped
from a full queue, and the queue is never full because its frames have distinct
slots and the producer holds one more (`QueueHasRoom`, a cardinality argument).
`ResultsMatchFrames` needs `PixelsInPlace`: a queued or read slot holds its
frame's pixels. That in turn needs `OneHolder`, since a decode only overwrites
the slot the producer holds.

`RuntimeImplementsLifecycle` is the refinement of `SlotLifecycle`
(`ImplementsLifecycle`). The abstract owner of a slot is computed from where the
threads are, so the proof first says, slot by slot, what the owner is for each
holder (`SlotRead`, from `OneHolder`); then one lemma per kind of step shows
which abstract step it is (`LeaseAcquires`, `ReleaseAbandons`, `PushFills`,
`PopTakes`, `ReleaseGivesBack`, `CloseDiscards`) or that no slot moves
(`OtherStepsKeep`). That frames are taken in order needs one more invariant:
the queue holds the last frames numbered, in their order (`QueueInOrder`).
`NothingIsKept` says what can be said without fairness of why threads and
buffers go on: `ready_mu_` is held across steps only by a worker about to sleep
(`ReadyMuBrief`), and the producer has no buffer but the one it decodes; every
other is with the driver, was refused by it or was completed without a frame
(`BuffersAccounted`).

`PerceptionPipeline_proofs`, second part: the pipeline, for every number of
slots, workers and places of the debug queue: `PipelineTypes`,
`ConsumersSeeTheirFrame` (`ConsumersSeeMatched`) and `ConsumersNeverGoBack`
(`ConsumersMoveForward`). `PipelineRunsRuntime` shows that the composition is a
behaviour of the runtime, so that all theorems of the first part hold here too;
`PipelineImplementsLifecycle` says so of the refinement. `HostInv` adds what the
control process holds: matched frames (`HostMatched`) in increasing order, none
newer than the last result applied (`HostOrdered`).

`ControlProcess_proofs` joins the override sink and the watchdog. The sink, for
every number of switchings and every length of the line: `LatchIsHeld`
(`LatchHeld`) and `SinkImplementsStickOwner` (the refinement
`ImplementsStickOwner`, initial states and steps). The invariant needed is small:
the cached override is the debounced one or the grace hold, never both, and a
latch is only valid while the override was last seen active. The watchdog, for
all limits that satisfy `WatchdogAssumption`: `WatchdogTypes` and
`WatchdogBoundsStatusAge` (`CommandStatusAge`). The invariant
relates the clocks: the status is not older than the publication and the age
in it together (`PublicationBounds`), the watchdog's clock is not behind what it
measures (`ClockBounds`), and the decision's age is bounded while it is being
carried out (`DecisionBounded`). Ages that grow together keep their order at
the cap too (`OlderKeepsOrder`).

`MppDecoder_proofs`, for every number of tasks, slots and JPEG numbers:
`DecoderTypes`, `ReturnsItsImage` (`ImageMatches`), `LeavesNoTask` (`TasksKept`),
`LosesNoHandle` (`HandlesReleased`). The invariant: what the hardware holds adds
up (`HardwareCounts`), there is one task under way at most until an answer is
given up (`OneTask`), tasks are in one of three places unless a call that moves
one failed, and after a reclaim one of them is without a packet
(`TasksAccounted`), and the slots imported are the first ones
(`SlotsImported`, which makes the count of `configureZeroCopySlots` a
cardinality).

`DebugPreviewShm_proofs`, for rings of any size, any number of frames and
restarts: `PreviewTypes`, `ImagesAreWhole` (`NoTornFrame`), `LabelsAreClose`
(`LabelOffByAtMostOne`) and `PreviewNeverGoesBack` (`NeverBackwards`). The
invariant says where the writer is with respect to its count (`WriterInv`), what
a reader has read so far under the count it began with (`ReaderInv`), how
frames and counts agree before the first restart (`FirstLife`), and that what is
shown is not ahead of the writer (`Forward`); that the slot written next is never
the one being read is modular arithmetic (`NextPlaceDiffers`).

`TelemetryRing_proofs`, for every ring, series and lag that satisfy
`RingAssumption`: `TelemetryTypes`, `SeriesIsWhole` (`SeriesWholeAndGapless`) and
`LatestNeverGoesBack` (`LatestMovesForward`). The invariant: every sample of this
life of the writer that was not overwritten is in its place (`RingInv`), and what
a reader is going to look at is not overwritten while the read lasts, since the
begins the writer has left (`room`) do not take it round the ring (`LatestInv`,
`SeriesInv`). Two samples less than a turn apart have different places
(`PlacesDiffer`).

`ParamTuning_proofs`, for every number of handlers, POSTs and restarts:
`TuneTypes`, `SnapshotSaysWhatIsUsed` (`SnapshotIsCurrent`) and
`OrderlyPostsAreAnswered` (`OrderlyPostsTakeEffect`). The invariant follows one
orderly POST: only one handler is in the block (`OneHandler`), what the control
loop has read is that handler's payload (`LoopHasLast`), and the count the handler
waits for is that of its own write (`CountIsForLast`).

`DebugServer_proofs`, for any set of connections, even an infinite one, and any
number of frames: `ServerTypes`, `SessionsAreCounted` (`ClientsCounted`) and
`StreamsNeverGoBack` (`StreamsMoveForward`). The count of a kind is the
cardinality of its sessions, which are finitely many at any time (`Counted`), and
a stream that sends a frame has one that is newer than the last it sent
(`ChunkIsNew`).

`WebRtcSender_proofs`, for any number of offers and frames and any depth to which
dispatches nest: `SenderTypes`, `FramesAreAccounted` (`FramesAccounted`),
`FramesArePushedInOrder` (`PushesInOrder`), `OnePipelineAtATime`
(`OnePipelinePlays`) and `NoWakeupLost`. The types say that every dispatch but
the innermost waits inside an offer, so that one frame at most is in hand
(`InHand`) and the cardinality of `FramesAccounted` is 0 or 1. The mailbox holds
the newest frame and what is in hand is newer than what was pushed (`MailboxIsNew`,
`PushIsNew`). While no offer is nested in another, there is one offer on the stack
(`OneOfferDispatched`) and its place says what its pipeline is (`OfferAt`):
not stored yet, stored and alive, or torn down by a stop in the middle, and then
the sender no longer runs (`StopIsLate`). `NoWakeupLost` is the safety part of
`NewestFrameTaken`: a frame nobody has taken has a push scheduled for it or a
main thread about to schedule one (`FrameExpected`), and the flag stands for
exactly one push in the main context or just dispatched (`PushesOnce`), so that
pushes cannot fill the context either.

Only model-checked, because liveness and `ENABLED` are outside what TLAPS proves:
`LeasesReturn`, `BuffersReturn`, `EveryFrameSuperseded`, `ShutdownCompletes`,
`LastFrameShown`, `UpdatesTakenInOneLife`, `PostsAnswered`, `LastSampleRead`,
`NewestFrameTaken`, `WaitsEnd`, `NewestFrameShown`, `ShutdownEnds`,
`WithdrawnWhenOff`, `GraceEnds`, `SilenceWithdraws`, `FramesKeepComing`. And
`TypeOK` of `RcOverride`: it needs to know what `SelectSeq` returns and how often
a sequence of answers changes its mind, both of which are inductions over a
sequence.

## Limits

* Program order: stores and loads take effect in the order written. The plain
  fields around the atomic `seq` of the preview memory, and all of the
  parameter and telemetry memories, could be reordered by a weakly ordered
  processor or by the compiler; this is not modelled.
* Statistics counters incremented by several workers without a lock, and the
  telemetry reader opened by two HTTP threads at once, are data races on data no
  property is about; they are left out.
* Real time is abstracted to choices, except in `StateWatchdog`.
* `TelemetryRing` assumes that a read is short compared with a turn of the ring.
* The models end where `stop()` returns; what a detached connection thread does
  with objects `main()` has destroyed is undefined and not modelled.
* 64-bit counters do not overflow.

## Not modelled

* Controllers, guidance, detection, tracking and target selection: out of scope
  (see above).
* `publishRcPassthrough`, used in the dry-run configuration only; the
  synchronous `pollState` and `transact`, used in atomic mode and at start; the
  values of the hand-over blend and the channel arithmetic.
* One-shot HTTP requests, saving YAML files and images, the option
  `encode_when_client_open`.
* The fallback camera with its inference threads, the NPU, performance meters,
  overlays, configuration and parameter parsing, launch scripts: drivers,
  numerics, presentation, and sequential code that unit tests reach.

## Plan

1. Done: all modules above.
2. The threads of the fallback camera (`parallel_vision_pipeline.cpp`) as another
   producer of `PerceptionPipeline`.
3. `pollState` and `transact` with their retries, composed with `RcOverride`.
4. A statement of `RcOverride`'s `TypeOK` that the provers can handle.
