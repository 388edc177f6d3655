# TLA+ model of custos-tracker

This directory holds a TLA+ model of the control logic of custos-tracker, the TLC
configurations that check it on small instances, and proofs of its main properties that
TLAPS checks for every value of the constants. `PROJECT.json` relates every definition to
the lines of code it models; paths below are relative to the repository's root.

Check one run with `tlc -config MCSotNode.cfg MCSotNode`, one proof with
`tlapm SotNode_proof.tla`.

## 1. The system

custos-tracker is a C++ library with two trackers, ROS 2 nodes around them, and command
line applications. Everything below runs on frames: a call of `update(frame)` is the unit
of progress, and the state that matters is what survives from one call to the next.

| component | code | state it keeps | operations |
|---|---|---|---|
| single-object facade | `core/src/sot/sot_tracker.cpp` | low-score streak, last credible box, frames lost, frozen re-ID reference, drift latch | `init`, `update`, `enable_reacquire` |
| its backends | `core/src/sot/nanotrack.cpp`, `mosse.cpp` | template or filter, target box, frames since the template refresh | `init`, `update` |
| association | `core/src/tbd/byte_tracker.cpp` | tracks (id, state, hits, misses, Kalman state), next id, coasted time | `update(detections)`, `coast` |
| multi-object facade | `core/src/tbd/multi_tracker.cpp` | frames left to coast, boxes of the last frame | `update(frame)` |
| motion compensation | `core/src/tbd/gmc.cpp` | the last image and the boxes masked out of it | `estimate` |
| detector | `core/src/tbd/yolov8.cpp` | the canvas and the size last fitted on it, scratch arrays | `detect` |
| assignment, Kalman, geometry, crops | `core/src/common/*.cpp` | none across calls, or per track | pure functions |
| log and profile sinks | `core/src/common/log.cpp`, `profile.cpp` | one process-wide function each, under a mutex | set, emit |
| single-object node | `ros2/ctrk_ros/src/sot_node.cpp` | lifecycle, tracker, cached frame, armed box, target flag | lifecycle callbacks, `on_image`, `on_set_target`, `on_reset` |
| multi-object node | `ros2/ctrk_ros/src/tbd_node.cpp` | lifecycle, tracker, frame number, dump file | lifecycle callbacks, `on_image` |
| frame player | `ros2/ctrk_ros/src/frames_player_node.cpp` | frames published, done flag, timers | wait tick, publish, ack, timeout |
| drawing node | `ros2/ctrk_ros/src/draw_node.cpp` | latest tracks and target | three subscriptions |
| sink bridge, bench | `ros2/ctrk_ros/src/sink_bridge.cpp`, `bench_stats.hpp` | registered collectors, samples per stage | register, add, table |
| parameters, messages | `param_config.cpp`, `msg_convert.cpp`, `frame_view.hpp` | the node's declared parameters | declare, convert |
| applications, tools | `apps/`, `tools/`, `scripts/` | a sequential loop each | - |

Interactions: a node owns one facade and calls it from its image callback; the
multi-object facade calls the detector, the motion estimator and the association in turn;
the single-object facade calls its backend each frame and the detector while Lost; nodes
exchange images, tracks and target status over keep-last topics; the frame player in
lockstep waits for the tracker's output; all pipelines of a process share the sinks.

Within a node callbacks run in one mutually exclusive group, so a callback is atomic with
respect to the node's own state. What is hard is not data races but order and memory: which
of several flags written in several places survives a long mix of calls; caches read long
after they were filled; counters kept twice; queues that drop; requests, resets and
lifecycle transitions in any order; transitions that fail half way; timeouts racing answers.

What makes each component correct:

* single-object facade - the reported state agrees with the streak it is derived from; a
  drift verdict is never forgotten; re-acquisition never leaves the designated target's
  appearance, even through a chain of re-locks; the detector runs on a full cycle; the
  candidate chosen is the best one.
* association - ids are unique for ever; a detection feeds one track; a low score bridges
  and does nothing else; a confirmed track is kept exactly as long as `max_age` says.
* multi-object facade - what it coasted and what the association sums agree; masked boxes
  belong to the image they mask; coasting keeps no track alive for ever.
* motion model - a velocity is a displacement over the time it took, as the stamps tell it.
* detector - the network is shown this frame and nothing older; every anchor gets its best
  class; what is returned is apart, what is not is covered by something better of its class.
* nodes - no callback meets a missing tracker; the last accepted request decides; a reset
  is a clean slate; a requested target is eventually tracked; output tells the truth.
* player and node together - lockstep keeps the parity it is used for; tracking time never
  runs backwards; playback comes to an end.
* debug view - no picture carries what was tracked later.
* assignment - it returns, with a cheapest assignment, and loses no pair within the gate.
* sinks - no table is written to while it is printed, no collector outlives its node.

## 2. Modules

One step of a model is one call, callback or loop pass of the code, whole: everything the
handler changes is in the action. What a frame, a file or a remote party brings is the
environment's choice. A definition named `XSomething` under a comment "Mutant of X" is a
plausible bug of `X`, used to show that a property can fail; it is not part of any
specification.

| module | models | on top of |
|---|---|---|
| `SotContract` | what `sot.hpp` promises: Tracking / Unstable / Lost, verdict, search cadence | - |
| `SotTracker` | the single-object facade, every call; refines `SotContract` | - |
| `SotPick` | `pick_candidate` as the loop it is, against the declarative `Picked` | `SotTracker` |
| `NanoTemplate` | NanoTrack's dual template, composed with the facade | `SotTracker` |
| `ByteTracker` | `ByteTracker::update`: three stages, lifecycle, births | - |
| `MultiTracker` | `MultiTracker::update`, `coast`, the estimator's kept image and boxes | `ByteTracker` |
| `Motion` | the time steps taken from stamps, and the velocity a newborn is seeded with | `MultiTracker` |
| `Detector` | `detect`: canvas, scan for the best class, filters, suppression | - |
| `Munkres` | the assignment solver, pass by pass | - |
| `SotNode` | the single-object lifecycle node and its image queue | - |
| `Topics` | two keep-last topics between player and node | - |
| `FramesPlayer` | the frame player, every callback | `Topics` |
| `TbdNode` | the multi-object lifecycle node | `Topics` |
| `Playback` | player and node composed | `FramesPlayer`, `TbdNode` |
| `Overlay` | the debug view as a second subscriber of the pipeline | `Playback` |
| `BenchSink` | profile sink, registry of collectors, samples of several nodes | - |
| `MC...` | the instances TLC checks | the module named |
| `..._proof` | theorems and proofs | the module named; `SotTracker_proof` covers `SotPick` and `NanoTemplate`, `MultiTracker_proof` covers `ByteTracker` and `Motion`, `Playback_proof` covers `Overlay` |
| `SetRecursion` | lemmas on least elements, induction, recursion and sums over finite sets | - |

How state and actions correspond:

* `SotTracker` keeps the names of the code: `low_streak`, `last_good`, `frames_lost`,
  `since_drift_check`, `drift_latched`, `ref` (`ref_hist` or `ref_embed`), `r` (the result
  returned). `template` is what the backend was last seeded on. `update()` is one of five
  actions by where its branches lead: `Track` and `Verify` (credible frame, no check due or
  one passed), `Falter` (low score within patience), `Lose` (patience out), `Drift` (check
  failed); the last two continue with `Seek`, the cadence and the re-lock. Boxes are
  positions on a line, images are looks, and the similarity of two looks is a constant
  function. `target` and `strays` are history.
* `NanoTemplate` adds `zf_mix_` (by the look blended in) and `since_refresh_`. The backend
  updates before the facade judges, and a re-lock seeds it after it has learnt from the
  frame, in that order. `credited` and `settled` are history.
* `ByteTracker` has a set of track records and `next_id`. Which of the pairs offered to a
  stage pass its gate is free, so Kalman, IoU, warp and appearance are all covered by "some
  matching". `hits` is capped at a value the code no longer tells apart.
* `MultiTracker` adds the facade's `until_detect` and three lags: how old the kept image, its mask and the recorded boxes are.
* `Motion` gives every frame of `MultiTracker` two stamps' difference, which may be anything,
  and the time step `update` makes of it: `Dt` is one nominal frame at the start and when
  stamps stand or turn back, clamped otherwise. `coasted_dt` and `EffDt` sum these steps, as
  `coasted_dt_` and `eff_dt_` do. Times are tenths of a frame. A newborn has no velocity, so
  its box stays where it was born until it is matched again. History, which the code has
  nothing of: `since_birth` is the time that took by the stamps themselves, not clamped;
  `glitches` is whether any of these stamps was a stall (further apart than five frames) or a
  burst (closer than a tenth, equal or turned back); `seeds` pairs them with the `eff_dt_` the
  code divides by. Camera warps move box and measurement alike.
* `Detector` is one call of `detect` in six steps. A pixel of the canvas is known by where it
  comes from: this frame, an earlier one, the grey, or memory never written. Boxes are extents
  along one axis, so overlap is a matter of intervals; the letterbox's arithmetic gives the
  cells a frame covers. What the network answers is free. The scan is one class row a step,
  the suppression one candidate.
* `Munkres` has the matrix, stars, primes, covers and path; `Next` is deterministic. Costs
  are integers where the code has doubles and takes less than 1e-9 for zero; NaN is left
  out.
* `SotNode` and `TbdNode` have one action per lifecycle transition, including the ways it
  fails half way, and per callback. A transition to Unconfigured does not undeclare
  parameters, so `declared` outlives it (`DeclareSotParams`, `DeclareTbdParams`). `TbdNode`
  splits the image callback around the tracker's work, because the player goes on
  meanwhile; no other callback of that node does.
* `FramesPlayer` has three timers that run or not and expire at any time; the stamps are
  frame numbers.
* `Overlay` adds the debug view's two subscriptions and the tracks it holds. A frame
  published reaches the subscriptions of tracker and view in one step, as it does for nodes of
  one process; `Lossless` says that no image is lost on the way. `annotated` is history: the
  last picture published and the frame its boxes are of. Its target subscription works like
  the one for tracks and is left out.
* `BenchSink` has one program counter per node, and the registry's mutex. Nodes have a
  thread each, as in `component_container_isolated`; in the default single-threaded
  container the interleavings it shows cannot happen.

`Topics`, `Deliver` of `SotNode` and `Does`, `Load` of `BenchSink` stand for the middleware:
keep-last queues that drop the oldest, executors, containers.

## 3. Checks

| run | question | bounds |
|---|---|---|
| `sot_tracker` | do facade and dual template keep verdicts, cadence, reference and template, pick the right candidate, and implement the contract? | patience 3, drift check every 2, detector every 2, template every 2, three score levels, three looks of which two differ but resemble the third, one detection a frame; `pick_candidate` on up to two |
| `tbd` | identities, lifecycle, use of detections, the coasted time, the mask, the time velocities are seeded over | two detections a frame, three ids, `n_init` 2, `max_age` 1, patience 1, interval 2, stamps that stand still, skip a frame or stall for six |
| `detector` | is the canvas clean, the best class found, the suppression right? | three anchors, two classes, frames of three shapes, boxes that overlap in a chain |
| `munkres` | does the solver return a cheapest assignment that loses no admitted pair? | all matrices up to 3 x 3 over two costs and the forbidden one |
| `sot_node` | do requests, resets, images and transitions in any order leave the right target? | two boxes, queue of two, lags up to 2 |
| `playback` | what does lockstep guarantee, does playback end, does the view keep up? | source of two looped, four frames, queues of two |
| `bench_sink` | are samples private while printed, and is every collector told? | three nodes, two of them collecting |
| `gmc_mask` | finding: the mask is a frame older than its image | as `tbd`, one detection, two ids |
| `velocity_seed` | finding: a newborn that missed a cycle is seeded too fast | as `gmc_mask` |
| `sot_node_stale` | finding: a second request starts on an old frame | no `init_bbox`, no dump |
| `playback_drop` | finding: one timeout and a queue of one lose a frame in lockstep | five frames, queue of one |
| `bench_sink_race` | finding: two threads in one node's samples | as `bench_sink` |

Why the bounds are enough. The counters of `SotTracker` are compared with a patience and two
periods; each is small but larger than one, so that a streak, a probation and a full cycle
fit, several times over within `MaxStreak` and `MaxLost`. Three looks are the least that let a
chain of re-locks walk from the target to a lookalike over one that resembles both. The third
score level tells a frame that is merely not low from a confident one. In `tbd` two detections
are the least that can be confused; three ids let a track be born after another has expired;
an interval of two has both kinds of frame, and with a patience of one a newborn can miss a
whole cycle. Of the three differences of stamps one `Dt` follows, one it takes for a frame though no
time passed, and one it cuts to five frames, in every mix between two detections. The frames of `detector` include two that differ in height only, its boxes a
chain of which the ends overlap too little, its scores ties at and above the threshold.
Matrices of three rows are the least in which a path of five cells, and an adjustment between
two primes, happen; the forbidden cost exceeds the sum of all others, as 1e6 does.
`MaxTimeouts` of `playback` is more than the four frames can use, so it never binds; that of
`playback_drop` bounds a run that ends at its first timeout. Lags and histories are capped at
a value beyond which no guard or property tells them apart.

What the properties say is written above each; the ones that carry most:

* `StateFromStreak`, `VerdictHolds`, `DriftBlindSpot`, `NeverLocksLookalike`: the state told
  to the caller, the streak it is derived from and the latch are written in six places;
  together with `ImplementsContract` they say that these never come apart.
* `NothingVanishes`, `KeptApart`: what suppression drops and keeps, in the frame's own
  coordinates and not in the shifted ones the code compares.
* `PromptSeedIsTrue`: the time a prompt seed is divided by, a sum of clamped steps, is the
  time by the stamps; a stall can only make the velocity too high, a burst only too low.
* `BlendOfThisTarget`: through any chain of losses and re-locks the backend searches with
  nothing of the target before, and with nothing it tracked at a low score.
* `Lifecycle`, `LowScoreOnlyBridges`, `MaturityIsKept`: what Confirmed, Lost and Tentative
  mean for a track's counters, and what each stage may therefore assume.
* `CoastedTimeFits`: the association's sum of time steps is that of the frames the facade
  skipped, so the gate it relaxes is never left relaxed; `MissesEnd`: every miss ends.
* `LastRequestWins`, `StatusTellsTarget`, `TargetTakesHold`: the last request decides.
* `Parity`, `OneInFlight`: what lockstep gives in the presence of timeouts.
* `Certificate`: why the solver's result is cheapest.

Fairness. `SotNode`: readable images keep coming (weak fairness of `Deliver("bgr8")`),
unreadable ones are dropped when served, and the image callback is not starved for ever by
others (strong fairness of `OnImage`: the callback is disabled whenever its image is pushed
out of the queue); no request and no transition is ever due. `MultiTracker`, `Motion`: frames
keep coming. `Playback`, `Overlay`: only the player's own timers expire; tracker and view may
hang. `Munkres`: a function that is called runs. Deadlock is not checked where a system may
stop: nodes shut down (`sot_node`, `playback`) and the solver returns (`munkres`).

## 4. Findings

The five violation runs show disagreements between the code and what its comments say;
`PROJECT.json` quotes both.

1. `gmc_mask`: `GmcEstimator::estimate` keeps this frame's image with the boxes passed in,
   which are the previous frame's; the mask laid over an image is one frame older than it.
2. `sot_node_stale`: frames are cached only while IDLE; redesignating a target while
   tracking initializes on the frame cached before tracking began.
3. `playback_drop`: a timeout counts as an ack, the late ack counts again; from then on two
   frames are in flight, and with a queue of one a frame is lost.
4. `bench_sink_race`: the process-wide sink adds to a node's samples from other nodes'
   threads, and the node's own additions take no lock. Only with one thread per node.
5. `velocity_seed`: the displacement of a track with one hit is divided by the time since the
   last detect frame, although with `tentative_patience` (1 by default) the track may have
   missed that frame: its velocity comes out too high by the cycles it missed. Only with
   `velocity_seed`, which is off by default; `PatienceIsToBlame` proves that without patience,
   and with more than one hit to confirm, it cannot happen under stamps the time step follows. The measurements of
   `docs/RESULTS.md` (S3.2) were made without patience.

Smaller ones, not worth a run: `multi_tracker.cpp` clamps the time step so that stalls cannot
"catapult the motion model", but a velocity seeded over a stall is the whole displacement
divided by at most five frames a step, and comes out too high (`PromptSeedIsTrue` allows this
error, the opposite one for bursts, and no other). `tbd.hpp` gives the relaxation of the tentative gate per coasted frame; the
code relaxes by coasted time, between a tenth of a frame and five for each. A frame with a
good score on which the drift check fails has been blended into the template by then, and
stays in it until the next refresh or seeding. `tbd.hpp` says `update` returns Confirmed and Lost tracks, it
returns Tentative ones too. `sot.hpp` says the template is refreshed every K confident
frames; the code counts all frames and then waits for a confident one. `tbd.hpp` calls all
three churn remedies inert when no frames were coasted; patience and the velocity seed act at
`detect_interval` 1, as RESULTS.md concedes for patience. A comment in `byte_tracker.cpp` calls a
patience of 0 the default. Suppression's class offset is 4096 pixels, so in wider frames a box
of one class may suppress one of another. `draw_node.cpp` says its output's age is the whole
pipeline's latency, but it waits for no tracks. `detect_every` is used as a divisor and never
checked to be positive. A node whose configuration failed, or that was cleaned up, can never be configured again, since its parameters are declared
already. The player's rate timer runs on when the source was empty from the start. Shutting
a node down from Active leaves its dump open and its collector registered until it is
destroyed. A node that is deactivated and activated keeps its tracks and its place in the
detect cadence.

## 5. Proofs

`tlapm` checks every theorem for all values of the constants, from the assumptions named in
the modules (`ConfigAssumption`, `DataAssumption`, `AssocAssumption`, ...): patience and
periods are positive, sets are sets of what they should be, thresholds are numbers.

* `SotTracker_proof`. The inductive invariant is the conjunction of the checked ones and
  three more: the reference is the designated target's (`RefIsTarget`, without which a
  re-lock proves nothing about the target), strays are also counted by `since_drift_check`
  while no verdict stands (`StraysCounted`), and the last Tracking box is the anchor
  (`Anchored`). From it follow six safety theorems, `AnchorOnlyCredible`, and
  `TrackerImplementsContract`, step by step.
  For the dual template, `BlendInv` adds that the backend's clock is the age of its template.
  `BlendSinceSeeding` has `ThresholdsInOrder` for a hypothesis, which holds for the defaults
  (0.30 and 0.7) and which the code does not enforce; it is about scores, and says nothing of
  frames the drift check rejects. `BlendImplementsFacade` carries every theorem on the facade over.
  `LoopFindsBest`: after k detections the loop of `pick_candidate` holds the one that beats all
  the eligible among them (`BestUpto`), which needs that `Beats` is transitive and that the
  similarity the loop starts from is below any that is accepted.
* `MultiTracker_proof`. For the association, `TypeOK`, `UniqueIds` and `Lifecycle` are
  inductive together: ids are unique only because births take ranks above `next_id`, which needs a lemma on ranks in
  finite sets; the rest (`DetectionsAreSpentOnce`, `LowScoresBridge`, `MaturityKept`,
  `FreshIds`) are then properties of one step. The matchings of the three stages are shown
  to be one matching.
  Every step of the facade is a step of the association or leaves it
  alone, so the safety theorems carry over; the countdown and the mask's age have an invariant of
  their own, for every interval, the non-positive ones included. `EveryMissCounts` is the
  variant behind `MissesEnd`: misses left, each an interval long, and frames to the next
  detection; frames that keep coming use them up.
  `MotionImplementsFacade` carries them on to the model with time, fairness included;
  On it, `MotionInv` relates three times. `CoastedTimeFits` counts the coasted time in frames
  skipped (`CoastedTimeHolds`). `Standing` says that for a newborn that has missed nothing
  the coasted time is the time by the stamps since its birth, or no less without a stall, or no
  more without a burst; it rests on the same of a single step (`DtFollowsStamps`), which holds once a
  frame has been processed (`Begun`). `PromptSeeds` and `PatienceIsToBlame` follow.
* `Detector_proof`. The canvas: past the first frame it agrees with the size last fitted
  (`CanvasFits`), which is what comparing both sides buys. The suppression (`Marked`):
  everything looked at is kept or suppressed, and whatever is suppressed overlaps something
  kept that is no worse; the offset enters only to show that boxes of two classes never meet,
  from `DetectorAssumption`.
* `SotNode_proof`. `IInv` adds who owns what (`Owned`: tracker, services, publisher and
  subscription by lifecycle state) and that a cached frame is of the session.
* `Playback_proof`. `Session` relates lifecycle, publisher and subscription; `Count` says
  that what is in flight is bounded by one and the timeouts; `Order` that everything queued
  is newer than what the tracker has seen; `Even` is parity itself. For the view,
  `InView`: what waits is the newest frame published, all tracks sent are of earlier ones.

* `Munkres_proof`, for matrices of every size and shape and costs from any set. `IInv` has eight
  parts. `Matching`, `OnZeros` and `Shifted` are the certificate itself. That it is kept needs
  `Covering`: in a search every star lies on exactly one covered line, so that what `adjust`
  adds and takes cancels on the stars. `Matching` is kept by turning a path only because the path
  is simple, and for that `Ranked` gives the primes an age: a prime was uncovered when it was
  found, so the star in its column lies in the row of an older one, and the path gets older at
  every turn. `AtRest` says what is empty between searches. `SolverNeverStuck` adds that a
  column is without a star as long as the search lasts (`Incomplete`), hence a row too, and
  neither is covered. `EveryPassCounts` is the variant of the whole function, columns without a
  star first: an adjustment makes a zero, a prime covers a row or begins a path, a path gets
  longer and has at most `N` primes, and its end stars another column and gives up none. What
  is left of `Returns` is that a step which can be taken is taken.
  `SolverIsOptimal` is the weak duality of assignment and prices: the shifts of rows and columns
  are a floor below the price of every assignment (`FloorHolds`), and stars on zeros pay no more
  than the floor. It needs that an injection of a finite set into itself is onto, and that a
  sum does not depend on the order. `GateKeepsAll` follows from optimality: with the
  forbidden cost above that of `MaxSize` admitted pairs, which `MunkresAssumption` demands and
  1e6 satisfies, one forbidden pair fewer outweighs everything else.
* `BenchSink_proof`. `IInv` says that the mutex is held by whoever emits (`LockIsEmitters`), that
  a collector is registered once and only between the start and the end of a session
  (`OnceEach`, `RegisteredInSession`), and that what was told and what is yet to be told is
  all that is registered (`NoneSkipped`). `SamplesArePrivate` needs the last two: an emission
  never calls the collector of a node that empties its samples, because such a node is not
  registered, nor of one that prints them, because it has left.
* `SetRecursion`. The library's induction theorems take the property for a parameter, which the
  provers cannot instantiate. Here an induction is told of the set of those that have it
  (`NatSetInduction`, `SubsetInduction`), and a recursion of a function that makes its step
  (`SubsetRecursion`), both from the least element of a set of naturals. On them rest the sums of
  the solver and the loop of `pick_candidate`.

Each inductive invariant was checked by TLC on its run's instance before it was proved.

Two definitions have a form the prover can expand: `BenchSink` takes a collector out with
`RemoveFirst`, which is what `erase_if` does as long as no id occurs twice, as `OnceEach` shows;
`CostOf` reads the padded matrix, which has the caller's costs where `Real` does.

Only model-checked: liveness (`MissesEnd`, `TargetTakesHold`, `PlaybackEnds`, `Returns`),
since the prover handles no fairness. Every invariant and every action property a run checks is
proved. The type invariants are proved and not checked by runs of their own, and so is
`AnchorOnlyCredible`.

## 6. Not modelled

* Inference (`ort_engine.cpp`) and MOSSE (`mosse.cpp`): tensors and spectra in and out. Of
  MOSSE the facade sees a score, as of NanoTrack.
* The Kalman filter but for the velocity seed, warps, crops, histograms, feature tracking: real
  arithmetic, which the models over-approximate by letting every gate answer as it likes.
* The command line applications: one sequential loop each around the facades. Every order of
  calls they make is one the facades' models allow.
* The debug view's target and pixels, message layouts, parameter names, tools and scripts.
* Numeric faults: NaN, division by zero in `detect_every`, 32-bit counters after 2^31 frames,
  frames wider than the class offset. The lifetime of the engine's output buffers.

`PROJECT.json` lists each part with its reason, and each hazard with the properties that cover
it or why none does.

## 7. Plan

The modules were written in the order single-object facade, association and its facade,
single-object node, playback, solver, sinks, dual template, then detector, motion and debug
view: the state that survives from frame to frame first, then what reaches it from outside.
What is left:

1. Steps towards termination that need no fairness, as `EveryPassCounts` takes them for the
   solver and `EveryMissCounts` for the tracks, for the player (`PlaybackEnds`).
2. The findings' counterparts as theorems: under which assumption each would not happen, as
   `PatienceIsToBlame` does for the velocity seed.

Liveness itself stays with TLC.
