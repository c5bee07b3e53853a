# Verification of the FR3 data-collecting and inference main controllers

This directory holds TLA+ models of `src/main_controller/`, the TLC runs that check them, and
TLAPS proofs that their safety properties hold for every value of the constants. The package
contains two programs. The *collection* controller (`main.py`) records demonstrations; the *inference* controller
(`inference_controller.py`) runs a robot policy in a separate LeRobot worker and records its
rollouts. Both drive two tactile/force sensor services over Unix sockets, a RealSense launch, a
rosbag recorder and a ZMQ telemetry receiver.

## 1. Inventory

| Component | State | Operations | Talks to |
|---|---|---|---|
| Inference session (`inference_controller.py`) | `state`, `termination_mode`, `_fail_stop_requested`, `_resources_stopped`, `rollout_store`, `_active_sensor_clients`, `expected_process_exits`, three locks | admission of keys, INITIALIZE / START / STOP / ABORT handlers, recording, SHUTDOWN, FAIL_STOP, finalization | worker (control client), sensors, recorder; called back by receiver, reader, watchdog, ZMQ and UDS threads |
| Inference startup (same file) | registered resources, `_realsense_startup_fatal`, restart count and log position | receivers, processes, readiness, warmup, RealSense restart, `_mark_session_ready` | processes and their reader threads |
| Control client (`inference_protocol.py`) | `_sequence`, `_sent_operations`, `_acks`, `_statuses`, `_disconnected`, `_stop` | `connect`, `send`, `transact`, `wait_for_*`, receive loop, `close` | worker; calls `on_status`, `on_disconnect` |
| Collection controller (`main.py`) | `state`, command queue, `demo_store`, `rosbag_record_started`, `expected_process_exits` | start/resume, pause, finish, discard, quit, abort, RealSense restart, stop | sensors, recorder, processes; other threads only enqueue |
| Frame callbacks, buffers (`main.py`, `buffers.py`, `drop_monitor.py`) | `demo_store`, table buffers, `drop_monitors`, `demo_drop_monitors`, manifest | observe, append, save, count, reset baselines | run on the receivers' threads, saved by the main thread |
| ZMQ receiver, metadata monitor (`zmq_telemetry.py`, `realsense_metadata.py`) | `_stop`, socket or node | `start`, `stop`, one loop each | call the frame callbacks; report a fatal |
| UDS client (`uds_client.py`) | pending ACKs by command name, socket | `send_and_wait_ack`, receive loop, reconnect | sensor service |
| Managed process (`processes.py`) | child, reader thread | `start`, `stop`, `restart` | `on_fatal`, `on_exit` |
| Recorder client (`rosbag_control.py`) | service clients | `record`, `resume`, `pause`, `stop` | rosbag2 recorder |
| Timestamp alignment (`timestamp_alignment.py`) | sorted sources, window, candidate bundle, `last_time`, selected bundles, masks | load, window, bundle search, match, write | reads a demo's archives, writes `aligned_index.npz` |
| Image guard, aligned health, plots, configuration | local | I/O and local computation | - |

**What is hard here.** The inference controller runs six kinds of threads over one
non-reentrant termination lock, one re-entrant recording lock and a finalization lock; a
fail-stop may start at any point of a startup, a rollout or a shutdown; waits for the worker
have no timeout by design; the worker and the controller can both end a rollout. The collection
controller is single-threaded, but its queue delivers camera failures and exits late, every
transaction commands three devices of which any can fail, and Ctrl-C lands anywhere. `PROJECT.json`
lists the hazards at their lines with the properties that watch them.

**What makes each component correct.**
Session: recordings are settled exactly once and truthfully, sensors end discarded before they
are stopped, nothing is torn down under a living robot worker, a failure overrides a shutdown for
good, and a fail-stop ends.
Startup: ready means the current cameras were seen, a failed start leaves nothing running.
Client: an answer belongs to its request; every wait ends when the worker answers or goes.
Sensor channel: a command gets the answer to itself, a frame reaches the demo it belongs to, a lost
connection is reported.
Collection: the state agrees with the devices whenever the loop waits for a command, and a demo's
manifest tells the truth.
Frames: an archive holds the frames of its own demo and all of them, the manifest counts them, and
only frames that were lost are reported as missing, although four threads touch these data without
a lock.
Alignment: the visual timeline moves forward, a sample marked valid is coherent, and every sample
names the right frame, whatever stamps are missing, repeated or late.

## 2. Modules

| Module | Models | Notes |
|---|---|---|
| `InferenceSession` | run() from the end of startup to its return | a thread is a label `pc[t]`; the worker is external |
| `MCInferenceSession` | - | six fault scenarios for TLC, fairness and liveness in one of them |
| `SessionTermination` | the promise about a session's end | abstract: intent, record, worker; no threads |
| `InferenceSessionProofs` | - | theorems about termination, and the refinement of `SessionTermination` |
| `InferenceRolloutProofs` | - | theorems about the rollouts; extends the module above |
| `InferenceStartup` | `startup()` and the RealSense startup recovery | process generations with printed lines that the reader thread reads later |
| `InferenceStartupProofs` | - | theorems |
| `ControlledClient` | `inference_protocol.ControlledClient` | sender and transacting threads, a receiver, a worker that may misbehave |
| `ControlledClientProofs` | - | theorems |
| `SensorChannel` | `uds_client.UdsClient` and the collection controller's frame callback | one sensor, one socket at a time, the main thread's commands to it |
| `SensorChannelProofs` | - | theorems |
| `CollectionController` | `main.MainController` | one thread, three devices, a queue, Ctrl-C |
| `CollectionControllerProofs` | - | theorems |
| `DemoCapture` | the ZMQ and metadata callbacks of `main.MainController` against its main thread; `DropMonitor`, `TableBuffer`, the demo's archives and manifest | a receiver per stream, no locks |
| `MCDemoCapture` | - | how many frames each stream has |
| `DemoCaptureProofs` | - | theorems |
| `TimestampAlignment` | `timestamp_alignment.align_demo_timestamps` | one call, its loop step by step, its searches as operators |
| `MCTimestampAlignment` | - | the recordings and options TLC tries |
| `TimestampAlignmentProofs` | - | theorems about the search, the samples and the operators |

### InferenceSession

The threads are `main` (the command loop), `failstop` (`_execute_fail_stop`), `receiver` (the
control client's), `reader` (the worker process's) and `reporter` (any of the sensor, ZMQ,
process or watchdog threads that call `request_fail_stop`). An action is the code between two
points at which another thread can be observed: a lock, a wait, or a read of the state followed by
a separate write. So `CheckState` and `SetState` are two actions wherever the code calls
`get_state()` and then `set_state()`, and one where it holds the lock (`Admit`).

`request_fail_stop` is `RaiseFailStop` (the flag, without a lock) and `EstablishFailStop` (the
mode, the state and the new thread, under the termination lock). A thread returns from it to
`ret[t]`. `_start_rollout` holds `recordingLock` from `BeginRecording` to `ReleaseRecording`.
`_finish_recording` is one action, because it runs under the recording lock and commands the
sensors one after another; its outcomes are the sets of sensors and the recorder that do not
acknowledge, and a write that fails. `_finalize_session` and `_stop_runtime_resources` are the actions of
`Teardown(t)`, on either thread.

The control client appears as the session uses it: `acks` per operation, the statuses of the
running transaction, `disconnected`, `closed`. Its own interleavings are `ControlledClient`.
`Transmit` there and `TransactSend` here both call the disconnect handler on the sending thread.
`sd_deadlock` is a label with no action: the main thread waits for the lock it holds.

The worker (`WorkerReceive` to `WorkerCrashes`) is not in this repository. It is one thread that
acknowledges a request its phase allows, executes it, reports the completion and then reads the
next; it may refuse a request, finish a rollout by itself, report an error, crash, or hang.

### InferenceStartup

`running` is the set of registered resources; `ResourceStep` is `_run_startup_resource_step`.
The recovery is called at four labels (`RecoveryPoints`); a restart keeps the termination lock
from `RestartStop` to `RestartStart`. Every generation of RealSense has its own printed lines,
which its reader thread reads when it likes, also after the next generation has started; `log`
is the shared log file, `logPosition` the offset recorded before a restart. Node-up lines of four
cameras are one line here. `imagesFrom` is the generation whose frames the image check saw.

`run()` joins the fail-stop thread twice (`JoinFailStop`, `ReturnFromRun`), each time with a timeout.
With the fault kind `"slow"` a join may give up on a thread that still works
(`FailStopThreadEnded`), and since that thread is a daemon nothing happens after `"exited"`.

### ControlledClient

`send` is three critical sections (`Allocate`, `Register`, `Transmit`), `_mark_disconnected` two
steps (`MarkRead`, `MarkSet`). `after` is `status_count()` at the start of a transaction. A status
carries the request it completes (`for`), which the client cannot see; `answered` keeps it so that
`CompletionIsOwn` can be stated. `PeerMisbehaves` sends any ACK, a repeated status sequence or a
packet that `parse_response` rejects.

### SensorChannel

`CollectionController` takes a command for one step with an outcome; this module is what lies
below it. The `commander` is the main thread, or the pool thread it waits for, so one command is
under way at a time; the `receiver` is the client's receive thread, which also runs the frame
callback. `_mark_disconnected` is four steps (`MarkClear` to `MarkReport`) on whichever thread
notices the end of the connection. ACKs are filed under the command's name (`payloads`, `events`,
`errors`), as in the code; the model numbers the attempts (`sent`) and lets each ACK carry the number
it answers, which the client cannot see, so that `AnswerIsOwn` can be stated. The exception it makes
is real: after an attempt went unanswered (`unconfirmed`), a late ACK can confirm the next attempt
of the same name, with its payload or, when it is filed between two steps of the sender, with none.

`FrameCallback` and `AppendRow` test the state, test the store and use the store in three steps.
`FrameOfThisDemo` holds because a sensor's answers and frames arrive in order on one thread: the
answer that lets the main thread forget a demo is handled after the frames of that demo. A timeout,
a lost connection and a sensor that refuses STOP_REQ void that argument (`InOrder`); what happens
then is in the model, and the exception it may raise ends the connection.

A start or a resume tests the result of START_REQ by its truth (`Started`), so that an ACK taken with
the empty payload is a failure there and a success everywhere else. The other sensor and the recorder are
the outcome `Others`: in every handler they may fail although this sensor confirmed.

Left out: the other sensor and the recorder beyond `Others`, the drop monitors and the ZMQ
and metadata callbacks (`DemoCapture`), and the stop check inside the wait, which is not
reached because `stop()` is called by the thread that waits.

### CollectionController

A handler is a label and the set of devices still to be commanded (`todo`); `Turn` says whose turn
it is. The three commands of `finish_demo` and `_abort_active_demo` run in a thread pool, so they are
taken in any order; all others have the order of the code (`Rank`). The
sensors are external; a sensor given a command that makes no sense in its state becomes
`"confused"`, and after an unconfirmed command only what the protocol presupposes is legal.
`frame` is the clause of `run()` that executes: a first Ctrl-C leads from the loop to the
`except` clause, a second from there to `finally`, a third leaves. `epoch` stands for
`realsense_fatal_ignore_until_ns`: a queued fatal line is stale when a restart has been completed
since it was printed. The demo's start creates the store and starts the first sensor in one step
each; creating the demo's directory is taken to succeed. Two exceptions leave a handler and with it the
loop (`Escapes`): an `OSError` of a save and the `RuntimeError` of a loop over `drop_monitors`, which
`DemoCapture` derives (`Raise`).

### DemoCapture

The three modules on collection divide its work: `CollectionController` has what the devices do,
`SensorChannel` what lies below one command, `DemoCapture` what happens to the frames. There a
transaction is its state changes and its result; the commands in between are one wait.

A receiver's callback is cut at its reads of `state` and `demo_store`: `Receive` (with the first test
of the state, which until then has disturbed nothing but the stream's own monitor), `ObserveDemo`,
`TestStateAgain`, and `AppendRow` or `AppendFails`. The latter is the attribute access on a
store that became None; it ends the receiver, which reports it. `TestStateAgain` reads state and store
together: no demo is opened while the state is COLLECTING, so a reader of the two one after the
other sees what a reader at the later moment would.

The main thread saves buffer by buffer (`SaveBuffer`), then counts (`CountFrames`), then
sums up the monitors (`Summarize`), and loops over a dictionary of monitors that a callback may
extend: `Raise` is the `RuntimeError` of that. `monitor[0]` are `drop_monitors`, `monitor[d]` the
`demo_drop_monitors` of demo d.

The module makes one assumption about time, `Answered`: when the answers to a transaction's
commands are in, callbacks that were in progress when the state changed have returned (`inflight`).
They take microseconds and do not block. Where the code changes the state and goes on without a
command nothing is assumed: the abort of a collecting demo saves it while the state is still
COLLECTING (`quitting`), and callbacks go on meanwhile.

Left out: the sensors' own callback (`SensorChannel`), the numpy chunks of a buffer, values of a row
other than its key, and disk errors (`CollectionController` has them).

### TimestampAlignment

A demo and its `AlignmentOptions` are chosen in `Init`; `pc` follows the call through loading, the
window, the choice of the first bundle, the rounds of the loop in `build_realsense_bundle_source`
and the matching. One round is one action, one for each way it ends: `PassEnd`, `RunOut`,
`LockedPlusOne`, `FallbackSearch`, `BestEffort`. Sorting, `searchsorted`, the product of the index
windows and the lexicographic minimum are operators that say what is computed and not how.

Positions count from 1, so 0 is the code's -1 ("no match"). Stamps of ZMQ sources are as
they are after the clock offset is added. An absent stamp is 0. `scalar` are the sources that are
matched one by one; `xense` is the pair sensor, whose archive is always written, so `<<>>` is an empty
file. A failure anywhere is `pc = "failed"`: the manifest's `alignment` entry says so, the demo
remains.

Left out: reading and checking the files, the pipelines' statistics, reports and plots, and the
fields that are copied along with a frame.

## 3. Runs

| Run | Question | Bound |
|---|---|---|
| `session` | all safety properties, and `TerminationSpec`; does a requested fail-stop close the session and its recording? | six scenarios: two rollouts with completions and aborts; one rollout with reports and recorder failures, with worker errors, refusals, crashes and timeouts, with sensor, recorder and worker failures, with Ctrl-C, disk errors and bad aligned health; for liveness one rollout with completions, errors and crashes of the worker |
| `client` | ACKs and completions reach their requests; no one waits for ever | two transacting threads, one sender, two sequence numbers |
| `startup` | ready only on current cameras; nothing left behind; STOP_REQ after the warmup; a fail-stop ends | one restart, per generation one line of each kind, every fault, joins that give up |
| `collection` | state agrees with devices; demos settled truthfully; fatals end the run | three keys or failures, two failing operations or exceptions, any number of Ctrl-C |
| `sensor_channel` | own answers, frames of the right demo, losses reported, commands end | two demos, four commands and the stop, one frame, two connections, one fault of the sensor, any number of timeouts |
| `capture` | archives hold their demos; counts and gaps are true; the callbacks and the main thread's loops survive each other | two demos, two stretches of collecting, a stream with three keys and one with one, any loss |
| `alignment` | bundles advance; valid samples are coherent; matches are right; the search ends | two cameras, a pair and a robot stream, five bases, both modes: some 6500 recordings |
| `shutdown_deadlock`, `client_close`, `stale_expectation`, `faulty_camera`, `unwoken_command` | statements of the documentation the code does not meet | the least faults that show it |

**Why these bounds.** A fault is handled by one thread and a second report changes nothing once a
fail-stop is requested, so the pairs of faults that interact matter, and the scenarios hold the
pairs that meet in the code: worker faults with refusals and timeouts, crashes with recording
failures, Ctrl-C with disk and health failures. A second rollout starts from the same state as the
first except for its number; the `complete`/`abort` scenario has two, to check that nothing is
left of the first. One restart is enough for two generations to be alive in reader threads at once
and for the budget to be exhausted. Three inputs give start, pause and one more; two failures give
a failure and a failing cleanup. Two sequence numbers suffice for an overtaking pair and for a
completion left over from an earlier transaction. For the sensor's channel two demos give a frame a
wrong demo to fall into, four commands give start, stop, start and one more with the same name, and
a second connection can carry answers after the first is lost. For the frames, two demos and two
stretches allow a late callback to hit the next stretch or the next demo; three keys are a frame, a
loss and a frame; the one-frame stream brings a new monitor at any moment. For the alignment, four
frames per camera with jitter of a third of a period and one or more losses reach each way a round
can end and each tie of the search; the spans, tolerances and trims are chosen so that each test
is both met and missed. Every property has a mutant in `PROJECT.json`, a
plausible bug that breaks it within the run's bounds.

**Deadlock** is not checked: the client may be closed for good, sessions end, and the session can
hang at `sd_deadlock` or behind a closed client. The liveness properties and the violation runs
say where.

**Fairness.** Weak fairness on each thread's steps: Python schedules every thread that can run,
and each lock is released within a bounded number of steps of its holder. The locks need no strong
fairness because every contender either is the only one or acts a bounded number of times. The worker is
given fairness (`WF_vars(WorkerStep)`) in the scenario `live` and in `shutdown_deadlock`: it executes
what it accepted. `live` is the one scenario of `session` with fairness, and `FailStopFinalizes` and
`RolloutSettles` speak of it. Without a fair worker `FailStopFinalizes` is false, since `_start_rollout`
keeps the recording lock during START and the fail-stop thread needs it first (a hazard in `PROJECT.json`). In
`ControlledClient` the worker's answers are fair only where the property presumes them
(`PeerAnswers`). In `SensorChannel` the sensor, while it is up, answers what it has read
(`WF_vars(SensorHandles)`), and the timeout of a timed command is one of the commander's steps. `TimestampAlignment` is one call on the main thread (`WF_vars(Next)`). Keys, faults and the other timeouts are never forced.

**What the passing runs leave out, knowingly.** `FailStopFinalizes` and `RolloutSettles`
except the deadlock that `shutdown_deadlock` shows (`SelfDeadlock`): it holds the termination lock
for ever. They also suppose that disk writes succeed. In `ControllerMatchesDevices` a
START_REQ or a `record` that was carried out but not confirmed is the one allowed disagreement: the
code rolls back acknowledged sensors only (README.md 147), and stops the recorder only when
`record` returned. `CommandReturns` excepts the lost wake-up (`Missed`): a command that registers itself
while the receive thread ends the connection of a live sensor, after a message that does not decode,
can miss the wake-up, and without a timeout (`sensor_flush_timeout_s = none`) the main thread waits
for ever; the run `unwoken_command` shows it. `NoOrphan` excepts a teardown that the fail-stop thread has
begun and that both joins gave up on, and `FailStopFinalizes` of startup a fail-stop thread that they gave up
on while no lock held it back (`GaveUp`). `EveryDemoSettled` speaks of the
runs that no Ctrl-C and no exception (`Escapes`) cut short. `CountsMatchArchive` excepts a
collecting demo that is aborted (`quitting`), whose manifest
can count rows that came after its archive was written. `ThreadsSurvive` excepts the same abort, which
sets `demo_store` to None under the callbacks, and the first frame of a stream during a
reset of `drop_monitors`, which extends the dictionary the main thread loops over; both are hazards
in `PROJECT.json`. `NoBlindStep` says that the mode code "degraded_best_effort" is never
written: the code path exists and is modelled, but the candidate it keeps is always past the end.
`ValidSampleIsCoherent` bounds by the tolerance what the code tests: the bundle's time, the later stamp
of the pair and every other stream. A camera frame of a wide bundle (quality "degraded_span") and the
first stamp of a pair may be older than the tolerance; for the camera frame the bundle's span is the bound.

`DoneMeansSettled` asks that every sensor is idle unless the teardown has begun
(`resourcesStopped`). When the disk fails in the fail-stop's recording step, the rollout stays open and
the fail-stop goes on to stop the sensors. The main thread, whose STOP was completed before, may
then still finish that rollout as done, with sensors that are stopped and not idle.

The type invariants (`TypeOK`) are not among the runs' properties: all seven are proved.

## 4. Findings

Five documented statements do not hold; each has a run whose counterexample is short.

1. `shutdown_deadlock`: a worker that dies right before SHUTDOWN is sent blocks the main thread on
   the lock it holds, and with it every later fail-stop.
2. `client_close`: `close()` does not wake the waiters it promises to wake. The session survives
   it only because the worker is gone first, except for a transaction whose reply never came.
3. `stale_expectation`: an expected RealSense exit can be recorded twice and hide a later
   unexpected one during startup.
4. `faulty_camera`: fatal lines of a restarted camera are dropped when they come before the end of
   its readiness checks.
5. `unwoken_command`: a command sent between the wake-up of the pending ones and the closing of
   the socket is neither failed nor answered, and waits for ever when it has no timeout.

Two more behaviours that a reader may not expect are in the models, without a run of their own. A START or INITIALIZE may be sent after FAIL_STOP became the intent (its thread has passed its
test; the worker gets the FAIL_STOP next). And `run()` gives the fail-stop thread, a daemon, two joins of
`worker_exit_timeout_s` + 5 seconds and returns while it may still be stopping clients and processes,
whose bounded waits add up to more; what it has not reached outlives the controller. The document
(README_inference.md 237) has a fail-stop stop the remaining resources and says nothing of that case;
`NoOrphan` is what remains true.

## 5. Proofs

TLAPS checks every theorem to its last leaf. They hold for every value of the constants: any number
of rollouts, threads, streams, demos, frames, inputs or restarts, any set of faults and any bound. Each
module of proofs has the assumption of the module it is about, and no other:

| Module | Assumption |
|---|---|
| `InferenceSession` | at least one rollout; faults of the listed kinds |
| `InferenceStartup` | the restart budget and the lines a RealSense process prints are naturals; faults of the listed kinds |
| `ControlledClient` | finitely many threads, each sends or transacts, none is called `receiver` or `free`; FAIL_STOP, ERROR and the absent operation are not among those transacted |
| `SensorChannel` | bounds that are naturals; only DEMO_DONE_REQ may go without a timeout; faults of the listed kinds |
| `CollectionController` | bounds that are naturals; faults of the listed kinds |
| `DemoCapture` | finitely many streams, at least one; bounds that are naturals |
| `TimestampAlignment` | finitely many scalar streams, stamps and trims that are naturals, a positive grid step |

Every proof has one shape: an inductive invariant, one lemma per part of it or per action, and the
theorems drawn from the invariant. TLC confirmed each invariant on the runs' instances before it was
proved.

### Inference session

| Theorem (`InferenceSessionProofs`) | Statement |
|---|---|
| `TypeCorrect` | `Spec => []TypeOK` |
| `Invariance` | `Spec => []IInv` |
| `ManifestCorrect` | `Spec => []ManifestRecordsMode` |
| `WorkerGoneFirst` | `Spec => []WorkerGoneBeforeTeardown` |
| `StoppedForGood` | `Spec => StoppedSensorsStayStopped` |
| `ManifestOnce` | `Spec => RolloutManifestIsFinal` |
| `IntentFinal` | `Spec => IntentNotWithdrawn` |
| `Implementation` | `Spec => TerminationSpec`: every step is a step of `SessionTermination` or a stutter |

`ManifestRecordsMode` and the others are not inductive: that the worker is gone when
resources are stopped depends on the label from which the teardown was entered. `IInv` adds, per
label, what the code relies on:

- `IntentHeld`: the fail-stop thread runs only while the mode is FAIL_STOP, and the main thread is at
  a label of a shutdown or a teardown only while some termination is intended;
- `WorkerGone`: at a label reached only after the wait for the worker, and once resources are stopped,
  the worker is not alive;
- `Marked`: past the marking step of the teardown `resourcesStopped` holds, the two threads are never
  both stopping sensors, and a session manifest is written only after the mark;
- `Recorded`: a written session manifest equals the mode, and once SHUTDOWN is recorded the session
  is STOPPED and the main thread only has to return, so no fault can promote it any more;
- `RecordingHeld`: during a start the main thread holds the recording lock, so that the teardown's
  STOP_REQ cannot come between two sensor starts;
- `SensorsOut`: a stopped sensor is marked inactive, no thread is stopping it again and the main
  thread is not starting one, so no later recording step commands it;
- `RolloutOpen`: the open store's rollout has no manifest yet, nor has one not begun.

Each action is a lemma of its own or a case of a lemma per handler (`RolloutSafe`, `ShutdownSafe`,
`TeardownSafe`, ...); steps of a thread that changes only its label share `MoveSafe` and
`StepSafe`. `Implementation` uses `IInv` for the two steps that the abstract specification guards:
the record is written only when the worker is gone and an intent is held, and only a SHUTDOWN is
withdrawn.

| Theorem (`InferenceRolloutProofs`) | Statement |
|---|---|
| `RolloutInvariance` | `Spec => []RInv` |
| `QuiescentWhenIdle` | `Spec => []IdleMeansQuiescent` |
| `NothingDeferred` | `Spec => []NoDeferredCommand` |
| `DiscardedFirst` | `Spec => DiscardBeforeStop` |
| `SettledWhenDone` | `Spec => DoneMeansSettled` |

These follow one exchange between the main thread, the worker and the two queues between them. A
command is queued only in a transitional state and each label of a handler belongs to one operation
(`Reserved`, `Handled`); what is on the wire or being executed is the operation the main thread awaits,
once, not yet answered and not yet completed (`Wire`); sensors acquire only for the open rollout and
what is open is what the main thread records (`Stored`, `Kept`). `Wire` holds until the main thread has
failed or tears the session down (`Finished`); afterwards nothing waits for the worker any more.

### Inference startup

| Theorem (`InferenceStartupProofs`) | Statement |
|---|---|
| `InvariantHolds` | `Spec => []IInv` |
| `TypeCorrect` | `Spec => []TypeOK` |
| `NothingLeftBehind` | `Spec => []NoOrphan` |
| `CamerasSeenBeforeReady` | `Spec => ReadyMeansCamerasSeen` |
| `StopFollowsWarmup` | `Spec => WarmupFinalizedFirst` |

Nothing is started once the teardown is decided, and the two flags do not say so by themselves:
the control client is registered without looking at them when its connection times out. What
holds the teardown back then is the recording lock, which the fail-stop needs first (`Warmup`), as the
termination lock holds it back while RealSense is between its stop and its start (`Restarting`).
`NothingLeftBehind` does not suppose that the joins at the end of `run()` wait long enough: either
the main thread tore the resources down itself before it got there, or the fail-stop thread did, or that
thread is within the teardown at that moment (`pc["failstop"]` at `stop_sensors` or
`stop_processes`). The theorem names the last case, because there the code promises nothing.

### Control client

| Theorem (`ControlledClientProofs`) | Statement |
|---|---|
| `InvariantHolds` | `Spec => []IInv` |
| `TypeCorrect` | `Spec => []TypeOK` |
| `ProtocolErrorIsTrue` | `Spec => []NoFalseProtocolError` |
| `TransactReturnsItsOwn` | `Spec => []CompletionIsOwn` |

A request is on one of the wires, or served, or answered, and it is registered all the while
(`Registered`), so its ACK is never unknown. While the connection lasts nothing ordinary is under way
but the request of the transaction that waits (`OwnOnly`, `OnlyOnce`, `Quiescent`): the status counted
from the start of a transaction can only be its own.

### Sensor channel

| Theorem (`SensorChannelProofs`) | Statement |
|---|---|
| `ChannelInvariance` | `Spec => []IInv` |
| `TypeInvariance` | `Spec => []TypeOK` |
| `AnswerIsItsOwn` | `Spec => []AnswerIsOwn` |
| `FramesStayWithTheirDemo` | `Spec => []FrameOfThisDemo` |

ACKs are matched by name, so the argument follows the numbers of the attempts, which the code does
not have. Commands, answers and the answer in the receive thread's hands pass in the order in
which they were sent (`InSequence`); the handlers leave nothing under way that the next one could take
for its own, but for the answer of a START_REQ that went without it (`Residues`); hence the payload a
command finds is its own (`Answering`). While every command is answered, the sensor is silent before a
START_REQ and after the answer to the command that ends the demo has been read (`Quieted`), so the
frames on the way are of the demo that is stored (`Framed`).

### Collection controller

| Theorem (`CollectionControllerProofs`) | Statement |
|---|---|
| `InvariantHolds` | `Spec => []IInv` |
| `TypeCorrect` | `Spec => []TypeOK` |
| `DevicesMatched` | `Spec => []ControllerMatchesDevices` |
| `SensorsNeverConfused` | `Spec => []NeverConfused` |
| `DemosSettled` | `Spec => []EveryDemoSettled` |
| `LossReported` | `Spec => []LossIsReported` |
| `ManifestsTruthful` | `Spec => ManifestTruthful` |

`ControllerMatchesDevices` speaks of the loop only. `Tracked` follows the devices through every
handler: those still to be commanded, those that confirmed and those that did not. `Manifested` says at
each label which manifest is owed, `ExitsAccounted` which death of RealSense was reported, is
queued, or is expected by a restart, `DemosTyped` that each demo was begun by a key.

### Frames of a demo

| Theorem (`DemoCaptureProofs`) | Statement |
|---|---|
| `CaptureInvariance` | `Spec => []IInv` |
| `CaptureTypes` | `Spec => []TypeOK` |
| `ArchivesHoldTheirDemo` | `Spec => []ArchiveIsTheDemo` |
| `ManifestsCount` | `Spec => []CountsMatchArchive` |
| `GapsAreCounted` | `Spec => []GapsAreLosses` |
| `BothSurvive` | `Spec => ThreadsSurvive` |

A manifest is put together in many steps of the main thread, between which callbacks go on. `Placed`,
`Current`, `Quiet` and `Own` say, at each place of the main thread, which callbacks may be about to
observe or to append, and that the frame they hold came while the demo was open. `Buffered`,
`Prefixed`, `Settled` and `Saved` relate the rows, the archive and the manifest put together from them.
`Sized` says that a dictionary that is looped over keeps its size, except in the two known races.
`Monitored`, `Watched`, `Rebased`, `Spanned` and `Summed` say that the monitors of a demo count at most
the frames that were lost and at least those between two frames of one stretch of collecting.

### Timestamp alignment

| Theorem (`TimestampAlignmentProofs`) | Statement |
|---|---|
| `Invariance` | `Spec => []IInv` |
| `TypeCorrect` | `Spec => []TypeOK` |
| `TimelineAdvances` | `Spec => []BundlesAdvance` |
| `NeverBlind` | `Spec => []NoBlindStep` |
| `SamplesCoherent` | `Spec => []ValidSampleIsCoherent` |
| `SamplesRight` | `Spec => []MatchIsRight` |

The operators come first. Every finite set has a minimum for a strict order
(`MinimumExists`, from the well-foundedness of the naturals), hence `Max`, `Min` and `Best` are
members of their sets; the ranks of the valid frames are the positions 1, 2, ... without gaps
(`RankIsPosition`, an injection between finite sets of one size), hence a source consists of recorded
positive stamps (`SortedSource`) that do not decrease (`SortedAscending`); what `searchsorted` counts
are the first frames (`CountSeparates`), so that the position `match_timestamps` computes is the right
one (`PositionRight`, `PositionOfItself`); the search windows are finite (`CandidatesTyped`). Then
`IInv`: all sources used have frames (`Loaded`, `Framed`), the candidate is a bundle of existing
frames, and (`CandidateSound`) a candidate that was kept though nothing better was found lies behind
the window's end, because otherwise it would itself be among the candidates of the fallback search. So
the next round drops it: mode code 3 is dead code. `LocalSearch` gives that no camera goes back,
`CandidateTaken` that what is appended is later than the last bundle. `SampleSound` follows a valid
sample through the match of its bundle to the frames of its topics, each of which is the camera's frame in
that bundle and so within the bundle's span (`Near` is the tolerance, for what the code compares with it). `Right` adds to `IInv` that sources
are sorted, that no sample lies before the window nor the window before a stream's first frame
(`TargetsLate`, `Started`), and that the bundles' times increase from each to every later one.

### Only model-checked

Every safety invariant and every action property of the passing runs is proved. Liveness
(`FailStopFinalizes` of the session and of startup, `RolloutSettles`, `TransactReturns`,
`SendNeverWaits`, `FatalEnds`, `CommandReturns`, `AlignmentEnds`) needs fairness and ENABLED and stays
with TLC. Nothing in the project depends on induction over data or on recursive operators.

## 6. Abstractions

- A message is its kind and name; codes, reasons, timestamps and payloads are left out.
- Timeouts are outcomes that may happen when the fault kind (`"slow"`, `"service"`, ...) is enabled.
- Ctrl-C in the inference session is modelled between commands, in the wait for the worker's exit, and
  in a handler's waits (where the handler catches it like any exception), not inside a teardown.
- The watchdog thread appears only as the abort or the fail-stop it requests.
- `disconnected` and the callback of `_mark_disconnected` are one step in `InferenceSession`; the
  two steps are in `ControlledClient`.
- Wire capacity is unbounded; retransmitted FAIL_STOPs that would meet an unread one are not repeated.
- The bounded joins of the fail-stop thread may time out in `InferenceSession` and in `InferenceStartup`
  (fault kind `"slow"`); they suffice in the scenario `live` of `session`.

## 7. Not modelled

The frame callbacks of the inference controller (the same code on `rollout_store` behind
`recording_active`; a hazard in `PROJECT.json`); the image and rosbag checks, rclpy service discovery,
shared-memory header parsing, plots, configuration (I/O or local computation, whose results are
outcomes in the controllers); of the alignment, reading archives and writing the report. Whatever runs outside this repository (LeRobot worker, sensor services, RealSense
launch, recorder) is external and modelled by what the controllers rely on.

## 8. Plan

Done: `InferenceSession` with its abstract specification, `ControlledClient`, `InferenceStartup`,
`CollectionController`, `SensorChannel`, `DemoCapture`, `TimestampAlignment`, and the theorems about
each. Next, in this order:

1. A specification "one request, one answer or a failure" for a sensor command: `SensorChannel`
   implements it, by `AnswerIsOwn` and its invariant, and the outcomes of a command in
   `CollectionController` are its steps.
2. Shorter proofs: the effect of an action on each group of variables, stated once per module, would
   replace most of the case lists of `SensorChannelProofs` and `InferenceRolloutProofs`.
3. The frame callbacks of the inference controller, against `_finish_recording` and the teardown.
