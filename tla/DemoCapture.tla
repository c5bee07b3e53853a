---------------------------- MODULE DemoCapture ----------------------------
(***************************************************************************)
(* The frames of one run of the collection controller.  The ZMQ receiver   *)
(* (zmq_telemetry.py) and the RealSense metadata monitor                   *)
(* (realsense_metadata.py) call MainController on threads of their own,    *)
(* without a lock, while the main thread opens, pauses, saves and drops    *)
(* the demo they append to.  What the devices do is in CollectionController*)
(* and SensorChannel; here a transaction with them succeeds or fails.      *)
(*                                                                         *)
(* A callback is cut at its reads of state and demo_store.  It lasts       *)
(* microseconds, an answer of a sensor or of the recorder milliseconds at  *)
(* least: one in progress when the controller's state changes has returned *)
(* when the commands that follow are answered (Answered).  Nothing orders  *)
(* the two where no command is in between.                                 *)
(***************************************************************************)
EXTENDS Integers, Sequences, FiniteSets

CONSTANTS
  Streams,    \* the streams, each with a thread that receives it
  MaxDemos,   \* bound: demos begun
  MaxFrames,  \* bound: the last key (seq, frame_number) of each stream
  MaxStretches  \* bound: how often a demo is started or resumed

ASSUME CaptureAssumption ==
  Streams # {} /\ IsFiniteSet(Streams) /\ MaxFrames \in [Streams -> Nat] /\ {MaxDemos, MaxStretches} \subseteq Nat

Demos == 1..MaxDemos

VARIABLES
  state,     \* ControllerState
  store,     \* demo_store: the demo's number, 0 for None
  demos,     \* demos begun
  monitor,   \* the DropMonitors of drop_monitors (0) and of each demo's demo_drop_monitors
  rows,      \* the TableBuffers of each demo: rows of a key and its origin
  archive,   \* what save_npz has written of them
  manifest,  \* manifest.json of each demo
  pc,        \* of the main thread
  task,      \* how the current transaction ends
  iter,      \* a loop of the main thread over a dictionary: [of, left, size]
  draft,     \* the manifest being put together: [counts, missing]
  raised,    \* an exception left handle_command
  at,        \* each receiver's place in its callback
  frame,     \* the key of the last frame received
  origin,    \* history: the demo that was open when the frame of its callback was received
  reported,  \* zmq_fatal and realsense_metadata_fatal in the command queue
  inflight,  \* receivers that have been in one callback since state or store last changed
  quitting,  \* history: a collecting demo was aborted by 'q', which leaves the state alone
  stretch,   \* history: how often COLLECTING was entered
  lost,      \* history: the frames of each stream that never arrived
  whole      \* history: <<stretch, key>> of callbacks that ran within one stretch

demo     == <<state, store, demos>>
buffers  == <<monitor, rows>>
files    == <<archive, manifest>>
main     == <<pc, task, iter, draft, raised>>
receiver == <<at, frame, origin, lost, whole>>
past     == <<quitting, stretch>>
vars     == <<demo, buffers, files, main, receiver, reported, inflight, past>>

NoMonitor  == [known |-> FALSE, previous |-> 0, missing |-> 0]
PerStream(value) == [s \in Streams |-> value]
NoManifest == [status |-> "none", npz |-> FALSE, counts |-> PerStream(0), missing |-> PerStream(0)]

Init ==
  /\ state = "WAIT_START" /\ store = 0 /\ demos = 0
  /\ monitor = [d \in 0..MaxDemos |-> PerStream(NoMonitor)]
  /\ rows = [d \in Demos |-> PerStream(<<>>)]
  /\ archive = rows /\ manifest = [d \in Demos |-> NoManifest]
  /\ pc = "loop" /\ raised = FALSE
  /\ task = [status |-> "none", npz |-> FALSE, clear |-> FALSE, stop |-> FALSE]
  /\ iter = [of |-> 0, left |-> {}, size |-> 0]
  /\ draft = [counts |-> PerStream(0), missing |-> PerStream(0)]
  /\ at = PerStream("idle") /\ frame = PerStream(0) /\ origin = PerStream(0)
  /\ reported = {} /\ inflight = {}
  /\ quitting = FALSE /\ stretch = 0 /\ lost = PerStream(0)
  /\ whole = [d \in Demos |-> PerStream({})]

-----------------------------------------------------------------------------
(***************************************************************************)
(* A receiver: _run and _on_zmq_frame or _on_realsense_metadata, with      *)
(* _observe_drop.                                                          *)
(***************************************************************************)
Receiver(s, label) ==
  /\ at[s] = label
  /\ UNCHANGED <<demo, files, main, past>>

Goto(s, label) == at' = [at EXCEPT ![s] = label]
Return(s) == Goto(s, "idle") /\ inflight' = inflight \ {s} /\ origin' = [origin EXCEPT ![s] = 0]

\* Mutant: off by one.
ObservedOffByOne(m, key) ==
  [known |-> TRUE, previous |-> key,
   missing |-> m.missing + IF m.previous # 0 /\ key > m.previous + 1 THEN key - m.previous ELSE 0]

(* DropMonitor.observe, on the stream's monitor or on a new one that is inserted. *)
Observed(m, key) ==
  [known |-> TRUE, previous |-> key,
   missing |-> m.missing + IF m.previous # 0 /\ key > m.previous + 1 THEN key - m.previous - 1 ELSE 0]

Observe(s, d, key) == monitor' = [monitor EXCEPT ![d][s] = Observed(@, key)]

(* A frame arrives, after one that was lost (RCVHWM, the subscription's queue) or not, and the *)
(* stream's monitor in drop_monitors sees it in any state; nothing else does after STOPPING.   *)
(* The first test of state is part of the step: until then only that monitor has changed.      *)
Receive(s) ==
  /\ Receiver(s, "idle") /\ pc \notin {"stopping", "end"}
  /\ \E gap \in {0, 1} :
       /\ frame[s] + gap < MaxFrames[s]
       /\ frame' = [frame EXCEPT ![s] = @ + gap + 1]
       /\ lost' = [lost EXCEPT ![s] = @ + gap]
  /\ Observe(s, 0, frame'[s])
  /\ origin' = [origin EXCEPT ![s] = store]
  /\ Goto(s, IF state = "COLLECTING" THEN "store" ELSE "state_again")
  /\ UNCHANGED <<rows, whole, reported, inflight>>

(* The main thread resets the demo's monitors only in states where no callback gets here. *)
ObserveDemo(s) ==
  /\ Receiver(s, "store")
  /\ IF store = 0 THEN UNCHANGED monitor ELSE Observe(s, store, frame[s])
  /\ Goto(s, "state_again")
  /\ UNCHANGED <<rows, frame, origin, lost, whole, reported, inflight>>

\* Mutant: only the store is tested before the append.
StateNotTested(s) ==
  /\ Receiver(s, "state_again")
  /\ IF store # 0 THEN Goto(s, "append") /\ UNCHANGED <<inflight, origin>> ELSE Return(s)
  /\ UNCHANGED <<buffers, frame, lost, whole, reported>>

(* state and demo_store, as one step: while the state is COLLECTING a demo is never opened. *)
TestStateAgain(s) ==
  /\ Receiver(s, "state_again")
  /\ IF state = "COLLECTING" /\ store # 0
       THEN Goto(s, "append") /\ UNCHANGED <<inflight, origin>>
       ELSE Return(s)
  /\ UNCHANGED <<buffers, frame, lost, whole, reported>>

(* The callback ran within one stretch of COLLECTING, before the demo is saved. *)
Whole(s) == state = "COLLECTING" /\ s \notin inflight /\ pc \in {"loop", "abort"}

AppendRow(s) ==
  /\ Receiver(s, "append") /\ store # 0
  /\ rows' = [rows EXCEPT ![store][s] = Append(@, <<frame[s], origin[s]>>)]
  /\ whole' = [whole EXCEPT ![store][s] = @ \cup {w \in {<<stretch, frame[s]>>} : Whole(s)}]
  /\ Return(s)
  /\ UNCHANGED <<monitor, frame, lost, reported>>

(* demo_store is read again for the append: None ends the receiver, which reports it. *)
AppendFails(s) ==
  /\ Receiver(s, "append") /\ store = 0
  /\ Goto(s, "dead") /\ inflight' = inflight \ {s}
  /\ reported' = reported \cup {s}
  /\ UNCHANGED <<buffers, frame, origin, lost, whole>>

Callback(s) ==
  \/ Receive(s) \/ ObserveDemo(s)
  \/ TestStateAgain(s) \/ AppendRow(s) \/ AppendFails(s)

-----------------------------------------------------------------------------
(* The main thread, at a label; and where the commands of a transaction have been answered. *)
Main(label) == pc = label /\ UNCHANGED <<receiver, reported>>
Answered(label) == Main(label) /\ inflight = {}

(* An assignment to state or demo_store. *)
Change == inflight' = {s \in Streams : at[s] \notin {"idle", "dead"}}
SetState(new) == state' = new /\ Change
SetStore(new) == store' = new /\ Change

Known(d) == {s \in Streams : monitor[d][s].known}
Iterate(d) == iter' = [of |-> d, left |-> Known(d), size |-> Cardinality(Known(d))]

(* start_or_resume_demo up to the commands that start sensors and recorder. *)
NewDemo ==
  /\ Main("loop") /\ state = "WAIT_START" /\ demos < MaxDemos /\ stretch < MaxStretches
  /\ demos' = demos + 1 /\ SetStore(demos + 1)
  /\ pc' = "start"
  /\ UNCHANGED <<state, buffers, files, task, iter, draft, raised, past>>

ResumeDemo ==
  /\ Main("loop") /\ state = "PAUSED" /\ stretch < MaxStretches
  /\ pc' = "start"
  /\ UNCHANGED <<demo, buffers, files, task, iter, draft, raised, inflight, past>>

PauseDemo ==
  /\ Main("loop") /\ state = "COLLECTING"
  /\ SetState("PAUSED")
  /\ pc' = "pause"
  /\ UNCHANGED <<store, demos, buffers, files, task, iter, draft, raised, past>>

(* finish_demo and discard_demo up to their commands. *)
Leave(new, label) ==
  /\ Main("loop") /\ state \in {"COLLECTING", "PAUSED"}
  /\ SetState(new)
  /\ pc' = label
  /\ UNCHANGED <<store, demos, buffers, files, task, iter, draft, raised, past>>

\* Mutant: the state stays COLLECTING until the demo is finished.
FinishDemoLate ==
  /\ Main("loop") /\ state \in {"COLLECTING", "PAUSED"}
  /\ pc' = "finish"
  /\ UNCHANGED <<demo, buffers, files, task, iter, draft, raised, inflight, past>>

FinishDemo == Leave("FINALIZING", "finish")

DiscardDemo == Leave("DISCARDING", "discard")

ActiveDemo == store # 0 /\ state \in {"COLLECTING", "PAUSED"}

(* 'q' or Ctrl-C: the abort of an active demo does not change the state until it has saved the demo. *)
Quit ==
  /\ Main("loop")
  /\ quitting' = (ActiveDemo /\ state = "COLLECTING")
  /\ pc' = IF ActiveDemo THEN "abort" ELSE "stop"
  /\ UNCHANGED <<demo, buffers, files, task, iter, draft, raised, inflight, stretch>>

(* _handle_unrecoverable_fatal, for a receiver's report, a lost sensor or a dead process. *)
Fatal ==
  /\ pc = "loop" /\ UNCHANGED receiver
  /\ \/ UNCHANGED reported
     \/ \E s \in reported : reported' = reported \ {s}
  /\ SetState("ERROR")
  /\ pc' = IF ActiveDemo THEN "abort" ELSE "stop"
  /\ UNCHANGED <<store, demos, buffers, files, task, iter, draft, raised, past>>

-----------------------------------------------------------------------------
(* A start or a pause that succeeded goes on to reset_drop_baselines. *)
Succeeded(label, next) ==
  /\ Answered(label)
  /\ Iterate(0)
  /\ pc' = next
  /\ UNCHANGED <<demo, buffers, files, task, draft, raised, inflight, past>>

StartSucceeded == Succeeded("start", "reset_start")
PauseSucceeded == Succeeded("pause", "reset_pause")

(* How a transaction ends: what its manifest says and lists, and whether the run goes on. *)
Settle(label, status, npz, clear, halt) ==
  /\ Answered(label)
  /\ task' = [status |-> status, npz |-> npz, clear |-> clear, stop |-> halt]
  /\ iter' = [of |-> store, left |-> Streams, size |-> 0]
  /\ pc' = IF npz THEN "save" ELSE "count"
  /\ UNCHANGED <<demo, buffers, files, draft, raised, inflight, past>>

(* _fail_start_resume_transaction, its rollback confirmed or not; the failed pause keeps the demo. *)
StartFailed == \E confirmed \in BOOLEAN : Settle("start", "failed", FALSE, TRUE, ~confirmed)
PauseFailed == Settle("pause", "failed", FALSE, FALSE, TRUE)
FinishAnswered == \E ok \in BOOLEAN : Settle("finish", IF ok THEN "done" ELSE "failed", TRUE, TRUE, ~ok)
DiscardAnswered == \E ok \in BOOLEAN : Settle("discard", IF ok THEN "discarded" ELSE "failed", FALSE, TRUE, ~ok)
AbortAnswered == Settle("abort", "failed", TRUE, TRUE, TRUE)

(* reset_drop_baselines: over drop_monitors, then over demo_drop_monitors. *)
Resetting == pc \in {"reset_start", "reset_pause"} /\ UNCHANGED <<receiver, reported>>
Resized == Cardinality(Known(iter.of)) # iter.size

ResetBaseline ==
  /\ Resetting /\ ~Resized
  /\ \E s \in iter.left :
       /\ monitor' = [monitor EXCEPT ![iter.of][s].previous = 0]
       /\ iter' = [iter EXCEPT !.left = @ \ {s}]
  /\ UNCHANGED <<demo, rows, files, pc, task, draft, raised, inflight, past>>

ResetDemoMonitors ==
  /\ Resetting /\ ~Resized /\ iter.left = {} /\ iter.of = 0
  /\ Iterate(store)
  /\ UNCHANGED <<demo, buffers, files, pc, task, draft, raised, inflight, past>>

ResetDone ==
  /\ Resetting /\ ~Resized /\ iter.left = {} /\ iter.of # 0
  /\ pc' = IF pc = "reset_pause" THEN "loop" ELSE "collect"
  /\ iter' = [of |-> 0, left |-> {}, size |-> 0]
  /\ UNCHANGED <<demo, buffers, files, task, draft, raised, inflight, past>>

Collect ==
  /\ Main("collect")
  /\ SetState("COLLECTING") /\ stretch' = stretch + 1
  /\ pc' = "loop"
  /\ UNCHANGED <<store, demos, buffers, files, task, iter, draft, raised, quitting>>

(* "dictionary changed size during iteration" leaves handle_command; run() stops the system. *)
Raise ==
  /\ pc \in {"reset_start", "reset_pause", "summary"} /\ Resized
  /\ raised' = TRUE
  /\ pc' = "stop"
  /\ UNCHANGED <<demo, buffers, files, task, iter, draft, receiver, reported, inflight, past>>

-----------------------------------------------------------------------------
(* _save_current_demo: save_all, buffer by buffer in an order that is always the same. *)
SaveBuffer ==
  /\ Main("save")
  /\ LET s == CHOOSE s \in iter.left : TRUE IN
       /\ archive' = [archive EXCEPT ![store][s] = rows[store][s]]
       /\ iter' = [iter EXCEPT !.left = @ \ {s}]
       /\ pc' = IF iter.left = {s} THEN "count" ELSE "save"
  /\ UNCHANGED <<demo, buffers, manifest, task, draft, raised, inflight, past>>

(* _write_current_demo_manifest: frame_counts, and the monitors' summaries one by one. *)
CountFrames ==
  /\ Main("count")
  /\ draft' = [counts |-> [s \in Streams |-> Len(rows[store][s])], missing |-> PerStream(0)]
  /\ Iterate(store)
  /\ pc' = "summary"
  /\ UNCHANGED <<demo, buffers, files, task, raised, inflight, past>>

Summarize ==
  /\ Main("summary") /\ ~Resized
  /\ \E s \in iter.left :
       /\ draft' = [draft EXCEPT !.missing[s] = monitor[store][s].missing]
       /\ iter' = [iter EXCEPT !.left = @ \ {s}]
  /\ UNCHANGED <<demo, buffers, files, pc, task, raised, inflight, past>>

WriteManifest ==
  /\ Main("summary") /\ ~Resized /\ iter.left = {}
  /\ manifest' = [manifest EXCEPT ![store] =
                    [status |-> task.status, npz |-> task.npz, counts |-> draft.counts, missing |-> draft.missing]]
  /\ pc' = "clear"
  /\ UNCHANGED <<demo, buffers, archive, task, iter, draft, raised, inflight, past>>

ClearDemo ==
  /\ Main("clear")
  /\ IF task.clear THEN SetStore(0) ELSE UNCHANGED <<store, inflight>>
  /\ pc' = IF task.stop THEN "stop" ELSE "wait"
  /\ UNCHANGED <<state, demos, buffers, files, task, iter, draft, raised, past>>

WaitStart ==
  /\ Main("wait")
  /\ SetState("WAIT_START")
  /\ pc' = "loop"
  /\ UNCHANGED <<store, demos, buffers, files, task, iter, draft, raised, past>>

(* _stop_runtime_resources: STOPPING, the commands, and stop() of the receivers, which are joined. *)
BeginStop ==
  /\ Main("stop")
  /\ SetState("STOPPING")
  /\ pc' = "stopping"
  /\ UNCHANGED <<store, demos, buffers, files, task, iter, draft, raised, past>>

StopReceivers ==
  /\ Answered("stopping")
  /\ \A s \in Streams : at[s] \in {"idle", "dead"}
  /\ SetState("STOPPED")
  /\ pc' = "end"
  /\ UNCHANGED <<store, demos, buffers, files, task, iter, draft, raised, past>>

Controller ==
  \/ NewDemo \/ ResumeDemo \/ PauseDemo \/ FinishDemo \/ DiscardDemo \/ Quit \/ Fatal
  \/ StartSucceeded \/ StartFailed \/ PauseSucceeded \/ PauseFailed
  \/ FinishAnswered \/ DiscardAnswered \/ AbortAnswered
  \/ ResetBaseline \/ ResetDemoMonitors \/ ResetDone \/ Collect \/ Raise
  \/ SaveBuffer \/ CountFrames \/ Summarize \/ WriteManifest \/ ClearDemo \/ WaitStart
  \/ BeginStop \/ StopReceivers

Next == Controller \/ \E s \in Streams : Callback(s)

Spec == Init /\ [][Next]_vars

-----------------------------------------------------------------------------
(* Types: the open demo is one of those begun, and a row's key is one that was received. *)
TypeOK ==
  /\ state \in {"WAIT_START", "COLLECTING", "PAUSED", "FINALIZING", "DISCARDING", "ERROR", "STOPPING", "STOPPED"}
  /\ demos \in 0..MaxDemos /\ store \in 0..demos
  /\ DOMAIN monitor = 0..MaxDemos
  /\ \A d \in 0..MaxDemos, s \in Streams :
       /\ monitor[d][s].known \in BOOLEAN
       /\ monitor[d][s].previous \in 0..frame[s] /\ monitor[d][s].missing \in 0..frame[s]
  /\ \A d \in Demos, s \in Streams :
       /\ \A i \in DOMAIN rows[d][s] : rows[d][s][i] \in (1..frame[s]) \X (0..demos)
       /\ archive[d][s] \in {SubSeq(rows[d][s], 1, n) : n \in 0..Len(rows[d][s])}
       /\ whole[d][s] \subseteq (1..stretch) \X (1..frame[s])
       /\ manifest[d].status \in {"none", "done", "failed", "discarded"} /\ manifest[d].npz \in BOOLEAN
  /\ pc \in {"loop", "start", "pause", "finish", "discard", "abort", "reset_start", "reset_pause", "collect",
             "save", "count", "summary", "clear", "wait", "stop", "stopping", "end"}
  /\ task.status \in {"none", "done", "failed", "discarded"} /\ {task.npz, task.clear, task.stop} \subseteq BOOLEAN
  /\ iter.of \in 0..MaxDemos /\ iter.left \subseteq Streams /\ iter.size \in 0..Cardinality(Streams)
  /\ {raised, quitting} \subseteq BOOLEAN /\ stretch \in 0..MaxStretches
  /\ at \in [Streams -> {"idle", "store", "state_again", "append", "dead"}]
  /\ \A s \in Streams : frame[s] \in 0..MaxFrames[s] /\ lost[s] \in 0..frame[s] /\ origin[s] \in 0..demos
  /\ reported \subseteq Streams /\ inflight \subseteq Streams

Written(d) == manifest[d].status # "none"
KeysOf(d, s) == {archive[d][s][i][1] : i \in DOMAIN archive[d][s]}

(* A demo's archive holds frames that arrived while it was open, in their order, and every      *)
(* frame whose callback ran while it was collecting, whatever transaction ended the demo and    *)
(* although the callbacks of an aborted demo go on while its buffers are saved.                 *)
ArchiveIsTheDemo ==
  \A d \in Demos, s \in Streams :
    LET saved == archive[d][s] IN
    /\ \A i \in DOMAIN saved : saved[i][2] = d /\ (i > 1 => saved[i - 1][1] < saved[i][1])
    /\ Written(d) /\ manifest[d].npz => \A w \in whole[d][s] : w[2] \in KeysOf(d, s)

(* A demo that was not aborted while it was collecting counts in its manifest the rows of its   *)
(* archives (test_maincontroller_mock_runtime.py 743), although rows arrive on other threads.   *)
CountsMatchArchive ==
  \A d \in Demos, s \in Streams :
    Written(d) /\ manifest[d].npz /\ ~quitting => manifest[d].counts[s] = Len(archive[d][s])

(* A demo's manifest reports as missing only frames that never arrived, and all of those that   *)
(* were lost between two it collected without a pause: what arrives during a pause, or while a  *)
(* pause or a resume is under way, is no drop.                                                  *)
Between(d, s) ==
  {k \in 1..MaxFrames[s] : /\ \E v, w \in whole[d][s] : v[1] = w[1] /\ v[2] < k /\ k < w[2]
                /\ \A w \in whole[d][s] : w[2] # k}

GapsAreLosses ==
  \A d \in Demos, s \in Streams :
    Written(d) => /\ manifest[d].missing[s] <= lost[s]
                  /\ manifest[d].npz => Cardinality(Between(d, s)) <= manifest[d].missing[s]

(* No callback meets a demo that is gone and no loop of the main thread a dictionary that       *)
(* grows, except in the two transitions that nothing orders with the callbacks: the abort of a  *)
(* collecting demo, and the first frame of a stream during a reset of drop_monitors.            *)
ThreadsSurvive ==
  [][/\ \A s \in Streams : at'[s] = "dead" => at[s] = "dead" \/ quitting
     /\ raised' => raised \/ quitting \/ iter.of = 0]_vars

=============================================================================
