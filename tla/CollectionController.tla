------------------------ MODULE CollectionController ------------------------
(***************************************************************************)
(* The data-collecting MainController (main_controller/main.py): one       *)
(* thread takes commands from a queue and drives, for every demo, two      *)
(* sensor services and the rosbag recorder through start, pause, resume,   *)
(* finish, discard and abort.  Operator keys, RealSense fatal lines,       *)
(* process exits and receiver failures arrive in the same queue, put there *)
(* by other threads; Ctrl-C arrives in the middle of whatever runs.        *)
(*                                                                         *)
(* A handler is a label of the thread and the devices it has still to      *)
(* command; the devices are external and follow the protocol the handlers  *)
(* presuppose.  The subprocesses other than RealSense only fail.           *)
(***************************************************************************)
EXTENDS Naturals, Sequences

CONSTANTS
  MaxInputs,  \* bound: keys the operator types and failures that arrive by themselves
  MaxFaults,  \* bound: operations that fail
  Faults

ASSUME CollectionAssumption ==
  /\ MaxInputs \in Nat /\ MaxFaults \in Nat
  /\ Faults \subseteq {"command",   \* a device does not confirm a command
                       "check",     \* an image readiness check or a post-check fails
                       "fatal",     \* a receiver fails, or a sensor disconnects
                       "camera",    \* RealSense prints a fatal line
                       "exit",      \* RealSense exits by itself
                       "disk",      \* a manifest or an npz file cannot be written
                       "monitor",   \* a receiver inserts a drop monitor while a loop runs
                       "interrupt"} \* KeyboardInterrupt in the main thread

VARIABLES
  state, commands,
  store,          \* the demo of demo_store; 0 is None
  demos,          \* demos created so far
  manifest,       \* status in each demo's manifest.json, "none" if there is none
  recordStarted,  \* rosbag_record_started
  expectedExit,   \* 'realsense_camera' in expected_process_exits
  epoch,          \* stands for realsense_fatal_ignore_until_ns: restarts completed
  pc, todo,       \* where the main thread is, and the devices it has still to command
  failed,         \* devices that did not confirm a command of this transaction
  newDemo,        \* new_demo of the start in progress
  frame,          \* the clause of run() that executes: "try", "except" or "finally"
  sensor, bag,    \* external: the sensor services and the recorder
  camera, unread, \* external: the RealSense process; exits the log threads have not reported
  inputs, faults

demo    == <<store, demos, manifest, recordStarted>>
thread  == <<pc, todo, failed, newDemo, frame>>
devices == <<sensor, bag>>
process == <<expectedExit, epoch, camera, unread>>
bounds  == <<inputs, faults>>
vars    == <<state, commands, demo, thread, devices, process, bounds>>

Sensors == {"ft300", "xense"}
Devices == Sensors \cup {"rosbag"}
Demos   == 1..MaxInputs
Keys    == {"s", "p", "d", "x", "q"}

Queued(name) == \E i \in DOMAIN commands : commands[i].name = name

Init ==
  /\ state = "STARTING_SERVICES" /\ commands = <<>>
  /\ store = 0 /\ demos = 0 /\ manifest = [d \in Demos |-> "none"] /\ recordStarted = FALSE
  /\ expectedExit = FALSE /\ epoch = 0
  /\ pc = "services" /\ todo = {} /\ failed = {} /\ newDemo = FALSE /\ frame = "try"
  /\ sensor = [s \in Sensors |-> "idle"] /\ bag = "off"
  /\ camera = "off" /\ unread = 0
  /\ inputs = 0 /\ faults = 0

Fails(kind) == kind \in Faults /\ faults < MaxFaults /\ faults' = faults + 1

-----------------------------------------------------------------------------
(***************************************************************************)
(* The devices.  A sensor in a state for which a command makes no sense is *)
(* "confused" by it.  When START_REQ is not acknowledged the sensor may    *)
(* acquire or not ("unacked"), and a START_REQ or DEMO_DISCARD_REQ settles *)
(* it; after any other unconfirmed command only STOP_REQ is safe.          *)
(***************************************************************************)
Legal(cmd) ==
  CASE cmd = "START_REQ"        -> {"idle", "paused", "unacked"}
    [] cmd = "PAUSE_REQ"        -> {"acquiring"}
    [] cmd = "DEMO_DONE_REQ"    -> {"acquiring", "paused"}
    [] cmd = "DEMO_DISCARD_REQ" -> {"acquiring", "paused", "unacked"}
    [] cmd = "STOP_REQ"         -> {"idle", "acquiring", "paused", "unacked", "unknown", "stopped"}

Target(cmd) ==
  CASE cmd = "START_REQ" -> "acquiring"
    [] cmd = "PAUSE_REQ" -> "paused"
    [] cmd = "STOP_REQ"  -> "stopped"
    [] OTHER             -> "idle"

Unconfirmed(cmd) == IF cmd = "START_REQ" THEN "unacked" ELSE "unknown"

\* _sensor_command_result: the request is sent and its answer awaited.
SensorCommand(s, cmd) ==
  /\ \/ failed' = failed /\ UNCHANGED faults
     \/ failed' = failed \cup {s} /\ Fails("command")
  /\ sensor' = [sensor EXCEPT ![s] = IF @ \notin Legal(cmd) THEN "confused"
                                     ELSE IF s \in failed' THEN Unconfirmed(cmd) ELSE Target(cmd)]
  /\ UNCHANGED bag

\* rosbag.stop and rosbag.pause; an exception is the operation's failure.
BagCommand(result) ==
  /\ \/ failed' = failed /\ bag' = result /\ UNCHANGED faults
     \/ failed' = failed \cup {"rosbag"} /\ bag' = "unknown" /\ Fails("command")
  /\ UNCHANGED sensor

-----------------------------------------------------------------------------
(***************************************************************************)
(* Steps of the main thread that several handlers share.                   *)
(***************************************************************************)
\* A transaction begins: devices are commanded under the label.
Transact(label, targets) == pc' = label /\ todo' = targets /\ failed' = {}

\* Mutant: only a demo that is collecting is active.
ActiveOnlyCollecting == store # 0 /\ state = "COLLECTING"

\* _active_demo_needs_abort
ActiveDemo == store # 0 /\ state \in {"COLLECTING", "PAUSED"}

\* _stop_runtime_resources up to its teardown.  The recorder is left alone before the
\* RosbagControl exists, and when the bootstrap stop has already failed.
BeginStop(stopBag) ==
  \/ state = "STOPPED" /\ pc' = "leave" /\ UNCHANGED <<state, todo, failed>>
  \/ /\ state # "STOPPED"
     /\ state' = "STOPPING"
     /\ Transact("stop", IF stopBag /\ bag # "off" THEN Devices ELSE Sensors)

BeginAbort(new) == state' = new /\ Transact("abort", Devices)

AbortOrStop(new) ==
  \/ ActiveDemo /\ BeginAbort(new)
  \/ ~ActiveDemo /\ BeginStop(TRUE)

Forget == store' = 0 /\ recordStarted' = FALSE

\* _write_current_demo_manifest
Write(status) == manifest' = [manifest EXCEPT ![store] = status]

\* An exception leaves the handler and run()'s loop.
Escapes(kind) ==
  /\ Fails(kind)
  /\ pc' = "leave"
  /\ UNCHANGED <<state, commands, demo, todo, failed, newDemo, frame, devices, process, inputs>>

\* The OSError of a save.
SaveFails == Escapes("disk")

\* "dictionary changed size during iteration", of a loop over the drop monitors.
LoopFails == Escapes("monitor")

-----------------------------------------------------------------------------
(***************************************************************************)
(* startup                                                                 *)
(***************************************************************************)
StartServices ==
  /\ pc = "services"
  /\ \/ /\ state' = "INIT" /\ pc' = "bootstrap"
        /\ bag' = "bootstrap" /\ camera' = "up"
        /\ UNCHANGED <<todo, failed, faults>>
     \/ Fails("check") /\ BeginStop(TRUE) /\ UNCHANGED <<bag, camera>>
  /\ UNCHANGED <<commands, demo, newDemo, frame, sensor, expectedExit, epoch, unread, inputs>>

\* _stop_rosbag_bootstrap_recording; a stop that failed is not retried.
StopBootstrap ==
  /\ pc = "bootstrap"
  /\ \/ bag' = "idle" /\ pc' = "ready" /\ UNCHANGED <<state, todo, failed, faults>>
     \/ bag' = "unknown" /\ Fails("command") /\ BeginStop(FALSE)
  /\ UNCHANGED <<commands, demo, newDemo, frame, sensor, process, inputs>>

StartupReady ==
  /\ pc = "ready"
  /\ \/ state' = "WAIT_START" /\ pc' = "loop" /\ UNCHANGED <<todo, failed, faults>>
     \/ Fails("check") /\ BeginStop(TRUE)
  /\ UNCHANGED <<commands, demo, newDemo, frame, devices, process, inputs>>

-----------------------------------------------------------------------------
(***************************************************************************)
(* The loop of run() and the beginnings of the handlers.                   *)
(***************************************************************************)
Take(names) ==
  /\ pc = "loop"
  /\ commands # <<>> /\ Head(commands).name \in names
  /\ commands' = Tail(commands)

\* reject_command
Reject ==
  /\ \/ Take({"s"}) /\ state \notin {"WAIT_START", "PAUSED"}
     \/ Take({"p"}) /\ state # "COLLECTING"
     \/ Take({"d", "x"}) /\ state \notin {"COLLECTING", "PAUSED"}
  /\ UNCHANGED <<state, demo, thread, devices, process, bounds>>

StartOrResume ==
  /\ Take({"s"}) /\ state \in {"WAIT_START", "PAUSED"}
  /\ newDemo' = (state = "WAIT_START")
  /\ IF newDemo' THEN /\ demos' = demos + 1 /\ store' = demos' /\ recordStarted' = FALSE
                 ELSE UNCHANGED <<demos, store, recordStarted>>
  /\ Transact("start", Sensors)
  /\ UNCHANGED <<state, manifest, frame, devices, process, bounds>>

\* Mutant: the state is not checked.
PauseUnchecked ==
  /\ Take({"p"})
  /\ state' = "PAUSED"
  /\ Transact("pause", Devices)
  /\ UNCHANGED <<demo, newDemo, frame, devices, process, bounds>>

PauseDemo ==
  /\ Take({"p"}) /\ state = "COLLECTING"
  /\ state' = "PAUSED"
  /\ Transact("pause", Devices)
  /\ UNCHANGED <<demo, newDemo, frame, devices, process, bounds>>

FinishDemo ==
  /\ Take({"d"}) /\ state \in {"COLLECTING", "PAUSED"}
  /\ state' = "FINALIZING"
  /\ Transact("finish", Devices)
  /\ UNCHANGED <<demo, newDemo, frame, devices, process, bounds>>

DiscardDemo ==
  /\ Take({"x"}) /\ state \in {"COLLECTING", "PAUSED"}
  /\ state' = "DISCARDING"
  /\ Transact("discard", Devices)
  /\ UNCHANGED <<demo, newDemo, frame, devices, process, bounds>>

\* 'q'.  Its FINALIZING branch cannot be taken: finish_demo runs in this thread.
Quit ==
  /\ Take({"q"})
  /\ AbortOrStop(state)
  /\ UNCHANGED <<demo, newDemo, frame, devices, process, bounds>>

\* Mutant: a fault outside an active demo is ignored.
FatalActiveOnly ==
  /\ Take({"fatal", "process_exit"})
  /\ IF ActiveDemo THEN BeginAbort("ERROR") ELSE UNCHANGED <<state, pc, todo, failed>>
  /\ UNCHANGED <<demo, newDemo, frame, devices, process, bounds>>

\* _handle_unrecoverable_fatal for zmq_fatal, realsense_metadata_fatal, uds_disconnect and
\* process_exit: in the loop, the state is never one in which they are ignored.
UnrecoverableFatal ==
  /\ Take({"fatal", "process_exit"})
  /\ AbortOrStop("ERROR")
  /\ UNCHANGED <<demo, newDemo, frame, devices, process, bounds>>

\* handle_realsense_fatal: a line older than the last restart is skipped, a demo that is
\* collecting is paused first.
RealsenseFatal ==
  /\ Take({"realsense_fatal"})
  /\ \/ Head(commands).epoch < epoch /\ UNCHANGED <<state, pc, todo, failed>>
     \/ /\ Head(commands).epoch >= epoch /\ state = "COLLECTING"
        /\ state' = "PAUSED" /\ Transact("autopause", Devices)
     \/ /\ Head(commands).epoch >= epoch /\ state \in {"PAUSED", "WAIT_START"}
        /\ pc' = "restart" /\ UNCHANGED <<state, todo, failed>>
  /\ UNCHANGED <<demo, newDemo, frame, devices, process, bounds>>

-----------------------------------------------------------------------------
(***************************************************************************)
(* Devices are commanded in turn, ft300 first and the recorder last, or    *)
(* first when the run stops.  Finish and abort run their three commands in *)
(* a thread pool.  A failure does not skip the others.                     *)
(***************************************************************************)
Rank == IF pc = "stop" THEN [rosbag |-> 1, ft300 |-> 2, xense |-> 3]
                       ELSE [ft300 |-> 1, xense |-> 2, rosbag |-> 3]

Turn(d) ==
  /\ d \in todo
  /\ pc \in {"finish", "abort"} \/ \A e \in todo : Rank[d] <= Rank[e]

Request ==
  [rollback |-> "DEMO_DISCARD_REQ", pause |-> "PAUSE_REQ", autopause |-> "PAUSE_REQ",
   finish |-> "DEMO_DONE_REQ", discard |-> "DEMO_DISCARD_REQ", abort |-> "STOP_REQ",
   stop |-> "STOP_REQ"]

CommandDevice ==
  /\ pc \in DOMAIN Request
  /\ \E d \in Devices :
       /\ Turn(d)
       /\ todo' = todo \ {d}
       /\ \/ d \in Sensors /\ SensorCommand(d, Request[pc])
          \/ /\ d = "rosbag"
             /\ BagCommand(IF pc \in {"pause", "autopause"} THEN "paused" ELSE "idle")
  /\ UNCHANGED <<state, commands, demo, pc, newDemo, frame, process, inputs>>

-----------------------------------------------------------------------------
(***************************************************************************)
(* start_or_resume_demo: the first failure rolls back, in a new demo the   *)
(* sensors that acknowledged, in a paused one both.                        *)
(***************************************************************************)
\* Mutant: only the sensors that acknowledged are rolled back, even in a paused demo.
RollbackAcked(acked) ==
  Transact("rollback", acked \cup (IF recordStarted THEN {"rosbag"} ELSE {}))

Rollback(acked) ==
  Transact("rollback", (IF newDemo THEN acked ELSE Sensors)
                         \cup (IF recordStarted THEN {"rosbag"} ELSE {}))

StartSensor ==
  /\ pc = "start"
  /\ \E s \in Sensors :
       /\ Turn(s)
       /\ \/ /\ sensor' = [sensor EXCEPT ![s] = IF @ \in Legal("START_REQ") THEN "acquiring"
                                                                            ELSE "confused"]
             /\ todo' = todo \ {s}
             /\ UNCHANGED <<pc, failed, faults>>
          \/ /\ sensor' = [sensor EXCEPT ![s] = IF @ \in Legal("START_REQ") THEN "unacked"
                                                                            ELSE "confused"]
             /\ Fails("command")
             /\ Rollback(Sensors \ todo)
  /\ UNCHANGED <<state, commands, demo, newDemo, frame, bag, process, inputs>>

CheckImages ==
  /\ pc = "start" /\ todo = {}
  /\ \/ pc' = "record" /\ UNCHANGED <<todo, failed, faults>>
     \/ Fails("check") /\ Rollback(Sensors)
  /\ UNCHANGED <<state, commands, demo, newDemo, frame, devices, process, inputs>>

RecordBag ==
  /\ pc = "record"
  /\ \/ /\ recordStarted
        /\ pc' = "resume" /\ UNCHANGED <<recordStarted, todo, failed, bag, faults>>
     \/ /\ ~recordStarted
        /\ recordStarted' = TRUE /\ bag' = "paused" /\ pc' = "resume"
        /\ UNCHANGED <<todo, failed, faults>>
     \/ /\ ~recordStarted
        /\ bag' = "unacked" /\ Fails("command") /\ Rollback(Sensors)
        /\ UNCHANGED recordStarted
  /\ UNCHANGED <<state, commands, store, demos, manifest, newDemo, frame, sensor, process, inputs>>

\* The recorder resumes, and reset_drop_baselines.
ResumeBag ==
  /\ pc = "resume"
  /\ \/ bag' = "recording" /\ state' = "COLLECTING" /\ pc' = "loop"
        /\ UNCHANGED <<todo, failed, faults>>
     \/ bag' = "recording" /\ Fails("monitor") /\ pc' = "leave" /\ UNCHANGED <<state, todo, failed>>
     \/ bag' = "unknown" /\ Fails("command") /\ Rollback(Sensors) /\ UNCHANGED state
  /\ UNCHANGED <<commands, demo, newDemo, frame, sensor, process, inputs>>

\* _fail_start_resume_transaction after its commands.
RolledBack ==
  /\ pc = "rollback" /\ todo = {}
  /\ \/ /\ Write("failed") /\ Forget
        /\ \/ failed = {} /\ state' = "WAIT_START" /\ pc' = "loop" /\ UNCHANGED <<todo, failed>>
           \/ failed # {} /\ BeginStop(TRUE)
        /\ UNCHANGED <<commands, demos, newDemo, frame, devices, process, bounds>>
     \/ SaveFails

-----------------------------------------------------------------------------
(***************************************************************************)
(* The ends of the other transactions.                                     *)
(***************************************************************************)
\* pause_demo: a failure is recorded and stops the system; demo_store is kept.  Otherwise
\* reset_drop_baselines.
Paused ==
  /\ pc \in {"pause", "autopause"} /\ todo = {}
  /\ \/ /\ failed = {}
        /\ pc' = IF pc = "pause" THEN "loop" ELSE "restart"
        /\ UNCHANGED <<state, commands, demo, todo, failed, newDemo, frame, devices, process,
                       bounds>>
     \/ /\ failed # {}
        /\ Write("failed") /\ BeginStop(TRUE)
        /\ UNCHANGED <<commands, store, demos, recordStarted, newDemo, frame, devices, process,
                       bounds>>
     \/ failed # {} /\ SaveFails
     \/ failed = {} /\ LoopFails

\* Mutant: the result of the rosbag stop is not looked at.
FinishedSensorsOnly ==
  /\ pc = "finish" /\ todo = {}
  /\ Forget
  /\ \/ /\ failed \cap Sensors = {}
        /\ Write("done") /\ state' = "WAIT_START" /\ pc' = "loop"
        /\ UNCHANGED <<todo, failed, faults>>
     \/ /\ failed \cap Sensors # {} /\ UNCHANGED faults
        /\ Write("failed") /\ BeginStop(TRUE)
  /\ UNCHANGED <<commands, demos, newDemo, frame, devices, process, inputs>>

\* finish_demo: done if the three commands and the post-checks succeeded.
Finished ==
  /\ pc = "finish" /\ todo = {}
  /\ \/ /\ Forget
        /\ \/ /\ failed = {}
              /\ Write("done") /\ state' = "WAIT_START" /\ pc' = "loop"
              /\ UNCHANGED <<todo, failed, faults>>
           \/ failed # {} /\ Write("failed") /\ BeginStop(TRUE) /\ UNCHANGED faults
           \/ failed = {} /\ Fails("check") /\ Write("failed") /\ BeginStop(TRUE)
        /\ UNCHANGED <<commands, demos, newDemo, frame, devices, process, inputs>>
     \/ SaveFails

Discarded ==
  /\ pc = "discard" /\ todo = {}
  /\ \/ /\ Forget
        /\ \/ /\ failed = {}
              /\ Write("discarded") /\ state' = "WAIT_START" /\ pc' = "loop"
              /\ UNCHANGED <<todo, failed>>
           \/ failed # {} /\ Write("failed") /\ BeginStop(TRUE)
        /\ UNCHANGED <<commands, demos, newDemo, frame, devices, process, bounds>>
     \/ SaveFails

\* _abort_active_demo: whatever the devices answered, the demo is saved as failed, and the
\* runtime is torn down without another command to them.  While the state is still COLLECTING,
\* the monitors summarized in the manifest may grow.
Aborted ==
  /\ pc = "abort" /\ todo = {}
  /\ \/ /\ Write("failed") /\ Forget
        /\ state' = "STOPPING" /\ Transact("stop", {})
        /\ UNCHANGED <<commands, demos, newDemo, frame, devices, process, bounds>>
     \/ SaveFails
     \/ state = "COLLECTING" /\ LoopFails

-----------------------------------------------------------------------------
(***************************************************************************)
(* The RealSense process: restart, teardown, and what it does by itself.   *)
(***************************************************************************)
Alive == camera \in {"up", "faulty"}

KillCamera ==
  /\ expectedExit' = TRUE
  /\ unread' = IF Alive THEN unread + 1 ELSE unread
  /\ camera' = IF Alive THEN "dead" ELSE camera

StopCamera ==
  /\ pc = "restart"
  /\ KillCamera /\ pc' = "relaunch"
  /\ UNCHANGED <<state, commands, demo, todo, failed, newDemo, frame, devices, epoch, bounds>>

RelaunchCamera ==
  /\ pc = "relaunch"
  /\ camera' = "up" /\ pc' = "readiness"
  /\ UNCHANGED <<state, commands, demo, todo, failed, newDemo, frame, devices, expectedExit, epoch,
                 unread, bounds>>

\* The waits for the nodes and the images, which the process may not outlive; then the time up to
\* which lines are stale is taken, and reset_realsense_drop_baselines.
CameraReady ==
  /\ pc = "readiness"
  /\ \/ /\ epoch' = epoch + 1 /\ pc' = "loop" /\ UNCHANGED <<state, todo, failed, faults>>
     \/ epoch' = epoch + 1 /\ Fails("monitor") /\ pc' = "leave" /\ UNCHANGED <<state, todo, failed>>
     \/ ~Alive /\ AbortOrStop("ERROR") /\ UNCHANGED <<epoch, faults>>
     \/ Fails("check") /\ AbortOrStop("ERROR") /\ UNCHANGED epoch
  /\ UNCHANGED <<commands, demo, newDemo, frame, devices, expectedExit, camera, unread, inputs>>

\* _stop_runtime_resources after the commands: clients, receivers and processes stop.
Teardown ==
  /\ pc = "stop" /\ todo = {}
  /\ KillCamera
  /\ state' = "STOPPED" /\ pc' = "leave"
  /\ UNCHANGED <<commands, demo, todo, failed, newDemo, frame, devices, epoch, bounds>>

Enqueue(name) == commands' = Append(commands, [name |-> name, epoch |-> epoch])

Event(kind) ==
  /\ kind \in Faults /\ inputs < MaxInputs /\ pc # "end"
  /\ inputs' = inputs + 1
  /\ UNCHANGED <<state, demo, thread, devices, expectedExit, epoch, faults>>

\* on_fatal of the log thread
CameraFatalLine ==
  /\ Event("camera") /\ Alive
  /\ camera' = "faulty" /\ Enqueue("realsense_fatal") /\ UNCHANGED unread

CameraExits ==
  /\ Event("exit") /\ Alive
  /\ camera' = "dead" /\ unread' = unread + 1 /\ UNCHANGED commands

\* on_fatal of a receiver, on_disconnect of a UDS client
ReceiverFails == Event("fatal") /\ Enqueue("fatal") /\ UNCHANGED <<camera, unread>>

\* Mutant: an exit that was expected stays expected.
ReportExitKept ==
  /\ unread > 0 /\ unread' = unread - 1
  /\ IF expectedExit THEN UNCHANGED commands ELSE Enqueue("process_exit")
  /\ UNCHANGED <<state, demo, thread, devices, expectedExit, epoch, camera, bounds>>

\* _on_process_exit
ReportExit ==
  /\ unread > 0 /\ unread' = unread - 1
  /\ IF expectedExit THEN UNCHANGED commands ELSE Enqueue("process_exit")
  /\ expectedExit' = FALSE
  /\ UNCHANGED <<state, demo, thread, devices, epoch, camera, bounds>>

-----------------------------------------------------------------------------
\* InputThread, which starts after startup.
Type(key) ==
  /\ inputs < MaxInputs /\ pc # "end" /\ state \notin {"STARTING_SERVICES", "INIT"}
  /\ inputs' = inputs + 1
  /\ Enqueue(key)
  /\ UNCHANGED <<state, demo, thread, devices, process, faults>>

\* KeyboardInterrupt: the handler of run() aborts or stops; one in that handler leads to the
\* finally clause, and one there leaves run().
Interrupt ==
  /\ "interrupt" \in Faults /\ pc # "end"
  /\ \/ frame = "try" /\ frame' = "except" /\ AbortOrStop(state)
     \/ frame = "except" /\ frame' = "finally" /\ BeginStop(TRUE)
     \/ frame = "finally" /\ frame' = frame /\ pc' = "end" /\ UNCHANGED <<state, todo, failed>>
  /\ UNCHANGED <<commands, demo, newDemo, devices, process, bounds>>

\* The finally clause of run().
Leave ==
  /\ pc = "leave"
  /\ \/ /\ state = "STOPPED" \/ frame = "finally"
        /\ pc' = "end" /\ UNCHANGED <<state, todo, failed, frame>>
     \/ /\ state # "STOPPED" /\ frame # "finally"
        /\ frame' = "finally" /\ BeginStop(TRUE)
  /\ UNCHANGED <<commands, demo, newDemo, devices, process, bounds>>

Main ==
  \/ StartServices \/ StopBootstrap \/ StartupReady
  \/ Reject \/ StartOrResume \/ PauseDemo \/ FinishDemo \/ DiscardDemo \/ Quit
  \/ UnrecoverableFatal \/ RealsenseFatal \/ Leave
  \/ CommandDevice \/ StartSensor \/ CheckImages \/ RecordBag \/ ResumeBag \/ RolledBack
  \/ Paused \/ Finished \/ Discarded \/ Aborted
  \/ StopCamera \/ RelaunchCamera \/ CameraReady \/ Teardown

Environment ==
  \/ \E key \in Keys : Type(key)
  \/ CameraFatalLine \/ CameraExits \/ ReceiverFails \/ Interrupt

Next == Main \/ ReportExit \/ Environment

Spec == Init /\ [][Next]_vars

\* The main thread runs, and every command to a device is bounded by a timeout; a log thread
\* sees its process exit.
FairSpec == Spec /\ WF_vars(Main) /\ WF_vars(ReportExit)

-----------------------------------------------------------------------------
(***************************************************************************)
(* Properties                                                              *)
(***************************************************************************)

Entries == [name : Keys \cup {"realsense_fatal", "process_exit", "fatal"}, epoch : Nat]

QueueType == commands \in Seq(Entries)

DemoType ==
  /\ state \in {"STARTING_SERVICES", "INIT", "WAIT_START", "COLLECTING", "PAUSED", "FINALIZING",
                "DISCARDING", "ERROR", "STOPPING", "STOPPED"}
  /\ demos \in 0..MaxInputs /\ store \in 0..demos
  /\ manifest \in [Demos -> {"none", "done", "failed", "discarded"}]
  /\ recordStarted \in BOOLEAN

ThreadType ==
  /\ pc \in {"services", "bootstrap", "ready", "loop", "start", "record", "resume", "restart",
             "relaunch", "readiness", "leave", "end"} \cup DOMAIN Request
  /\ todo \subseteq Devices /\ failed \subseteq Devices
  /\ newDemo \in BOOLEAN
  /\ frame \in {"try", "except", "finally"}

DeviceType ==
  /\ sensor \in [Sensors -> {"idle", "acquiring", "paused", "unacked", "unknown", "stopped",
                             "confused"}]
  /\ bag \in {"off", "bootstrap", "idle", "recording", "paused", "unacked", "unknown"}

ProcessType ==
  /\ camera \in {"off", "up", "faulty", "dead"}
  /\ unread \in Nat /\ expectedExit \in BOOLEAN /\ epoch \in Nat

\* Types: no more demos are created than keys are typed, and demo_store is one of them.
TypeOK ==
  /\ QueueType /\ DemoType /\ ThreadType /\ DeviceType /\ ProcessType
  /\ inputs \in 0..MaxInputs /\ faults \in 0..MaxFaults

\* Whenever the loop waits for a command, the devices are where the state says: collecting,
\* paused, or at rest with no demo.  (README.md 124-128: a transaction that does not succeed
\* stops the system lest the controller and the sensors disagree.)  The one thing allowed to
\* be undetermined is a START_REQ or a record that a new demo's start did not see confirmed.
ControllerMatchesDevices ==
  pc = "loop" =>
    /\ state = "COLLECTING" =>
         store # 0 /\ bag = "recording" /\ \A s \in Sensors : sensor[s] = "acquiring"
    /\ state = "PAUSED" =>
         store # 0 /\ bag = "paused" /\ \A s \in Sensors : sensor[s] = "paused"
    /\ state = "WAIT_START" =>
         /\ store = 0 /\ bag \in {"idle", "unacked"}
         /\ \A s \in Sensors : sensor[s] \in {"idle", "unacked"}

\* No sensor is ever sent a command its protocol does not allow, through any sequence of keys,
\* failures, restarts and interrupts.
NeverConfused == \A s \in Sensors : sensor[s] # "confused"

\* A demo's manifest says done only when both sensors have flushed and the recorder has stopped
\* (README.md 122), and what it says is never replaced: a demo that failed is not done later on.
ManifestTruthful ==
  [][\A d \in Demos :
       /\ manifest[d] # "none" => manifest'[d] = manifest[d]
       /\ manifest[d] # "done" /\ manifest'[d] = "done" =>
            bag = "idle" /\ \A s \in Sensors : sensor[s] = "idle"]_vars

\* A run that no Ctrl-C, no disk error and no exception of a loop over the drop monitors cuts
\* short (such a run ends in the "try" clause) leaves a manifest for every demo it created.
EveryDemoSettled == pc = "end" /\ frame = "try" => \A d \in 1..demos : manifest[d] # "none"

\* A RealSense process that died under the controller is never overlooked: its exit is still to
\* be reported or is in the queue.
LossIsReported ==
  pc = "loop" /\ state \in {"WAIT_START", "COLLECTING", "PAUSED"} /\ camera = "dead" =>
    unread > 0 \/ Queued("process_exit")

\* An unrecoverable fault, a lost process and a 'q' each end the run.
FatalEnds == Queued("fatal") \/ Queued("process_exit") \/ Queued("q") ~> pc = "end"

\* README.md 236: a fatal line in RealSense's output pauses the demo and restarts RealSense.
FaultyCameraIsNotUsed ==
  pc = "loop" /\ state = "COLLECTING" /\ commands = <<>> => camera # "faulty"

=============================================================================
