-------------------------- MODULE InferenceSession --------------------------
(***************************************************************************)
(* The inference MainController (main_controller/inference_controller.py)  *)
(* from the end of startup to the return of run(): the command loop, the   *)
(* fail-stop thread, the control receiver thread, the process reader       *)
(* thread and every other thread that reports a fault, interleaved at the  *)
(* granularity of the locks they take.                                     *)
(*                                                                         *)
(* A thread is at a label pc[t].  Code between two points where another    *)
(* thread can be observed (a lock taken, a wait, a read of the state       *)
(* followed by a separate write) is one action.  The LeRobot worker and    *)
(* the sensor and recorder processes are external: they are modelled by    *)
(* what the controller relies on.                                          *)
(***************************************************************************)
EXTENDS Naturals, Sequences

CONSTANTS
  MaxRollouts,  \* bound: rollouts a session starts
  Faults        \* the external events that may happen in this instance

FaultKinds ==
  { "report",    \* a sensor, ZMQ, process or watchdog thread reports a fatal fault
    "crash",     \* the worker dies
    "error",     \* the worker sends STATUS ERROR and tears down
    "reject",    \* the worker rejects a request its phase allows
    "complete",  \* the policy ends the rollout by itself (STATUS COMPLETED)
    "abort",     \* JUMP_HOLD, aligned stall or aligned not ready
    "sensor",    \* a sensor command is not acknowledged
    "rosbag",    \* a recorder service call fails
    "health",    \* the aligned header is fatal, not ready, or never advances
    "disk",      \* writing a rollout or the session manifest fails
    "slow",      \* a bounded wait for the worker or for a thread times out
    "interrupt"  \* SIGINT reaches the main thread
  }

ASSUME SessionAssumption ==
  /\ MaxRollouts \in Nat \ {0}
  /\ Faults \subseteq FaultKinds

VARIABLES
  state,              \* self.state
  mode,               \* self.termination_mode
  failStopRequested,  \* self._fail_stop_requested
  resourcesStopped,   \* self._resources_stopped
  sessionManifest,    \* the termination_mode session_manifest.json records, or "none"
  terminationLock,    \* holder of self._termination_lock across actions
  recordingLock,      \* holder of self._recording_lock across actions
  finalizeLock,       \* holder of self._finalize_lock
  commands,           \* self.commands
  rolloutIndex,       \* self.rollout_index
  store,              \* rollout of self.rollout_store, 0 when it is None
  rolloutManifest,    \* status in rollout_<i>/manifest.json, or "none"
  activeSensors,      \* keys of self._active_sensor_clients
  sensor,             \* what each sensor process was last known to do
  recorder,           \* what the rosbag recorder was last known to do
  expectedExit,       \* 'lerobot' in self.expected_process_exits
  exitReported,       \* the reader thread of the worker process has ended
  phase,              \* external: lifecycle phase of the LeRobot worker
  inbox,              \* requests on the wire to the worker
  outbox,             \* responses on the wire to the controller
  connected,          \* external: the worker's end of the control socket is open
  acks,               \* ControlledClient._acks, for the last request of each operation
  statuses,           \* statuses since after_index of the running transaction
  fatalSeen,          \* a FAIL_STOPPING or ERROR status was received
  disconnected,       \* ControlledClient._disconnected
  closed,             \* ControlledClient.close() was called
  shutdownSent,       \* self._shutdown_sequence is not None
  callback,           \* status the receiver thread is about to hand to on_status
  pc, ret,            \* label of each thread; where it resumes after request_fail_stop
  op                  \* operation of the command the main thread executes

session   == <<state, mode, failStopRequested, resourcesStopped, sessionManifest>>
locks     == <<terminationLock, recordingLock, finalizeLock>>
recording == <<rolloutIndex, store, rolloutManifest, activeSensors, sensor, recorder>>
process   == <<expectedExit, exitReported>>
worker    == <<phase, inbox, outbox, connected>>
client    == <<acks, statuses, fatalSeen, disconnected, closed, shutdownSent, callback>>
threads   == <<pc, ret, op>>
vars      == <<session, locks, commands, recording, process, worker, client, threads>>

\* What an action leaves alone when it only moves a thread, records a rollout, or requests a
\* fail-stop; what a worker action leaves alone.
ButThreads  == <<session, locks, commands, recording, process, worker, client>>
ButRecorded == <<session, locks, commands, process, worker, client>>
ButWorker   == <<session, locks, commands, recording, process, client, threads>>
teardown    == <<resourcesStopped, sessionManifest>>

-----------------------------------------------------------------------------
States ==
  { "WAIT_START", "INITIALIZING", "READY", "STARTING", "RUNNING", "STOPPING_ROLLOUT",
    "ABORTING", "SHUTTING_DOWN", "FAIL_STOPPING", "STOPPED" }

Sensors    == {"ft300", "xense"}
Operations == {"INITIALIZE", "START", "STOP", "ABORT", "SHUTDOWN", "FAIL_STOP"}
Ordinary   == {"INITIALIZE", "START", "STOP", "ABORT"}
Completion == [INITIALIZE |-> "INITIALIZED", START |-> "STARTED",
               STOP |-> "STOPPED", ABORT |-> "ABORTED"]
Statuses   == {"INITIALIZED", "STARTED", "STOPPED", "ABORTED", "COMPLETED",
               "FAIL_STOPPING", "ERROR"}

\* The threads that run controller code, and the ones of them that finalize.
Threads    == {"main", "failstop", "receiver", "reader", "reporter"}
Finalizers == {"main", "failstop"}

Exited      == {"EXITED_CLEAN", "EXITED_FAULT"}
WorkerAlive == phase \notin Exited

\* Commands on self.commands: the action and the state it was received in.
Command(name, from) == [name |-> name, from |-> from]

Ack(o, ok) == [kind |-> "ack", name |-> o, ok |-> ok]
Status(s)  == [kind |-> "status", name |-> s, ok |-> TRUE]

\* Thread t moves to a label; it does nothing else.
Goto(t, label) == pc' = [pc EXCEPT ![t] = label] /\ UNCHANGED <<ret, op>>
Step(t, label) == Goto(t, label) /\ UNCHANGED ButThreads

(***************************************************************************)
(* request_fail_stop: the flag is set before the termination lock is       *)
(* taken, so a thread may be seen between the two.                         *)
(***************************************************************************)
RaiseFailStop(t, resumeAt) ==
  /\ failStopRequested' = TRUE
  /\ pc' = [pc EXCEPT ![t] = "rfs"]
  /\ ret' = [ret EXCEPT ![t] = resumeAt]
  /\ UNCHANGED <<state, mode, teardown, op>>

\* A thread that does nothing but request a fail-stop.
FailStopFrom(t, resumeAt) ==
  /\ RaiseFailStop(t, resumeAt)
  /\ UNCHANGED <<locks, commands, recording, process, worker, client>>

\* Mutant: the test for a session that is already STOPPED is missing.
EstablishFailStopAfterEnd(t) ==
  /\ pc[t] = "rfs"
  /\ terminationLock = "free"
  /\ ret' = [ret EXCEPT ![t] = "idle"]
  /\ mode' = "FAIL_STOP"
  /\ state' = IF state = "STOPPED" THEN state ELSE "FAIL_STOPPING"
  /\ pc' = IF mode = "FAIL_STOP" THEN [pc EXCEPT ![t] = ret[t]]
           ELSE [pc EXCEPT ![t] = ret[t], !["failstop"] = "fs_record"]
  /\ UNCHANGED <<failStopRequested, teardown, op, locks, commands, recording, process,
                 worker, client>>

\* Mutant: promoting a SHUTDOWN does not start the fail-stop thread.
EstablishFailStopNoThread(t) ==
  /\ pc[t] = "rfs"
  /\ terminationLock = "free"
  /\ ret' = [ret EXCEPT ![t] = "idle"]
  /\ pc' = IF mode = "None" /\ state # "STOPPED"
           THEN [pc EXCEPT ![t] = ret[t], !["failstop"] = "fs_record"]
           ELSE [pc EXCEPT ![t] = ret[t]]
  /\ mode' = IF state = "STOPPED" THEN mode ELSE "FAIL_STOP"
  /\ state' = IF state = "STOPPED" \/ mode = "FAIL_STOP" THEN state ELSE "FAIL_STOPPING"
  /\ UNCHANGED <<failStopRequested, teardown, op, locks, commands, recording, process,
                 worker, client>>

EstablishFailStop(t) ==
  /\ pc[t] = "rfs"
  /\ terminationLock = "free"
  /\ ret' = [ret EXCEPT ![t] = "idle"]
  /\ \/ /\ state = "STOPPED" \/ mode = "FAIL_STOP"
        /\ pc' = [pc EXCEPT ![t] = ret[t]]
        /\ UNCHANGED <<state, mode>>
     \/ /\ state # "STOPPED" /\ mode # "FAIL_STOP"
        /\ mode' = "FAIL_STOP"
        /\ state' = "FAIL_STOPPING"
        /\ pc' = [pc EXCEPT ![t] = ret[t], !["failstop"] = "fs_record"]
  /\ UNCHANGED <<failStopRequested, teardown, op, locks, commands, recording, process,
                 worker, client>>

\* The condition of _ensure_session_not_terminating, read under the termination lock.
Terminating == failStopRequested \/ mode # "None" \/ resourcesStopped

-----------------------------------------------------------------------------
(***************************************************************************)
(* Admission: the input thread, the watchdog and ZMQ threads.              *)
(***************************************************************************)
Transitions ==
  { <<"initialize", "WAIT_START", "INITIALIZING">>,
    <<"start",      "READY",      "STARTING">>,
    <<"stop",       "RUNNING",    "STOPPING_ROLLOUT">>,
    <<"abort",      "RUNNING",    "ABORTING">>,
    <<"shutdown",   "RUNNING",    "SHUTTING_DOWN">>,
    <<"shutdown",   "WAIT_START", "SHUTTING_DOWN">>,
    <<"shutdown",   "READY",      "SHUTTING_DOWN">> }

\* Mutant: the command is queued without reserving the state.
AdmitUnreserved(name, from, to) ==
  /\ state = from
  /\ commands' = Append(commands, Command(name, from))
  /\ UNCHANGED <<session, locks, recording, process, worker>>

\* The state is compared, changed and the command queued under the state lock.
Admit(name, from, to) ==
  /\ state = from
  /\ state' = to
  /\ commands' = Append(commands, Command(name, from))
  /\ UNCHANGED <<mode, failStopRequested, teardown, locks, recording, process, worker>>

AdmitUserAction ==
  /\ \E t \in Transitions :
       /\ t[1] = "start" => rolloutIndex < MaxRollouts
       /\ Admit(t[1], t[2], t[3])
  /\ UNCHANGED <<client, threads>>

RequestRolloutAbort ==
  /\ "abort" \in Faults
  /\ Admit("recoverable_abort", "RUNNING", "ABORTING")
  /\ UNCHANGED <<client, threads>>

\* _on_uds_event ERROR, _on_uds_disconnect, the ZMQ fatal callback, _on_process_fatal,
\* the unexpected exit of another process, a failed read in _watchdog_loop.  Once one fault
\* is requested a further report changes nothing, so only the first is modelled.
ReportFault ==
  /\ "report" \in Faults
  /\ pc["reporter"] = "idle"
  /\ ~failStopRequested
  /\ FailStopFrom("reporter", "idle")

\* _on_process_exit('lerobot'), called once by the reader thread of the process.
WorkerExitCallback ==
  /\ pc["reader"] = "idle"
  /\ ~WorkerAlive /\ ~exitReported
  /\ exitReported' = TRUE
  /\ \/ /\ expectedExit
        /\ expectedExit' = FALSE
        /\ UNCHANGED <<session, threads>>
     \/ /\ ~expectedExit
        /\ RaiseFailStop("reader", "idle")
        /\ UNCHANGED expectedExit
  /\ UNCHANGED <<locks, commands, recording, worker, client>>

-----------------------------------------------------------------------------
(***************************************************************************)
(* The control socket as the controller uses it.                           *)
(***************************************************************************)

\* ControlledClient.send reaching a worker whose end of the socket is open.
PutRequest(o) ==
  /\ inbox' = Append(inbox, o)
  /\ acks' = [acks EXCEPT ![o] = "none"]

(***************************************************************************)
(* The send half of ControlledClient.transact on the main thread.  When    *)
(* sendall fails, the first thread to notice runs _on_control_disconnect   *)
(* itself, which here always requests a fail-stop: no ordinary request is  *)
(* sent once a SHUTDOWN has been.                                          *)
(***************************************************************************)
TransactSend(at, next, fail) ==
  /\ pc["main"] = at
  /\ op \in Ordinary
  /\ \/ /\ connected /\ ~closed
        /\ PutRequest(op)
        /\ statuses' = {}
        /\ Goto("main", next)
        /\ UNCHANGED <<session, disconnected>>
     \/ /\ ~connected \/ closed
        /\ closed \/ disconnected
        /\ Goto("main", fail)
        /\ UNCHANGED <<session, disconnected, inbox, acks, statuses>>
     \/ /\ ~connected /\ ~closed /\ ~disconnected
        /\ disconnected' = TRUE
        /\ RaiseFailStop("main", fail)
        /\ UNCHANGED <<inbox, acks, statuses>>
  /\ UNCHANGED <<locks, commands, recording, process, phase, outbox, connected, fatalSeen,
                 closed, shutdownSent, callback>>

\* The ways a running transaction ends: a negative ACK, a completion STATUS, an exception.
Rejected == acks[op] = "rejected"
\* Mutant: a positive ACK is taken for the completion.
SettledByAck == acks[op] = "accepted"

Settled == acks[op] = "accepted" /\ Completion[op] \in statuses

Broken ==
  \/ acks[op] = "none" /\ disconnected
  \/ /\ acks[op] = "accepted" /\ Completion[op] \notin statuses
     /\ "ERROR" \in statuses \/ disconnected
  \/ "interrupt" \in Faults

\* The waiting half, for the handlers that treat a negative ACK as an error.
TransactWait(at, next, fail) ==
  /\ pc["main"] = at
  /\ \/ Settled /\ Step("main", next)
     \/ /\ Rejected \/ Broken
        /\ Step("main", fail)

-----------------------------------------------------------------------------
(***************************************************************************)
(* Recording.  Every operation runs under the recording lock, so the loop  *)
(* over the sensors and the recorder call are one action: the controller   *)
(* talks to one sensor at a time and no other thread reads in between.     *)
(***************************************************************************)
Unacknowledged(S) == {F \in SUBSET S : F # {} => "sensor" \in Faults}

\* Mutant: an acknowledged sensor is not removed from the active ones.
FinalizeSensorsKept(failed) ==
  /\ UNCHANGED activeSensors
  /\ sensor' = [s \in Sensors |-> IF s \in failed THEN "unknown"
                                  ELSE IF s \in activeSensors THEN "idle" ELSE sensor[s]]

\* DEMO_DONE_REQ or DEMO_DISCARD_REQ to every active sensor; those in failed stay active.
FinalizeSensors(failed) ==
  /\ activeSensors' = failed
  /\ sensor' = [s \in Sensors |-> IF s \in failed THEN "unknown"
                                  ELSE IF s \in activeSensors THEN "idle" ELSE sensor[s]]

\* Mutant: the store is not released after its manifest is written.
FinishRecordingKept(status, errors) ==
  /\ store # 0 => rolloutManifest' = [rolloutManifest EXCEPT ![store] =
                                        IF errors THEN "failed" ELSE status]
  /\ store = 0 => UNCHANGED rolloutManifest
  /\ \E failed \in Unacknowledged(activeSensors) :
       FinalizeSensors(failed) /\ (errors <=> failed # {})
  /\ recorder' = "idle"
  /\ UNCHANGED <<rolloutIndex, store>>

(***************************************************************************)
(* _finish_recording_locked(status, ...); errors says whether it raises.   *)
(* With no open store it does nothing.  When writing to disk fails the     *)
(* store stays open and there is no manifest.                              *)
(***************************************************************************)
FinishRecording(status, errors) ==
  \/ /\ store = 0 /\ ~errors
     /\ UNCHANGED recording
  \/ /\ store # 0
     /\ UNCHANGED rolloutIndex
     /\ \E failed \in Unacknowledged(activeSensors),
           bag \in {"idle"} \cup (IF "rosbag" \in Faults THEN {"unknown"} ELSE {}) :
          /\ FinalizeSensors(failed)
          /\ recorder' = bag
          /\ \/ /\ errors <=> (failed # {} \/ bag = "unknown")
                /\ store' = 0
                /\ rolloutManifest' = [rolloutManifest EXCEPT
                                         ![store] = IF errors THEN "failed" ELSE status]
             \/ /\ "disk" \in Faults /\ errors
                /\ UNCHANGED <<store, rolloutManifest>>

\* _fail_recording_best_effort: the error of _finish_recording is logged and swallowed.
FailRecordingBestEffort == \E errors \in BOOLEAN : FinishRecording("failed", errors)

\* _discard_active_sensors_locked after a failed sensor START.
DiscardActiveSensors ==
  /\ \E failed \in Unacknowledged(activeSensors) : FinalizeSensors(failed)
  /\ UNCHANGED <<rolloutIndex, store, rolloutManifest, recorder>>

-----------------------------------------------------------------------------
(***************************************************************************)
(* Main thread: run() and handle_command().                                *)
(***************************************************************************)

\* The loop condition and commands.get(timeout=0.2) are separate reads.
MainLoop ==
  /\ pc["main"] = "loop"
  /\ Step("main", IF state = "STOPPED" THEN "exit_join" ELSE "get")

Handler == [initialize |-> "init_send", start |-> "start_begin", stop |-> "fin_send",
            abort |-> "fin_send", recoverable_abort |-> "fin_send",
            shutdown |-> "sd_mode", rollout_completed |-> "comp_check"]

\* The first ordinary request of the handler, if it sends one.
Requests == [initialize |-> "INITIALIZE", start |-> "START", stop |-> "STOP",
             abort |-> "ABORT", recoverable_abort |-> "ABORT"]

HandlerOperation(c) ==
  IF c.name \in DOMAIN Requests THEN Requests[c.name]
  ELSE IF c.name = "shutdown" /\ c.from = "RUNNING" THEN "STOP" ELSE "NONE"

GetCommand ==
  /\ pc["main"] = "get"
  /\ \/ commands = <<>> /\ Step("main", "loop")
     \/ /\ commands # <<>>
        /\ commands' = Tail(commands)
        /\ pc' = [pc EXCEPT !["main"] = Handler[Head(commands).name]]
        /\ op' = HandlerOperation(Head(commands))
        /\ UNCHANGED <<session, locks, recording, process, worker, client, ret>>

\* KeyboardInterrupt between commands or in the wait for the worker's exit; in the waits
\* of a handler that catches every exception it is one of the ways to be Broken.
Interrupt ==
  /\ "interrupt" \in Faults
  /\ pc["main"] \in {"loop", "get", "sd_wait"}
  /\ FailStopFrom("main", "exit_join")

(***************************************************************************)
(* The finally clause of run(): a bounded join of the fail-stop thread,    *)
(* then a last fail-stop request if the session is not STOPPED.            *)
(***************************************************************************)
FailStopThreadEnded == pc["failstop"] \in {"idle", "done"} \/ "slow" \in Faults

JoinFailStop ==
  /\ pc["main"] = "exit_join"
  /\ FailStopThreadEnded
  /\ \/ state = "STOPPED" /\ Step("main", "exited")
     \/ state # "STOPPED" /\ FailStopFrom("main", "exit_final")

ReturnFromRun ==
  /\ pc["main"] = "exit_final"
  /\ FailStopThreadEnded
  /\ Step("main", "exited")

-----------------------------------------------------------------------------
\* A handler reads the state, and writes it in a separate critical section.
CheckState(at, S, then, else) ==
  /\ pc["main"] = at
  /\ Step("main", IF state \in S THEN then ELSE else)

SetState(at, st) ==
  /\ pc["main"] = at
  /\ state' = st
  /\ Goto("main", "loop")
  /\ UNCHANGED <<mode, failStopRequested, teardown, locks, commands, recording, process,
                 worker, client>>

\* The except clause of a handler: request_fail_stop, then back to run().
HandlerFailed ==
  /\ pc["main"] = "raise_loop"
  /\ FailStopFrom("main", "loop")

(***************************************************************************)
(* _initialize_rollout.  A negative ACK stores WAIT_START whatever the     *)
(* state has become; READY is stored after a separate read of the state.   *)
(***************************************************************************)
InitializeSend == TransactSend("init_send", "init_wait", "raise_loop")

InitializeWait ==
  /\ pc["main"] = "init_wait"
  /\ \/ Rejected /\ Step("main", "init_reject")
     \/ Settled  /\ Step("main", "init_check")
     \/ Broken   /\ Step("main", "raise_loop")

InitializeRejected == SetState("init_reject", "WAIT_START")
InitializeCheck    == CheckState("init_check", {"INITIALIZING"}, "init_set", "loop")
InitializeSet      == SetState("init_set", "READY")

-----------------------------------------------------------------------------
(***************************************************************************)
(* _start_rollout holds the recording lock from the first to the last of   *)
(* these steps, across the START transaction and, when it fails, across    *)
(* request_fail_stop.                                                      *)
(***************************************************************************)
\* _begin_recording_locked up to the baseline read of the aligned header.
BeginRecording ==
  /\ pc["main"] = "start_begin"
  /\ recordingLock = "free"
  /\ recordingLock' = "main"
  /\ rolloutIndex' = rolloutIndex + 1
  /\ \/ /\ "disk" \in Faults
        /\ UNCHANGED store
        /\ Goto("main", "start_fail")
     \/ /\ store' = rolloutIndex + 1
        /\ \/ activeSensors = {} /\ Goto("main", "sensor_check")
           \/ /\ activeSensors # {} \/ "health" \in Faults \* already active, or no baseline
              /\ Goto("main", "start_fail")
  /\ UNCHANGED <<session, terminationLock, finalizeLock, commands, rolloutManifest,
                 activeSensors, sensor, recorder, process, worker, client>>

\* Mutant: sensors are started without looking at the termination intent.
SensorCheckUnguarded ==
  /\ pc["main"] = "sensor_check"
  /\ terminationLock = "free"
  /\ Goto("main", IF activeSensors = Sensors THEN "start_rearm" ELSE "sensor_start")
  /\ UNCHANGED <<recording, ButRecorded>>

\* _ensure_session_not_terminating before each sensor START and after each ACK.
SensorCheck ==
  /\ pc["main"] = "sensor_check"
  /\ terminationLock = "free"
  /\ \/ /\ Terminating
        /\ DiscardActiveSensors
        /\ Goto("main", "start_fail")
     \/ /\ ~Terminating
        /\ Goto("main", IF activeSensors = Sensors THEN "start_rearm" ELSE "sensor_start")
        /\ UNCHANGED recording
  /\ UNCHANGED ButRecorded

\* START_REQ to FT300S, then to Xense; a missing ACK rolls the started sensors back.
SensorStart ==
  /\ pc["main"] = "sensor_start"
  /\ LET s == IF "ft300" \notin activeSensors THEN "ft300" ELSE "xense" IN
     \/ /\ activeSensors' = activeSensors \cup {s}
        /\ sensor' = [sensor EXCEPT ![s] = "acquiring"]
        /\ Goto("main", "sensor_check")
     \/ /\ "sensor" \in Faults
        /\ \E failed \in SUBSET activeSensors :
             /\ activeSensors' = failed
             /\ sensor' = [r \in Sensors |->
                             IF r = s \/ r \in failed THEN "unknown"
                             ELSE IF r \in activeSensors THEN "idle" ELSE sensor[r]]
        /\ Goto("main", "start_fail")
  /\ UNCHANGED <<ButRecorded, rolloutIndex, store, rolloutManifest, recorder>>

\* _wait_for_fresh_aligned_snapshot: a fresh header, a failed one, or the timeout.
Rearm ==
  /\ pc["main"] = "start_rearm"
  /\ terminationLock = "free"
  /\ \/ /\ ~Terminating /\ state = "STARTING"
        /\ Step("main", "start_record")
     \/ /\ Terminating \/ state # "STARTING" \/ "health" \in Faults
        /\ Step("main", "start_fail")

\* rosbag record, then resume.
StartRecorder ==
  /\ pc["main"] = "start_record"
  /\ \/ recorder' = "recording" /\ Goto("main", "start_gate")
     \/ /\ "rosbag" \in Faults
        /\ recorder' = "unknown"
        /\ Goto("main", "start_fail")
  /\ UNCHANGED <<ButRecorded, rolloutIndex, store, rolloutManifest, activeSensors, sensor>>

\* The last look at the session before START: afterwards nothing is re-read.
StartGate ==
  /\ pc["main"] = "start_gate"
  /\ terminationLock = "free"
  /\ Step("main", IF ~Terminating /\ state = "STARTING" THEN "start_send" ELSE "start_fail")

StartSend  == TransactSend("start_send", "start_wait", "start_fail")
StartWait  == TransactWait("start_wait", "start_check", "start_fail")
StartCheck == CheckState("start_check", {"STARTING"}, "start_set", "start_release")

\* set_state(RUNNING) and _start_watchdog.
StartSet ==
  /\ pc["main"] = "start_set"
  /\ state' = "RUNNING"
  /\ Goto("main", "start_release")
  /\ UNCHANGED <<mode, failStopRequested, teardown, locks, commands, recording, process,
                 worker, client>>

\* The except clause: the recording is failed, then request_fail_stop.
StartFailed ==
  /\ pc["main"] = "start_fail"
  /\ FailRecordingBestEffort
  /\ RaiseFailStop("main", "start_release")
  /\ UNCHANGED <<locks, commands, process, worker, client>>

\* Mutant: the recording lock is not released when START fails.
ReleaseRecordingForgotten ==
  /\ pc["main"] = "start_release"
  /\ recordingLock' = IF state = "RUNNING" THEN "free" ELSE recordingLock
  /\ Goto("main", "loop")
  /\ UNCHANGED <<session, terminationLock, finalizeLock, commands, recording, process,
                 worker, client>>

ReleaseRecording ==
  /\ pc["main"] = "start_release"
  /\ recordingLock' = "free"
  /\ Goto("main", "loop")
  /\ UNCHANGED <<session, terminationLock, finalizeLock, commands, recording, process,
                 worker, client>>

-----------------------------------------------------------------------------
(***************************************************************************)
(* _finish_rollout_transaction for STOP and ABORT, and the handler of      *)
(* rollout_completed, which sends nothing.                                 *)
(***************************************************************************)
\* _finish_recording as a handler calls it, blocking on the recording lock.
RecordAndGoto(at, status, done, fail) ==
  /\ pc["main"] = at
  /\ recordingLock = "free"
  /\ \E errors \in BOOLEAN :
       /\ FinishRecording(status, errors)
       /\ Goto("main", IF errors THEN fail ELSE done)
  /\ UNCHANGED ButRecorded

FinishSend   == TransactSend("fin_send", "fin_wait", "fin_fail")
FinishWait   == TransactWait("fin_wait", "fin_record", "fin_fail")
FinishRecord ==
  RecordAndGoto("fin_record", IF op = "STOP" THEN "done" ELSE "failed", "fin_check", "fin_fail")
FinishCheck  == CheckState("fin_check", {"ABORTING", "STOPPING_ROLLOUT"}, "fin_set", "loop")
FinishSet    == SetState("fin_set", "WAIT_START")
FinishFailed == RecordAndGoto("fin_fail", "failed", "raise_loop", "raise_loop")

CompletedCheck  == CheckState("comp_check", {"STOPPING_ROLLOUT"}, "comp_record", "loop")
CompletedRecord == RecordAndGoto("comp_record", "done", "comp_set", "raise_loop")
CompletedSet    == SetState("comp_set", "WAIT_START")

-----------------------------------------------------------------------------
(***************************************************************************)
(* _execute_shutdown.  op is STOP when the shutdown was received RUNNING.  *)
(***************************************************************************)
ShutdownBegin ==
  /\ pc["main"] = "sd_mode"
  /\ terminationLock = "free"
  /\ \/ mode # "None" /\ Step("main", "loop")
     \/ /\ mode = "None"
        /\ mode' = "SHUTDOWN"
        /\ shutdownSent' = FALSE
        /\ Goto("main", IF op = "STOP" THEN "sd_stop_send" ELSE "sd_send")
        /\ UNCHANGED <<state, failStopRequested, teardown, locks, commands, recording,
                       process, worker, acks, statuses, fatalSeen, disconnected, closed,
                       callback>>

ShutdownStopSend == TransactSend("sd_stop_send", "sd_stop_wait", "raise_loop")
ShutdownStopWait == TransactWait("sd_stop_wait", "sd_record", "raise_loop")
ShutdownRecord   == RecordAndGoto("sd_record", "done", "sd_send", "raise_loop")

(***************************************************************************)
(* send('SHUTDOWN') runs inside the termination lock.  When sendall fails  *)
(* and this thread is the first to notice, _on_control_disconnect asks for *)
(* the same non-reentrant lock on the same thread.                         *)
(***************************************************************************)
ShutdownSend ==
  /\ pc["main"] = "sd_send"
  /\ terminationLock = "free"
  /\ \/ /\ mode # "SHUTDOWN" \/ failStopRequested
        /\ Goto("main", "loop")
        /\ UNCHANGED <<terminationLock, inbox, acks, disconnected, shutdownSent>>
     \/ /\ mode = "SHUTDOWN" /\ ~failStopRequested
        /\ connected /\ ~closed
        /\ PutRequest("SHUTDOWN")
        /\ shutdownSent' = TRUE
        /\ Goto("main", "sd_ack")
        /\ UNCHANGED <<terminationLock, disconnected>>
     \/ /\ mode = "SHUTDOWN" /\ ~failStopRequested
        /\ ~connected \/ closed
        /\ closed \/ disconnected
        /\ Goto("main", "raise_loop")
        /\ UNCHANGED <<terminationLock, inbox, acks, disconnected, shutdownSent>>
     \/ /\ mode = "SHUTDOWN" /\ ~failStopRequested
        /\ ~connected /\ ~closed /\ ~disconnected
        /\ disconnected' = TRUE
        /\ terminationLock' = "main"
        /\ Goto("main", "sd_deadlock")
        /\ UNCHANGED <<inbox, acks, shutdownSent>>
  /\ UNCHANGED <<session, recordingLock, finalizeLock, commands, recording, process, phase,
                 outbox, connected, statuses, fatalSeen, closed, callback>>

\* wait_for_ack has no timeout.
ShutdownAckWait ==
  /\ pc["main"] = "sd_ack"
  /\ \/ acks["SHUTDOWN"] = "accepted" /\ Step("main", "sd_exit")
     \/ acks["SHUTDOWN"] = "rejected" /\ Step("main", "sd_reject")
     \/ /\ (acks["SHUTDOWN"] = "none" /\ disconnected) \/ "interrupt" \in Faults
        /\ Step("main", "raise_loop")

\* Mutant: a negative ACK withdraws the intent without looking at what it has become.
ShutdownRejectedUnchecked ==
  /\ pc["main"] = "sd_reject"
  /\ terminationLock = "free"
  /\ mode' = "None"
  /\ shutdownSent' = FALSE
  /\ state' = IF state = "SHUTTING_DOWN" THEN "WAIT_START" ELSE state
  /\ Goto("main", "loop")
  /\ UNCHANGED <<failStopRequested, teardown, locks, commands, recording, process, worker,
                 acks, statuses, fatalSeen, disconnected, closed, callback>>

\* A negative ACK withdraws the shutdown only while it is still the intent.
ShutdownRejected ==
  /\ pc["main"] = "sd_reject"
  /\ terminationLock = "free"
  /\ \/ /\ mode # "SHUTDOWN" \/ failStopRequested
        /\ UNCHANGED <<state, mode, shutdownSent>>
     \/ /\ mode = "SHUTDOWN" /\ ~failStopRequested
        /\ mode' = "None"
        /\ shutdownSent' = FALSE
        /\ state' = IF state = "SHUTTING_DOWN" THEN "WAIT_START" ELSE state
  /\ Goto("main", "loop")
  /\ UNCHANGED <<failStopRequested, teardown, locks, commands, recording, process, worker,
                 acks, statuses, fatalSeen, disconnected, closed, callback>>

-----------------------------------------------------------------------------
(***************************************************************************)
(* _wait_for_worker_exit, on the main thread after a positive ACK and on   *)
(* the fail-stop thread.                                                   *)
(***************************************************************************)
ExpectWorkerExit(t) ==
  /\ pc[t] = "sd_exit"
  /\ expectedExit' = TRUE
  /\ Goto(t, "sd_wait")
  /\ UNCHANGED <<session, locks, commands, recording, exitReported, worker, client>>

\* Mutant: the timeout of the wait does not force the worker to terminate.
WorkerExitWaitUnforced(t) ==
  /\ pc[t] = "sd_wait"
  /\ \/ ~WorkerAlive /\ Step(t, "sd_rc")
     \/ /\ WorkerAlive /\ "slow" \in Faults
        /\ \/ mode = "SHUTDOWN" /\ FailStopFrom(t, "sd_final")
           \/ mode # "SHUTDOWN" /\ Step(t, "sd_final")

WorkerExitWait(t) ==
  /\ pc[t] = "sd_wait"
  /\ \/ ~WorkerAlive /\ Step(t, "sd_rc")
     \/ /\ WorkerAlive /\ "slow" \in Faults
        /\ \/ mode = "SHUTDOWN" /\ FailStopFrom(t, "sd_kill")
           \/ mode # "SHUTDOWN" /\ Step(t, "sd_kill")

\* process.stop(): SIGINT, SIGTERM, SIGKILL.
ForceTerminate(t) ==
  /\ pc[t] = "sd_kill"
  /\ phase' = IF WorkerAlive THEN "EXITED_FAULT" ELSE phase
  /\ connected' = FALSE
  /\ Goto(t, "sd_rc")
  /\ UNCHANGED <<session, locks, commands, recording, process, inbox, outbox, client>>

CheckReturnCode(t) ==
  /\ pc[t] = "sd_rc"
  /\ \/ mode = "SHUTDOWN" /\ phase # "EXITED_CLEAN" /\ FailStopFrom(t, "sd_final")
     \/ /\ mode # "SHUTDOWN" \/ phase = "EXITED_CLEAN"
        /\ Step(t, "sd_final")

\* The main thread leaves a promoted shutdown to the fail-stop thread.
WorkerExitDone(t) ==
  /\ pc[t] = "sd_final"
  /\ Step(t, IF t = "main" /\ mode = "FAIL_STOP" THEN "loop" ELSE "f_lock")

-----------------------------------------------------------------------------
\* Mutant: the fail-stop thread leaves the recording to the main thread.
FailStopRecordSkipped ==
  /\ pc["failstop"] = "fs_record"
  /\ Step("failstop", "fs_deliver")

(***************************************************************************)
(* _execute_fail_stop.  Retransmissions that meet an unread FAIL_STOP on   *)
(* the wire are not repeated in inbox: the worker acts on the first one.   *)
(***************************************************************************)
FailStopRecord ==
  /\ pc["failstop"] = "fs_record"
  /\ recordingLock = "free"
  /\ FailRecordingBestEffort
  /\ Goto("failstop", "fs_deliver")
  /\ UNCHANGED ButRecorded

FailStopQueued == \E i \in DOMAIN inbox : inbox[i] = "FAIL_STOP"

FailStopDeliver ==
  /\ pc["failstop"] = "fs_deliver"
  /\ \/ /\ ~WorkerAlive
        /\ Goto("failstop", "f_lock")
        /\ UNCHANGED <<inbox, acks, disconnected>>
     \/ /\ WorkerAlive
        /\ disconnected \/ closed \/ ~connected
        /\ disconnected' = (disconnected \/ ~closed)
        /\ Goto("failstop", "sd_exit")
        /\ UNCHANGED <<inbox, acks>>
     \/ /\ WorkerAlive /\ ~disconnected /\ ~closed /\ connected
        /\ \/ FailStopQueued /\ UNCHANGED <<inbox, acks>>
           \/ ~FailStopQueued /\ PutRequest("FAIL_STOP")
        /\ Goto("failstop", "fs_poll")
        /\ UNCHANGED disconnected
  /\ UNCHANGED <<session, locks, commands, recording, process, phase, outbox, connected,
                 statuses, fatalSeen, closed, shutdownSent, callback>>

DeliveryConfirmed == acks["FAIL_STOP"] = "accepted" \/ fatalSeen \/ ~WorkerAlive

\* The polling loop of one transmission: evidence of delivery, or the retry interval ends.
FailStopPoll ==
  /\ pc["failstop"] = "fs_poll"
  /\ Step("failstop", IF ~DeliveryConfirmed THEN "fs_deliver"
                      ELSE IF WorkerAlive THEN "sd_exit" ELSE "f_lock")

-----------------------------------------------------------------------------
(***************************************************************************)
(* _finalize_session and _stop_runtime_resources, on either thread.        *)
(***************************************************************************)
AfterFinalize(t) == IF t = "main" THEN "loop" ELSE "done"

FinalizeBegin(t) ==
  /\ pc[t] = "f_lock"
  /\ finalizeLock = "free"
  /\ \/ state = "STOPPED" /\ Step(t, AfterFinalize(t))
     \/ /\ state # "STOPPED"
        /\ finalizeLock' = t
        /\ Goto(t, "f_mark")
        /\ UNCHANGED <<session, terminationLock, recordingLock, commands, recording,
                       process, worker, client>>

MarkResourcesStopped(t) ==
  /\ pc[t] = "f_mark"
  /\ terminationLock = "free"
  /\ \/ resourcesStopped /\ Step(t, "f_manifest")
     \/ /\ ~resourcesStopped
        /\ resourcesStopped' = TRUE
        /\ expectedExit' = TRUE
        /\ Goto(t, "f_close")
        /\ UNCHANGED <<state, mode, failStopRequested, sessionManifest, locks, commands,
                       recording, exitReported, worker, client>>

CloseControl(t) ==
  /\ pc[t] = "f_close"
  /\ closed' = TRUE
  /\ Goto(t, "f_sensors")
  /\ UNCHANGED <<session, locks, commands, recording, process, worker, acks, statuses,
                 fatalSeen, disconnected, shutdownSent, callback>>

\* STOP_REQ to both sensors, then their clients, the receivers and the processes.
StopSensors(t) ==
  /\ pc[t] = "f_sensors"
  /\ recordingLock = "free"
  /\ \E failed \in Unacknowledged(Sensors) :
       sensor' = [s \in Sensors |-> IF s \in failed THEN "unknown" ELSE "stopped"]
  /\ activeSensors' = {}
  /\ Goto(t, "f_manifest")
  /\ UNCHANGED <<ButRecorded, rolloutIndex, store, rolloutManifest, recorder>>

(***************************************************************************)
(* The session manifest and STOPPED, under the termination lock.  When the *)
(* write fails the exception ends the fail-stop thread; on the main thread *)
(* it reaches run().                                                       *)
(***************************************************************************)
WriteSessionManifest(t) ==
  /\ pc[t] = "f_manifest"
  /\ terminationLock = "free"
  /\ finalizeLock' = "free"
  /\ \/ /\ sessionManifest' = mode
        /\ state' = "STOPPED"
        /\ Goto(t, AfterFinalize(t))
        /\ UNCHANGED <<mode, failStopRequested, resourcesStopped>>
     \/ /\ "disk" \in Faults /\ t = "main"
        /\ RaiseFailStop(t, "exit_join")
     \/ /\ "disk" \in Faults /\ t = "failstop"
        /\ Goto(t, "done")
        /\ UNCHANGED session
  /\ UNCHANGED <<terminationLock, recordingLock, commands, recording, process, worker, client>>

-----------------------------------------------------------------------------
(***************************************************************************)
(* The receiver thread of ControlledClient: it files a response, then runs *)
(* the callback of a status outside the condition's lock.                  *)
(***************************************************************************)
Deliver ==
  /\ pc["receiver"] = "recv" /\ ~closed /\ outbox # <<>>
  /\ outbox' = Tail(outbox)
  /\ LET m == Head(outbox) IN
     \/ /\ m.kind = "ack"
        /\ acks' = [acks EXCEPT ![m.name] = IF m.ok THEN "accepted" ELSE "rejected"]
        /\ UNCHANGED <<statuses, fatalSeen, callback, threads>>
     \/ /\ m.kind = "status"
        /\ statuses' = statuses \cup {m.name}
        /\ fatalSeen' = (fatalSeen \/ m.name \in {"FAIL_STOPPING", "ERROR"})
        /\ callback' = m.name
        /\ Goto("receiver", "status")
        /\ UNCHANGED acks
  /\ UNCHANGED <<session, locks, commands, recording, process, phase, inbox, connected,
                 disconnected, closed, shutdownSent>>

\* _on_control_status: COMPLETED is dropped unless the state is RUNNING.
StatusCallback ==
  /\ pc["receiver"] = "status"
  /\ callback' = "none"
  /\ \/ /\ callback = "ERROR"
        /\ RaiseFailStop("receiver", "recv")
        /\ UNCHANGED <<commands, locks, recording, process, worker>>
     \/ /\ callback = "COMPLETED"
        /\ Admit("rollout_completed", "RUNNING", "STOPPING_ROLLOUT")
        /\ Goto("receiver", "recv")
     \/ /\ callback # "ERROR" /\ (callback = "COMPLETED" => state # "RUNNING")
        /\ Goto("receiver", "recv")
        /\ UNCHANGED <<session, commands, locks, recording, process, worker>>
  /\ UNCHANGED <<acks, statuses, fatalSeen, disconnected, closed, shutdownSent>>

\* End of file: _mark_disconnected calls back once; after close() it is not called at all.
EndOfFile ==
  /\ pc["receiver"] = "recv"
  /\ \/ closed /\ Step("receiver", "done")
     \/ /\ ~closed /\ ~connected /\ outbox = <<>>
        /\ disconnected' = TRUE
        /\ Goto("receiver", IF disconnected THEN "done" ELSE "disconnect")
        /\ UNCHANGED <<session, locks, commands, recording, process, worker, acks,
                       statuses, fatalSeen, closed, shutdownSent, callback>>

\* _on_control_disconnect: expected only after a positive SHUTDOWN ACK.
ShutdownAccepted == mode = "SHUTDOWN" /\ shutdownSent /\ acks["SHUTDOWN"] = "accepted"

DisconnectCallback ==
  /\ pc["receiver"] = "disconnect"
  /\ terminationLock = "free"
  /\ \/ ShutdownAccepted  /\ Step("receiver", "done")
     \/ ~ShutdownAccepted /\ FailStopFrom("receiver", "done")

-----------------------------------------------------------------------------
(***************************************************************************)
(* The LeRobot worker (external): one thread that acknowledges a request   *)
(* its phase allows, executes it, reports its completion and only then     *)
(* reads the next request.                                                 *)
(***************************************************************************)
Allows(p, o) ==
  \/ o = "INITIALIZE" /\ p = "WAIT_INITIALIZE"
  \/ o = "START"      /\ p = "INITIALIZED"
  \/ o \in {"STOP", "ABORT"} /\ p = "RUNNING"
  \/ o = "SHUTDOWN"   /\ p \in {"WAIT_INITIALIZE", "INITIALIZED"}
  \/ o = "FAIL_STOP"

Executing == [INITIALIZE |-> "INITIALIZING", START |-> "STARTING", STOP |-> "STOPPING",
              ABORT |-> "ABORTING", SHUTDOWN |-> "RETURNING", FAIL_STOP |-> "FATAL"]
Executed  == [INITIALIZE |-> "INITIALIZED", START |-> "RUNNING",
              STOP |-> "WAIT_INITIALIZE", ABORT |-> "WAIT_INITIALIZE"]

WorkerReceive ==
  /\ phase \in {"WAIT_INITIALIZE", "INITIALIZED", "RUNNING"}
  /\ connected /\ inbox # <<>>
  /\ inbox' = Tail(inbox)
  /\ LET o == Head(inbox) IN
     \/ /\ Allows(phase, o)
        /\ phase' = Executing[o]
        /\ outbox' = IF o = "FAIL_STOP"
                     THEN outbox \o <<Ack(o, TRUE), Status("FAIL_STOPPING")>>
                     ELSE Append(outbox, Ack(o, TRUE))
     \/ /\ ~Allows(phase, o) \/ ("reject" \in Faults /\ o # "FAIL_STOP")
        /\ outbox' = Append(outbox, Ack(o, FALSE))
        /\ UNCHANGED phase
  /\ UNCHANGED <<ButWorker, connected>>

\* The worker reports a status and moves to a phase.
Report(s, p) ==
  /\ connected
  /\ outbox' = Append(outbox, Status(s))
  /\ phase' = p
  /\ UNCHANGED <<ButWorker, inbox, connected>>

WorkerComplete(o) ==
  /\ phase = Executing[o]
  /\ Report(Completion[o], Executed[o])

\* The policy ends the rollout: STATUS COMPLETED without a request.
WorkerPolicyEnds ==
  /\ "complete" \in Faults
  /\ phase = "RUNNING"
  /\ Report("COMPLETED", "WAIT_INITIALIZE")

WorkerError ==
  /\ "error" \in Faults
  /\ WorkerAlive /\ phase # "FATAL"
  /\ Report("ERROR", "FATAL")

\* The worker's end of the control socket closes, with or before its process.
HangUp(p) ==
  /\ connected' = FALSE
  /\ phase' = p
  /\ UNCHANGED <<ButWorker, inbox, outbox>>

WorkerCloses  == phase \in {"RETURNING", "FATAL"} /\ connected /\ HangUp(phase)
WorkerExits   == \/ phase = "RETURNING" /\ HangUp("EXITED_CLEAN")
                 \/ phase = "FATAL" /\ HangUp("EXITED_FAULT")
WorkerCrashes == "crash" \in Faults /\ WorkerAlive /\ HangUp("EXITED_FAULT")

-----------------------------------------------------------------------------
\* startup() has ended: WAIT_START, sensors discarded, the worker waits for INITIALIZE.
Init ==
  /\ state = "WAIT_START" /\ mode = "None"
  /\ failStopRequested = FALSE /\ resourcesStopped = FALSE /\ sessionManifest = "none"
  /\ terminationLock = "free" /\ recordingLock = "free" /\ finalizeLock = "free"
  /\ commands = <<>>
  /\ rolloutIndex = 0 /\ store = 0
  /\ rolloutManifest = [i \in 1..MaxRollouts |-> "none"]
  /\ activeSensors = {} /\ sensor = [s \in Sensors |-> "idle"] /\ recorder = "idle"
  /\ expectedExit = FALSE /\ exitReported = FALSE
  /\ phase = "WAIT_INITIALIZE" /\ inbox = <<>> /\ outbox = <<>> /\ connected = TRUE
  /\ acks = [o \in Operations |-> "none"] /\ statuses = {} /\ fatalSeen = FALSE
  /\ disconnected = FALSE /\ closed = FALSE /\ shutdownSent = FALSE
  /\ callback = "none"
  /\ pc = [t \in Threads |-> IF t = "main" THEN "loop"
                               ELSE IF t = "receiver" THEN "recv" ELSE "idle"]
  /\ ret = [t \in Threads |-> "idle"]
  /\ op = "NONE"

Rollout ==
  \/ InitializeSend \/ InitializeWait \/ InitializeRejected \/ InitializeCheck
  \/ InitializeSet \/ HandlerFailed
  \/ BeginRecording \/ SensorCheck \/ SensorStart \/ Rearm \/ StartRecorder \/ StartGate
  \/ StartSend \/ StartWait \/ StartCheck \/ StartSet \/ StartFailed \/ ReleaseRecording
  \/ FinishSend \/ FinishWait \/ FinishRecord \/ FinishCheck \/ FinishSet \/ FinishFailed
  \/ CompletedCheck \/ CompletedRecord \/ CompletedSet

Shutdown ==
  \/ ShutdownBegin \/ ShutdownStopSend \/ ShutdownStopWait \/ ShutdownRecord
  \/ ShutdownSend \/ ShutdownAckWait \/ ShutdownRejected

Teardown(t) ==
  \/ ExpectWorkerExit(t) \/ WorkerExitWait(t) \/ ForceTerminate(t) \/ CheckReturnCode(t)
  \/ WorkerExitDone(t) \/ FinalizeBegin(t) \/ MarkResourcesStopped(t) \/ CloseControl(t)
  \/ StopSensors(t) \/ WriteSessionManifest(t)

MainStep ==
  \/ MainLoop \/ GetCommand \/ JoinFailStop \/ ReturnFromRun \/ Rollout \/ Shutdown
  \/ Teardown("main") \/ EstablishFailStop("main")

FailStopStep == FailStopRecord \/ FailStopDeliver \/ FailStopPoll \/ Teardown("failstop")

ReceiverStep ==
  Deliver \/ StatusCallback \/ EndOfFile \/ DisconnectCallback \/ EstablishFailStop("receiver")

ReaderStep == WorkerExitCallback \/ EstablishFailStop("reader")

\* The daemon threads end with run().
Controller ==
  /\ pc["main"] # "exited"
  /\ \/ MainStep \/ FailStopStep \/ ReceiverStep \/ ReaderStep
     \/ Interrupt \/ AdmitUserAction \/ RequestRolloutAbort
     \/ ReportFault \/ EstablishFailStop("reporter")

WorkerStep ==
  \/ WorkerReceive \/ WorkerCloses \/ WorkerExits
  \/ \E o \in Ordinary : WorkerComplete(o)

Worker == WorkerStep \/ WorkerPolicyEnds \/ WorkerError \/ WorkerCrashes

Terminated == pc["main"] = "exited" /\ UNCHANGED vars

Next == Controller \/ Worker \/ Terminated

Spec == Init /\ [][Next]_vars

-----------------------------------------------------------------------------
(***************************************************************************)
(* Properties.                                                             *)
(***************************************************************************)
MainLabels ==
  { "loop", "get", "rfs", "raise_loop", "exit_join", "exit_final", "exited",
    "init_send", "init_wait", "init_reject", "init_check", "init_set",
    "start_begin", "sensor_check", "sensor_start", "start_rearm", "start_record",
    "start_gate", "start_send", "start_wait", "start_check", "start_set", "start_fail",
    "start_release", "fin_send", "fin_wait", "fin_record", "fin_check", "fin_set",
    "fin_fail", "comp_check", "comp_record", "comp_set",
    "sd_mode", "sd_stop_send", "sd_stop_wait", "sd_record", "sd_send", "sd_deadlock",
    "sd_ack", "sd_reject" }
TeardownLabels ==
  { "sd_exit", "sd_wait", "sd_kill", "sd_rc", "sd_final", "f_lock", "f_mark", "f_close",
    "f_sensors", "f_manifest" }
OtherLabels == {"idle", "rfs", "fs_record", "fs_deliver", "fs_poll", "done", "recv", "status",
                "disconnect"}
Labels == MainLabels \cup TeardownLabels \cup OtherLabels

Phases == {"WAIT_INITIALIZE", "INITIALIZED", "RUNNING"} \cup Exited
            \cup {"INITIALIZING", "STARTING", "STOPPING", "ABORTING", "RETURNING", "FATAL"}

CommandNames == {"initialize", "start", "stop", "abort", "shutdown", "recoverable_abort",
                 "rollout_completed"}

Messages == [kind : {"ack"}, name : Operations, ok : BOOLEAN]
              \cup [kind : {"status"}, name : Statuses, ok : BOOLEAN]

SessionType ==
  /\ state \in States
  /\ mode \in {"None", "SHUTDOWN", "FAIL_STOP"}
  /\ failStopRequested \in BOOLEAN
  /\ resourcesStopped \in BOOLEAN
  /\ sessionManifest \in {"none", "None", "SHUTDOWN", "FAIL_STOP"}

LockType ==
  /\ terminationLock \in {"free", "main"}
  /\ recordingLock \in {"free", "main"}
  /\ finalizeLock \in {"free"} \cup Finalizers

CommandType == commands \in Seq([name : CommandNames, from : States])

RecordingType ==
  /\ rolloutIndex \in Nat
  /\ store \in Nat
  /\ rolloutManifest \in [1..MaxRollouts -> {"none", "done", "failed"}]
  /\ activeSensors \in SUBSET Sensors
  /\ sensor \in [Sensors -> {"idle", "acquiring", "unknown", "stopped"}]
  /\ recorder \in {"idle", "recording", "unknown"}

ProcessType == expectedExit \in BOOLEAN /\ exitReported \in BOOLEAN

WorkerType ==
  /\ phase \in Phases
  /\ inbox \in Seq(Operations)
  /\ outbox \in Seq(Messages)
  /\ connected \in BOOLEAN

ClientType ==
  /\ acks \in [Operations -> {"none", "accepted", "rejected"}]
  /\ statuses \in SUBSET Statuses
  /\ fatalSeen \in BOOLEAN
  /\ disconnected \in BOOLEAN
  /\ closed \in BOOLEAN
  /\ shutdownSent \in BOOLEAN
  /\ callback \in Statuses \cup {"none"}

ThreadType ==
  /\ pc \in [Threads -> Labels]
  /\ ret \in [Threads -> Labels \ {"rfs"}]
  /\ op \in Operations \cup {"NONE"}

\* Every variable has its type.
TypeOK ==
  /\ SessionType /\ LockType /\ CommandType /\ RecordingType
  /\ ProcessType /\ WorkerType /\ ClientType /\ ThreadType

\* The session manifest, once written, records the termination mode that run() turns into
\* the exit status: no fault reported during or after finalization makes them differ.
ManifestRecordsMode == sessionManifest # "none" => sessionManifest = mode

\* Both termination paths see the worker gone before they close its control channel or stop
\* any sensor: no teardown step runs under a robot that may still be moving.
WorkerGoneBeforeTeardown == resourcesStopped => ~WorkerAlive

\* Back in WAIT_START or READY with no termination intended, nothing of the last rollout is
\* left: no open store, no acquiring sensor, no recording, no rollout running in the worker.
IdleMeansQuiescent ==
  state \in {"WAIT_START", "READY"} /\ ~Terminating /\ pc["main"] \in {"loop", "get"} =>
    /\ store = 0 /\ activeSensors = {}
    /\ \A s \in Sensors : sensor[s] = "idle"
    /\ recorder = "idle"
    /\ phase \notin {"STARTING", "RUNNING", "STOPPING", "ABORTING"}

\* A command waits in the queue only between handlers: nothing is admitted while the main
\* thread is inside a blocking lifecycle operation and deferred until after it.
NoDeferredCommand ==
  commands # <<>> /\ ~Terminating =>
    Len(commands) = 1 /\ pc["main"] \in {"start_release", "loop", "get"}

\* A FAIL_STOP intent is never withdrawn, and once one is requested a SHUTDOWN that is still
\* being negotiated is not withdrawn either: the negative ACK path cannot clear it.
IntentNotWithdrawn ==
  [][(mode = "FAIL_STOP" \/ (failStopRequested /\ mode # "None")) => mode' # "None"]_vars

\* A sensor that got its terminal STOP_REQ is never started, finished or discarded again,
\* although the start and the teardown of a rollout run on different threads.
StoppedSensorsStayStopped ==
  [][\A s \in Sensors : sensor[s] = "stopped" => sensor'[s] = "stopped"]_vars

\* STOP_REQ never reaches a sensor whose acquisition was neither finished nor discarded
\* first, unless the sensor failed to acknowledge a command.
DiscardBeforeStop ==
  [][\A s \in Sensors : sensor'[s] = "stopped" => sensor[s] # "acquiring"]_vars

\* A rollout gets one terminal manifest, whichever of the two threads writes it.
RolloutManifestIsFinal ==
  [][\A i \in 1..MaxRollouts :
       rolloutManifest[i] # "none" => rolloutManifest'[i] = rolloutManifest[i]]_vars

\* A manifest says done only when the worker has left the rollout, the recorder has stopped
\* and every sensor has acknowledged: its own FINISH, or the STOP_REQ of a teardown that a
\* fail-stop started while the manifest could not be written.
DoneMeansSettled ==
  [][\A i \in 1..MaxRollouts :
       rolloutManifest'[i] = "done" /\ rolloutManifest[i] # "done" =>
         /\ phase \notin {"STARTING", "RUNNING", "STOPPING", "ABORTING"}
         /\ activeSensors' = {} /\ recorder' = "idle"
         /\ resourcesStopped \/ \A s \in Sensors : sensor'[s] = "idle"]_vars

(***************************************************************************)
(* Fairness.  Python schedules every thread whose lock is free or whose    *)
(* wait has ended; the worker executes what it accepted unless the run     *)
(* lets it hang.  Users, faults and timeouts are never forced.             *)
(***************************************************************************)
ControllerFairness ==
  /\ WF_vars(pc["main"] # "exited" /\ MainStep)
  /\ WF_vars(pc["main"] # "exited" /\ FailStopStep)
  /\ WF_vars(pc["main"] # "exited" /\ ReceiverStep)
  /\ WF_vars(pc["main"] # "exited" /\ ReaderStep)
  /\ WF_vars(pc["main"] # "exited" /\ EstablishFailStop("reporter"))

FairSpec == Spec /\ ControllerFairness /\ WF_vars(WorkerStep)

-----------------------------------------------------------------------------
\* The session ends as SessionTermination says: the threads, locks and messages above
\* never show through in the intent, the record and the worker's life.
Termination == INSTANCE SessionTermination WITH
                 intent <- mode, record <- sessionManifest, workerUp <- WorkerAlive

TerminationSpec == Termination!Spec

-----------------------------------------------------------------------------
(***************************************************************************)
(* What the documents of the repository say and the code does not do.      *)
(***************************************************************************)

\* README_inference.md: "A disconnect before a positive ACK remains session-fatal."
EarlyDisconnectIsFatal ==
  disconnected /\ acks["SHUTDOWN"] # "accepted" ~> mode = "FAIL_STOP"

=============================================================================
