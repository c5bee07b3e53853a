-------------------------- MODULE InferenceStartup --------------------------
(***************************************************************************)
(* startup() of the inference MainController                               *)
(* (main_controller/inference_controller.py) up to WAIT_START, where       *)
(* InferenceSession begins: resources are registered one by one against a  *)
(* fail-stop that may tear them down at any moment, and RealSense is       *)
(* restarted, within a budget, when its output shows a known fatal line.   *)
(*                                                                         *)
(* RealSense has generations: each restart starts another process, and the *)
(* thread that reads a generation's output may lag behind the process.     *)
(* The four cameras are one: a line "up" stands for the four node-up       *)
(* lines.  The processes are external.                                     *)
(***************************************************************************)
EXTENDS Naturals, Sequences

CONSTANTS
  MaxRestarts,  \* config.realsense_startup_max_restarts
  MaxLines,     \* bound: lines of each kind that one RealSense generation prints
  Faults

ASSUME StartupAssumption ==
  /\ MaxRestarts \in Nat
  /\ MaxLines \in Nat
  /\ Faults \subseteq {"fatal",    \* RealSense prints a recoverable fatal line
                       "exit",     \* RealSense exits by itself
                       "report",   \* another thread reports a session-fatal fault
                       "service",  \* a bounded wait for a service or for images times out
                       "sensor",   \* a sensor command is not acknowledged
                       "worker",   \* LeRobot dies or reports ERROR while it starts
                       "slow"}     \* a bounded join of the fail-stop thread times out

VARIABLES
  state, mode, failStopRequested, resourcesStopped, terminationLock, recordingLock,
  running,            \* the registered resources that have been started and not stopped
  activeSensors,      \* _active_sensor_clients, during the warmup
  lost,               \* sensors that failed to acknowledge a command
  sensorsStopped,     \* STOP_REQ was sent
  fatalPending,       \* _realsense_startup_fatal
  restartInProgress,  \* _realsense_startup_restart_in_progress
  restartCount,       \* _realsense_startup_restart_count
  logPosition,        \* _realsense_startup_log_position
  expectedExit,       \* 'realsense' in expected_process_exits
  log,                \* the node-up lines in realsense.log, by the generation that printed them
  imagesFrom,         \* the generation whose images passed the readiness check last
  generation, alive, killed, lines, printed, exitRead,  \* external: RealSense processes
  worker,             \* external: "off", "booting", "ready", "error" or "dead"
  pc,
  resume,             \* where the main thread goes when RealSense is ready
  failed              \* startup_error is not None

session   == <<state, mode, failStopRequested, resourcesStopped>>
locks     == <<terminationLock, recordingLock>>
sensors   == <<activeSensors, lost, sensorsStopped>>
recovery  == <<fatalPending, restartInProgress, restartCount, logPosition, expectedExit>>
camera    == <<log, generation, alive, killed, lines, printed, exitRead>>
vars      == <<session, locks, running, sensors, recovery, imagesFrom, camera, worker, pc,
               resume, failed>>

Sensors     == {"ft300", "xense"}
Generations == 1..(MaxRestarts + 1)
Lines       == {"up", "fatal"}

\* The generations' reader threads share a label: a second one to request a fail-stop while
\* the first is waiting for the lock would change nothing.
Threads == {"main", "failstop", "reporter", "reader"}

\* Resources in the order startup registers them, before LeRobot and after it.
Services == <<"zmq", "uds_clients", "ft300_process", "xense_process", "realsense",
              "rosbag_recorder">>
Resources == {Services[i] : i \in DOMAIN Services}
               \cup {"rosbag_control", "lerobot", "control", "aligned_reader"}

Goto(t, label) == pc' = [pc EXCEPT ![t] = label]

\* _ensure_startup_active_locked, and _ensure_session_not_terminating.
Terminating == failStopRequested \/ mode # "None" \/ resourcesStopped

-----------------------------------------------------------------------------
(***************************************************************************)
(* request_fail_stop: the flag first, the intent under the lock.           *)
(***************************************************************************)
RaiseFailStop(t, label) ==
  /\ failStopRequested' = TRUE
  /\ Goto(t, label)
  /\ UNCHANGED <<state, mode, resourcesStopped>>

AfterRequest(t) ==
  IF t = "main" THEN IF pc[t] = "last_rfs" THEN "last_join" ELSE "join"
  ELSE IF t = "reader" THEN "reading" ELSE "idle"

EstablishFailStop(t) ==
  /\ pc[t] \in {"rfs", "last_rfs"} /\ terminationLock = "free"
  /\ \/ /\ state = "STOPPED" \/ mode = "FAIL_STOP"
        /\ Goto(t, AfterRequest(t))
        /\ UNCHANGED <<state, mode>>
     \/ /\ state # "STOPPED" /\ mode # "FAIL_STOP"
        /\ mode' = "FAIL_STOP" /\ state' = "FAIL_STOPPING"
        /\ pc' = [pc EXCEPT ![t] = AfterRequest(t), !["failstop"] = "fs_record"]
  /\ UNCHANGED <<failStopRequested, resourcesStopped, locks, running, sensors, recovery,
                 imagesFrom, camera, worker, resume, failed>>

ReportFault ==
  /\ "report" \in Faults
  /\ pc["reporter"] = "idle" /\ ~failStopRequested
  /\ RaiseFailStop("reporter", "rfs")
  /\ UNCHANGED <<locks, running, sensors, recovery, imagesFrom, camera, worker, resume, failed>>

-----------------------------------------------------------------------------
\* Mutant: a resource is started although the session is terminating.
ResourceStepUnchecked(name, next, fail) ==
  /\ terminationLock = "free"
  /\ running' = running \cup {name}
  /\ \/ Goto("main", next)
     \/ "report" \in Faults /\ Goto("main", fail)

(***************************************************************************)
(* _run_startup_resource_step: under the termination lock a resource is    *)
(* created and started unless the session is terminating, and the session  *)
(* is looked at once more.                                                 *)
(***************************************************************************)
ResourceStep(name, next, fail) ==
  /\ terminationLock = "free"
  /\ \/ Terminating /\ Goto("main", fail) /\ UNCHANGED running
     \/ /\ ~Terminating
        /\ running' = running \cup {name}
        /\ Goto("main", next)
     \/ /\ ~Terminating /\ "report" \in Faults \* the flag is set during the step
        /\ running' = running \cup {name}
        /\ Goto("main", fail)

\* Receivers and processes, in order; RealSense's first generation is one of them.
StartService ==
  /\ pc["main"] = "services"
  /\ \E i \in DOMAIN Services :
       /\ \A j \in DOMAIN Services : (Services[j] \in running) <=> j < i
       /\ ResourceStep(Services[i], "services", "teardown")
       /\ generation' = IF Services[i] = "realsense" /\ running' # running THEN 1 ELSE generation
       /\ alive' = IF generation' # generation THEN [alive EXCEPT ![1] = TRUE] ELSE alive
  /\ UNCHANGED <<session, locks, sensors, recovery, imagesFrom, log, killed, lines, printed,
                 exitRead, worker, resume, failed>>

\* The waits of _wait_services_ready, then the rosbag control and its first stop.
ServicesReady ==
  /\ pc["main"] = "services"
  /\ \A i \in DOMAIN Services : Services[i] \in running
  /\ \/ ResourceStep("rosbag_control", "ready_recover", "teardown")
     \/ "service" \in Faults /\ Goto("main", "teardown") /\ UNCHANGED running
  /\ resume' = "warmup"
  /\ UNCHANGED <<session, locks, sensors, recovery, imagesFrom, camera, worker, failed>>

-----------------------------------------------------------------------------
(***************************************************************************)
(* _recover_realsense_startup_if_needed, called at four labels.            *)
(***************************************************************************)
RecoveryPoints == {"ready_recover", "ready_stable", "lerobot_recover", "worker_recover"}

\* Where the caller goes when there was nothing to recover.
Unneeded == [ready_recover |-> "ready_nodes", ready_stable |-> resume,
             lerobot_recover |-> "await_ready", worker_recover |-> "final_check"]

NothingToRecover ==
  /\ pc["main"] \in RecoveryPoints
  /\ ~fatalPending
  /\ Goto("main", Unneeded[pc["main"]])
  /\ UNCHANGED <<session, locks, running, sensors, recovery, imagesFrom, camera, worker,
                 resume, failed>>

\* Under the fatal lock; every caller waits for readiness again after a restart.
TakeFatal ==
  /\ pc["main"] \in RecoveryPoints
  /\ fatalPending
  /\ fatalPending' = FALSE
  /\ restartInProgress' = TRUE
  /\ resume' = IF pc["main"] \in {"lerobot_recover", "worker_recover"}
               THEN Unneeded[pc["main"]] ELSE resume
  /\ Goto("main", "restart")
  /\ UNCHANGED <<session, locks, running, sensors, restartCount, logPosition, expectedExit,
                 imagesFrom, camera, worker, failed>>

\* A failure here is a startup error: before the warmup it leaves startup, then it is kept.
Failure == IF recordingLock = "main" THEN "discard" ELSE "teardown"

FailStartup ==
  /\ Goto("main", Failure)
  /\ failed' = TRUE

RestartBegin ==
  /\ pc["main"] = "restart"
  /\ \/ /\ restartCount >= MaxRestarts
        /\ restartInProgress' = FALSE
        /\ FailStartup
        /\ UNCHANGED <<restartCount, logPosition, expectedExit>>
     \/ /\ restartCount < MaxRestarts
        /\ restartCount' = restartCount + 1
        /\ logPosition' = Len(log)
        /\ expectedExit' = TRUE
        /\ Goto("main", "restart_stop")
        /\ UNCHANGED <<restartInProgress, failed>>
  /\ UNCHANGED <<session, locks, running, sensors, fatalPending, imagesFrom, camera, worker,
                 resume>>

\* process.restart() keeps the termination lock from the stop to the start.
RestartStop ==
  /\ pc["main"] = "restart_stop"
  /\ terminationLock = "free"
  /\ \/ /\ Terminating
        /\ restartInProgress' = FALSE
        /\ FailStartup
        /\ UNCHANGED <<terminationLock, alive, killed>>
     \/ /\ ~Terminating
        /\ terminationLock' = "main"
        /\ alive' = [alive EXCEPT ![generation] = FALSE]
        /\ killed' = [killed EXCEPT ![generation] = alive[generation]]
        /\ Goto("main", "restart_start")
        /\ UNCHANGED <<restartInProgress, failed>>
  /\ UNCHANGED <<session, recordingLock, running, sensors, fatalPending, restartCount,
                 logPosition, expectedExit, imagesFrom, log, generation, lines, printed,
                 exitRead, worker, resume>>

RestartStart ==
  /\ pc["main"] = "restart_start"
  /\ generation' = generation + 1
  /\ alive' = [alive EXCEPT ![generation + 1] = TRUE]
  /\ terminationLock' = "free"
  /\ Goto("main", "restart_done")
  /\ UNCHANGED <<session, recordingLock, running, sensors, recovery, imagesFrom, log, killed,
                 lines, printed, exitRead, worker, resume, failed>>

\* Mutant: a restart in the warmup takes the readiness of the old process for its own.
RestartDoneReadinessKept ==
  /\ pc["main"] = "restart_done"
  /\ restartInProgress' = FALSE
  /\ \/ failStopRequested /\ FailStartup
     \/ Goto("main", IF recordingLock = "main" THEN resume ELSE "ready_recover")
        /\ UNCHANGED failed
  /\ UNCHANGED <<session, locks, running, sensors, fatalPending, restartCount, logPosition,
                 expectedExit, imagesFrom, camera, worker, resume>>

\* The second look at the session, the finally clause, and the loop condition again.
RestartDone ==
  /\ pc["main"] = "restart_done"
  /\ restartInProgress' = FALSE
  /\ \/ failStopRequested /\ FailStartup
     \/ Goto("main", "ready_recover") /\ UNCHANGED failed
  /\ UNCHANGED <<session, locks, running, sensors, fatalPending, restartCount, logPosition,
                 expectedExit, imagesFrom, camera, worker, resume>>

-----------------------------------------------------------------------------
\* _wait_realsense_nodes_up: node-up lines behind the recorded log position.
NodesUp ==
  /\ pc["main"] = "ready_nodes"
  /\ terminationLock = "free"
  /\ \/ /\ Terminating \/ "service" \in Faults
        /\ FailStartup
     \/ /\ ~Terminating /\ fatalPending
        /\ Goto("main", "ready_recover")
        /\ UNCHANGED failed
     \/ /\ ~Terminating /\ ~fatalPending
        /\ Len(log) > logPosition
        /\ Goto("main", "ready_images")
        /\ UNCHANGED failed
  /\ UNCHANGED <<session, locks, running, sensors, recovery, imagesFrom, camera, worker,
                 resume>>

\* _wait_realsense_images_ready: a frame of every topic, from the process now running.
ImagesReady ==
  /\ pc["main"] = "ready_images"
  /\ \/ /\ fatalPending
        /\ Goto("main", "ready_recover")
        /\ UNCHANGED <<imagesFrom, failed>>
     \/ /\ ~fatalPending /\ alive[generation]
        /\ imagesFrom' = generation
        /\ Goto("main", "ready_images_seen")
        /\ UNCHANGED failed
     \/ /\ "service" \in Faults \/ ~alive[generation]
        /\ FailStartup
        /\ UNCHANGED imagesFrom
  /\ UNCHANGED <<session, locks, running, sensors, recovery, camera, worker, resume>>

ImagesSeen ==
  /\ pc["main"] = "ready_images_seen"
  /\ Goto("main", IF fatalPending THEN "ready_recover" ELSE "ready_stable")
  /\ UNCHANGED <<session, locks, running, sensors, recovery, imagesFrom, camera, worker,
                 resume, failed>>

-----------------------------------------------------------------------------
\* The warmup begins: the recording lock is held until its sensors are discarded.
BeginWarmup ==
  /\ pc["main"] = "warmup"
  /\ recordingLock = "free"
  /\ recordingLock' = "main"
  /\ Goto("main", "sensor_start")
  /\ UNCHANGED <<session, terminationLock, running, sensors, recovery, imagesFrom, camera,
                 worker, resume, failed>>

StartSensor ==
  /\ pc["main"] = "sensor_start"
  /\ terminationLock = "free"
  /\ \/ /\ Terminating
        /\ FailStartup
        /\ UNCHANGED sensors
     \/ /\ ~Terminating /\ activeSensors = Sensors
        /\ Goto("main", "lerobot_start")
        /\ UNCHANGED <<sensors, failed>>
     \/ /\ ~Terminating /\ activeSensors # Sensors
        /\ LET s == IF "ft300" \in activeSensors THEN "xense" ELSE "ft300" IN
           \/ /\ activeSensors' = activeSensors \cup {s}
              /\ UNCHANGED <<lost, pc, failed>>
           \/ /\ "sensor" \in Faults
              /\ lost' = lost \cup {s}
              /\ FailStartup
              /\ UNCHANGED activeSensors
        /\ UNCHANGED sensorsStopped
  /\ UNCHANGED <<session, locks, running, recovery, imagesFrom, camera, worker, resume>>

StartLerobot ==
  /\ pc["main"] = "lerobot_start"
  /\ ResourceStep("lerobot", "control_start", "discard")
  /\ worker' = IF running' # running THEN "booting" ELSE worker
  /\ failed' = (pc'["main"] = "discard")
  /\ UNCHANGED <<session, locks, sensors, recovery, imagesFrom, camera, resume>>

\* The control client is registered and connects; the connection may time out.
StartControl ==
  /\ pc["main"] = "control_start"
  /\ \/ worker # "dead" /\ ResourceStep("control", "lerobot_recover", "discard")
     \/ /\ "service" \in Faults \/ worker = "dead"
        /\ running' = running \cup {"control"}
        /\ Goto("main", "discard")
  /\ failed' = (pc'["main"] = "discard")
  /\ UNCHANGED <<session, locks, sensors, recovery, imagesFrom, camera, worker, resume>>

\* wait_for_status({'READY'}) has no timeout.
AwaitWorkerReady ==
  /\ pc["main"] = "await_ready"
  /\ \/ worker = "ready" /\ Goto("main", "worker_recover") /\ UNCHANGED failed
     \/ worker \in {"error", "dead"} /\ FailStartup
  /\ UNCHANGED <<session, locks, running, sensors, recovery, imagesFrom, camera, worker, resume>>

\* The last look at the session, the aligned header reader and its first read.
FinalCheck ==
  /\ pc["main"] = "final_check"
  /\ \/ ResourceStep("aligned_reader", "discard", "discard")
     \/ "service" \in Faults /\ Goto("main", "discard") /\ UNCHANGED running
  /\ failed' \in {TRUE} \cup (IF running' # running THEN {FALSE} ELSE {})
  /\ UNCHANGED <<session, locks, sensors, recovery, imagesFrom, camera, worker, resume>>

\* Mutant: the recording lock is not released when a sensor does not acknowledge.
DiscardLockKept ==
  /\ pc["main"] = "discard"
  /\ \E missing \in SUBSET activeSensors :
       /\ missing # {} => "sensor" \in Faults
       /\ activeSensors' = missing
       /\ lost' = lost \cup missing
       /\ Goto("main", IF failed \/ missing # {} THEN "teardown" ELSE "complete")
       /\ recordingLock' = IF missing # {} THEN recordingLock ELSE "free"
  /\ UNCHANGED <<session, terminationLock, running, sensorsStopped, recovery, imagesFrom,
                 camera, worker, resume, failed>>

\* Mutant: a failed warmup leaves its sensors to the teardown.
DiscardOnSuccessOnly ==
  /\ pc["main"] = "discard"
  /\ activeSensors' = IF failed THEN activeSensors ELSE {}
  /\ recordingLock' = "free"
  /\ Goto("main", IF failed THEN "teardown" ELSE "complete")
  /\ UNCHANGED <<session, terminationLock, running, lost, sensorsStopped, recovery, imagesFrom,
                 camera, worker, resume, failed>>

\* _discard_active_sensors_locked, whether the warmup succeeded or not.
Discard ==
  /\ pc["main"] = "discard"
  /\ \E missing \in SUBSET activeSensors :
       /\ missing # {} => "sensor" \in Faults
       /\ activeSensors' = missing
       /\ lost' = lost \cup missing
       /\ Goto("main", IF failed \/ missing # {} THEN "teardown" ELSE "complete")
  /\ recordingLock' = "free"
  /\ UNCHANGED <<session, terminationLock, running, sensorsStopped, recovery, imagesFrom,
                 camera, worker, resume, failed>>

\* _mark_session_ready inside a resource step: both locks are held.
MarkReady ==
  /\ pc["main"] = "complete"
  /\ terminationLock = "free"
  /\ \/ /\ ~Terminating /\ ~fatalPending
        /\ state' = "WAIT_START"
        /\ \/ Goto("main", "ready")
           \/ "report" \in Faults /\ Goto("main", "teardown") \* the flag is set meanwhile
     \/ /\ Terminating \/ fatalPending
        /\ Goto("main", "teardown")
        /\ UNCHANGED state
  /\ UNCHANGED <<mode, failStopRequested, resourcesStopped, locks, running, sensors, recovery,
                 imagesFrom, camera, worker, resume, failed>>

-----------------------------------------------------------------------------
(***************************************************************************)
(* _stop_runtime_resources: by the main thread when startup fails, by the  *)
(* fail-stop thread when it finalizes; the second caller does nothing.     *)
(***************************************************************************)
Teardown(t) == IF t = "main" THEN "teardown" ELSE "fs_teardown"
TornDown(t) == IF t = "main" THEN "raise" ELSE "fs_manifest"

MarkStopped(t) ==
  /\ pc[t] = Teardown(t)
  /\ terminationLock = "free"
  /\ \/ resourcesStopped /\ Goto(t, TornDown(t)) /\ UNCHANGED <<resourcesStopped, expectedExit>>
     \/ /\ ~resourcesStopped
        /\ resourcesStopped' = TRUE
        /\ expectedExit' = (expectedExit \/ "realsense" \in running)
        /\ Goto(t, "stop_sensors")
  /\ UNCHANGED <<state, mode, failStopRequested, locks, running, sensors, fatalPending,
                 restartInProgress, restartCount, logPosition, imagesFrom, camera, worker,
                 resume, failed>>

StopSensors(t) ==
  /\ pc[t] = "stop_sensors"
  /\ recordingLock = "free"
  /\ sensorsStopped' = TRUE
  /\ activeSensors' = {}
  /\ Goto(t, "stop_processes")
  /\ UNCHANGED <<session, locks, running, lost, recovery, imagesFrom, camera, worker, resume,
                 failed>>

StopProcesses(t) ==
  /\ pc[t] = "stop_processes"
  /\ running' = {}
  /\ alive' = [g \in Generations |-> FALSE]
  /\ killed' = [g \in Generations |-> killed[g] \/ alive[g]]
  /\ worker' = IF worker = "off" THEN "off" ELSE "dead"
  /\ Goto(t, TornDown(t))
  /\ UNCHANGED <<session, locks, sensors, recovery, imagesFrom, log, generation, lines, printed,
                 exitRead, resume, failed>>

\* The except clauses of startup() and run(), and the finally clause of run().
StartupRaises ==
  /\ pc["main"] = "raise"
  /\ RaiseFailStop("main", "rfs")
  /\ UNCHANGED <<locks, running, sensors, recovery, imagesFrom, camera, worker, resume, failed>>

LeaveLoop ==
  /\ pc["main"] = "ready" /\ state = "STOPPED"
  /\ Goto("main", "join")
  /\ UNCHANGED <<session, locks, running, sensors, recovery, imagesFrom, camera, worker,
                 resume, failed>>

(***************************************************************************)
(* The finally clause of run(): a bounded join of the fail-stop thread,    *)
(* then a last fail-stop request if the session is not STOPPED, and        *)
(* another bounded join.  A join can give up on a thread that is still     *)
(* working; the fail-stop thread is a daemon and ends with run().          *)
(***************************************************************************)
FailStopThreadEnded == pc["failstop"] \in {"idle", "done"} \/ "slow" \in Faults

JoinFailStop ==
  /\ pc["main"] = "join"
  /\ FailStopThreadEnded
  /\ \/ state = "STOPPED" /\ Goto("main", "exited") /\ UNCHANGED session
     \/ state # "STOPPED" /\ RaiseFailStop("main", "last_rfs")
  /\ UNCHANGED <<locks, running, sensors, recovery, imagesFrom, camera, worker, resume, failed>>

ReturnFromRun ==
  /\ pc["main"] = "last_join"
  /\ FailStopThreadEnded
  /\ Goto("main", "exited")
  /\ UNCHANGED <<session, locks, running, sensors, recovery, imagesFrom, camera, worker,
                 resume, failed>>

-----------------------------------------------------------------------------
\* _execute_fail_stop: no rollout is open; the recording lock is taken and released.
FailStopRecord ==
  /\ pc["failstop"] = "fs_record"
  /\ recordingLock = "free"
  /\ Goto("failstop", "fs_worker")
  /\ UNCHANGED <<session, locks, running, sensors, recovery, imagesFrom, camera, worker,
                 resume, failed>>

\* FAIL_STOP is delivered, and the worker exits or is terminated.
FailStopWorker ==
  /\ pc["failstop"] = "fs_worker"
  /\ worker' = IF worker = "off" THEN "off" ELSE "dead"
  /\ Goto("failstop", "fs_teardown")
  /\ UNCHANGED <<session, locks, running, sensors, recovery, imagesFrom, camera, resume, failed>>

FailStopManifest ==
  /\ pc["failstop"] = "fs_manifest"
  /\ terminationLock = "free"
  /\ state' = "STOPPED"
  /\ Goto("failstop", "done")
  /\ UNCHANGED <<mode, failStopRequested, resourcesStopped, locks, running, sensors, recovery,
                 imagesFrom, camera, worker, resume, failed>>

-----------------------------------------------------------------------------
(***************************************************************************)
(* The reader thread of a RealSense generation: ManagedProcess._read_output*)
(* with _on_process_fatal and _on_process_exit.                            *)
(***************************************************************************)
ReadNodeUp(g) ==
  /\ pc["reader"] = "reading" /\ lines[g] # <<>> /\ Head(lines[g]) = "up"
  /\ lines' = [lines EXCEPT ![g] = Tail(@)]
  /\ log' = Append(log, g)
  /\ UNCHANGED <<session, locks, running, sensors, recovery, imagesFrom, generation, alive,
                 killed, printed, exitRead, worker, pc, resume, failed>>

\* A startup fatal is ignored during a restart and while another one is pending.
ReadFatal(g) ==
  /\ pc["reader"] = "reading" /\ lines[g] # <<>> /\ Head(lines[g]) = "fatal"
  /\ lines' = [lines EXCEPT ![g] = Tail(@)]
  /\ \/ /\ state = "STARTING_SERVICES" /\ mode = "None"
        /\ fatalPending' = (fatalPending \/ ~restartInProgress)
        /\ expectedExit' = (expectedExit \/ (~restartInProgress /\ ~fatalPending))
        /\ UNCHANGED <<session, pc>>
     \/ /\ state # "STARTING_SERVICES" \/ mode # "None"
        /\ RaiseFailStop("reader", "rfs")
        /\ UNCHANGED <<fatalPending, expectedExit>>
  /\ UNCHANGED <<locks, running, sensors, restartInProgress, restartCount, logPosition,
                 imagesFrom, log, generation, alive, killed, printed, exitRead, worker, resume,
                 failed>>

ReadExit(g) ==
  /\ pc["reader"] = "reading" /\ lines[g] = <<>> /\ g <= generation
  /\ ~alive[g] /\ ~exitRead[g]
  /\ exitRead' = [exitRead EXCEPT ![g] = TRUE]
  /\ \/ expectedExit /\ expectedExit' = FALSE /\ UNCHANGED <<session, pc>>
     \/ ~expectedExit /\ RaiseFailStop("reader", "rfs") /\ UNCHANGED expectedExit
  /\ UNCHANGED <<locks, running, sensors, fatalPending, restartInProgress, restartCount,
                 logPosition, imagesFrom, log, generation, alive, killed, lines, printed,
                 worker, resume, failed>>

\* External: what the running RealSense prints, its exit, and LeRobot's startup.
Prints(g, line) ==
  /\ alive[g] /\ printed[g][line] < MaxLines
  /\ line = "fatal" => "fatal" \in Faults
  /\ lines' = [lines EXCEPT ![g] = Append(@, line)]
  /\ printed' = [printed EXCEPT ![g][line] = @ + 1]
  /\ UNCHANGED <<session, locks, running, sensors, recovery, imagesFrom, log, generation, alive,
                 killed, exitRead, worker, pc, resume, failed>>

RealSenseExits(g) ==
  /\ "exit" \in Faults
  /\ alive[g]
  /\ alive' = [alive EXCEPT ![g] = FALSE]
  /\ UNCHANGED <<session, locks, running, sensors, recovery, imagesFrom, log, generation,
                 killed, lines, printed, exitRead, worker, pc, resume, failed>>

WorkerStarts ==
  /\ worker = "booting"
  /\ \/ worker' = "ready"
     \/ "worker" \in Faults /\ worker' \in {"error", "dead"}
  /\ UNCHANGED <<session, locks, running, sensors, recovery, imagesFrom, camera, pc, resume,
                 failed>>

-----------------------------------------------------------------------------
Init ==
  /\ state = "STARTING_SERVICES" /\ mode = "None"
  /\ failStopRequested = FALSE /\ resourcesStopped = FALSE
  /\ terminationLock = "free" /\ recordingLock = "free"
  /\ running = {}
  /\ activeSensors = {} /\ lost = {} /\ sensorsStopped = FALSE
  /\ fatalPending = FALSE /\ restartInProgress = FALSE /\ restartCount = 0
  /\ logPosition = 0 /\ expectedExit = FALSE
  /\ log = <<>> /\ imagesFrom = 0
  /\ generation = 0
  /\ alive = [g \in Generations |-> FALSE] /\ killed = [g \in Generations |-> FALSE]
  /\ lines = [g \in Generations |-> <<>>]
  /\ printed = [g \in Generations |-> [line \in Lines |-> 0]]
  /\ exitRead = [g \in Generations |-> FALSE]
  /\ worker = "off"
  /\ pc = [t \in Threads |-> IF t = "main" THEN "services"
                             ELSE IF t = "reader" THEN "reading" ELSE "idle"]
  /\ resume = "warmup"
  /\ failed = FALSE

Recovery ==
  \/ NothingToRecover \/ TakeFatal \/ RestartBegin \/ RestartStop \/ RestartStart
  \/ RestartDone

Startup ==
  \/ StartService \/ ServicesReady \/ Recovery \/ NodesUp \/ ImagesReady \/ ImagesSeen
  \/ BeginWarmup \/ StartSensor \/ StartLerobot \/ StartControl \/ AwaitWorkerReady
  \/ FinalCheck \/ Discard \/ MarkReady

StopRuntimeResources(t) == MarkStopped(t) \/ StopSensors(t) \/ StopProcesses(t)

MainStep ==
  \/ Startup \/ StopRuntimeResources("main") \/ StartupRaises \/ LeaveLoop \/ JoinFailStop
  \/ ReturnFromRun \/ EstablishFailStop("main")

FailStopStep ==
  FailStopRecord \/ FailStopWorker \/ StopRuntimeResources("failstop") \/ FailStopManifest

ReaderStep(g) == ReadNodeUp(g) \/ ReadFatal(g) \/ ReadExit(g)

\* Daemon threads end with run().
Next ==
  /\ pc["main"] # "exited"
  /\ \/ MainStep \/ FailStopStep \/ ReportFault \/ EstablishFailStop("reporter")
     \/ EstablishFailStop("reader") \/ WorkerStarts
     \/ \E g \in Generations :
          \/ ReaderStep(g) \/ RealSenseExits(g)
          \/ \E line \in Lines : Prints(g, line)

Spec == Init /\ [][Next]_vars

(***************************************************************************)
(* Every controller thread is scheduled, and LeRobot, once launched,       *)
(* becomes ready, reports an error or dies.                                *)
(***************************************************************************)
FairSpec ==
  /\ Spec
  /\ WF_vars(pc["main"] # "exited" /\ MainStep)
  /\ WF_vars(pc["main"] # "exited" /\ FailStopStep)
  /\ WF_vars(pc["main"] # "exited" /\ EstablishFailStop("reporter"))
  /\ WF_vars(pc["main"] # "exited" /\ EstablishFailStop("reader"))
  /\ \A g \in Generations : WF_vars(pc["main"] # "exited" /\ ReaderStep(g))
  /\ WF_vars(pc["main"] # "exited" /\ WorkerStarts)

-----------------------------------------------------------------------------
MainLabels ==
  {"services", "restart", "restart_stop", "restart_start", "restart_done", "ready_nodes",
   "ready_images", "ready_images_seen", "warmup", "sensor_start", "lerobot_start",
   "control_start", "await_ready", "final_check", "discard", "complete", "ready", "teardown",
   "raise", "join", "last_rfs", "last_join", "exited"} \cup RecoveryPoints

\* Every variable has its type.
TypeOK ==
  /\ state \in {"STARTING_SERVICES", "WAIT_START", "FAIL_STOPPING", "STOPPED"}
  /\ mode \in {"None", "FAIL_STOP"}
  /\ failStopRequested \in BOOLEAN /\ resourcesStopped \in BOOLEAN
  /\ terminationLock \in {"free", "main"} /\ recordingLock \in {"free", "main"}
  /\ running \subseteq Resources
  /\ activeSensors \subseteq Sensors /\ lost \subseteq Sensors /\ sensorsStopped \in BOOLEAN
  /\ fatalPending \in BOOLEAN /\ restartInProgress \in BOOLEAN
  /\ restartCount \in 0..MaxRestarts /\ logPosition \in Nat /\ expectedExit \in BOOLEAN
  /\ log \in Seq(Generations)
  /\ imagesFrom \in {0} \cup Generations
  /\ generation \in {0} \cup Generations
  /\ alive \in [Generations -> BOOLEAN] /\ killed \in [Generations -> BOOLEAN]
  /\ lines \in [Generations -> Seq(Lines)]
  /\ printed \in [Generations -> [Lines -> 0..MaxLines]] /\ exitRead \in [Generations -> BOOLEAN]
  /\ worker \in {"off", "booting", "ready", "error", "dead"}
  /\ pc \in [Threads -> MainLabels \cup {"idle", "rfs", "fs_record", "fs_worker",
               "fs_teardown", "stop_sensors", "stop_processes", "fs_manifest", "done",
               "reading"}]
  /\ resume \in {"warmup", "await_ready", "final_check"}
  /\ failed \in BOOLEAN

\* The session becomes ready only when the images of the RealSense process that is current
\* have been seen since its last restart, wherever in startup the restart happened.
ReadyMeansCamerasSeen ==
  [][state' = "WAIT_START" /\ state # "WAIT_START" => imagesFrom = generation]_vars

\* When run() returns from startup, every resource that startup registered, in whatever order
\* with a fail-stop, has been stopped; the one exception is a teardown that the fail-stop
\* thread had begun and that the two bounded joins did not wait for.
NoOrphan ==
  pc["main"] = "exited" =>
    \/ running = {} /\ \A g \in Generations : ~alive[g]
    \/ pc["failstop"] \in {"stop_sensors", "stop_processes"}

\* README_inference.md: "terminal STOP_REQ cannot interleave ahead of this bounded warmup
\* finalization"; only a sensor that did not acknowledge its discard is still active then.
WarmupFinalizedFirst ==
  [][sensorsStopped' /\ ~sensorsStopped => activeSensors \subseteq lost]_vars

\* A fail-stop requested during startup ends with the session STOPPED, also while LeRobot is
\* starting under the recording lock; or run() returned, its two joins having given up on a
\* fail-stop thread that no lock held back.
GaveUp == pc["main"] = "exited" /\ terminationLock = "free" /\ recordingLock = "free"

FailStopFinalizes == failStopRequested ~> state = "STOPPED" \/ GaveUp

-----------------------------------------------------------------------------
(***************************************************************************)
(* What a document of the repository says and the code does not do.        *)
(***************************************************************************)

\* Conformance row 17: an "unexpected exit without a pending recoverable fatal" is a direct
\* FAIL_STOP path, and each intentional restart owns the exit it causes: once the exits of
\* the earlier generations are accounted for, one of the current process is unexpected.
UnexpectedExitIsFatal ==
  [][\A g \in Generations :
       exitRead'[g] # exitRead[g] /\ g = generation /\ ~killed[g]
         /\ (\A h \in 1..(g - 1) : exitRead[h])
         /\ ~fatalPending /\ ~restartInProgress /\ ~resourcesStopped
       => failStopRequested']_vars

=============================================================================
