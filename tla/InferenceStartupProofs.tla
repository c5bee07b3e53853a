----------------------- MODULE InferenceStartupProofs -----------------------
(***************************************************************************)
(* Theorems about InferenceStartup, for every restart budget and every     *)
(* number of lines that RealSense prints: when run() returns no managed    *)
(* process is left but by a teardown that its joins gave up on, the        *)
(* session becomes ready only on images of the current RealSense process,  *)
(* and terminal STOP_REQ never overtakes the warmup.                       *)
(*                                                                         *)
(* Nothing is started once the teardown is decided, and the two flags do   *)
(* not say so by themselves: StartControl registers the control client     *)
(* without looking at them when its connection times out.  What holds the  *)
(* teardown back then is the recording lock, which the fail-stop needs     *)
(* first (Warmup), as the termination lock holds it back while RealSense   *)
(* is between its stop and its start (Restarting).                         *)
(***************************************************************************)
EXTENDS InferenceStartup, TLAPS

\* What each thread may be doing.
Roles ==
  /\ pc["main"] \in MainLabels \cup {"stop_sensors", "stop_processes", "rfs"}
  /\ pc["failstop"] \in {"idle", "fs_record", "fs_worker", "fs_teardown", "stop_sensors",
                         "stop_processes", "fs_manifest", "done"}
  /\ pc["reporter"] \in {"idle", "rfs"} /\ pc["reader"] \in {"reading", "rfs"}

\* Each restart is counted before it makes another generation.
Counted ==
  /\ generation <= restartCount + 1
  /\ pc["main"] \in {"restart_stop", "restart_start"} => generation <= restartCount

\* FAIL_STOP is established exactly when its thread runs, which leaves the session STOPPED; the
\* main thread joins it only after somebody has established it, and may return before it ends.
FailStopping ==
  /\ mode = "FAIL_STOP" <=> pc["failstop"] # "idle"
  /\ state = "STOPPED" => pc["failstop"] = "done"
  /\ pc["main"] \in {"join", "last_rfs", "last_join", "exited"} => pc["failstop"] # "idle"

\* From its stop to its start RealSense is not torn down.
Restarting ==
  /\ terminationLock = "main" <=> pc["main"] = "restart_start"
  /\ pc["main"] = "restart_start" => ~resourcesStopped

\* While the warmup starts its sensors and LeRobot, a fail-stop has not come past the recording
\* lock; outside of the warmup only a sensor that acknowledged nothing is active.
Warmup ==
  /\ pc["main"] \in {"sensor_start", "lerobot_start", "control_start"} => recordingLock = "main"
  /\ pc["main"] \in {"lerobot_start", "control_start"} => pc["failstop"] \in {"idle", "fs_record"}
  /\ recordingLock = "free" => activeSensors \subseteq lost

Stopping(t) == pc[t] \in {"stop_sensors", "stop_processes"}

\* The main thread leaves startup or the loop of run() only behind a teardown.
Returning == {"raise", "rfs", "join", "last_rfs", "last_join", "exited"}

\* Whoever sets resourcesStopped stops everything, and nothing is started after it.
Stopped ==
  /\ resourcesStopped =>
       \/ pc["failstop"] \in {"stop_sensors", "stop_processes", "fs_manifest", "done"}
       \/ pc["main"] \in {"stop_sensors", "stop_processes"} \cup Returning
  /\ pc["failstop"] \in {"stop_sensors", "stop_processes", "fs_manifest", "done"} =>
       resourcesStopped
  /\ pc["main"] \in {"stop_sensors", "stop_processes"} \cup Returning => resourcesStopped
  /\ \/ ~resourcesStopped
     \/ Stopping("main") \/ Stopping("failstop")
     \/ running = {} /\ \A g \in Generations : ~alive[g]

\* Past the image check, until the next restart, the images seen are those of the process now
\* running.
Seen ==
  {"ready_images_seen", "ready_stable", "warmup", "sensor_start", "lerobot_start",
   "control_start", "lerobot_recover", "await_ready", "worker_recover", "final_check",
   "complete"}

CamerasSeen ==
  pc["main"] \in Seen \/ (pc["main"] = "discard" /\ ~failed) => imagesFrom = generation

\* The inductive invariant.
IInv ==
  /\ TypeOK /\ Roles /\ Counted /\ FailStopping /\ Restarting /\ Warmup /\ Stopped
  /\ CamerasSeen

-----------------------------------------------------------------------------
\* Where the main thread goes when there is nothing to recover.
LEMMA NothingToRecoverGoes ==
  ASSUME NothingToRecover
  PROVE  \/ pc["main"] = "ready_recover" /\ pc' = [pc EXCEPT !["main"] = "ready_nodes"]
         \/ pc["main"] = "ready_stable" /\ pc' = [pc EXCEPT !["main"] = resume]
         \/ pc["main"] = "lerobot_recover" /\ pc' = [pc EXCEPT !["main"] = "await_ready"]
         \/ pc["main"] = "worker_recover" /\ pc' = [pc EXCEPT !["main"] = "final_check"]
<1>1. /\ Unneeded["ready_recover"] = "ready_nodes" /\ Unneeded["ready_stable"] = resume
      /\ Unneeded["lerobot_recover"] = "await_ready" /\ Unneeded["worker_recover"] = "final_check"
  BY DEF Unneeded
<1>2. pc["main"] \in RecoveryPoints /\ pc' = [pc EXCEPT !["main"] = Unneeded[pc["main"]]]
  BY DEF NothingToRecover, Goto
<1> QED
  BY <1>1, <1>2 DEF RecoveryPoints

\* Every step keeps the threads to their roles.
LEMMA RolesStep ==
  ASSUME IInv, [Next]_vars
  PROVE  Roles'
<1>1. TypeOK /\ Roles
  BY DEF IInv
<1>2. /\ pc = [x \in Threads |-> pc[x]]
      /\ resume \in {"warmup", "await_ready", "final_check"}
  BY DEF IInv, TypeOK
<1> USE <1>1, <1>2 DEF Roles, Threads, MainLabels, RecoveryPoints, Goto, session, locks, sensors,
    recovery, camera
<1>3. CASE StartService
  BY <1>3 DEF StartService, ResourceStep
<1>4. CASE ServicesReady
  BY <1>4 DEF ServicesReady, ResourceStep
<1>5. CASE NothingToRecover
  BY <1>5, NothingToRecoverGoes DEF NothingToRecover
<1>6. CASE TakeFatal
  BY <1>6 DEF TakeFatal, RecoveryPoints, Unneeded
<1>7. CASE RestartBegin
  BY <1>7 DEF RestartBegin, FailStartup, Failure
<1>8. CASE RestartStop
  BY <1>8 DEF RestartStop, FailStartup, Failure
<1>9. CASE RestartStart
  BY <1>9 DEF RestartStart
<1>10. CASE RestartDone
  BY <1>10 DEF RestartDone, FailStartup, Failure
<1>11. CASE NodesUp
  BY <1>11 DEF NodesUp, FailStartup, Failure
<1>12. CASE ImagesReady
  BY <1>12 DEF ImagesReady, FailStartup, Failure
<1>13. CASE ImagesSeen
  BY <1>13 DEF ImagesSeen
<1>14. CASE BeginWarmup
  BY <1>14 DEF BeginWarmup
<1>15. CASE StartSensor
  BY <1>15 DEF StartSensor, FailStartup, Failure
<1>16. CASE StartLerobot
  BY <1>16 DEF StartLerobot, ResourceStep
<1>17. CASE StartControl
  BY <1>17 DEF StartControl, ResourceStep
<1>18. CASE AwaitWorkerReady
  BY <1>18 DEF AwaitWorkerReady, FailStartup, Failure
<1>19. CASE FinalCheck
  BY <1>19 DEF FinalCheck, ResourceStep
<1>20. CASE Discard
  BY <1>20 DEF Discard
<1>21. CASE MarkReady
  BY <1>21 DEF MarkReady
<1>22. ASSUME NEW t \in {"main", "failstop"}, MarkStopped(t) PROVE Roles'
  BY <1>22 DEF MarkStopped, Teardown, TornDown
<1>23. ASSUME NEW t \in {"main", "failstop"}, StopSensors(t) PROVE Roles'
  BY <1>23 DEF StopSensors
<1>24. ASSUME NEW t \in {"main", "failstop"}, StopProcesses(t) PROVE Roles'
  BY <1>24 DEF StopProcesses, TornDown
<1>25. CASE StartupRaises
  BY <1>25 DEF StartupRaises, RaiseFailStop
<1>26. CASE LeaveLoop
  BY <1>26 DEF LeaveLoop
<1>27. CASE JoinFailStop
  BY <1>27 DEF JoinFailStop, RaiseFailStop
<1>27a. CASE ReturnFromRun
  BY <1>27a DEF ReturnFromRun
<1>28. ASSUME NEW t \in {"main", "reporter", "reader"}, EstablishFailStop(t) PROVE Roles'
  BY <1>28 DEF EstablishFailStop, AfterRequest
<1>29. CASE FailStopRecord
  BY <1>29 DEF FailStopRecord
<1>30. CASE FailStopWorker
  BY <1>30 DEF FailStopWorker
<1>31. CASE FailStopManifest
  BY <1>31 DEF FailStopManifest
<1>32. CASE ReportFault
  BY <1>32 DEF ReportFault, RaiseFailStop
<1>33. ASSUME NEW g \in Generations, ReadNodeUp(g) PROVE Roles'
  BY <1>33 DEF ReadNodeUp
<1>34. ASSUME NEW g \in Generations, ReadFatal(g) PROVE Roles'
  BY <1>34 DEF ReadFatal, RaiseFailStop
<1>35. ASSUME NEW g \in Generations, ReadExit(g) PROVE Roles'
  BY <1>35 DEF ReadExit, RaiseFailStop
<1>36. ASSUME NEW g \in Generations, NEW line \in Lines, Prints(g, line) PROVE Roles'
  BY <1>36 DEF Prints
<1>37. ASSUME NEW g \in Generations, RealSenseExits(g) PROVE Roles'
  BY <1>37 DEF RealSenseExits
<1>38. CASE WorkerStarts
  BY <1>38 DEF WorkerStarts
<1>39. CASE UNCHANGED vars
  BY <1>39 DEF vars
<1> QED
  BY <1>3, <1>4, <1>5, <1>6, <1>7, <1>8, <1>9, <1>10, <1>11, <1>12, <1>13, <1>14, <1>15, <1>16,
     <1>17, <1>18, <1>19, <1>20, <1>21, <1>22, <1>23, <1>24, <1>25, <1>26, <1>27, <1>27a, <1>28,
     <1>29, <1>30, <1>31, <1>32, <1>33, <1>34, <1>35, <1>36, <1>37, <1>38, <1>39
     DEF Next, MainStep, Startup, Recovery, StopRuntimeResources, FailStopStep, ReaderStep

\* Every step keeps the generations counted.
LEMMA CountedStep ==
  ASSUME IInv, [Next]_vars
  PROVE  Counted'
<1>1. TypeOK /\ Roles /\ Counted
  BY DEF IInv
<1>2. /\ pc = [x \in Threads |-> pc[x]]
      /\ resume \in {"warmup", "await_ready", "final_check"}
      /\ generation \in Nat /\ restartCount \in Nat
  BY DEF IInv, TypeOK, Generations
<1> USE <1>1, <1>2 DEF Roles, Threads, Counted, Goto, session, locks, sensors, recovery, camera
<1>3. CASE StartService
  BY <1>3 DEF StartService, ResourceStep
<1>4. CASE ServicesReady
  BY <1>4 DEF ServicesReady, ResourceStep
<1>5. CASE NothingToRecover
  BY <1>5, NothingToRecoverGoes DEF NothingToRecover
<1>6. CASE TakeFatal
  BY <1>6 DEF TakeFatal, RecoveryPoints, Unneeded
<1>7. CASE RestartBegin
  BY <1>7 DEF RestartBegin, FailStartup, Failure
<1>8. CASE RestartStop
  BY <1>8 DEF RestartStop, FailStartup, Failure
<1>9. CASE RestartStart
  BY <1>9 DEF RestartStart
<1>10. CASE RestartDone
  BY <1>10 DEF RestartDone, FailStartup, Failure
<1>11. CASE NodesUp
  BY <1>11 DEF NodesUp, FailStartup, Failure
<1>12. CASE ImagesReady
  BY <1>12 DEF ImagesReady, FailStartup, Failure
<1>13. CASE ImagesSeen
  BY <1>13 DEF ImagesSeen
<1>14. CASE BeginWarmup
  BY <1>14 DEF BeginWarmup
<1>15. CASE StartSensor
  BY <1>15 DEF StartSensor, FailStartup, Failure
<1>16. CASE StartLerobot
  BY <1>16 DEF StartLerobot, ResourceStep
<1>17. CASE StartControl
  BY <1>17 DEF StartControl, ResourceStep
<1>18. CASE AwaitWorkerReady
  BY <1>18 DEF AwaitWorkerReady, FailStartup, Failure
<1>19. CASE FinalCheck
  BY <1>19 DEF FinalCheck, ResourceStep
<1>20. CASE Discard
  BY <1>20 DEF Discard
<1>21. CASE MarkReady
  BY <1>21 DEF MarkReady
<1>22. ASSUME NEW t \in {"main", "failstop"}, MarkStopped(t) PROVE Counted'
  BY <1>22 DEF MarkStopped, Teardown, TornDown
<1>23. ASSUME NEW t \in {"main", "failstop"}, StopSensors(t) PROVE Counted'
  BY <1>23 DEF StopSensors
<1>24. ASSUME NEW t \in {"main", "failstop"}, StopProcesses(t) PROVE Counted'
  BY <1>24 DEF StopProcesses, TornDown
<1>25. CASE StartupRaises
  BY <1>25 DEF StartupRaises, RaiseFailStop
<1>26. CASE LeaveLoop
  BY <1>26 DEF LeaveLoop
<1>27. CASE JoinFailStop
  BY <1>27 DEF JoinFailStop, RaiseFailStop
<1>27a. CASE ReturnFromRun
  BY <1>27a DEF ReturnFromRun
<1>28. ASSUME NEW t \in {"main", "reporter", "reader"}, EstablishFailStop(t) PROVE Counted'
  BY <1>28 DEF EstablishFailStop, AfterRequest
<1>29. CASE FailStopRecord
  BY <1>29 DEF FailStopRecord
<1>30. CASE FailStopWorker
  BY <1>30 DEF FailStopWorker
<1>31. CASE FailStopManifest
  BY <1>31 DEF FailStopManifest
<1>32. CASE ReportFault
  BY <1>32 DEF ReportFault, RaiseFailStop
<1>33. ASSUME NEW g \in Generations, ReadNodeUp(g) PROVE Counted'
  BY <1>33 DEF ReadNodeUp
<1>34. ASSUME NEW g \in Generations, ReadFatal(g) PROVE Counted'
  BY <1>34 DEF ReadFatal, RaiseFailStop
<1>35. ASSUME NEW g \in Generations, ReadExit(g) PROVE Counted'
  BY <1>35 DEF ReadExit, RaiseFailStop
<1>36. ASSUME NEW g \in Generations, NEW line \in Lines, Prints(g, line) PROVE Counted'
  BY <1>36 DEF Prints
<1>37. ASSUME NEW g \in Generations, RealSenseExits(g) PROVE Counted'
  BY <1>37 DEF RealSenseExits
<1>38. CASE WorkerStarts
  BY <1>38 DEF WorkerStarts
<1>39. CASE UNCHANGED vars
  BY <1>39 DEF vars
<1> QED
  BY <1>3, <1>4, <1>5, <1>6, <1>7, <1>8, <1>9, <1>10, <1>11, <1>12, <1>13, <1>14, <1>15, <1>16,
     <1>17, <1>18, <1>19, <1>20, <1>21, <1>22, <1>23, <1>24, <1>25, <1>26, <1>27, <1>27a, <1>28,
     <1>29, <1>30, <1>31, <1>32, <1>33, <1>34, <1>35, <1>36, <1>37, <1>38, <1>39
     DEF Next, MainStep, Startup, Recovery, StopRuntimeResources, FailStopStep, ReaderStep

\* FAIL_STOP is established once, and its thread leaves the session STOPPED.
LEMMA FailStoppingStep ==
  ASSUME IInv, [Next]_vars
  PROVE  FailStopping'
<1>1. TypeOK /\ Roles /\ FailStopping
  BY DEF IInv
<1>2. /\ pc = [x \in Threads |-> pc[x]]
      /\ resume \in {"warmup", "await_ready", "final_check"}
  BY DEF IInv, TypeOK
<1> USE <1>1, <1>2 DEF FailStopping, Roles, Threads, Terminating, Goto, session, locks, sensors,
    recovery, camera
<1>3. CASE StartService
  BY <1>3 DEF StartService, ResourceStep
<1>4. CASE ServicesReady
  BY <1>4 DEF ServicesReady, ResourceStep
<1>5. CASE NothingToRecover
  BY <1>5, NothingToRecoverGoes DEF NothingToRecover
<1>6. CASE TakeFatal
  BY <1>6 DEF TakeFatal, RecoveryPoints, Unneeded
<1>7. CASE RestartBegin
  BY <1>7 DEF RestartBegin, FailStartup, Failure
<1>8. CASE RestartStop
  BY <1>8 DEF RestartStop, FailStartup, Failure
<1>9. CASE RestartStart
  BY <1>9 DEF RestartStart
<1>10. CASE RestartDone
  BY <1>10 DEF RestartDone, FailStartup, Failure
<1>11. CASE NodesUp
  BY <1>11 DEF NodesUp, FailStartup, Failure
<1>12. CASE ImagesReady
  BY <1>12 DEF ImagesReady, FailStartup, Failure
<1>13. CASE ImagesSeen
  BY <1>13 DEF ImagesSeen
<1>14. CASE BeginWarmup
  BY <1>14 DEF BeginWarmup
<1>15. CASE StartSensor
  BY <1>15 DEF StartSensor, FailStartup, Failure
<1>16. CASE StartLerobot
  BY <1>16 DEF StartLerobot, ResourceStep
<1>17. CASE StartControl
  BY <1>17 DEF StartControl, ResourceStep
<1>18. CASE AwaitWorkerReady
  BY <1>18 DEF AwaitWorkerReady, FailStartup, Failure
<1>19. CASE FinalCheck
  BY <1>19 DEF FinalCheck, ResourceStep
<1>20. CASE Discard
  BY <1>20 DEF Discard
<1>21. CASE MarkReady
  BY <1>21 DEF MarkReady
<1>22. ASSUME NEW t \in {"main", "failstop"}, MarkStopped(t) PROVE FailStopping'
  BY <1>22 DEF MarkStopped, Teardown, TornDown
<1>23. ASSUME NEW t \in {"main", "failstop"}, StopSensors(t) PROVE FailStopping'
  BY <1>23 DEF StopSensors
<1>24. ASSUME NEW t \in {"main", "failstop"}, StopProcesses(t) PROVE FailStopping'
  BY <1>24 DEF StopProcesses, TornDown
<1>25. CASE StartupRaises
  BY <1>25 DEF StartupRaises, RaiseFailStop
<1>26. CASE LeaveLoop
  BY <1>26 DEF LeaveLoop
<1>27. CASE JoinFailStop
  BY <1>27 DEF JoinFailStop, RaiseFailStop
<1>27a. CASE ReturnFromRun
  BY <1>27a DEF ReturnFromRun
<1>28. ASSUME NEW t \in {"main", "reporter", "reader"}, EstablishFailStop(t) PROVE FailStopping'
  BY <1>28 DEF EstablishFailStop, AfterRequest
<1>29. CASE FailStopRecord
  BY <1>29 DEF FailStopRecord
<1>30. CASE FailStopWorker
  BY <1>30 DEF FailStopWorker
<1>31. CASE FailStopManifest
  BY <1>31 DEF FailStopManifest
<1>32. CASE ReportFault
  BY <1>32 DEF ReportFault, RaiseFailStop
<1>33. ASSUME NEW g \in Generations, ReadNodeUp(g) PROVE FailStopping'
  BY <1>33 DEF ReadNodeUp
<1>34. ASSUME NEW g \in Generations, ReadFatal(g) PROVE FailStopping'
  BY <1>34 DEF ReadFatal, RaiseFailStop
<1>35. ASSUME NEW g \in Generations, ReadExit(g) PROVE FailStopping'
  BY <1>35 DEF ReadExit, RaiseFailStop
<1>36. ASSUME NEW g \in Generations, NEW line \in Lines, Prints(g, line) PROVE FailStopping'
  BY <1>36 DEF Prints
<1>37. ASSUME NEW g \in Generations, RealSenseExits(g) PROVE FailStopping'
  BY <1>37 DEF RealSenseExits
<1>38. CASE WorkerStarts
  BY <1>38 DEF WorkerStarts
<1>39. CASE UNCHANGED vars
  BY <1>39 DEF vars
<1> QED
  BY <1>3, <1>4, <1>5, <1>6, <1>7, <1>8, <1>9, <1>10, <1>11, <1>12, <1>13, <1>14, <1>15, <1>16,
     <1>17, <1>18, <1>19, <1>20, <1>21, <1>22, <1>23, <1>24, <1>25, <1>26, <1>27, <1>27a, <1>28,
     <1>29, <1>30, <1>31, <1>32, <1>33, <1>34, <1>35, <1>36, <1>37, <1>38, <1>39
     DEF Next, MainStep, Startup, Recovery, StopRuntimeResources, FailStopStep, ReaderStep

\* Nobody tears RealSense down between its stop and its start.
LEMMA RestartingStep ==
  ASSUME IInv, [Next]_vars
  PROVE  Restarting'
<1>1. TypeOK /\ Roles /\ Restarting
  BY DEF IInv
<1>2. /\ pc = [x \in Threads |-> pc[x]]
      /\ resume \in {"warmup", "await_ready", "final_check"}
  BY DEF IInv, TypeOK
<1> USE <1>1, <1>2 DEF Restarting, Roles, Threads, Terminating, Goto, session, locks, sensors,
    recovery, camera
<1>3. CASE StartService
  BY <1>3 DEF StartService, ResourceStep
<1>4. CASE ServicesReady
  BY <1>4 DEF ServicesReady, ResourceStep
<1>5. CASE NothingToRecover
  BY <1>5, NothingToRecoverGoes DEF NothingToRecover
<1>6. CASE TakeFatal
  BY <1>6 DEF TakeFatal, RecoveryPoints, Unneeded
<1>7. CASE RestartBegin
  BY <1>7 DEF RestartBegin, FailStartup, Failure
<1>8. CASE RestartStop
  BY <1>8 DEF RestartStop, FailStartup, Failure
<1>9. CASE RestartStart
  BY <1>9 DEF RestartStart
<1>10. CASE RestartDone
  BY <1>10 DEF RestartDone, FailStartup, Failure
<1>11. CASE NodesUp
  BY <1>11 DEF NodesUp, FailStartup, Failure
<1>12. CASE ImagesReady
  BY <1>12 DEF ImagesReady, FailStartup, Failure
<1>13. CASE ImagesSeen
  BY <1>13 DEF ImagesSeen
<1>14. CASE BeginWarmup
  BY <1>14 DEF BeginWarmup
<1>15. CASE StartSensor
  BY <1>15 DEF StartSensor, FailStartup, Failure
<1>16. CASE StartLerobot
  BY <1>16 DEF StartLerobot, ResourceStep
<1>17. CASE StartControl
  BY <1>17 DEF StartControl, ResourceStep
<1>18. CASE AwaitWorkerReady
  BY <1>18 DEF AwaitWorkerReady, FailStartup, Failure
<1>19. CASE FinalCheck
  BY <1>19 DEF FinalCheck, ResourceStep
<1>20. CASE Discard
  BY <1>20 DEF Discard
<1>21. CASE MarkReady
  BY <1>21 DEF MarkReady
<1>22. ASSUME NEW t \in {"main", "failstop"}, MarkStopped(t) PROVE Restarting'
  BY <1>22 DEF MarkStopped, Teardown, TornDown
<1>23. ASSUME NEW t \in {"main", "failstop"}, StopSensors(t) PROVE Restarting'
  BY <1>23 DEF StopSensors
<1>24. ASSUME NEW t \in {"main", "failstop"}, StopProcesses(t) PROVE Restarting'
  BY <1>24 DEF StopProcesses, TornDown
<1>25. CASE StartupRaises
  BY <1>25 DEF StartupRaises, RaiseFailStop
<1>26. CASE LeaveLoop
  BY <1>26 DEF LeaveLoop
<1>27. CASE JoinFailStop
  BY <1>27 DEF JoinFailStop, RaiseFailStop
<1>27a. CASE ReturnFromRun
  BY <1>27a DEF ReturnFromRun
<1>28. ASSUME NEW t \in {"main", "reporter", "reader"}, EstablishFailStop(t) PROVE Restarting'
  BY <1>28 DEF EstablishFailStop, AfterRequest
<1>29. CASE FailStopRecord
  BY <1>29 DEF FailStopRecord
<1>30. CASE FailStopWorker
  BY <1>30 DEF FailStopWorker
<1>31. CASE FailStopManifest
  BY <1>31 DEF FailStopManifest
<1>32. CASE ReportFault
  BY <1>32 DEF ReportFault, RaiseFailStop
<1>33. ASSUME NEW g \in Generations, ReadNodeUp(g) PROVE Restarting'
  BY <1>33 DEF ReadNodeUp
<1>34. ASSUME NEW g \in Generations, ReadFatal(g) PROVE Restarting'
  BY <1>34 DEF ReadFatal, RaiseFailStop
<1>35. ASSUME NEW g \in Generations, ReadExit(g) PROVE Restarting'
  BY <1>35 DEF ReadExit, RaiseFailStop
<1>36. ASSUME NEW g \in Generations, NEW line \in Lines, Prints(g, line) PROVE Restarting'
  BY <1>36 DEF Prints
<1>37. ASSUME NEW g \in Generations, RealSenseExits(g) PROVE Restarting'
  BY <1>37 DEF RealSenseExits
<1>38. CASE WorkerStarts
  BY <1>38 DEF WorkerStarts
<1>39. CASE UNCHANGED vars
  BY <1>39 DEF vars
<1> QED
  BY <1>3, <1>4, <1>5, <1>6, <1>7, <1>8, <1>9, <1>10, <1>11, <1>12, <1>13, <1>14, <1>15, <1>16,
     <1>17, <1>18, <1>19, <1>20, <1>21, <1>22, <1>23, <1>24, <1>25, <1>26, <1>27, <1>27a, <1>28,
     <1>29, <1>30, <1>31, <1>32, <1>33, <1>34, <1>35, <1>36, <1>37, <1>38, <1>39
     DEF Next, MainStep, Startup, Recovery, StopRuntimeResources, FailStopStep, ReaderStep

\* The fail-stop waits for the recording lock of the warmup.
LEMMA WarmupStep ==
  ASSUME IInv, [Next]_vars
  PROVE  Warmup'
<1>1. TypeOK /\ Roles /\ FailStopping /\ Warmup
  BY DEF IInv
<1>2. /\ pc = [x \in Threads |-> pc[x]]
      /\ resume \in {"warmup", "await_ready", "final_check"}
  BY DEF IInv, TypeOK
<1> USE <1>1, <1>2 DEF Warmup, FailStopping, Roles, Threads, Terminating, Goto, session, locks,
    sensors, recovery, camera
<1>3. CASE StartService
  BY <1>3 DEF StartService, ResourceStep
<1>4. CASE ServicesReady
  BY <1>4 DEF ServicesReady, ResourceStep
<1>5. CASE NothingToRecover
  BY <1>5, NothingToRecoverGoes DEF NothingToRecover
<1>6. CASE TakeFatal
  BY <1>6 DEF TakeFatal, RecoveryPoints, Unneeded
<1>7. CASE RestartBegin
  BY <1>7 DEF RestartBegin, FailStartup, Failure
<1>8. CASE RestartStop
  BY <1>8 DEF RestartStop, FailStartup, Failure
<1>9. CASE RestartStart
  BY <1>9 DEF RestartStart
<1>10. CASE RestartDone
  BY <1>10 DEF RestartDone, FailStartup, Failure
<1>11. CASE NodesUp
  BY <1>11 DEF NodesUp, FailStartup, Failure
<1>12. CASE ImagesReady
  BY <1>12 DEF ImagesReady, FailStartup, Failure
<1>13. CASE ImagesSeen
  BY <1>13 DEF ImagesSeen
<1>14. CASE BeginWarmup
  BY <1>14 DEF BeginWarmup
<1>15. CASE StartSensor
  BY <1>15 DEF StartSensor, FailStartup, Failure
<1>16. CASE StartLerobot
  BY <1>16 DEF StartLerobot, ResourceStep
<1>17. CASE StartControl
  BY <1>17 DEF StartControl, ResourceStep
<1>18. CASE AwaitWorkerReady
  BY <1>18 DEF AwaitWorkerReady, FailStartup, Failure
<1>19. CASE FinalCheck
  BY <1>19 DEF FinalCheck, ResourceStep
<1>20. CASE Discard
  BY <1>20 DEF Discard
<1>21. CASE MarkReady
  BY <1>21 DEF MarkReady
<1>22. ASSUME NEW t \in {"main", "failstop"}, MarkStopped(t) PROVE Warmup'
  BY <1>22 DEF MarkStopped, Teardown, TornDown
<1>23. ASSUME NEW t \in {"main", "failstop"}, StopSensors(t) PROVE Warmup'
  BY <1>23 DEF StopSensors
<1>24. ASSUME NEW t \in {"main", "failstop"}, StopProcesses(t) PROVE Warmup'
  BY <1>24 DEF StopProcesses, TornDown
<1>25. CASE StartupRaises
  BY <1>25 DEF StartupRaises, RaiseFailStop
<1>26. CASE LeaveLoop
  BY <1>26 DEF LeaveLoop
<1>27. CASE JoinFailStop
  BY <1>27 DEF JoinFailStop, RaiseFailStop
<1>27a. CASE ReturnFromRun
  BY <1>27a DEF ReturnFromRun
<1>28. ASSUME NEW t \in {"main", "reporter", "reader"}, EstablishFailStop(t) PROVE Warmup'
  BY <1>28 DEF EstablishFailStop, AfterRequest
<1>29. CASE FailStopRecord
  BY <1>29 DEF FailStopRecord
<1>30. CASE FailStopWorker
  BY <1>30 DEF FailStopWorker
<1>31. CASE FailStopManifest
  BY <1>31 DEF FailStopManifest
<1>32. CASE ReportFault
  BY <1>32 DEF ReportFault, RaiseFailStop
<1>33. ASSUME NEW g \in Generations, ReadNodeUp(g) PROVE Warmup'
  BY <1>33 DEF ReadNodeUp
<1>34. ASSUME NEW g \in Generations, ReadFatal(g) PROVE Warmup'
  BY <1>34 DEF ReadFatal, RaiseFailStop
<1>35. ASSUME NEW g \in Generations, ReadExit(g) PROVE Warmup'
  BY <1>35 DEF ReadExit, RaiseFailStop
<1>36. ASSUME NEW g \in Generations, NEW line \in Lines, Prints(g, line) PROVE Warmup'
  BY <1>36 DEF Prints
<1>37. ASSUME NEW g \in Generations, RealSenseExits(g) PROVE Warmup'
  BY <1>37 DEF RealSenseExits
<1>38. CASE WorkerStarts
  BY <1>38 DEF WorkerStarts
<1>39. CASE UNCHANGED vars
  BY <1>39 DEF vars
<1> QED
  BY <1>3, <1>4, <1>5, <1>6, <1>7, <1>8, <1>9, <1>10, <1>11, <1>12, <1>13, <1>14, <1>15, <1>16,
     <1>17, <1>18, <1>19, <1>20, <1>21, <1>22, <1>23, <1>24, <1>25, <1>26, <1>27, <1>27a, <1>28,
     <1>29, <1>30, <1>31, <1>32, <1>33, <1>34, <1>35, <1>36, <1>37, <1>38, <1>39
     DEF Next, MainStep, Startup, Recovery, StopRuntimeResources, FailStopStep, ReaderStep

\* What is started is started before the teardown, or stopped by it.
LEMMA StoppedStep ==
  ASSUME IInv, [Next]_vars
  PROVE  Stopped'
<1>1. TypeOK /\ Roles /\ FailStopping /\ Restarting /\ Warmup /\ Stopped
  BY DEF IInv
<1>2. /\ pc = [x \in Threads |-> pc[x]]
      /\ resume \in {"warmup", "await_ready", "final_check"}
  BY DEF IInv, TypeOK
<1> USE <1>1, <1>2 DEF Stopped, Stopping, Returning, Restarting, Warmup, FailStopping, Roles,
    Threads, Terminating, Goto, session, locks, sensors, recovery, camera
<1>3. CASE StartService
  BY <1>3 DEF StartService, ResourceStep
<1>4. CASE ServicesReady
  BY <1>4 DEF ServicesReady, ResourceStep
<1>5. CASE NothingToRecover
  BY <1>5, NothingToRecoverGoes DEF NothingToRecover
<1>6. CASE TakeFatal
  BY <1>6 DEF TakeFatal, RecoveryPoints, Unneeded
<1>7. CASE RestartBegin
  BY <1>7 DEF RestartBegin, FailStartup, Failure
<1>8. CASE RestartStop
  BY <1>8 DEF RestartStop, FailStartup, Failure
<1>9. CASE RestartStart
  BY <1>9 DEF RestartStart
<1>10. CASE RestartDone
  BY <1>10 DEF RestartDone, FailStartup, Failure
<1>11. CASE NodesUp
  BY <1>11 DEF NodesUp, FailStartup, Failure
<1>12. CASE ImagesReady
  BY <1>12 DEF ImagesReady, FailStartup, Failure
<1>13. CASE ImagesSeen
  BY <1>13 DEF ImagesSeen
<1>14. CASE BeginWarmup
  BY <1>14 DEF BeginWarmup
<1>15. CASE StartSensor
  BY <1>15 DEF StartSensor, FailStartup, Failure
<1>16. CASE StartLerobot
  BY <1>16 DEF StartLerobot, ResourceStep
<1>17. CASE StartControl
  BY <1>17 DEF StartControl, ResourceStep
<1>18. CASE AwaitWorkerReady
  BY <1>18 DEF AwaitWorkerReady, FailStartup, Failure
<1>19. CASE FinalCheck
  BY <1>19 DEF FinalCheck, ResourceStep
<1>20. CASE Discard
  BY <1>20 DEF Discard
<1>21. CASE MarkReady
  BY <1>21 DEF MarkReady
<1>22. ASSUME NEW t \in {"main", "failstop"}, MarkStopped(t) PROVE Stopped'
  BY <1>22 DEF MarkStopped, Teardown, TornDown
<1>23. ASSUME NEW t \in {"main", "failstop"}, StopSensors(t) PROVE Stopped'
  BY <1>23 DEF StopSensors
<1>24. ASSUME NEW t \in {"main", "failstop"}, StopProcesses(t) PROVE Stopped'
  BY <1>24 DEF StopProcesses, TornDown
<1>25. CASE StartupRaises
  BY <1>25 DEF StartupRaises, RaiseFailStop
<1>26. CASE LeaveLoop
  BY <1>26 DEF LeaveLoop
<1>27. CASE JoinFailStop
  <2>1. /\ UNCHANGED <<resourcesStopped, running, alive>>
        /\ \/ pc' = [pc EXCEPT !["main"] = "exited"]
           \/ pc' = [pc EXCEPT !["main"] = "last_rfs"]
    BY <1>27 DEF JoinFailStop, RaiseFailStop
  <2>2. pc["main"] = "join" /\ pc'["main"] \in Returning /\ pc'["failstop"] = pc["failstop"]
    BY <1>27, <2>1 DEF JoinFailStop
  <2> QED
    BY <2>1, <2>2
<1>27a. CASE ReturnFromRun
  BY <1>27a DEF ReturnFromRun
<1>28. ASSUME NEW t \in {"main", "reporter", "reader"}, EstablishFailStop(t) PROVE Stopped'
  BY <1>28 DEF EstablishFailStop, AfterRequest
<1>29. CASE FailStopRecord
  BY <1>29 DEF FailStopRecord
<1>30. CASE FailStopWorker
  BY <1>30 DEF FailStopWorker
<1>31. CASE FailStopManifest
  BY <1>31 DEF FailStopManifest
<1>32. CASE ReportFault
  BY <1>32 DEF ReportFault, RaiseFailStop
<1>33. ASSUME NEW g \in Generations, ReadNodeUp(g) PROVE Stopped'
  BY <1>33 DEF ReadNodeUp
<1>34. ASSUME NEW g \in Generations, ReadFatal(g) PROVE Stopped'
  BY <1>34 DEF ReadFatal, RaiseFailStop
<1>35. ASSUME NEW g \in Generations, ReadExit(g) PROVE Stopped'
  BY <1>35 DEF ReadExit, RaiseFailStop
<1>36. ASSUME NEW g \in Generations, NEW line \in Lines, Prints(g, line) PROVE Stopped'
  BY <1>36 DEF Prints
<1>37. ASSUME NEW g \in Generations, RealSenseExits(g) PROVE Stopped'
  BY <1>37 DEF RealSenseExits
<1>38. CASE WorkerStarts
  BY <1>38 DEF WorkerStarts
<1>39. CASE UNCHANGED vars
  BY <1>39 DEF vars
<1> QED
  BY <1>3, <1>4, <1>5, <1>6, <1>7, <1>8, <1>9, <1>10, <1>11, <1>12, <1>13, <1>14, <1>15, <1>16,
     <1>17, <1>18, <1>19, <1>20, <1>21, <1>22, <1>23, <1>24, <1>25, <1>26, <1>27, <1>27a, <1>28,
     <1>29, <1>30, <1>31, <1>32, <1>33, <1>34, <1>35, <1>36, <1>37, <1>38, <1>39
     DEF Next, MainStep, Startup, Recovery, StopRuntimeResources, FailStopStep, ReaderStep

\* A new generation sends the main thread back to the image check.
LEMMA CamerasSeenStep ==
  ASSUME IInv, [Next]_vars
  PROVE  CamerasSeen'
<1>1. TypeOK /\ Roles /\ CamerasSeen
  BY DEF IInv
<1>2. /\ pc = [x \in Threads |-> pc[x]]
      /\ resume \in {"warmup", "await_ready", "final_check"}
  BY DEF IInv, TypeOK
<1> USE <1>1, <1>2 DEF CamerasSeen, Seen, Roles, Threads, Goto, session, locks, sensors, recovery,
    camera
<1>3. CASE StartService
  BY <1>3 DEF StartService, ResourceStep
<1>4. CASE ServicesReady
  BY <1>4 DEF ServicesReady, ResourceStep
<1>5. CASE NothingToRecover
  BY <1>5, NothingToRecoverGoes DEF NothingToRecover
<1>6. CASE TakeFatal
  BY <1>6 DEF TakeFatal, RecoveryPoints, Unneeded
<1>7. CASE RestartBegin
  BY <1>7 DEF RestartBegin, FailStartup, Failure
<1>8. CASE RestartStop
  BY <1>8 DEF RestartStop, FailStartup, Failure
<1>9. CASE RestartStart
  BY <1>9 DEF RestartStart
<1>10. CASE RestartDone
  BY <1>10 DEF RestartDone, FailStartup, Failure
<1>11. CASE NodesUp
  BY <1>11 DEF NodesUp, FailStartup, Failure
<1>12. CASE ImagesReady
  BY <1>12 DEF ImagesReady, FailStartup, Failure
<1>13. CASE ImagesSeen
  BY <1>13 DEF ImagesSeen
<1>14. CASE BeginWarmup
  BY <1>14 DEF BeginWarmup
<1>15. CASE StartSensor
  BY <1>15 DEF StartSensor, FailStartup, Failure
<1>16. CASE StartLerobot
  BY <1>16 DEF StartLerobot, ResourceStep
<1>17. CASE StartControl
  BY <1>17 DEF StartControl, ResourceStep
<1>18. CASE AwaitWorkerReady
  BY <1>18 DEF AwaitWorkerReady, FailStartup, Failure
<1>19. CASE FinalCheck
  BY <1>19 DEF FinalCheck, ResourceStep
<1>20. CASE Discard
  BY <1>20 DEF Discard
<1>21. CASE MarkReady
  BY <1>21 DEF MarkReady
<1>22. ASSUME NEW t \in {"main", "failstop"}, MarkStopped(t) PROVE CamerasSeen'
  BY <1>22 DEF MarkStopped, Teardown, TornDown
<1>23. ASSUME NEW t \in {"main", "failstop"}, StopSensors(t) PROVE CamerasSeen'
  BY <1>23 DEF StopSensors
<1>24. ASSUME NEW t \in {"main", "failstop"}, StopProcesses(t) PROVE CamerasSeen'
  BY <1>24 DEF StopProcesses, TornDown
<1>25. CASE StartupRaises
  BY <1>25 DEF StartupRaises, RaiseFailStop
<1>26. CASE LeaveLoop
  BY <1>26 DEF LeaveLoop
<1>27. CASE JoinFailStop
  BY <1>27 DEF JoinFailStop, RaiseFailStop
<1>27a. CASE ReturnFromRun
  BY <1>27a DEF ReturnFromRun
<1>28. ASSUME NEW t \in {"main", "reporter", "reader"}, EstablishFailStop(t) PROVE CamerasSeen'
  BY <1>28 DEF EstablishFailStop, AfterRequest
<1>29. CASE FailStopRecord
  BY <1>29 DEF FailStopRecord
<1>30. CASE FailStopWorker
  BY <1>30 DEF FailStopWorker
<1>31. CASE FailStopManifest
  BY <1>31 DEF FailStopManifest
<1>32. CASE ReportFault
  BY <1>32 DEF ReportFault, RaiseFailStop
<1>33. ASSUME NEW g \in Generations, ReadNodeUp(g) PROVE CamerasSeen'
  BY <1>33 DEF ReadNodeUp
<1>34. ASSUME NEW g \in Generations, ReadFatal(g) PROVE CamerasSeen'
  BY <1>34 DEF ReadFatal, RaiseFailStop
<1>35. ASSUME NEW g \in Generations, ReadExit(g) PROVE CamerasSeen'
  BY <1>35 DEF ReadExit, RaiseFailStop
<1>36. ASSUME NEW g \in Generations, NEW line \in Lines, Prints(g, line) PROVE CamerasSeen'
  BY <1>36 DEF Prints
<1>37. ASSUME NEW g \in Generations, RealSenseExits(g) PROVE CamerasSeen'
  BY <1>37 DEF RealSenseExits
<1>38. CASE WorkerStarts
  BY <1>38 DEF WorkerStarts
<1>39. CASE UNCHANGED vars
  BY <1>39 DEF vars
<1> QED
  BY <1>3, <1>4, <1>5, <1>6, <1>7, <1>8, <1>9, <1>10, <1>11, <1>12, <1>13, <1>14, <1>15, <1>16,
     <1>17, <1>18, <1>19, <1>20, <1>21, <1>22, <1>23, <1>24, <1>25, <1>26, <1>27, <1>27a, <1>28,
     <1>29, <1>30, <1>31, <1>32, <1>33, <1>34, <1>35, <1>36, <1>37, <1>38, <1>39
     DEF Next, MainStep, Startup, Recovery, StopRuntimeResources, FailStopStep, ReaderStep

\* The types, by what they are about.
SessionTyped ==
  /\ state \in {"STARTING_SERVICES", "WAIT_START", "FAIL_STOPPING", "STOPPED"}
  /\ mode \in {"None", "FAIL_STOP"}
  /\ failStopRequested \in BOOLEAN /\ resourcesStopped \in BOOLEAN
  /\ terminationLock \in {"free", "main"} /\ recordingLock \in {"free", "main"}
  /\ resume \in {"warmup", "await_ready", "final_check"} /\ failed \in BOOLEAN

\* Every step keeps the types of the session, of the locks and of the main thread.
LEMMA SessionTypeStep ==
  ASSUME IInv, [Next]_vars
  PROVE  SessionTyped'
<1>1. TypeOK /\ Roles
  BY DEF IInv
<1>2. /\ state \in {"STARTING_SERVICES", "WAIT_START", "FAIL_STOPPING", "STOPPED"}
      /\ mode \in {"None", "FAIL_STOP"}
      /\ failStopRequested \in BOOLEAN /\ resourcesStopped \in BOOLEAN
      /\ terminationLock \in {"free", "main"} /\ recordingLock \in {"free", "main"}
      /\ resume \in {"warmup", "await_ready", "final_check"} /\ failed \in BOOLEAN
  BY DEF IInv, TypeOK
<1> USE <1>1, <1>2 DEF SessionTyped, RecoveryPoints, Goto, session, locks, sensors, recovery, camera
<1>3. CASE StartService
  BY <1>3 DEF StartService, ResourceStep
<1>4. CASE ServicesReady
  BY <1>4 DEF ServicesReady, ResourceStep
<1>5. CASE NothingToRecover
  BY <1>5, NothingToRecoverGoes DEF NothingToRecover, RecoveryPoints, Unneeded
<1>6. CASE TakeFatal
  BY <1>6 DEF TakeFatal, Unneeded
<1>7. CASE RestartBegin
  BY <1>7 DEF RestartBegin, FailStartup, Failure
<1>8. CASE RestartStop
  BY <1>8 DEF RestartStop, FailStartup, Failure
<1>9. CASE RestartStart
  BY <1>9 DEF RestartStart
<1>10. CASE RestartDone
  BY <1>10 DEF RestartDone, FailStartup, Failure
<1>11. CASE NodesUp
  BY <1>11 DEF NodesUp, FailStartup, Failure
<1>12. CASE ImagesReady
  BY <1>12 DEF ImagesReady, FailStartup, Failure
<1>13. CASE ImagesSeen
  BY <1>13 DEF ImagesSeen
<1>14. CASE BeginWarmup
  BY <1>14 DEF BeginWarmup
<1>15. CASE StartSensor
  BY <1>15 DEF StartSensor, FailStartup, Failure
<1>16. CASE StartLerobot
  BY <1>16 DEF StartLerobot, ResourceStep
<1>17. CASE StartControl
  BY <1>17 DEF StartControl, ResourceStep
<1>18. CASE AwaitWorkerReady
  BY <1>18 DEF AwaitWorkerReady, FailStartup, Failure
<1>19. CASE FinalCheck
  BY <1>19 DEF FinalCheck, ResourceStep
<1>20. CASE Discard
  BY <1>20 DEF Discard
<1>21. CASE MarkReady
  BY <1>21 DEF MarkReady
<1>22. ASSUME NEW t \in {"main", "failstop"}, MarkStopped(t) PROVE SessionTyped'
  BY <1>22 DEF MarkStopped, Teardown, TornDown
<1>23. ASSUME NEW t \in {"main", "failstop"}, StopSensors(t) PROVE SessionTyped'
  BY <1>23 DEF StopSensors
<1>24. ASSUME NEW t \in {"main", "failstop"}, StopProcesses(t) PROVE SessionTyped'
  BY <1>24 DEF StopProcesses, TornDown
<1>25. CASE StartupRaises
  BY <1>25 DEF StartupRaises, RaiseFailStop
<1>26. CASE LeaveLoop
  BY <1>26 DEF LeaveLoop
<1>27. CASE JoinFailStop
  BY <1>27 DEF JoinFailStop, RaiseFailStop
<1>27a. CASE ReturnFromRun
  BY <1>27a DEF ReturnFromRun
<1>28. ASSUME NEW t \in {"main", "reporter", "reader"}, EstablishFailStop(t) PROVE SessionTyped'
  BY <1>28 DEF EstablishFailStop, AfterRequest
<1>29. CASE FailStopRecord
  BY <1>29 DEF FailStopRecord
<1>30. CASE FailStopWorker
  BY <1>30 DEF FailStopWorker
<1>31. CASE FailStopManifest
  BY <1>31 DEF FailStopManifest
<1>32. CASE ReportFault
  BY <1>32 DEF ReportFault, RaiseFailStop
<1>33. ASSUME NEW g \in Generations, ReadNodeUp(g) PROVE SessionTyped'
  BY <1>33 DEF ReadNodeUp
<1>34. ASSUME NEW g \in Generations, ReadFatal(g) PROVE SessionTyped'
  BY <1>34 DEF ReadFatal, RaiseFailStop
<1>35. ASSUME NEW g \in Generations, ReadExit(g) PROVE SessionTyped'
  BY <1>35 DEF ReadExit, RaiseFailStop
<1>36. ASSUME NEW g \in Generations, NEW line \in Lines, Prints(g, line) PROVE SessionTyped'
  BY <1>36 DEF Prints
<1>37. ASSUME NEW g \in Generations, RealSenseExits(g) PROVE SessionTyped'
  BY <1>37 DEF RealSenseExits
<1>38. CASE WorkerStarts
  BY <1>38 DEF WorkerStarts
<1>39. CASE UNCHANGED vars
  BY <1>39 DEF vars
<1> QED
  BY <1>3, <1>4, <1>5, <1>6, <1>7, <1>8, <1>9, <1>10, <1>11, <1>12, <1>13, <1>14, <1>15, <1>16,
     <1>17, <1>18, <1>19, <1>20, <1>21, <1>22, <1>23, <1>24, <1>25, <1>26, <1>27, <1>27a, <1>28,
     <1>29, <1>30, <1>31, <1>32, <1>33, <1>34, <1>35, <1>36, <1>37, <1>38, <1>39
     DEF Next, MainStep, Startup, Recovery, StopRuntimeResources, FailStopStep, ReaderStep

ResourcesTyped ==
  /\ running \subseteq Resources
  /\ activeSensors \subseteq Sensors /\ lost \subseteq Sensors /\ sensorsStopped \in BOOLEAN
  /\ worker \in {"off", "booting", "ready", "error", "dead"}

\* Every step keeps the types of the resources.
LEMMA ResourcesTypeStep ==
  ASSUME IInv, [Next]_vars
  PROVE  ResourcesTyped'
<1>1. TypeOK /\ Roles
  BY DEF IInv
<1>2. /\ running \subseteq Resources
      /\ activeSensors \subseteq Sensors /\ lost \subseteq Sensors /\ sensorsStopped \in BOOLEAN
      /\ worker \in {"off", "booting", "ready", "error", "dead"}
  BY DEF IInv, TypeOK
<1> USE <1>1, <1>2 DEF ResourcesTyped, Goto, session, locks, sensors, recovery, camera
<1>3. CASE StartService
  BY <1>3 DEF StartService, ResourceStep, Resources
<1>4. CASE ServicesReady
  BY <1>4 DEF ServicesReady, ResourceStep, Resources
<1>5. CASE NothingToRecover
  BY <1>5, NothingToRecoverGoes DEF NothingToRecover, RecoveryPoints, Unneeded
<1>6. CASE TakeFatal
  BY <1>6 DEF TakeFatal, RecoveryPoints, Unneeded
<1>7. CASE RestartBegin
  BY <1>7 DEF RestartBegin, FailStartup, Failure
<1>8. CASE RestartStop
  BY <1>8 DEF RestartStop, FailStartup, Failure
<1>9. CASE RestartStart
  BY <1>9 DEF RestartStart
<1>10. CASE RestartDone
  BY <1>10 DEF RestartDone, FailStartup, Failure
<1>11. CASE NodesUp
  BY <1>11 DEF NodesUp, FailStartup, Failure
<1>12. CASE ImagesReady
  BY <1>12 DEF ImagesReady, FailStartup, Failure
<1>13. CASE ImagesSeen
  BY <1>13 DEF ImagesSeen
<1>14. CASE BeginWarmup
  BY <1>14 DEF BeginWarmup
<1>15. CASE StartSensor
  BY <1>15 DEF StartSensor, Sensors, FailStartup, Failure
<1>16. CASE StartLerobot
  BY <1>16 DEF StartLerobot, ResourceStep, Resources
<1>17. CASE StartControl
  BY <1>17 DEF StartControl, ResourceStep, Resources
<1>18. CASE AwaitWorkerReady
  BY <1>18 DEF AwaitWorkerReady, FailStartup, Failure
<1>19. CASE FinalCheck
  BY <1>19 DEF FinalCheck, ResourceStep, Resources
<1>20. CASE Discard
  BY <1>20 DEF Discard
<1>21. CASE MarkReady
  BY <1>21 DEF MarkReady
<1>22. ASSUME NEW t \in {"main", "failstop"}, MarkStopped(t) PROVE ResourcesTyped'
  BY <1>22 DEF MarkStopped, Teardown, TornDown
<1>23. ASSUME NEW t \in {"main", "failstop"}, StopSensors(t) PROVE ResourcesTyped'
  BY <1>23 DEF StopSensors
<1>24. ASSUME NEW t \in {"main", "failstop"}, StopProcesses(t) PROVE ResourcesTyped'
  BY <1>24 DEF StopProcesses, TornDown
<1>25. CASE StartupRaises
  BY <1>25 DEF StartupRaises, RaiseFailStop
<1>26. CASE LeaveLoop
  BY <1>26 DEF LeaveLoop
<1>27. CASE JoinFailStop
  BY <1>27 DEF JoinFailStop, RaiseFailStop
<1>27a. CASE ReturnFromRun
  BY <1>27a DEF ReturnFromRun
<1>28. ASSUME NEW t \in {"main", "reporter", "reader"}, EstablishFailStop(t) PROVE ResourcesTyped'
  BY <1>28 DEF EstablishFailStop, AfterRequest
<1>29. CASE FailStopRecord
  BY <1>29 DEF FailStopRecord
<1>30. CASE FailStopWorker
  BY <1>30 DEF FailStopWorker
<1>31. CASE FailStopManifest
  BY <1>31 DEF FailStopManifest
<1>32. CASE ReportFault
  BY <1>32 DEF ReportFault, RaiseFailStop
<1>33. ASSUME NEW g \in Generations, ReadNodeUp(g) PROVE ResourcesTyped'
  BY <1>33 DEF ReadNodeUp
<1>34. ASSUME NEW g \in Generations, ReadFatal(g) PROVE ResourcesTyped'
  BY <1>34 DEF ReadFatal, RaiseFailStop
<1>35. ASSUME NEW g \in Generations, ReadExit(g) PROVE ResourcesTyped'
  BY <1>35 DEF ReadExit, RaiseFailStop
<1>36. ASSUME NEW g \in Generations, NEW line \in Lines, Prints(g, line) PROVE ResourcesTyped'
  BY <1>36 DEF Prints
<1>37. ASSUME NEW g \in Generations, RealSenseExits(g) PROVE ResourcesTyped'
  BY <1>37 DEF RealSenseExits
<1>38. CASE WorkerStarts
  BY <1>38 DEF WorkerStarts
<1>39. CASE UNCHANGED vars
  BY <1>39 DEF vars
<1> QED
  BY <1>3, <1>4, <1>5, <1>6, <1>7, <1>8, <1>9, <1>10, <1>11, <1>12, <1>13, <1>14, <1>15, <1>16,
     <1>17, <1>18, <1>19, <1>20, <1>21, <1>22, <1>23, <1>24, <1>25, <1>26, <1>27, <1>27a, <1>28,
     <1>29, <1>30, <1>31, <1>32, <1>33, <1>34, <1>35, <1>36, <1>37, <1>38, <1>39
     DEF Next, MainStep, Startup, Recovery, StopRuntimeResources, FailStopStep, ReaderStep

RecoveryTyped ==
  /\ fatalPending \in BOOLEAN /\ restartInProgress \in BOOLEAN /\ expectedExit \in BOOLEAN
  /\ restartCount \in 0..MaxRestarts /\ logPosition \in Nat
  /\ log \in Seq(Generations)
  /\ generation \in {0} \cup Generations /\ imagesFrom \in {0} \cup Generations

\* Every step keeps the types of the recovery, and the generations within the budget.
LEMMA RecoveryTypeStep ==
  ASSUME IInv, [Next]_vars
  PROVE  RecoveryTyped'
<1>1. TypeOK /\ Roles
  BY DEF IInv
<1>2. /\ fatalPending \in BOOLEAN /\ restartInProgress \in BOOLEAN /\ expectedExit \in BOOLEAN
      /\ restartCount \in 0..MaxRestarts /\ logPosition \in Nat
      /\ log \in Seq(Generations)
      /\ generation \in {0} \cup Generations /\ imagesFrom \in {0} \cup Generations
  BY DEF IInv, TypeOK
<1> USE <1>1, <1>2 DEF RecoveryTyped, Goto, session, locks, sensors, recovery, camera
<1>3. CASE StartService
  <2>1. 1 \in Generations
    BY StartupAssumption DEF Generations
  <2> QED
    BY <1>3, <2>1 DEF StartService
<1>4. CASE ServicesReady
  BY <1>4 DEF ServicesReady, ResourceStep
<1>5. CASE NothingToRecover
  BY <1>5, NothingToRecoverGoes DEF NothingToRecover
<1>6. CASE TakeFatal
  BY <1>6 DEF TakeFatal, RecoveryPoints, Unneeded
<1>7. CASE RestartBegin
  <2>1. restartCount < MaxRestarts => restartCount + 1 \in 0..MaxRestarts
    BY StartupAssumption
  <2>2. Len(log) \in Nat
    OBVIOUS
  <2> QED
    BY <1>7, <2>1, <2>2 DEF RestartBegin, FailStartup
<1>8. CASE RestartStop
  BY <1>8 DEF RestartStop, FailStartup, Failure
<1>9. CASE RestartStart
  <2>1. generation + 1 \in Generations
    BY <1>9, StartupAssumption DEF IInv, Counted, RestartStart, Generations
  <2> QED
    BY <1>9, <2>1 DEF RestartStart
<1>10. CASE RestartDone
  BY <1>10 DEF RestartDone, FailStartup, Failure
<1>11. CASE NodesUp
  BY <1>11 DEF NodesUp, FailStartup, Failure
<1>12. CASE ImagesReady
  BY <1>12 DEF ImagesReady, FailStartup, Failure
<1>13. CASE ImagesSeen
  BY <1>13 DEF ImagesSeen
<1>14. CASE BeginWarmup
  BY <1>14 DEF BeginWarmup
<1>15. CASE StartSensor
  BY <1>15 DEF StartSensor, FailStartup, Failure
<1>16. CASE StartLerobot
  BY <1>16 DEF StartLerobot, ResourceStep
<1>17. CASE StartControl
  BY <1>17 DEF StartControl, ResourceStep
<1>18. CASE AwaitWorkerReady
  BY <1>18 DEF AwaitWorkerReady, FailStartup, Failure
<1>19. CASE FinalCheck
  BY <1>19 DEF FinalCheck, ResourceStep
<1>20. CASE Discard
  BY <1>20 DEF Discard
<1>21. CASE MarkReady
  BY <1>21 DEF MarkReady
<1>22. ASSUME NEW t \in {"main", "failstop"}, MarkStopped(t) PROVE RecoveryTyped'
  BY <1>22 DEF MarkStopped, Teardown, TornDown
<1>23. ASSUME NEW t \in {"main", "failstop"}, StopSensors(t) PROVE RecoveryTyped'
  BY <1>23 DEF StopSensors
<1>24. ASSUME NEW t \in {"main", "failstop"}, StopProcesses(t) PROVE RecoveryTyped'
  BY <1>24 DEF StopProcesses, TornDown
<1>25. CASE StartupRaises
  BY <1>25 DEF StartupRaises, RaiseFailStop
<1>26. CASE LeaveLoop
  BY <1>26 DEF LeaveLoop
<1>27. CASE JoinFailStop
  BY <1>27 DEF JoinFailStop, RaiseFailStop
<1>27a. CASE ReturnFromRun
  BY <1>27a DEF ReturnFromRun
<1>28. ASSUME NEW t \in {"main", "reporter", "reader"}, EstablishFailStop(t) PROVE RecoveryTyped'
  BY <1>28 DEF EstablishFailStop, AfterRequest
<1>29. CASE FailStopRecord
  BY <1>29 DEF FailStopRecord
<1>30. CASE FailStopWorker
  BY <1>30 DEF FailStopWorker
<1>31. CASE FailStopManifest
  BY <1>31 DEF FailStopManifest
<1>32. CASE ReportFault
  BY <1>32 DEF ReportFault, RaiseFailStop
<1>33. ASSUME NEW g \in Generations, ReadNodeUp(g) PROVE RecoveryTyped'
  BY <1>33 DEF ReadNodeUp
<1>34. ASSUME NEW g \in Generations, ReadFatal(g) PROVE RecoveryTyped'
  BY <1>34 DEF ReadFatal, RaiseFailStop
<1>35. ASSUME NEW g \in Generations, ReadExit(g) PROVE RecoveryTyped'
  BY <1>35 DEF ReadExit, RaiseFailStop
<1>36. ASSUME NEW g \in Generations, NEW line \in Lines, Prints(g, line) PROVE RecoveryTyped'
  BY <1>36 DEF Prints
<1>37. ASSUME NEW g \in Generations, RealSenseExits(g) PROVE RecoveryTyped'
  BY <1>37 DEF RealSenseExits
<1>38. CASE WorkerStarts
  BY <1>38 DEF WorkerStarts
<1>39. CASE UNCHANGED vars
  BY <1>39 DEF vars
<1> QED
  BY <1>3, <1>4, <1>5, <1>6, <1>7, <1>8, <1>9, <1>10, <1>11, <1>12, <1>13, <1>14, <1>15, <1>16,
     <1>17, <1>18, <1>19, <1>20, <1>21, <1>22, <1>23, <1>24, <1>25, <1>26, <1>27, <1>27a, <1>28,
     <1>29, <1>30, <1>31, <1>32, <1>33, <1>34, <1>35, <1>36, <1>37, <1>38, <1>39
     DEF Next, MainStep, Startup, Recovery, StopRuntimeResources, FailStopStep, ReaderStep

CameraTyped ==
  /\ alive \in [Generations -> BOOLEAN] /\ killed \in [Generations -> BOOLEAN]
  /\ lines \in [Generations -> Seq(Lines)]
  /\ printed \in [Generations -> [Lines -> 0..MaxLines]]
  /\ exitRead \in [Generations -> BOOLEAN]

\* Every step keeps the types of the RealSense processes.
LEMMA CameraTypeStep ==
  ASSUME IInv, [Next]_vars
  PROVE  CameraTyped'
<1>1. TypeOK /\ Roles
  BY DEF IInv
<1>2. /\ alive \in [Generations -> BOOLEAN] /\ killed \in [Generations -> BOOLEAN]
      /\ lines \in [Generations -> Seq(Lines)]
      /\ printed \in [Generations -> [Lines -> 0..MaxLines]]
      /\ exitRead \in [Generations -> BOOLEAN]
  BY DEF IInv, TypeOK
<1> USE <1>1, <1>2 DEF CameraTyped, Goto, session, locks, sensors, recovery, camera
<1>3. CASE StartService
  BY <1>3 DEF StartService, ResourceStep
<1>4. CASE ServicesReady
  BY <1>4 DEF ServicesReady, ResourceStep
<1>5. CASE NothingToRecover
  BY <1>5, NothingToRecoverGoes DEF NothingToRecover
<1>6. CASE TakeFatal
  BY <1>6 DEF TakeFatal, RecoveryPoints, Unneeded
<1>7. CASE RestartBegin
  BY <1>7 DEF RestartBegin, FailStartup, Failure
<1>8. CASE RestartStop
  BY <1>8 DEF RestartStop, FailStartup, Failure
<1>9. CASE RestartStart
  BY <1>9 DEF RestartStart
<1>10. CASE RestartDone
  BY <1>10 DEF RestartDone, FailStartup, Failure
<1>11. CASE NodesUp
  BY <1>11 DEF NodesUp, FailStartup, Failure
<1>12. CASE ImagesReady
  BY <1>12 DEF ImagesReady, FailStartup, Failure
<1>13. CASE ImagesSeen
  BY <1>13 DEF ImagesSeen
<1>14. CASE BeginWarmup
  BY <1>14 DEF BeginWarmup
<1>15. CASE StartSensor
  BY <1>15 DEF StartSensor, FailStartup, Failure
<1>16. CASE StartLerobot
  BY <1>16 DEF StartLerobot, ResourceStep
<1>17. CASE StartControl
  BY <1>17 DEF StartControl, ResourceStep
<1>18. CASE AwaitWorkerReady
  BY <1>18 DEF AwaitWorkerReady, FailStartup, Failure
<1>19. CASE FinalCheck
  BY <1>19 DEF FinalCheck, ResourceStep
<1>20. CASE Discard
  BY <1>20 DEF Discard
<1>21. CASE MarkReady
  BY <1>21 DEF MarkReady
<1>22. ASSUME NEW t \in {"main", "failstop"}, MarkStopped(t) PROVE CameraTyped'
  BY <1>22 DEF MarkStopped, Teardown, TornDown
<1>23. ASSUME NEW t \in {"main", "failstop"}, StopSensors(t) PROVE CameraTyped'
  BY <1>23 DEF StopSensors
<1>24. ASSUME NEW t \in {"main", "failstop"}, StopProcesses(t) PROVE CameraTyped'
  BY <1>24 DEF StopProcesses, TornDown
<1>25. CASE StartupRaises
  BY <1>25 DEF StartupRaises, RaiseFailStop
<1>26. CASE LeaveLoop
  BY <1>26 DEF LeaveLoop
<1>27. CASE JoinFailStop
  BY <1>27 DEF JoinFailStop, RaiseFailStop
<1>27a. CASE ReturnFromRun
  BY <1>27a DEF ReturnFromRun
<1>28. ASSUME NEW t \in {"main", "reporter", "reader"}, EstablishFailStop(t) PROVE CameraTyped'
  BY <1>28 DEF EstablishFailStop, AfterRequest
<1>29. CASE FailStopRecord
  BY <1>29 DEF FailStopRecord
<1>30. CASE FailStopWorker
  BY <1>30 DEF FailStopWorker
<1>31. CASE FailStopManifest
  BY <1>31 DEF FailStopManifest
<1>32. CASE ReportFault
  BY <1>32 DEF ReportFault, RaiseFailStop
<1>33. ASSUME NEW g \in Generations, ReadNodeUp(g) PROVE CameraTyped'
  <2>1. Tail(lines[g]) \in Seq(Lines)
    BY <1>33 DEF ReadNodeUp
  <2> QED
    BY <1>33, <2>1 DEF ReadNodeUp
<1>34. ASSUME NEW g \in Generations, ReadFatal(g) PROVE CameraTyped'
  <2>1. Tail(lines[g]) \in Seq(Lines)
    BY <1>34 DEF ReadFatal
  <2> QED
    BY <1>34, <2>1 DEF ReadFatal
<1>35. ASSUME NEW g \in Generations, ReadExit(g) PROVE CameraTyped'
  BY <1>35 DEF ReadExit, RaiseFailStop
<1>36. ASSUME NEW g \in Generations, NEW line \in Lines, Prints(g, line) PROVE CameraTyped'
  <2>1. printed[g][line] + 1 \in 0..MaxLines
    BY <1>36, StartupAssumption DEF Prints
  <2>2. Append(lines[g], line) \in Seq(Lines)
    OBVIOUS
  <2> QED
    BY <1>36, <2>1, <2>2 DEF Prints
<1>37. ASSUME NEW g \in Generations, RealSenseExits(g) PROVE CameraTyped'
  BY <1>37 DEF RealSenseExits
<1>38. CASE WorkerStarts
  BY <1>38 DEF WorkerStarts
<1>39. CASE UNCHANGED vars
  BY <1>39 DEF vars
<1> QED
  BY <1>3, <1>4, <1>5, <1>6, <1>7, <1>8, <1>9, <1>10, <1>11, <1>12, <1>13, <1>14, <1>15, <1>16,
     <1>17, <1>18, <1>19, <1>20, <1>21, <1>22, <1>23, <1>24, <1>25, <1>26, <1>27, <1>27a, <1>28,
     <1>29, <1>30, <1>31, <1>32, <1>33, <1>34, <1>35, <1>36, <1>37, <1>38, <1>39
     DEF Next, MainStep, Startup, Recovery, StopRuntimeResources, FailStopStep, ReaderStep

\* pc stays a function of the threads.
LEMMA PcStep ==
  ASSUME IInv, [Next]_vars
  PROVE  pc' = [x \in Threads |-> pc'[x]]
<1>1. TypeOK
  BY DEF IInv
<1>2. /\ pc = [x \in Threads |-> pc[x]]
  BY DEF IInv, TypeOK
<1> USE <1>1, <1>2 DEF RaiseFailStop, ResourceStep, FailStartup, Goto, session, locks, sensors,
    recovery, camera
<1>3. CASE StartService
  BY <1>3 DEF StartService, ResourceStep
<1>4. CASE ServicesReady
  BY <1>4 DEF ServicesReady, ResourceStep
<1>5. CASE NothingToRecover
  BY <1>5, NothingToRecoverGoes DEF NothingToRecover
<1>6. CASE TakeFatal
  BY <1>6 DEF TakeFatal, RecoveryPoints, Unneeded
<1>7. CASE RestartBegin
  BY <1>7 DEF RestartBegin, FailStartup, Failure
<1>8. CASE RestartStop
  BY <1>8 DEF RestartStop, FailStartup, Failure
<1>9. CASE RestartStart
  BY <1>9 DEF RestartStart
<1>10. CASE RestartDone
  BY <1>10 DEF RestartDone, FailStartup, Failure
<1>11. CASE NodesUp
  BY <1>11 DEF NodesUp, FailStartup, Failure
<1>12. CASE ImagesReady
  BY <1>12 DEF ImagesReady, FailStartup, Failure
<1>13. CASE ImagesSeen
  BY <1>13 DEF ImagesSeen
<1>14. CASE BeginWarmup
  BY <1>14 DEF BeginWarmup
<1>15. CASE StartSensor
  BY <1>15 DEF StartSensor, FailStartup, Failure
<1>16. CASE StartLerobot
  BY <1>16 DEF StartLerobot, ResourceStep
<1>17. CASE StartControl
  BY <1>17 DEF StartControl, ResourceStep
<1>18. CASE AwaitWorkerReady
  BY <1>18 DEF AwaitWorkerReady, FailStartup, Failure
<1>19. CASE FinalCheck
  BY <1>19 DEF FinalCheck, ResourceStep
<1>20. CASE Discard
  BY <1>20 DEF Discard
<1>21. CASE MarkReady
  BY <1>21 DEF MarkReady
<1>22. ASSUME NEW t \in {"main", "failstop"}, MarkStopped(t) PROVE pc' = [x \in Threads |-> pc'[x]]
  BY <1>22 DEF MarkStopped, Teardown, TornDown
<1>23. ASSUME NEW t \in {"main", "failstop"}, StopSensors(t) PROVE pc' = [x \in Threads |-> pc'[x]]
  BY <1>23 DEF StopSensors
<1>24. ASSUME NEW t \in {"main", "failstop"}, StopProcesses(t)
       PROVE  pc' = [x \in Threads |-> pc'[x]]
  BY <1>24 DEF StopProcesses, TornDown
<1>25. CASE StartupRaises
  BY <1>25 DEF StartupRaises, RaiseFailStop
<1>26. CASE LeaveLoop
  BY <1>26 DEF LeaveLoop
<1>27. CASE JoinFailStop
  BY <1>27 DEF JoinFailStop, RaiseFailStop
<1>27a. CASE ReturnFromRun
  BY <1>27a DEF ReturnFromRun
<1>28. ASSUME NEW t \in {"main", "reporter", "reader"}, EstablishFailStop(t)
       PROVE  pc' = [x \in Threads |-> pc'[x]]
  BY <1>28 DEF EstablishFailStop, AfterRequest
<1>29. CASE FailStopRecord
  BY <1>29 DEF FailStopRecord
<1>30. CASE FailStopWorker
  BY <1>30 DEF FailStopWorker
<1>31. CASE FailStopManifest
  BY <1>31 DEF FailStopManifest
<1>32. CASE ReportFault
  BY <1>32 DEF ReportFault, RaiseFailStop
<1>33. ASSUME NEW g \in Generations, ReadNodeUp(g) PROVE pc' = [x \in Threads |-> pc'[x]]
  BY <1>33 DEF ReadNodeUp
<1>34. ASSUME NEW g \in Generations, ReadFatal(g) PROVE pc' = [x \in Threads |-> pc'[x]]
  BY <1>34 DEF ReadFatal, RaiseFailStop
<1>35. ASSUME NEW g \in Generations, ReadExit(g) PROVE pc' = [x \in Threads |-> pc'[x]]
  BY <1>35 DEF ReadExit, RaiseFailStop
<1>36. ASSUME NEW g \in Generations, NEW line \in Lines, Prints(g, line)
       PROVE  pc' = [x \in Threads |-> pc'[x]]
  BY <1>36 DEF Prints
<1>37. ASSUME NEW g \in Generations, RealSenseExits(g) PROVE pc' = [x \in Threads |-> pc'[x]]
  BY <1>37 DEF RealSenseExits
<1>38. CASE WorkerStarts
  BY <1>38 DEF WorkerStarts
<1>39. CASE UNCHANGED vars
  BY <1>39 DEF vars
<1> QED
  BY <1>3, <1>4, <1>5, <1>6, <1>7, <1>8, <1>9, <1>10, <1>11, <1>12, <1>13, <1>14, <1>15, <1>16,
     <1>17, <1>18, <1>19, <1>20, <1>21, <1>22, <1>23, <1>24, <1>25, <1>26, <1>27, <1>27a, <1>28,
     <1>29, <1>30, <1>31, <1>32, <1>33, <1>34, <1>35, <1>36, <1>37, <1>38, <1>39
     DEF Next, MainStep, Startup, Recovery, StopRuntimeResources, FailStopStep, ReaderStep

\* Only MarkReady makes the session ready.
LEMMA OnlyMarkReady ==
  ASSUME [Next]_vars, state' = "WAIT_START", state # "WAIT_START"
  PROVE  MarkReady
BY DEF Next, MainStep, Startup, Recovery, StopRuntimeResources, FailStopStep, ReaderStep, vars,
       session, RaiseFailStop, StartService, ServicesReady, NothingToRecover, TakeFatal,
       RestartBegin, RestartStop, RestartStart, RestartDone, NodesUp, ImagesReady, ImagesSeen,
       BeginWarmup, StartSensor, StartLerobot, StartControl, AwaitWorkerReady, FinalCheck, Discard,
       MarkStopped, StopSensors, StopProcesses, StartupRaises, LeaveLoop, JoinFailStop,
       ReturnFromRun, EstablishFailStop, FailStopRecord, FailStopWorker, FailStopManifest,
       ReportFault, ReadNodeUp, ReadFatal, ReadExit, Prints, RealSenseExits, WorkerStarts

\* Only StopSensors sends the terminal STOP_REQ.
LEMMA OnlyStopSensors ==
  ASSUME [Next]_vars, sensorsStopped', ~sensorsStopped
  PROVE  \E t \in {"main", "failstop"} : StopSensors(t)
BY DEF Next, MainStep, Startup, Recovery, StopRuntimeResources, FailStopStep, ReaderStep, vars,
       sensors, StartService, ServicesReady, NothingToRecover, TakeFatal, RestartBegin,
       RestartStop, RestartStart, RestartDone, NodesUp, ImagesReady, ImagesSeen, BeginWarmup,
       StartSensor, StartLerobot, StartControl, AwaitWorkerReady, FinalCheck, Discard, MarkReady,
       MarkStopped, StopProcesses, StartupRaises, LeaveLoop, JoinFailStop, ReturnFromRun,
       RaiseFailStop, EstablishFailStop,
       FailStopRecord, FailStopWorker, FailStopManifest, ReportFault, ReadNodeUp, ReadFatal,
       ReadExit, Prints, RealSenseExits, WorkerStarts

\* Every step keeps the types.
LEMMA TypeStep ==
  ASSUME IInv, [Next]_vars
  PROVE  TypeOK'
<1>1. SessionTyped' /\ ResourcesTyped' /\ RecoveryTyped' /\ CameraTyped'
  BY SessionTypeStep, ResourcesTypeStep, RecoveryTypeStep, CameraTypeStep
<1>2. pc' \in [Threads -> MainLabels \cup {"idle", "rfs", "fs_record", "fs_worker", "fs_teardown",
                                         "stop_sensors", "stop_processes", "fs_manifest",
                                         "done", "reading"}]
  <2>1. pc' = [x \in Threads |-> pc'[x]]
    BY PcStep
  <2>2. Roles'
    BY RolesStep
  <2> QED
    BY <2>1, <2>2 DEF Roles, Threads
<1> QED
  BY <1>1, <1>2 DEF TypeOK, SessionTyped, ResourcesTyped, RecoveryTyped, CameraTyped

\* The invariant holds initially.
LEMMA InitInvariant == Init => IInv
<1> SUFFICES ASSUME Init
             PROVE  IInv
  OBVIOUS
<1>1. /\ pc["main"] = "services" /\ pc["failstop"] = "idle"
      /\ pc["reporter"] = "idle" /\ pc["reader"] = "reading"
  BY DEF Init, Threads
<1>2. TypeOK
  <2>1. SessionTyped /\ ResourcesTyped
    BY DEF Init, SessionTyped, ResourcesTyped
  <2>2. RecoveryTyped
    <3>1. 0 \in 0..MaxRestarts /\ <<>> \in Seq(Generations)
      BY StartupAssumption
    <3> QED
      BY <3>1 DEF Init, RecoveryTyped
  <2>3. CameraTyped
    <3>1. 0 \in 0..MaxLines /\ <<>> \in Seq(Lines)
      BY StartupAssumption
    <3> QED
      BY <3>1 DEF Init, CameraTyped
  <2>4. pc \in [Threads -> {"services", "reading", "idle"}]
    BY DEF Init
  <2>5. pc \in [Threads -> MainLabels \cup {"idle", "rfs", "fs_record", "fs_worker",
                                         "fs_teardown", "stop_sensors", "stop_processes",
                                         "fs_manifest", "done", "reading"}]
    BY <2>4 DEF MainLabels
  <2> QED
    BY <2>1, <2>2, <2>3, <2>5
       DEF TypeOK, SessionTyped, ResourcesTyped, RecoveryTyped, CameraTyped
<1>3. Roles /\ Counted
  BY <1>1 DEF Init, Roles, MainLabels, Counted
<1>4. FailStopping /\ Restarting /\ Warmup /\ Stopped
  BY <1>1 DEF Init, FailStopping, Restarting, Warmup, Stopped, Returning
<1>5. CamerasSeen
  BY <1>1 DEF CamerasSeen, Seen
<1> QED
  BY <1>2, <1>3, <1>4, <1>5 DEF IInv

\* Every step keeps the invariant.
LEMMA NextInvariant == IInv /\ [Next]_vars => IInv'
<1> SUFFICES ASSUME IInv, [Next]_vars
             PROVE  IInv'
  OBVIOUS
<1>1. TypeOK' /\ Roles' /\ Counted' /\ FailStopping'
  BY TypeStep, RolesStep, CountedStep, FailStoppingStep
<1>2. Restarting' /\ Warmup' /\ Stopped' /\ CamerasSeen'
  BY RestartingStep, WarmupStep, StoppedStep, CamerasSeenStep
<1> QED
  BY <1>1, <1>2 DEF IInv

-----------------------------------------------------------------------------
\* The inductive invariant holds in every state, whatever RealSense, LeRobot and the sensors do.
THEOREM InvariantHolds == Spec => []IInv
  BY InitInvariant, NextInvariant, PTL DEF Spec

\* Every variable of startup has its type: RealSense is never restarted beyond its budget.
THEOREM TypeCorrect == Spec => []TypeOK
<1>1. IInv => TypeOK
  BY DEF IInv
<1> QED
  BY <1>1, InvariantHolds, PTL

\* run() returns with everything that startup registered stopped, wherever in startup the
\* fail-stop came and whichever thread stopped it, unless its joins gave up on a fail-stop
\* thread that was stopping it.
THEOREM NothingLeftBehind == Spec => []NoOrphan
<1>1. IInv => NoOrphan
  <2> SUFFICES ASSUME IInv, pc["main"] = "exited", ~Stopping("failstop")
               PROVE  running = {} /\ \A g \in Generations : ~alive[g]
    BY DEF NoOrphan, Stopping
  <2>1. resourcesStopped /\ ~Stopping("main")
    BY DEF IInv, Stopped, Stopping, Returning
  <2> QED
    BY <2>1 DEF IInv, Stopped, Stopping
<1> QED
  BY <1>1, InvariantHolds, PTL

\* _mark_session_ready runs only when the images of the current RealSense generation have been
\* seen since its last restart.
THEOREM CamerasSeenBeforeReady == Spec => ReadyMeansCamerasSeen
<1>1. ASSUME IInv, [Next]_vars
      PROVE  [state' = "WAIT_START" /\ state # "WAIT_START" => imagesFrom = generation]_vars
  <2> SUFFICES ASSUME state' = "WAIT_START", state # "WAIT_START"
               PROVE  imagesFrom = generation
    OBVIOUS
  <2>1. MarkReady
    BY <1>1, OnlyMarkReady
  <2>2. pc["main"] = "complete"
    BY <2>1 DEF MarkReady
  <2> QED
    BY <1>1, <2>2 DEF IInv, CamerasSeen, Seen
<1>2. IInv /\ [Next]_vars => [state' = "WAIT_START" /\ state # "WAIT_START" =>
                                imagesFrom = generation]_vars
  BY <1>1
<1> QED
  BY <1>2, InvariantHolds, PTL DEF Spec, ReadyMeansCamerasSeen

\* STOP_REQ is sent only when the warmup has discarded its sensors, but for those that did not
\* acknowledge, although the fail-stop may be requested in the middle of it.
THEOREM StopFollowsWarmup == Spec => WarmupFinalizedFirst
<1>1. ASSUME IInv, [Next]_vars
      PROVE  [sensorsStopped' /\ ~sensorsStopped => activeSensors \subseteq lost]_vars
  <2> SUFFICES ASSUME sensorsStopped', ~sensorsStopped
               PROVE  activeSensors \subseteq lost
    OBVIOUS
  <2>1. PICK t \in {"main", "failstop"} : StopSensors(t)
    BY <1>1, OnlyStopSensors
  <2>2. recordingLock = "free"
    BY <2>1 DEF StopSensors
  <2> QED
    BY <1>1, <2>2 DEF IInv, Warmup
<1>2. IInv /\ [Next]_vars =>
        [sensorsStopped' /\ ~sensorsStopped => activeSensors \subseteq lost]_vars
  BY <1>1
<1> QED
  BY <1>2, InvariantHolds, PTL DEF Spec, WarmupFinalizedFirst

=============================================================================
