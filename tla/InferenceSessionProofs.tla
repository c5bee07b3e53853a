----------------------- MODULE InferenceSessionProofs -----------------------
(***************************************************************************)
(* Theorems about InferenceSession, for every MaxRollouts and every set of *)
(* faults: its types, the safety of the two termination paths, and that it *)
(* implements SessionTermination.                                          *)
(*                                                                         *)
(* The termination properties are not inductive: whether a thread may      *)
(* stop the sensors or write the manifest depends on how it got there.     *)
(* IInv says what each thread knows at its label.  A thread inside         *)
(* request_fail_stop is at the label it resumes at (At), so a fail-stop    *)
(* raised on the way never loses what the thread knew.                     *)
(***************************************************************************)
EXTENDS InferenceSession, SequenceTheorems, TLAPS

At(t) == IF pc[t] = "rfs" THEN ret[t] ELSE pc[t]

\* Labels of the main thread between the choice of SHUTDOWN and its withdrawal or its end.
IntentLabels == {"sd_stop_send", "sd_stop_wait", "sd_record", "sd_send", "sd_deadlock",
                 "sd_ack", "sd_reject"} \cup TeardownLabels

\* Labels a thread reaches only after it has seen the worker gone.
GoneLabels == {"sd_rc", "sd_final", "f_lock", "f_mark", "f_close", "f_sensors", "f_manifest"}

StopLabels == {"f_close", "f_sensors"}

\* Labels at which _start_rollout holds the recording lock.
StartLabels == {"sensor_check", "sensor_start", "start_rearm", "start_record", "start_gate",
                "start_send", "start_wait", "start_check", "start_set", "start_fail",
                "start_release"}

\* The fail-stop thread runs only under a FAIL_STOP intent, a shutdown only under an intent.
IntentHeld ==
  /\ pc["failstop"] # "idle" => mode = "FAIL_STOP"
  /\ At("main") \in IntentLabels => mode # "None"

\* Who tears down has seen the worker gone; resources are stopped only then.
WorkerGone ==
  /\ \A t \in Finalizers : At(t) \in GoneLabels => ~WorkerAlive
  /\ resourcesStopped => ~WorkerAlive

\* One thread stops the resources; what is written afterwards finds them stopped.
Marked ==
  /\ \A t \in Finalizers : At(t) \in StopLabels \cup {"f_manifest"} => resourcesStopped
  /\ ~(At("main") \in StopLabels /\ At("failstop") \in StopLabels)
  /\ sessionManifest # "none" => resourcesStopped

\* A recorded SHUTDOWN leaves the main thread nothing to do but to return.
Recorded ==
  /\ sessionManifest # "none" => sessionManifest = mode /\ mode # "None"
  /\ sessionManifest = "SHUTDOWN" =>
       state = "STOPPED" /\ At("main") \in {"loop", "exit_join", "exited"}

RecordingHeld == At("main") \in StartLabels => recordingLock = "main"

\* A stopped sensor is out of every other thread's reach.
SensorsOut ==
  \A s \in Sensors : sensor[s] = "stopped" =>
    /\ resourcesStopped /\ s \notin activeSensors
    /\ At("main") # "sensor_start"
    /\ \A t \in Finalizers : At(t) \notin StopLabels

\* The open rollout, and those not begun, have no manifest.
RolloutOpen ==
  /\ store <= rolloutIndex
  /\ \A i \in 1..MaxRollouts : i = store \/ i > rolloutIndex => rolloutManifest[i] = "none"

\* The inductive invariant.
IInv ==
  /\ TypeOK
  /\ IntentHeld /\ WorkerGone /\ Marked /\ Recorded
  /\ RecordingHeld /\ SensorsOut /\ RolloutOpen

-----------------------------------------------------------------------------
(***************************************************************************)
(* Types.  Each group of variables keeps its type when it is unchanged.    *)
(***************************************************************************)
LEMMA FrameTypes ==
  /\ SessionType   /\ UNCHANGED session   => SessionType'
  /\ LockType      /\ UNCHANGED locks     => LockType'
  /\ CommandType   /\ UNCHANGED commands  => CommandType'
  /\ RecordingType /\ UNCHANGED recording => RecordingType'
  /\ ProcessType   /\ UNCHANGED process   => ProcessType'
  /\ WorkerType    /\ UNCHANGED worker    => WorkerType'
  /\ ClientType    /\ UNCHANGED client    => ClientType'
  /\ ThreadType    /\ UNCHANGED threads   => ThreadType'
<1>1. SessionType /\ UNCHANGED session => SessionType'
  BY DEF SessionType, session
<1>2. LockType /\ UNCHANGED locks => LockType'
  BY DEF LockType, locks
<1>3. CommandType /\ UNCHANGED commands => CommandType'
  BY DEF CommandType
<1>4. RecordingType /\ UNCHANGED recording => RecordingType'
  BY DEF RecordingType, recording
<1>5. ProcessType /\ UNCHANGED process => ProcessType'
  BY DEF ProcessType, process
<1>6. WorkerType /\ UNCHANGED worker => WorkerType'
  BY DEF WorkerType, worker
<1>7. ClientType /\ UNCHANGED client => ClientType'
  BY DEF ClientType, client
<1>8. ThreadType /\ UNCHANGED threads => ThreadType'
  BY DEF ThreadType, threads
<1> QED
  BY <1>1, <1>2, <1>3, <1>4, <1>5, <1>6, <1>7, <1>8

\* The first element and the rest of a nonempty queue belong to its type.
LEMMA HeadTail ==
  ASSUME NEW S, NEW q \in Seq(S), q # <<>>
  PROVE  Head(q) \in S /\ Tail(q) \in Seq(S)
  BY HeadTailProperties

\* Moving a thread to a label, alone or with a fail-stop request, is well typed.
LEMMA GotoTyped ==
  ASSUME ThreadType, NEW t \in Threads, NEW l \in Labels, Goto(t, l)
  PROVE  ThreadType'
  BY DEF ThreadType, Goto

LEMMA StepTyped ==
  ASSUME TypeOK, NEW t \in Threads, NEW l \in Labels, Step(t, l)
  PROVE  TypeOK'
  BY GotoTyped, FrameTypes DEF Step, TypeOK, ButThreads

LEMMA RaiseTyped ==
  ASSUME SessionType, ThreadType, NEW t \in Threads, NEW l \in Labels \ {"rfs"},
         RaiseFailStop(t, l)
  PROVE  SessionType' /\ ThreadType'
<1>1. SessionType'
  BY DEF RaiseFailStop, SessionType, teardown
<1>2. "rfs" \in Labels
  BY DEF Labels, OtherLabels
<1>3. ThreadType'
  BY <1>2 DEF RaiseFailStop, ThreadType
<1> QED
  BY <1>1, <1>3

LEMMA FailStopFromTyped ==
  ASSUME TypeOK, NEW t \in Threads, NEW l \in Labels \ {"rfs"}, FailStopFrom(t, l)
  PROVE  TypeOK'
  BY RaiseTyped, FrameTypes DEF FailStopFrom, TypeOK

LEMMA EstablishTyped ==
  ASSUME TypeOK, NEW t \in Threads, EstablishFailStop(t)
  PROVE  TypeOK'
<1>1. ThreadType'
  <2>1. "idle" \in Labels \ {"rfs"} /\ "fs_record" \in Labels /\ "failstop" \in Threads
    BY DEF Labels, OtherLabels, Threads
  <2>2. ret' \in [Threads -> Labels \ {"rfs"}]
    BY <2>1 DEF EstablishFailStop, TypeOK, ThreadType
  <2>3. pc' \in [Threads -> Labels]
    BY <2>1 DEF EstablishFailStop, TypeOK, ThreadType
  <2> QED
    BY <2>2, <2>3 DEF EstablishFailStop, TypeOK, ThreadType
<1>2. SessionType'
  BY DEF EstablishFailStop, TypeOK, SessionType, States, teardown
<1> QED
  BY <1>1, <1>2, FrameTypes DEF EstablishFailStop, TypeOK

LEMMA AdmitTyped ==
  ASSUME SessionType, CommandType, NEW n \in CommandNames, NEW from \in States,
         NEW to \in States, Admit(n, from, to)
  PROVE  SessionType' /\ CommandType'
<1>1. Command(n, from) \in [name : CommandNames, from : States]
  BY DEF Command
<1> QED
  BY <1>1 DEF Admit, SessionType, CommandType, teardown

LEMMA TransactSendTyped ==
  ASSUME TypeOK, NEW at, NEW next \in Labels, NEW fail \in Labels \ {"rfs"},
         TransactSend(at, next, fail)
  PROVE  TypeOK'
<1>0. "main" \in Threads
  BY DEF Threads
<1>1. SessionType' /\ ThreadType'
  BY <1>0, GotoTyped, RaiseTyped, FrameTypes DEF TransactSend, TypeOK
<1>2. WorkerType'
  BY DEF TransactSend, PutRequest, TypeOK, WorkerType, Ordinary, Operations
<1>3. ClientType'
  BY DEF TransactSend, PutRequest, TypeOK, ClientType
<1> QED
  BY <1>1, <1>2, <1>3, FrameTypes DEF TransactSend, TypeOK

LEMMA TransactWaitTyped ==
  ASSUME TypeOK, NEW at, NEW next \in Labels, NEW fail \in Labels,
         TransactWait(at, next, fail)
  PROVE  TypeOK'
  BY StepTyped DEF TransactWait, Threads

\* Recording.
LEMMA FinalizeSensorsTyped ==
  ASSUME RecordingType, NEW failed \in SUBSET Sensors, FinalizeSensors(failed)
  PROVE  /\ activeSensors' \in SUBSET Sensors
         /\ sensor' \in [Sensors -> {"idle", "acquiring", "unknown", "stopped"}]
  BY DEF FinalizeSensors, RecordingType

LEMMA FinishRecordingTyped ==
  ASSUME RecordingType, NEW status \in {"done", "failed"}, NEW errors \in BOOLEAN,
         FinishRecording(status, errors)
  PROVE  RecordingType'
<1>1. CASE store = 0
  BY <1>1, FrameTypes DEF FinishRecording
<1>2. CASE store # 0
  <2>1. PICK failed \in SUBSET Sensors : FinalizeSensors(failed)
    BY <1>2 DEF FinishRecording, Unacknowledged, RecordingType
  <2>2. recorder' \in {"idle", "recording", "unknown"}
    BY <1>2 DEF FinishRecording
  <2>3. /\ rolloutIndex' \in Nat /\ store' \in Nat
        /\ rolloutManifest' \in [1..MaxRollouts -> {"none", "done", "failed"}]
    BY <1>2 DEF FinishRecording, RecordingType
  <2> QED
    BY <2>1, <2>2, <2>3, FinalizeSensorsTyped DEF RecordingType
<1> QED
  BY <1>1, <1>2

LEMMA RecordAndGotoTyped ==
  ASSUME TypeOK, NEW at, NEW status \in {"done", "failed"}, NEW done \in Labels,
         NEW fail \in Labels, RecordAndGoto(at, status, done, fail)
  PROVE  TypeOK'
<1>1. PICK errors \in BOOLEAN : /\ FinishRecording(status, errors)
                                /\ Goto("main", IF errors THEN fail ELSE done)
  BY DEF RecordAndGoto
<1>2. ThreadType'
  BY <1>1, GotoTyped DEF TypeOK, Threads
<1>3. RecordingType'
  BY <1>1, FinishRecordingTyped DEF TypeOK
<1> QED
  BY <1>2, <1>3, FrameTypes DEF RecordAndGoto, ButRecorded, TypeOK

LEMMA SetStateTyped ==
  ASSUME TypeOK, NEW at, NEW st \in States, SetState(at, st)
  PROVE  TypeOK'
<1>1. ThreadType'
  BY GotoTyped DEF SetState, TypeOK, Threads, Labels, MainLabels
<1>2. SessionType'
  BY DEF SetState, TypeOK, SessionType, teardown
<1> QED
  BY <1>1, <1>2, FrameTypes DEF SetState, TypeOK

\* The main thread's actions, one leaf each.
LEMMA RolloutTyped == TypeOK /\ Rollout => TypeOK'
<1> SUFFICES ASSUME TypeOK, Rollout PROVE TypeOK'
  OBVIOUS
<1> USE DEF Labels, MainLabels, OtherLabels, Threads
<1>1. CASE InitializeSend
  BY <1>1, TransactSendTyped DEF InitializeSend
<1>2. CASE InitializeWait
  BY <1>2, StepTyped DEF InitializeWait
<1>3. CASE InitializeRejected
  BY <1>3, SetStateTyped DEF InitializeRejected, States
<1>4. CASE InitializeCheck
  BY <1>4, StepTyped DEF InitializeCheck, CheckState
<1>5. CASE InitializeSet
  BY <1>5, SetStateTyped DEF InitializeSet, States
<1>6. CASE HandlerFailed
  BY <1>6, FailStopFromTyped DEF HandlerFailed
<1>7. CASE BeginRecording
  <2>1. ThreadType'
    BY <1>7, GotoTyped DEF BeginRecording, TypeOK
  <2>2. LockType'
    BY <1>7 DEF BeginRecording, TypeOK, LockType
  <2>3. RecordingType'
    BY <1>7 DEF BeginRecording, TypeOK, RecordingType
  <2> QED
    BY <1>7, <2>1, <2>2, <2>3, FrameTypes DEF BeginRecording, TypeOK
<1>8. CASE SensorCheck
  <2>1. ThreadType'
    BY <1>8, GotoTyped DEF SensorCheck, TypeOK
  <2>2. CASE DiscardActiveSensors
    <3>1. PICK failed \in SUBSET Sensors : FinalizeSensors(failed)
      BY <2>2 DEF DiscardActiveSensors, Unacknowledged, TypeOK, RecordingType
    <3>2. RecordingType'
      BY <2>2, <3>1, FinalizeSensorsTyped DEF DiscardActiveSensors, TypeOK, RecordingType
    <3> QED
      BY <1>8, <2>1, <3>2, FrameTypes DEF SensorCheck, ButRecorded, TypeOK
  <2>3. CASE UNCHANGED recording
    BY <1>8, <2>1, <2>3, FrameTypes DEF SensorCheck, ButRecorded, TypeOK
  <2> QED
    BY <1>8, <2>2, <2>3 DEF SensorCheck
<1>9. CASE SensorStart
  <2>1. ThreadType'
    BY <1>9, GotoTyped DEF SensorStart, TypeOK
  <2>2. RecordingType'
    BY <1>9 DEF SensorStart, TypeOK, RecordingType, Sensors
  <2> QED
    BY <1>9, <2>1, <2>2, FrameTypes DEF SensorStart, ButRecorded, TypeOK
<1>10. CASE Rearm
  BY <1>10, StepTyped DEF Rearm
<1>11. CASE StartRecorder
  <2>1. ThreadType'
    BY <1>11, GotoTyped DEF StartRecorder, TypeOK
  <2>2. RecordingType'
    BY <1>11 DEF StartRecorder, TypeOK, RecordingType
  <2> QED
    BY <1>11, <2>1, <2>2, FrameTypes DEF StartRecorder, ButRecorded, TypeOK
<1>12. CASE StartGate
  BY <1>12, StepTyped DEF StartGate
<1>13. CASE StartSend
  BY <1>13, TransactSendTyped DEF StartSend
<1>14. CASE StartWait
  BY <1>14, TransactWaitTyped DEF StartWait
<1>15. CASE StartCheck
  BY <1>15, StepTyped DEF StartCheck, CheckState
<1>16. CASE StartSet
  <2>1. ThreadType'
    BY <1>16, GotoTyped DEF StartSet, TypeOK
  <2>2. SessionType'
    BY <1>16 DEF StartSet, TypeOK, SessionType, States, teardown
  <2> QED
    BY <1>16, <2>1, <2>2, FrameTypes DEF StartSet, TypeOK
<1>17. CASE StartFailed
  <2>1. SessionType' /\ ThreadType'
    BY <1>17, RaiseTyped DEF StartFailed, TypeOK
  <2>2. RecordingType'
    BY <1>17, FinishRecordingTyped DEF StartFailed, FailRecordingBestEffort, TypeOK
  <2> QED
    BY <1>17, <2>1, <2>2, FrameTypes DEF StartFailed, TypeOK
<1>18. CASE ReleaseRecording
  <2>1. ThreadType'
    BY <1>18, GotoTyped DEF ReleaseRecording, TypeOK
  <2>2. LockType'
    BY <1>18 DEF ReleaseRecording, TypeOK, LockType
  <2> QED
    BY <1>18, <2>1, <2>2, FrameTypes DEF ReleaseRecording, TypeOK
<1>19. CASE FinishSend
  BY <1>19, TransactSendTyped DEF FinishSend
<1>20. CASE FinishWait
  BY <1>20, TransactWaitTyped DEF FinishWait
<1>21. CASE FinishRecord
  BY <1>21, RecordAndGotoTyped DEF FinishRecord
<1>22. CASE FinishCheck
  BY <1>22, StepTyped DEF FinishCheck, CheckState
<1>23. CASE FinishSet
  BY <1>23, SetStateTyped DEF FinishSet, States
<1>24. CASE FinishFailed
  BY <1>24, RecordAndGotoTyped DEF FinishFailed
<1>25. CASE CompletedCheck
  BY <1>25, StepTyped DEF CompletedCheck, CheckState
<1>26. CASE CompletedRecord
  BY <1>26, RecordAndGotoTyped DEF CompletedRecord
<1>27. CASE CompletedSet
  BY <1>27, SetStateTyped DEF CompletedSet, States
<1> QED
  BY <1>1, <1>2, <1>3, <1>4, <1>5, <1>6, <1>7, <1>8, <1>9, <1>10, <1>11, <1>12, <1>13,
     <1>14, <1>15, <1>16, <1>17, <1>18, <1>19, <1>20, <1>21, <1>22, <1>23, <1>24, <1>25,
     <1>26, <1>27 DEF Rollout

LEMMA ShutdownTyped == TypeOK /\ Shutdown => TypeOK'
<1> SUFFICES ASSUME TypeOK, Shutdown PROVE TypeOK'
  OBVIOUS
<1> USE DEF Labels, MainLabels, OtherLabels, TeardownLabels, Threads
<1>1. CASE ShutdownBegin
  <2>1. CASE Step("main", "loop")
    BY <2>1, StepTyped
  <2>2. CASE ~Step("main", "loop")
    <3>1. ThreadType'
      BY <1>1, <2>2, GotoTyped DEF ShutdownBegin, TypeOK
    <3>2. SessionType'
      BY <1>1, <2>2 DEF ShutdownBegin, TypeOK, SessionType, teardown
    <3>3. ClientType'
      BY <1>1, <2>2 DEF ShutdownBegin, TypeOK, ClientType
    <3> QED
      BY <1>1, <2>2, <3>1, <3>2, <3>3, FrameTypes DEF ShutdownBegin, TypeOK
  <2> QED
    BY <2>1, <2>2
<1>2. CASE ShutdownStopSend
  BY <1>2, TransactSendTyped DEF ShutdownStopSend
<1>3. CASE ShutdownStopWait
  BY <1>3, TransactWaitTyped DEF ShutdownStopWait
<1>4. CASE ShutdownRecord
  BY <1>4, RecordAndGotoTyped DEF ShutdownRecord
<1>5. CASE ShutdownSend
  <2>1. ThreadType'
    BY <1>5, GotoTyped DEF ShutdownSend, TypeOK
  <2>2. LockType'
    BY <1>5 DEF ShutdownSend, TypeOK, LockType
  <2>3. WorkerType'
    BY <1>5 DEF ShutdownSend, PutRequest, TypeOK, WorkerType, Operations
  <2>4. ClientType'
    <3>1. acks' \in [Operations -> {"none", "accepted", "rejected"}]
      BY <1>5 DEF ShutdownSend, PutRequest, TypeOK, ClientType
    <3>2. disconnected' \in BOOLEAN
      BY <1>5 DEF ShutdownSend, TypeOK, ClientType
    <3>3. shutdownSent' \in BOOLEAN
      BY <1>5 DEF ShutdownSend, TypeOK, ClientType
    <3> QED
      BY <1>5, <3>1, <3>2, <3>3 DEF ShutdownSend, TypeOK, ClientType
  <2> QED
    BY <1>5, <2>1, <2>2, <2>3, <2>4, FrameTypes DEF ShutdownSend, TypeOK
<1>6. CASE ShutdownAckWait
  BY <1>6, StepTyped DEF ShutdownAckWait
<1>7. CASE ShutdownRejected
  <2>1. ThreadType'
    BY <1>7, GotoTyped DEF ShutdownRejected, TypeOK
  <2>2. SessionType'
    BY <1>7 DEF ShutdownRejected, TypeOK, SessionType, States, teardown
  <2>3. ClientType'
    BY <1>7 DEF ShutdownRejected, TypeOK, ClientType
  <2> QED
    BY <1>7, <2>1, <2>2, <2>3, FrameTypes DEF ShutdownRejected, TypeOK
<1> QED
  BY <1>1, <1>2, <1>3, <1>4, <1>5, <1>6, <1>7 DEF Shutdown

LEMMA TeardownTyped ==
  ASSUME TypeOK, NEW t \in Finalizers, Teardown(t)
  PROVE  TypeOK'
<1> USE DEF Labels, MainLabels, OtherLabels, TeardownLabels
<1>0. t \in Threads
  BY DEF Finalizers, Threads
<1>1. CASE ExpectWorkerExit(t)
  <2>1. ThreadType'
    BY <1>0, <1>1, GotoTyped DEF ExpectWorkerExit, TypeOK
  <2>2. ProcessType'
    BY <1>1 DEF ExpectWorkerExit, TypeOK, ProcessType
  <2> QED
    BY <1>1, <2>1, <2>2, FrameTypes DEF ExpectWorkerExit, TypeOK
<1>2. CASE WorkerExitWait(t)
  BY <1>0, <1>2, StepTyped, FailStopFromTyped DEF WorkerExitWait
<1>3. CASE ForceTerminate(t)
  <2>1. ThreadType'
    BY <1>0, <1>3, GotoTyped DEF ForceTerminate, TypeOK
  <2>2. WorkerType'
    BY <1>3 DEF ForceTerminate, TypeOK, WorkerType, Phases, Exited
  <2> QED
    BY <1>3, <2>1, <2>2, FrameTypes DEF ForceTerminate, TypeOK
<1>4. CASE CheckReturnCode(t)
  BY <1>0, <1>4, StepTyped, FailStopFromTyped DEF CheckReturnCode
<1>5. CASE WorkerExitDone(t)
  BY <1>0, <1>5, StepTyped DEF WorkerExitDone
<1>6. CASE FinalizeBegin(t)
  <2>1. CASE Step(t, AfterFinalize(t))
    BY <1>0, <2>1, StepTyped DEF AfterFinalize
  <2>2. CASE ~Step(t, AfterFinalize(t))
    <3>1. ThreadType'
      BY <1>0, <1>6, <2>2, GotoTyped DEF FinalizeBegin, TypeOK
    <3>2. LockType'
      BY <1>6, <2>2 DEF FinalizeBegin, TypeOK, LockType
    <3> QED
      BY <1>6, <2>2, <3>1, <3>2, FrameTypes DEF FinalizeBegin, TypeOK
  <2> QED
    BY <2>1, <2>2
<1>7. CASE MarkResourcesStopped(t)
  <2>1. CASE Step(t, "f_manifest")
    BY <1>0, <2>1, StepTyped
  <2>2. CASE ~Step(t, "f_manifest")
    <3>1. ThreadType'
      BY <1>0, <1>7, <2>2, GotoTyped DEF MarkResourcesStopped, TypeOK
    <3>2. SessionType' /\ ProcessType'
      BY <1>7, <2>2 DEF MarkResourcesStopped, TypeOK, SessionType, ProcessType
    <3> QED
      BY <1>7, <2>2, <3>1, <3>2, FrameTypes DEF MarkResourcesStopped, TypeOK
  <2> QED
    BY <2>1, <2>2
<1>8. CASE CloseControl(t)
  <2>1. ThreadType'
    BY <1>0, <1>8, GotoTyped DEF CloseControl, TypeOK
  <2>2. ClientType'
    BY <1>8 DEF CloseControl, TypeOK, ClientType
  <2> QED
    BY <1>8, <2>1, <2>2, FrameTypes DEF CloseControl, TypeOK
<1>9. CASE StopSensors(t)
  <2>1. ThreadType'
    BY <1>0, <1>9, GotoTyped DEF StopSensors, TypeOK
  <2>2. RecordingType'
    BY <1>9 DEF StopSensors, TypeOK, RecordingType
  <2> QED
    BY <1>9, <2>1, <2>2, FrameTypes DEF StopSensors, ButRecorded, TypeOK
<1>10. CASE WriteSessionManifest(t)
  <2>1. LockType'
    BY <1>10 DEF WriteSessionManifest, TypeOK, LockType
  <2>2. SessionType' /\ ThreadType'
    <3>1. CASE RaiseFailStop(t, "exit_join")
      BY <1>0, <3>1, RaiseTyped DEF TypeOK
    <3>2. CASE Goto(t, AfterFinalize(t)) /\ sessionManifest' = mode /\ state' = "STOPPED"
      <4>1. ThreadType'
        BY <1>0, <3>2, GotoTyped DEF AfterFinalize, TypeOK
      <4>2. SessionType'
        BY <1>10, <3>2 DEF WriteSessionManifest, TypeOK, SessionType, States, RaiseFailStop,
           teardown, session
      <4> QED
        BY <4>1, <4>2
    <3>3. CASE Goto(t, "done") /\ UNCHANGED session
      BY <1>0, <3>3, GotoTyped, FrameTypes DEF TypeOK
    <3> QED
      BY <1>10, <3>1, <3>2, <3>3 DEF WriteSessionManifest
  <2> QED
    BY <1>10, <2>1, <2>2, FrameTypes DEF WriteSessionManifest, TypeOK
<1> QED
  BY <1>1, <1>2, <1>3, <1>4, <1>5, <1>6, <1>7, <1>8, <1>9, <1>10 DEF Teardown

LEMMA ReceiverTyped == TypeOK /\ (Deliver \/ StatusCallback \/ EndOfFile \/ DisconnectCallback)
                         => TypeOK'
<1> SUFFICES ASSUME TypeOK, Deliver \/ StatusCallback \/ EndOfFile \/ DisconnectCallback
             PROVE  TypeOK'
  OBVIOUS
<1>0. {"recv", "done", "status", "disconnect"} \subseteq Labels \ {"rfs"} /\ "receiver" \in Threads
  BY DEF Labels, OtherLabels, Threads
<1>1. CASE Deliver
  <2>1. Head(outbox) \in Messages /\ outbox' \in Seq(Messages)
    BY <1>1, HeadTail DEF Deliver, TypeOK, WorkerType
  <2>2. WorkerType'
    BY <1>1, <2>1 DEF Deliver, TypeOK, WorkerType
  <2>3. CASE Head(outbox).kind = "ack"
    <3>1. Head(outbox).name \in Operations
      BY <2>1, <2>3 DEF Messages
    <3>2. ClientType' /\ ThreadType'
      BY <1>1, <2>3, <3>1, FrameTypes DEF Deliver, TypeOK, ClientType
    <3> QED
      BY <1>1, <2>2, <3>2, FrameTypes DEF Deliver, TypeOK
  <2>4. CASE Head(outbox).kind = "status"
    <3>1. Head(outbox).name \in Statuses
      BY <2>1, <2>4 DEF Messages
    <3>2. ThreadType'
      BY <1>0, <1>1, <2>4, GotoTyped DEF Deliver, TypeOK
    <3>3. ClientType'
      BY <1>1, <2>4, <3>1 DEF Deliver, TypeOK, ClientType
    <3> QED
      BY <1>1, <2>2, <3>2, <3>3, FrameTypes DEF Deliver, TypeOK
  <2> QED
    BY <1>1, <2>3, <2>4 DEF Deliver
<1>2. CASE StatusCallback
  <2>1. ClientType'
    BY <1>2 DEF StatusCallback, TypeOK, ClientType
  <2>2. CASE RaiseFailStop("receiver", "recv") /\ UNCHANGED <<commands, locks, recording, process, worker>>
    BY <1>0, <2>1, <2>2, RaiseTyped, FrameTypes DEF TypeOK
  <2>3. CASE Admit("rollout_completed", "RUNNING", "STOPPING_ROLLOUT") /\ Goto("receiver", "recv")
    <3>1. SessionType' /\ CommandType'
      BY <2>3, AdmitTyped DEF TypeOK, CommandNames, States
    <3>2. ThreadType'
      BY <1>0, <2>3, GotoTyped DEF TypeOK
    <3> QED
      BY <2>1, <2>3, <3>1, <3>2, FrameTypes DEF Admit, TypeOK
  <2>4. CASE /\ Goto("receiver", "recv")
             /\ UNCHANGED <<session, commands, locks, recording, process, worker>>
    BY <1>0, <2>1, <2>4, GotoTyped, FrameTypes DEF TypeOK
  <2> QED
    BY <1>2, <2>2, <2>3, <2>4 DEF StatusCallback
<1>3. CASE EndOfFile
  <2>1. CASE Step("receiver", "done")
    BY <1>0, <2>1, StepTyped
  <2>2. CASE ~Step("receiver", "done")
    <3>1. ThreadType'
      BY <1>0, <1>3, <2>2, GotoTyped DEF EndOfFile, TypeOK
    <3>2. ClientType'
      BY <1>3, <2>2 DEF EndOfFile, TypeOK, ClientType
    <3> QED
      BY <1>3, <2>2, <3>1, <3>2, FrameTypes DEF EndOfFile, TypeOK
  <2> QED
    BY <2>1, <2>2
<1>4. CASE DisconnectCallback
  BY <1>0, <1>4, StepTyped, FailStopFromTyped DEF DisconnectCallback
<1> QED
  BY <1>1, <1>2, <1>3, <1>4

LEMMA WorkerTyped == TypeOK /\ Worker => TypeOK'
<1> SUFFICES ASSUME TypeOK, Worker PROVE WorkerType' /\ UNCHANGED ButWorker
  BY FrameTypes DEF ButWorker, TypeOK
<1>1. CASE WorkerReceive
  <2>1. Head(inbox) \in Operations /\ inbox' \in Seq(Operations)
    BY <1>1, HeadTail DEF WorkerReceive, TypeOK, WorkerType
  <2>2. \A o \in Operations, b \in BOOLEAN : Ack(o, b) \in Messages
    BY DEF Ack, Messages
  <2>3. Status("FAIL_STOPPING") \in Messages
    BY DEF Status, Messages, Statuses
  <2>4. outbox' \in Seq(Messages)
    <3>1. \A o \in Operations : outbox \o <<Ack(o, TRUE), Status("FAIL_STOPPING")>> \in Seq(Messages)
      <4> SUFFICES ASSUME NEW o \in Operations
                   PROVE  outbox \o <<Ack(o, TRUE), Status("FAIL_STOPPING")>> \in Seq(Messages)
        OBVIOUS
      <4> DEFINE a == Ack(o, TRUE)
                 b == Status("FAIL_STOPPING")
      <4>1. a \in Messages /\ b \in Messages
        BY <2>2, <2>3
      <4> HIDE DEF a, b
      <4>2. <<a, b>> \in Seq(Messages)
        BY <4>1
      <4>3. outbox \o <<a, b>> \in Seq(Messages)
        BY <4>2, ConcatProperties DEF TypeOK, WorkerType
      <4> QED
        BY <4>3 DEF a, b
    <3>2. \A o \in Operations, b \in BOOLEAN : Append(outbox, Ack(o, b)) \in Seq(Messages)
      BY <2>2, AppendProperties DEF TypeOK, WorkerType
    <3> QED
      BY <1>1, <2>1, <3>1, <3>2 DEF WorkerReceive
  <2>5. \A o \in Operations : Executing[o] \in Phases
    BY DEF Executing, Operations, Phases
  <2>6. phase' \in Phases
    BY <1>1, <2>1, <2>5 DEF WorkerReceive, TypeOK, WorkerType
  <2> QED
    BY <1>1, <2>1, <2>4, <2>6 DEF WorkerReceive, TypeOK, WorkerType
<1>2. ASSUME NEW s \in Statuses, NEW p \in Phases, Report(s, p)
      PROVE  WorkerType' /\ UNCHANGED ButWorker
  <2>1. Status(s) \in Messages
    BY DEF Status, Messages
  <2> QED
    BY <1>2, <2>1 DEF Report, TypeOK, WorkerType
<1>3. ASSUME NEW p \in Phases, HangUp(p)
      PROVE  WorkerType' /\ UNCHANGED ButWorker
  BY <1>3 DEF HangUp, TypeOK, WorkerType
<1>4. ASSUME NEW o \in Ordinary, WorkerComplete(o)
      PROVE  WorkerType' /\ UNCHANGED ButWorker
  <2>1. Completion[o] \in Statuses /\ Executed[o] \in Phases
    BY DEF Completion, Executed, Ordinary, Statuses, Phases
  <2> QED
    BY <1>2, <1>4, <2>1 DEF WorkerComplete
<1>5. CASE WorkerPolicyEnds
  BY <1>2, <1>5 DEF WorkerPolicyEnds, Statuses, Phases
<1>6. CASE WorkerError
  BY <1>2, <1>6 DEF WorkerError, Statuses, Phases
<1>7. CASE WorkerCloses
  BY <1>3, <1>7 DEF WorkerCloses, TypeOK, WorkerType
<1>8. CASE WorkerExits
  BY <1>3, <1>8 DEF WorkerExits, Phases, Exited
<1>9. CASE WorkerCrashes
  BY <1>3, <1>9 DEF WorkerCrashes, Phases, Exited
<1> QED
  BY <1>1, <1>4, <1>5, <1>6, <1>7, <1>8, <1>9 DEF Worker, WorkerStep

\* The actions of Controller, as the cases of the two invariance proofs.
LEMMA ControllerCases ==
  ASSUME Controller
  PROVE  \/ Rollout \/ Shutdown \/ MainLoop \/ GetCommand \/ JoinFailStop \/ ReturnFromRun
         \/ Interrupt \/ FailStopRecord \/ FailStopDeliver \/ FailStopPoll
         \/ \E t \in Finalizers : Teardown(t)
         \/ Deliver \/ StatusCallback \/ EndOfFile \/ DisconnectCallback
         \/ WorkerExitCallback \/ AdmitUserAction \/ RequestRolloutAbort \/ ReportFault
         \/ \E t \in Threads : EstablishFailStop(t)
<1>1. {"main", "failstop"} \subseteq Finalizers /\ {"main", "receiver", "reader", "reporter"} \subseteq Threads
  BY DEF Finalizers, Threads
<1> QED
  BY <1>1 DEF Controller, MainStep, FailStopStep, ReceiverStep, ReaderStep

LEMMA ControllerTyped == TypeOK /\ Controller => TypeOK'
<1> SUFFICES ASSUME TypeOK, Controller PROVE TypeOK'
  OBVIOUS
<1> USE DEF Labels, MainLabels, OtherLabels, TeardownLabels, Threads
<1>1. CASE MainLoop
  BY <1>1, StepTyped DEF MainLoop
<1>2. CASE GetCommand
  <2>1. CASE commands = <<>>
    BY <1>2, <2>1, StepTyped DEF GetCommand
  <2>2. CASE commands # <<>>
    <3>1. /\ Head(commands) \in [name : CommandNames, from : States]
          /\ Tail(commands) \in Seq([name : CommandNames, from : States])
      BY <2>2, HeadTail DEF TypeOK, CommandType
    <3>2. \A n \in CommandNames : Handler[n] \in Labels
      BY DEF Handler, CommandNames
    <3>3. HandlerOperation(Head(commands)) \in Operations \cup {"NONE"}
      BY <3>1 DEF HandlerOperation, Requests, Operations
    <3>4. \/ Step("main", "loop")
          \/ /\ commands' = Tail(commands)
             /\ pc' = [pc EXCEPT !["main"] = Handler[Head(commands).name]]
             /\ op' = HandlerOperation(Head(commands))
             /\ UNCHANGED <<session, locks, recording, process, worker, client, ret>>
      BY <1>2 DEF GetCommand
    <3>5. Handler[Head(commands).name] \in Labels
      BY <3>1, <3>2
    <3>6. CASE ~Step("main", "loop")
      <4>1. ThreadType'
        BY <3>3, <3>4, <3>5, <3>6 DEF TypeOK, ThreadType
      <4>2. CommandType'
        BY <3>1, <3>4, <3>6 DEF CommandType
      <4> QED
        BY <3>4, <3>6, <4>1, <4>2, FrameTypes DEF TypeOK
    <3> QED
      BY <3>6, StepTyped
  <2> QED
    BY <2>1, <2>2
<1>3. CASE JoinFailStop
  BY <1>3, StepTyped, FailStopFromTyped DEF JoinFailStop
<1>4. CASE ReturnFromRun
  BY <1>4, StepTyped DEF ReturnFromRun
<1>5. CASE Interrupt
  BY <1>5, FailStopFromTyped DEF Interrupt
<1>6. CASE FailStopRecord
  <2>1. ThreadType'
    BY <1>6, GotoTyped DEF FailStopRecord, TypeOK
  <2>2. RecordingType'
    BY <1>6, FinishRecordingTyped DEF FailStopRecord, FailRecordingBestEffort, TypeOK
  <2> QED
    BY <1>6, <2>1, <2>2, FrameTypes DEF FailStopRecord, ButRecorded, TypeOK
<1>7. CASE FailStopDeliver
  <2>1. ThreadType'
    BY <1>7, GotoTyped DEF FailStopDeliver, TypeOK
  <2>2. WorkerType'
    BY <1>7 DEF FailStopDeliver, PutRequest, TypeOK, WorkerType, Operations
  <2>3. acks' \in [Operations -> {"none", "accepted", "rejected"}]
    BY <1>7 DEF FailStopDeliver, PutRequest, TypeOK, ClientType
  <2>4. disconnected' \in BOOLEAN
    BY <1>7 DEF FailStopDeliver, TypeOK, ClientType
  <2>5. ClientType'
    BY <1>7, <2>3, <2>4 DEF FailStopDeliver, TypeOK, ClientType
  <2> QED
    BY <1>7, <2>1, <2>2, <2>5, FrameTypes DEF FailStopDeliver, TypeOK
<1>8. CASE FailStopPoll
  BY <1>8, StepTyped DEF FailStopPoll
<1>9. CASE WorkerExitCallback
  <2>1. SessionType' /\ ThreadType'
    BY <1>9, RaiseTyped, FrameTypes DEF WorkerExitCallback, TypeOK
  <2>2. ProcessType'
    BY <1>9 DEF WorkerExitCallback, TypeOK, ProcessType
  <2> QED
    BY <1>9, <2>1, <2>2, FrameTypes DEF WorkerExitCallback, TypeOK
<1>10. CASE AdmitUserAction
  <2>1. PICK tr \in Transitions : Admit(tr[1], tr[2], tr[3])
    BY <1>10 DEF AdmitUserAction
  <2>2. tr[1] \in CommandNames /\ tr[2] \in States /\ tr[3] \in States
    BY DEF Transitions, CommandNames, States
  <2>3. SessionType' /\ CommandType'
    BY <2>1, <2>2, AdmitTyped DEF TypeOK
  <2> QED
    BY <1>10, <2>1, <2>3, FrameTypes DEF AdmitUserAction, Admit, TypeOK
<1>11. CASE RequestRolloutAbort
  <2>1. SessionType' /\ CommandType'
    BY <1>11, AdmitTyped DEF RequestRolloutAbort, TypeOK, CommandNames, States
  <2> QED
    BY <1>11, <2>1, FrameTypes DEF RequestRolloutAbort, Admit, TypeOK
<1>12. CASE ReportFault
  BY <1>12, FailStopFromTyped DEF ReportFault
<1> QED
  BY <1>1, <1>2, <1>3, <1>4, <1>5, <1>6, <1>7, <1>8, <1>9, <1>10, <1>11, <1>12,
     ControllerCases, RolloutTyped, ShutdownTyped, TeardownTyped, ReceiverTyped, EstablishTyped

LEMMA InitTyped == Init => TypeOK
<1> SUFFICES ASSUME Init PROVE TypeOK
  OBVIOUS
<1>1. SessionType /\ LockType /\ CommandType /\ ProcessType
  BY EmptySeq DEF Init, SessionType, LockType, CommandType, ProcessType, States
<1>2. RecordingType
  BY DEF Init, RecordingType
<1>3. WorkerType /\ ClientType
  BY EmptySeq DEF Init, WorkerType, ClientType, Phases
<1>4. ThreadType
  BY DEF Init, ThreadType, Labels, MainLabels, OtherLabels
<1> QED
  BY <1>1, <1>2, <1>3, <1>4 DEF TypeOK

LEMMA NextTyped == TypeOK /\ [Next]_vars => TypeOK'
<1> SUFFICES ASSUME TypeOK, [Next]_vars PROVE TypeOK'
  OBVIOUS
<1>1. CASE UNCHANGED vars
  BY <1>1, FrameTypes DEF vars, TypeOK
<1>2. CASE Next
  BY <1>1, <1>2, ControllerTyped, WorkerTyped DEF Next, Terminated
<1> QED
  BY <1>1, <1>2

\* Every variable keeps its type.
THEOREM TypeCorrect == Spec => []TypeOK
  BY InitTyped, NextTyped, PTL DEF Spec

-----------------------------------------------------------------------------
(***************************************************************************)
(* The inductive invariant.  Most actions move one thread to a label where *)
(* it may be (Allowed) and change nothing the invariant speaks of in a way *)
(* that could hurt (Keeps): MoveSafe treats them all.  The few that change *)
(* the intent, mark, stop or record are treated one by one.                *)
(***************************************************************************)
Moves(t, l) ==
  /\ At(t)' = l
  /\ \A u \in Threads \ {t} : At(u)' = At(u)
  /\ pc'["failstop"] # "idle" => pc["failstop"] # "idle"

Allowed(t, l) ==
  /\ l \notin StopLabels
  /\ t = "main" /\ l \in IntentLabels => mode # "None"
  /\ t \in Finalizers /\ l \in GoneLabels => ~WorkerAlive \/ ~WorkerAlive'
  /\ t \in Finalizers /\ l = "f_manifest" => resourcesStopped
  /\ t = "main" /\ sessionManifest = "SHUTDOWN" => l \in {"loop", "exit_join", "exited"}
  /\ t = "main" /\ l = "sensor_start" => \A s \in Sensors : sensor[s] # "stopped"
  /\ t = "main" /\ l \in StartLabels => recordingLock' = "main"

Keeps ==
  /\ UNCHANGED <<mode, resourcesStopped, sessionManifest>>
  /\ sessionManifest = "SHUTDOWN" => state' = "STOPPED"
  /\ ~WorkerAlive => ~WorkerAlive'
  /\ \A s \in Sensors : sensor'[s] = "stopped" => sensor[s] = "stopped" /\ s \notin activeSensors'
  /\ RolloutOpen'

LEMMA MoveSafe ==
  ASSUME IInv, TypeOK', NEW t \in Threads, NEW l, Moves(t, l), Allowed(t, l), Keeps,
         t # "main" => UNCHANGED recordingLock
  PROVE  IInv'
<1> USE DEF IInv, Moves, Finalizers, Threads
<1>1. IntentHeld'
  BY DEF Allowed, Keeps, IntentHeld
<1>2. WorkerGone'
  BY DEF Allowed, Keeps, WorkerGone, GoneLabels
<1>3. Marked'
  BY DEF Allowed, Keeps, Marked
<1>4. Recorded'
  BY DEF Allowed, Keeps, Recorded
<1>5. RecordingHeld'
  BY DEF Allowed, RecordingHeld
<1>6. SensorsOut'
  BY DEF Allowed, Keeps, SensorsOut
<1> QED
  BY <1>1, <1>2, <1>3, <1>4, <1>5, <1>6 DEF Keeps

\* An action after which every thread is where it was, or where it was to resume.
LEMMA StaySafe ==
  ASSUME IInv, TypeOK', \A u \in Threads : At(u)' = At(u), UNCHANGED recordingLock, Keeps,
         pc'["failstop"] # "idle" => pc["failstop"] # "idle"
  PROVE  IInv'
<1> USE DEF IInv, Finalizers, Threads
<1>1. IntentHeld' /\ WorkerGone' /\ Marked' /\ Recorded'
  BY DEF Keeps, IntentHeld, WorkerGone, Marked, Recorded
<1>2. RecordingHeld' /\ SensorsOut'
  BY DEF Keeps, RecordingHeld, SensorsOut
<1> QED
  BY <1>1, <1>2 DEF Keeps

LEMMA GotoMoves ==
  ASSUME ThreadType, NEW t \in Threads, NEW l \in Labels \ {"rfs"}, pc[t] # "idle", Goto(t, l)
  PROVE  Moves(t, l)
  BY DEF ThreadType, Goto, Moves, At, Threads

LEMMA RaiseMoves ==
  ASSUME ThreadType, NEW t \in Threads, NEW l \in Labels \ {"rfs"},
         t = "failstop" => pc[t] # "idle", RaiseFailStop(t, l)
  PROVE  Moves(t, l)
  BY DEF ThreadType, RaiseFailStop, Moves, At, Threads

\* Leaving the session, the worker and the recording alone keeps what matters of them.
LEMMA FrameKeeps ==
  ASSUME IInv, UNCHANGED <<mode, resourcesStopped, sessionManifest, phase, recording>>,
         state = "STOPPED" => state' = "STOPPED"
  PROVE  Keeps
<1>1. RolloutOpen'
  BY DEF IInv, RolloutOpen, recording
<1>2. \A s \in Sensors : sensor'[s] = "stopped" => sensor[s] = "stopped" /\ s \notin activeSensors'
  BY DEF IInv, SensorsOut, recording
<1> QED
  BY <1>1, <1>2 DEF Keeps, IInv, Recorded, WorkerAlive

\* The recording operations keep stopped sensors stopped and written manifests final.
LEMMA FinalizeSensorsOut ==
  ASSUME IInv, NEW failed \in SUBSET activeSensors, FinalizeSensors(failed)
  PROVE  \A s \in Sensors :
           sensor'[s] = "stopped" => sensor[s] = "stopped" /\ s \notin activeSensors'
  BY DEF FinalizeSensors, IInv, SensorsOut

LEMMA FinishRecordingSafe ==
  ASSUME IInv, NEW status, NEW errors \in BOOLEAN, FinishRecording(status, errors)
  PROVE  /\ \A s \in Sensors :
              sensor'[s] = "stopped" => sensor[s] = "stopped" /\ s \notin activeSensors'
         /\ RolloutOpen'
<1>1. CASE store = 0
  <2>1. UNCHANGED recording
    BY <1>1 DEF FinishRecording
  <2> QED
    BY <2>1 DEF IInv, SensorsOut, RolloutOpen, recording
<1>2. CASE store # 0
  <2>1. PICK failed \in SUBSET activeSensors : FinalizeSensors(failed)
    BY <1>2 DEF FinishRecording, Unacknowledged
  <2>2. /\ rolloutIndex' = rolloutIndex
        /\ \/ UNCHANGED <<store, rolloutManifest>>
           \/ /\ store' = 0
              /\ \E m : rolloutManifest' = [rolloutManifest EXCEPT ![store] = m]
    BY <1>2 DEF FinishRecording
  <2>3. store \in Nat /\ rolloutIndex \in Nat /\ store <= rolloutIndex /\ MaxRollouts \in Nat
    BY SessionAssumption DEF IInv, RolloutOpen, TypeOK, RecordingType
  <2>4. ASSUME NEW i \in 1..MaxRollouts, i = store' \/ i > rolloutIndex'
        PROVE  rolloutManifest'[i] = "none"
    <3>1. rolloutManifest[i] = "none"
      BY <2>2, <2>3, <2>4 DEF IInv, RolloutOpen
    <3>2. CASE store' = 0
      <4>1. i # store
        BY <2>2, <2>3, <2>4, <3>2
      <4> QED
        BY <1>2, <2>2, <3>1, <3>2, <4>1 DEF IInv, TypeOK, RecordingType
    <3> QED
      BY <1>2, <2>2, <3>1, <3>2
  <2>5. store' <= rolloutIndex'
    BY <2>2, <2>3
  <2>6. RolloutOpen'
    BY <2>4, <2>5 DEF RolloutOpen
  <2> QED
    BY <2>1, <2>6, FinalizeSensorsOut
<1> QED
  BY <1>1, <1>2

-----------------------------------------------------------------------------
\* The forms the main thread's actions take, from a label where no SHUTDOWN is recorded.
Busy(at) == at \in Labels \ {"rfs", "idle", "loop", "exit_join", "exited"}

LEMMA BusyOpen ==
  ASSUME IInv, NEW at, Busy(at), pc["main"] = at
  PROVE  At("main") = at /\ sessionManifest # "SHUTDOWN"
  BY DEF Busy, At, IInv, Recorded

\* Labels anyone may go to, and those that are reached only from a start label.
FreeLabels == Labels \ ({"rfs"} \cup IntentLabels \cup GoneLabels \cup StartLabels)

LEMMA StepSafe ==
  ASSUME IInv, TypeOK', NEW t \in Threads, NEW l \in Labels \ {"rfs"}, pc[t] # "idle",
         Step(t, l), Allowed(t, l)
  PROVE  IInv'
<1>1. Moves(t, l)
  BY GotoMoves DEF Step, IInv, TypeOK
<1>2. Keeps
  BY FrameKeeps DEF Step, ButThreads, session, worker
<1> QED
  BY <1>1, <1>2, MoveSafe DEF Step, ButThreads, locks

LEMMA FailStopFromSafe ==
  ASSUME IInv, TypeOK', NEW t \in Threads, NEW l \in Labels \ {"rfs"},
         t = "failstop" => pc[t] # "idle", FailStopFrom(t, l), Allowed(t, l)
  PROVE  IInv'
<1>1. Moves(t, l)
  BY RaiseMoves DEF FailStopFrom, IInv, TypeOK
<1>2. Keeps
  BY FrameKeeps DEF FailStopFrom, RaiseFailStop, teardown, worker
<1> QED
  BY <1>1, <1>2, MoveSafe DEF FailStopFrom, locks

\* Where the main thread may go from a busy label.
LEMMA MainAllowed ==
  ASSUME IInv, NEW at, Busy(at), pc["main"] = at, UNCHANGED recordingLock,
         NEW l \in Labels,
         \/ l \in FreeLabels
         \/ l \in StartLabels \ {"sensor_start"} /\ at \in StartLabels
         \/ l \in IntentLabels \ (GoneLabels \cup StopLabels) /\ at \in IntentLabels
  PROVE  Allowed("main", l)
<1>1. At("main") = at /\ sessionManifest # "SHUTDOWN"
  BY BusyOpen
<1>2. at \in StartLabels => recordingLock' = "main"
  BY <1>1 DEF IInv, RecordingHeld
<1>3. at \in IntentLabels => mode # "None"
  BY <1>1 DEF IInv, IntentHeld
<1> QED
  BY <1>1, <1>2, <1>3
     DEF Allowed, FreeLabels, StartLabels, IntentLabels, GoneLabels, StopLabels, TeardownLabels

LEMMA TransactSendSafe ==
  ASSUME IInv, TypeOK', NEW at, Busy(at), NEW next \in Labels \ {"rfs"},
         NEW fail \in Labels \ {"rfs"}, TransactSend(at, next, fail),
         Allowed("main", next), Allowed("main", fail)
  PROVE  IInv'
<1>0. "main" \in Threads /\ pc["main"] # "idle"
  BY DEF Threads, TransactSend, Busy
<1>1. Keeps
  BY FrameKeeps DEF TransactSend, session, RaiseFailStop, teardown
<1>2. Moves("main", next) \/ Moves("main", fail)
  BY <1>0, GotoMoves, RaiseMoves DEF TransactSend, IInv, TypeOK
<1> QED
  BY <1>0, <1>1, <1>2, MoveSafe

LEMMA RecordAndGotoSafe ==
  ASSUME IInv, TypeOK', NEW at, Busy(at), NEW status, NEW done \in Labels \ {"rfs"},
         NEW fail \in Labels \ {"rfs"}, RecordAndGoto(at, status, done, fail),
         Allowed("main", done), Allowed("main", fail)
  PROVE  IInv'
<1>0. "main" \in Threads /\ pc["main"] # "idle"
  BY DEF Threads, RecordAndGoto, Busy
<1>1. PICK errors \in BOOLEAN : /\ FinishRecording(status, errors)
                                /\ Goto("main", IF errors THEN fail ELSE done)
  BY DEF RecordAndGoto
<1>2. Keeps
  BY <1>1, FinishRecordingSafe
     DEF RecordAndGoto, ButRecorded, session, worker, Keeps, WorkerAlive, IInv, Recorded
<1>3. Moves("main", done) \/ Moves("main", fail)
  BY <1>0, <1>1, GotoMoves DEF IInv, TypeOK
<1> QED
  BY <1>0, <1>2, <1>3, MoveSafe

LEMMA SetStateSafe ==
  ASSUME IInv, TypeOK', NEW at, Busy(at), NEW st, SetState(at, st)
  PROVE  IInv'
<1>0. "main" \in Threads /\ pc["main"] # "idle" /\ "loop" \in FreeLabels /\ "loop" \in Labels
  BY DEF Threads, SetState, Busy, FreeLabels, Labels, MainLabels, IntentLabels, GoneLabels,
     StartLabels, TeardownLabels
<1>1. Keeps
  <2>1. RolloutOpen'
    BY DEF SetState, recording, IInv, RolloutOpen
  <2>2. sessionManifest # "SHUTDOWN"
    BY BusyOpen DEF SetState
  <2> QED
    BY <2>1, <2>2 DEF SetState, teardown, recording, worker, Keeps, WorkerAlive, IInv, SensorsOut
<1>2. Moves("main", "loop")
  BY <1>0, GotoMoves DEF SetState, IInv, TypeOK, FreeLabels
<1>3. Allowed("main", "loop")
  BY <1>0, MainAllowed DEF SetState, locks
<1> QED
  BY <1>0, <1>1, <1>2, <1>3, MoveSafe

-----------------------------------------------------------------------------
LEMMA RolloutSafe == IInv /\ Rollout => IInv'
<1> SUFFICES ASSUME IInv, Rollout PROVE IInv'
  OBVIOUS
<1>0. TypeOK' /\ ThreadType /\ "main" \in Threads
  BY RolloutTyped DEF IInv, TypeOK, Threads
<1>s. /\ FreeLabels \subseteq Labels \ {"rfs"} /\ StartLabels \subseteq Labels \ {"rfs"}
      /\ {"init_wait", "raise_loop", "init_reject", "init_check", "init_set", "loop", "fin_wait",
          "fin_fail", "fin_record", "fin_check", "fin_set", "comp_record", "comp_set"}
         \subseteq FreeLabels
  BY DEF FreeLabels, StartLabels, IntentLabels, GoneLabels, TeardownLabels, Labels, MainLabels
<1> DEFINE StepFrom(at, l) == pc["main"] = at /\ Step("main", l)
<1>m. ASSUME NEW at, Busy(at), NEW l \in Labels \ {"rfs"}, StepFrom(at, l),
             \/ l \in FreeLabels
             \/ l \in StartLabels \ {"sensor_start"} /\ at \in StartLabels
      PROVE  IInv'
  <2>1. Allowed("main", l)
    BY <1>m, MainAllowed DEF Step, ButThreads, locks
  <2> QED
    BY <1>0, <1>m, <2>1, StepSafe DEF Busy
<1>b. \A at \in {"init_send", "init_wait", "init_reject", "init_check", "init_set", "raise_loop",
                 "start_begin", "fin_send", "fin_wait", "fin_record", "fin_check", "fin_set",
                 "fin_fail", "comp_check", "comp_record", "comp_set"} \cup StartLabels : Busy(at)
  BY DEF Busy, StartLabels, Labels, MainLabels
<1> HIDE DEF StepFrom
<1>1. CASE InitializeSend
  <2>1. Allowed("main", "init_wait") /\ Allowed("main", "raise_loop")
    BY <1>1, <1>b, <1>s, MainAllowed DEF InitializeSend, TransactSend, locks
  <2> QED
    BY <1>0, <1>1, <1>b, <1>s, <2>1, TransactSendSafe DEF InitializeSend
<1>2. CASE InitializeWait
  BY <1>2, <1>m, <1>b, <1>s DEF InitializeWait, StepFrom
<1>3. CASE InitializeRejected
  BY <1>0, <1>3, <1>b, SetStateSafe DEF InitializeRejected
<1>4. CASE InitializeCheck
  BY <1>4, <1>m, <1>b, <1>s DEF InitializeCheck, CheckState, StepFrom
<1>5. CASE InitializeSet
  BY <1>0, <1>5, <1>b, SetStateSafe DEF InitializeSet
<1>6. CASE HandlerFailed
  <2>1. Allowed("main", "loop")
    BY <1>6, <1>b, <1>s, MainAllowed DEF HandlerFailed, FailStopFrom, locks
  <2> QED
    BY <1>0, <1>6, <1>s, <2>1, FailStopFromSafe DEF HandlerFailed
<1>7. CASE BeginRecording
  <2>1. PICK l \in {"start_fail", "sensor_check"} : Goto("main", l)
    BY <1>7 DEF BeginRecording
  <2>2. Moves("main", l)
    BY <1>0, <1>7, <1>s, <2>1, GotoMoves DEF BeginRecording, StartLabels
  <2>3. At("main") = "start_begin" /\ sessionManifest # "SHUTDOWN"
    BY <1>7, <1>b, BusyOpen DEF BeginRecording
  <2>4. Allowed("main", l)
    BY <1>7, <2>3 DEF BeginRecording, Allowed, StopLabels, IntentLabels, GoneLabels,
       TeardownLabels
  <2>5. RolloutOpen'
    BY <1>7 DEF BeginRecording, IInv, RolloutOpen, TypeOK, RecordingType
  <2>6. Keeps
    BY <1>7, <2>3, <2>5 DEF BeginRecording, Keeps, session, worker, WorkerAlive, IInv, SensorsOut
  <2> QED
    BY <1>0, <2>2, <2>4, <2>6, MoveSafe
<1>8. CASE SensorCheck
  <2>1. PICK l \in {"start_fail", "start_rearm", "sensor_start"} :
          /\ Goto("main", l)
          /\ l = "sensor_start" => ~Terminating
    BY <1>8 DEF SensorCheck
  <2>2. Moves("main", l)
    BY <1>0, <1>8, <1>s, <2>1, GotoMoves DEF SensorCheck, StartLabels
  <2>3. At("main") = "sensor_check" /\ sessionManifest # "SHUTDOWN"
    BY <1>8, <1>b, BusyOpen DEF SensorCheck, StartLabels
  <2>4. recordingLock' = "main"
    BY <1>8, <2>3 DEF SensorCheck, ButRecorded, locks, IInv, RecordingHeld, StartLabels
  <2>5. Allowed("main", l)
    BY <2>1, <2>3, <2>4 DEF Allowed, StopLabels, IntentLabels, GoneLabels, TeardownLabels,
       Terminating, IInv, SensorsOut
  <2>6. /\ \A s \in Sensors :
             sensor'[s] = "stopped" => sensor[s] = "stopped" /\ s \notin activeSensors'
        /\ RolloutOpen'
    <3>1. CASE DiscardActiveSensors
      <4>1. PICK failed \in SUBSET activeSensors : FinalizeSensors(failed)
        BY <3>1 DEF DiscardActiveSensors, Unacknowledged
      <4> QED
        BY <3>1, <4>1, FinalizeSensorsOut DEF DiscardActiveSensors, IInv, RolloutOpen
    <3>2. CASE UNCHANGED recording
      BY <3>2 DEF recording, IInv, RolloutOpen, SensorsOut
    <3> QED
      BY <1>8, <3>1, <3>2 DEF SensorCheck
  <2>7. Keeps
    BY <1>8, <2>3, <2>6 DEF SensorCheck, ButRecorded, session, worker, Keeps, WorkerAlive
  <2> QED
    BY <1>0, <2>2, <2>5, <2>7, MoveSafe
<1>9. CASE SensorStart
  <2>1. PICK l \in {"start_fail", "sensor_check"} : Goto("main", l)
    BY <1>9 DEF SensorStart
  <2>2. Moves("main", l)
    BY <1>0, <1>9, <1>s, <2>1, GotoMoves DEF SensorStart, StartLabels
  <2>3. At("main") = "sensor_start" /\ sessionManifest # "SHUTDOWN"
    BY <1>9, <1>b, BusyOpen DEF SensorStart, StartLabels
  <2>4. Allowed("main", l)
    BY <1>9, <1>s, <1>b, <2>1, MainAllowed DEF SensorStart, ButRecorded, locks, StartLabels
  <2>5. \A s \in Sensors : sensor[s] # "stopped" /\ sensor'[s] # "stopped"
    BY <1>9, <2>3 DEF SensorStart, IInv, SensorsOut, TypeOK, RecordingType
  <2>6. RolloutOpen'
    BY <1>9 DEF SensorStart, IInv, RolloutOpen
  <2>7. Keeps
    BY <1>9, <2>3, <2>5, <2>6 DEF SensorStart, ButRecorded, session, worker, Keeps, WorkerAlive
  <2> QED
    BY <1>0, <2>2, <2>4, <2>7, MoveSafe
<1>10. CASE Rearm
  BY <1>10, <1>m, <1>b, <1>s DEF Rearm, StepFrom, StartLabels
<1>11. CASE StartRecorder
  <2>1. PICK l \in {"start_fail", "start_gate"} : Goto("main", l)
    BY <1>11 DEF StartRecorder
  <2>2. Moves("main", l)
    BY <1>0, <1>11, <1>s, <2>1, GotoMoves DEF StartRecorder, StartLabels
  <2>3. Allowed("main", l)
    BY <1>11, <1>s, <1>b, <2>1, MainAllowed DEF StartRecorder, ButRecorded, locks, StartLabels
  <2>4. sessionManifest # "SHUTDOWN"
    BY <1>11, <1>b, BusyOpen DEF StartRecorder, StartLabels
  <2>5. Keeps
    BY <1>11, <2>4 DEF StartRecorder, ButRecorded, session, worker, Keeps, WorkerAlive,
       IInv, RolloutOpen, SensorsOut
  <2> QED
    BY <1>0, <2>2, <2>3, <2>5, MoveSafe
<1>12. CASE StartGate
  BY <1>12, <1>m, <1>b, <1>s DEF StartGate, StepFrom, StartLabels
<1>13. CASE StartSend
  <2>1. Allowed("main", "start_wait") /\ Allowed("main", "start_fail")
    BY <1>13, <1>b, <1>s, MainAllowed DEF StartSend, TransactSend, locks, StartLabels
  <2> QED
    BY <1>0, <1>13, <1>b, <1>s, <2>1, TransactSendSafe DEF StartSend, StartLabels
<1>14. CASE StartWait
  BY <1>14, <1>m, <1>b, <1>s DEF StartWait, TransactWait, StepFrom, StartLabels
<1>15. CASE StartCheck
  BY <1>15, <1>m, <1>b, <1>s DEF StartCheck, CheckState, StepFrom, StartLabels
<1>16. CASE StartSet
  <2>1. Moves("main", "start_release")
    BY <1>0, <1>16, <1>s, GotoMoves DEF StartSet, StartLabels
  <2>2. Allowed("main", "start_release") /\ sessionManifest # "SHUTDOWN"
    BY <1>16, <1>s, <1>b, MainAllowed, BusyOpen DEF StartSet, locks, StartLabels
  <2>3. Keeps
    BY <1>16, <2>2 DEF StartSet, teardown, recording, worker, Keeps, WorkerAlive,
       IInv, RolloutOpen, SensorsOut
  <2> QED
    BY <1>0, <2>1, <2>2, <2>3, MoveSafe
<1>17. CASE StartFailed
  <2>1. Moves("main", "start_release")
    BY <1>0, <1>17, <1>s, RaiseMoves DEF StartFailed, StartLabels
  <2>2. Allowed("main", "start_release") /\ sessionManifest # "SHUTDOWN"
    BY <1>17, <1>s, <1>b, MainAllowed, BusyOpen DEF StartFailed, locks, StartLabels
  <2>3. Keeps
    BY <1>17, <2>2, FinishRecordingSafe DEF StartFailed, FailRecordingBestEffort, RaiseFailStop,
       teardown, worker, Keeps, WorkerAlive
  <2> QED
    BY <1>0, <2>1, <2>2, <2>3, MoveSafe
<1>18. CASE ReleaseRecording
  <2>1. Moves("main", "loop")
    BY <1>0, <1>18, <1>s, GotoMoves DEF ReleaseRecording
  <2>2. sessionManifest # "SHUTDOWN"
    BY <1>18, <1>b, BusyOpen DEF ReleaseRecording, StartLabels
  <2>3. Allowed("main", "loop")
    BY <2>2 DEF Allowed, StopLabels, IntentLabels, GoneLabels, TeardownLabels, StartLabels
  <2>4. Keeps
    BY <1>18, FrameKeeps DEF ReleaseRecording, session, worker
  <2> QED
    BY <1>0, <2>1, <2>3, <2>4, MoveSafe
<1>19. CASE FinishSend
  <2>1. Allowed("main", "fin_wait") /\ Allowed("main", "fin_fail")
    BY <1>19, <1>b, <1>s, MainAllowed DEF FinishSend, TransactSend, locks
  <2> QED
    BY <1>0, <1>19, <1>b, <1>s, <2>1, TransactSendSafe DEF FinishSend
<1>20. CASE FinishWait
  BY <1>20, <1>m, <1>b, <1>s DEF FinishWait, TransactWait, StepFrom
<1>21. CASE FinishRecord
  <2>1. Allowed("main", "fin_check") /\ Allowed("main", "fin_fail")
    BY <1>21, <1>b, <1>s, MainAllowed DEF FinishRecord, RecordAndGoto, ButRecorded, locks
  <2> QED
    BY <1>0, <1>21, <1>b, <1>s, <2>1, RecordAndGotoSafe DEF FinishRecord
<1>22. CASE FinishCheck
  BY <1>22, <1>m, <1>b, <1>s DEF FinishCheck, CheckState, StepFrom
<1>23. CASE FinishSet
  BY <1>0, <1>23, <1>b, SetStateSafe DEF FinishSet
<1>24. CASE FinishFailed
  <2>1. Allowed("main", "raise_loop")
    BY <1>24, <1>b, <1>s, MainAllowed DEF FinishFailed, RecordAndGoto, ButRecorded, locks
  <2> QED
    BY <1>0, <1>24, <1>b, <1>s, <2>1, RecordAndGotoSafe DEF FinishFailed
<1>25. CASE CompletedCheck
  BY <1>25, <1>m, <1>b, <1>s DEF CompletedCheck, CheckState, StepFrom
<1>26. CASE CompletedRecord
  <2>1. Allowed("main", "comp_set") /\ Allowed("main", "raise_loop")
    BY <1>26, <1>b, <1>s, MainAllowed DEF CompletedRecord, RecordAndGoto, ButRecorded, locks
  <2> QED
    BY <1>0, <1>26, <1>b, <1>s, <2>1, RecordAndGotoSafe DEF CompletedRecord
<1>27. CASE CompletedSet
  BY <1>0, <1>27, <1>b, SetStateSafe DEF CompletedSet
<1> QED
  BY <1>1, <1>2, <1>3, <1>4, <1>5, <1>6, <1>7, <1>8, <1>9, <1>10, <1>11, <1>12, <1>13,
     <1>14, <1>15, <1>16, <1>17, <1>18, <1>19, <1>20, <1>21, <1>22, <1>23, <1>24, <1>25,
     <1>26, <1>27 DEF Rollout

-----------------------------------------------------------------------------
\* The main thread chooses or withdraws a SHUTDOWN before anything is recorded.
LEMMA IntentChangeSafe ==
  ASSUME IInv, TypeOK', NEW l \in {"sd_stop_send", "sd_send", "loop"}, Moves("main", l),
         mode # "FAIL_STOP", sessionManifest = "none",
         l \in IntentLabels => mode' # "None",
         UNCHANGED <<teardown, recording, phase, recordingLock>>
  PROVE  IInv'
<1> USE DEF IInv, Moves, Finalizers, Threads, teardown
<1>0. l \notin GoneLabels \cup StartLabels \cup StopLabels \cup {"f_manifest", "sensor_start"}
  BY DEF GoneLabels, StartLabels, StopLabels
<1>1. IntentHeld'
  BY DEF IntentHeld
<1>2. WorkerGone' /\ Marked'
  BY <1>0 DEF WorkerGone, WorkerAlive, Marked
<1>3. Recorded' /\ RecordingHeld'
  BY <1>0 DEF Recorded, RecordingHeld
<1>4. SensorsOut' /\ RolloutOpen'
  BY <1>0 DEF SensorsOut, RolloutOpen, recording
<1> QED
  BY <1>1, <1>2, <1>3, <1>4

LEMMA ShutdownSafe == IInv /\ Shutdown => IInv'
<1> SUFFICES ASSUME IInv, Shutdown PROVE IInv'
  OBVIOUS
<1>0. TypeOK' /\ ThreadType /\ "main" \in Threads
  BY ShutdownTyped DEF IInv, TypeOK, Threads
<1>s. /\ {"loop", "raise_loop"} \subseteq FreeLabels /\ FreeLabels \subseteq Labels \ {"rfs"}
      /\ {"sd_stop_send", "sd_stop_wait", "sd_record", "sd_send", "sd_deadlock", "sd_ack",
          "sd_reject", "sd_exit"} \subseteq IntentLabels \ (GoneLabels \cup StopLabels)
      /\ IntentLabels \subseteq Labels \ {"rfs"}
  BY DEF FreeLabels, StartLabels, IntentLabels, GoneLabels, StopLabels, TeardownLabels, Labels,
     MainLabels
<1>b. \A at \in {"sd_mode"} \cup IntentLabels : Busy(at)
  BY DEF Busy, IntentLabels, TeardownLabels, Labels, MainLabels
<1>1. CASE ShutdownBegin
  <2>1. At("main") = "sd_mode" /\ sessionManifest # "SHUTDOWN"
    BY <1>1, <1>b, BusyOpen DEF ShutdownBegin
  <2>2. CASE mode # "None" /\ Step("main", "loop")
    <3>1. Allowed("main", "loop")
      BY <1>1, <1>b, <1>s, <2>2, MainAllowed DEF ShutdownBegin, Step, ButThreads, locks
    <3> QED
      BY <1>0, <1>1, <1>s, <2>2, <3>1, StepSafe DEF ShutdownBegin
  <2>3. CASE ~(mode # "None" /\ Step("main", "loop"))
    <3>1. PICK l \in {"sd_stop_send", "sd_send"} : Goto("main", l)
      BY <1>1, <2>3 DEF ShutdownBegin
    <3>2. Moves("main", l)
      BY <1>0, <1>1, <1>s, <3>1, GotoMoves DEF ShutdownBegin
    <3>3. mode = "None" /\ mode' = "SHUTDOWN" /\ UNCHANGED <<teardown, recording, phase, recordingLock>>
      BY <1>1, <2>3 DEF ShutdownBegin, worker, locks
    <3>4. sessionManifest = "none"
      BY <3>3 DEF IInv, Recorded
    <3> QED
      BY <1>0, <3>2, <3>3, <3>4, IntentChangeSafe
  <2> QED
    BY <2>2, <2>3
<1>2. CASE ShutdownStopSend
  <2>1. Allowed("main", "sd_stop_wait") /\ Allowed("main", "raise_loop")
    BY <1>2, <1>b, <1>s, MainAllowed DEF ShutdownStopSend, TransactSend, locks
  <2> QED
    BY <1>0, <1>2, <1>b, <1>s, <2>1, TransactSendSafe DEF ShutdownStopSend
<1>3. CASE ShutdownStopWait
  <2>1. Allowed("main", "sd_record") /\ Allowed("main", "raise_loop")
    BY <1>3, <1>b, <1>s, MainAllowed DEF ShutdownStopWait, TransactWait, Step, ButThreads, locks
  <2> QED
    BY <1>0, <1>3, <1>s, <2>1, StepSafe DEF ShutdownStopWait, TransactWait
<1>4. CASE ShutdownRecord
  <2>1. Allowed("main", "sd_send") /\ Allowed("main", "raise_loop")
    BY <1>4, <1>b, <1>s, MainAllowed DEF ShutdownRecord, RecordAndGoto, ButRecorded, locks
  <2> QED
    BY <1>0, <1>4, <1>b, <1>s, <2>1, RecordAndGotoSafe DEF ShutdownRecord
<1>5. CASE ShutdownSend
  <2>1. PICK l \in {"loop", "sd_ack", "raise_loop", "sd_deadlock"} : Goto("main", l)
    BY <1>5 DEF ShutdownSend
  <2>2. Moves("main", l)
    BY <1>0, <1>5, <1>s, <2>1, GotoMoves DEF ShutdownSend
  <2>3. Allowed("main", l)
    BY <1>5, <1>b, <1>s, MainAllowed DEF ShutdownSend
  <2>4. Keeps
    BY <1>5, FrameKeeps DEF ShutdownSend, session
  <2> QED
    BY <1>0, <2>2, <2>3, <2>4, MoveSafe
<1>6. CASE ShutdownAckWait
  <2>1. Allowed("main", "sd_exit") /\ Allowed("main", "sd_reject") /\ Allowed("main", "raise_loop")
    BY <1>6, <1>b, <1>s, MainAllowed DEF ShutdownAckWait, Step, ButThreads, locks
  <2> QED
    BY <1>0, <1>6, <1>s, <2>1, StepSafe DEF ShutdownAckWait
<1>7. CASE ShutdownRejected
  <2>1. At("main") = "sd_reject" /\ sessionManifest # "SHUTDOWN"
    BY <1>7, <1>b, <1>s, BusyOpen DEF ShutdownRejected
  <2>2. Moves("main", "loop")
    BY <1>0, <1>7, <1>s, GotoMoves DEF ShutdownRejected
  <2>3. CASE UNCHANGED <<state, mode, shutdownSent>>
    <3>1. Allowed("main", "loop")
      BY <1>7, <1>b, <1>s, MainAllowed DEF ShutdownRejected, locks
    <3>2. Keeps
      BY <1>7, <2>3, FrameKeeps DEF ShutdownRejected, teardown, worker
    <3> QED
      BY <1>0, <2>2, <3>1, <3>2, MoveSafe
  <2>4. CASE mode = "SHUTDOWN"
    <3>1. sessionManifest = "none"
      BY <2>1, <2>4 DEF IInv, Recorded
    <3>2. "loop" \notin IntentLabels /\ UNCHANGED <<teardown, recording, phase, recordingLock>>
      BY <1>7 DEF ShutdownRejected, IntentLabels, TeardownLabels, worker, locks
    <3> QED
      BY <1>0, <2>2, <2>4, <3>1, <3>2, IntentChangeSafe
  <2> QED
    BY <1>7, <2>3, <2>4 DEF ShutdownRejected
<1> QED
  BY <1>1, <1>2, <1>3, <1>4, <1>5, <1>6, <1>7 DEF Shutdown

-----------------------------------------------------------------------------
\* What a thread knows inside the teardown.
LEMMA InTeardown ==
  ASSUME IInv, NEW t \in Finalizers, pc[t] \in TeardownLabels
  PROVE  At(t) = pc[t] /\ mode # "None" /\ sessionManifest # "SHUTDOWN" /\ pc[t] # "idle"
<1>1. At(t) = pc[t] /\ pc[t] # "idle"
  BY DEF At, TeardownLabels
<1>2. mode # "None"
  BY <1>1 DEF IInv, IntentHeld, IntentLabels, Finalizers
<1>3. sessionManifest # "SHUTDOWN"
  BY <1>1 DEF IInv, IntentHeld, Recorded, Finalizers, TeardownLabels
<1> QED
  BY <1>1, <1>2, <1>3

LEMMA TeardownSafe ==
  ASSUME IInv, NEW t \in Finalizers, Teardown(t)
  PROVE  IInv'
<1>0. TypeOK' /\ ThreadType /\ t \in Threads
  BY TeardownTyped DEF IInv, TypeOK, Threads, Finalizers
<1>l. /\ TeardownLabels \cup {"loop", "exit_join", "done"} \subseteq Labels \ {"rfs"}
      /\ AfterFinalize(t) \in {"loop", "done"} /\ (t = "main" <=> AfterFinalize(t) = "loop")
      /\ GoneLabels \subseteq TeardownLabels /\ StopLabels \subseteq TeardownLabels
      /\ GoneLabels \cap StartLabels = {} /\ "sd_wait" \notin GoneLabels /\ "sd_kill" \notin GoneLabels
  BY DEF TeardownLabels, Labels, MainLabels, OtherLabels, AfterFinalize, GoneLabels, StopLabels,
     StartLabels
<1>p. /\ pc[t] \in TeardownLabels
      /\ At(t) = pc[t] /\ mode # "None" /\ sessionManifest # "SHUTDOWN" /\ pc[t] # "idle"
  <2>1. pc[t] \in TeardownLabels
    BY DEF Teardown, TeardownLabels, ExpectWorkerExit, WorkerExitWait, ForceTerminate,
       CheckReturnCode, WorkerExitDone, FinalizeBegin, MarkResourcesStopped, CloseControl,
       StopSensors, WriteSessionManifest
  <2> QED
    BY <2>1, InTeardown
<1>g. pc[t] \in GoneLabels => ~WorkerAlive
  BY <1>p DEF IInv, WorkerGone
<1>a. ASSUME NEW l \in {"sd_wait", "sd_kill", "sd_rc", "sd_final", "f_lock", "f_mark", "f_manifest",
                        "loop", "exit_join", "done"},
             l \in GoneLabels => ~WorkerAlive \/ ~WorkerAlive', l = "f_manifest" => resourcesStopped
      PROVE  Allowed(t, l)
  BY <1>a, <1>p DEF Allowed, StopLabels, StartLabels
<1>1. CASE ExpectWorkerExit(t)
  <2>1. Moves(t, "sd_wait")
    BY <1>0, <1>1, <1>p, <1>l, GotoMoves DEF ExpectWorkerExit, TeardownLabels
  <2>2. Keeps
    BY <1>1, FrameKeeps DEF ExpectWorkerExit, session, worker
  <2> QED
    BY <1>0, <1>1, <1>a, <1>l, <2>1, <2>2, MoveSafe DEF ExpectWorkerExit, locks
<1>2. CASE WorkerExitWait(t)
  <2>1. (Step(t, "sd_rc") /\ ~WorkerAlive) \/ Step(t, "sd_kill") \/ FailStopFrom(t, "sd_kill")
    BY <1>2 DEF WorkerExitWait
  <2>2. {"sd_rc", "sd_kill"} \subseteq TeardownLabels
    BY DEF TeardownLabels
  <2> QED
    BY <1>0, <1>p, <1>l, <1>a, <2>1, <2>2, StepSafe, FailStopFromSafe
<1>3. CASE ForceTerminate(t)
  <2>1. ~WorkerAlive'
    BY <1>3 DEF ForceTerminate, WorkerAlive, Exited
  <2>2. Moves(t, "sd_rc")
    BY <1>0, <1>3, <1>p, <1>l, GotoMoves DEF ForceTerminate, TeardownLabels
  <2>3. Keeps
    BY <1>3, <1>p, <2>1 DEF ForceTerminate, session, recording, Keeps, IInv, RolloutOpen, SensorsOut
  <2> QED
    BY <1>0, <1>3, <1>a, <2>1, <2>2, <2>3, MoveSafe DEF ForceTerminate, locks
<1>4. CASE CheckReturnCode(t)
  <2>1. Step(t, "sd_final") \/ FailStopFrom(t, "sd_final")
    BY <1>4 DEF CheckReturnCode
  <2>2. "sd_final" \in TeardownLabels /\ ~WorkerAlive
    BY <1>4, <1>g DEF TeardownLabels, GoneLabels, CheckReturnCode
  <2> QED
    BY <1>0, <1>p, <1>l, <1>a, <2>1, <2>2, StepSafe, FailStopFromSafe
<1>5. CASE WorkerExitDone(t)
  <2>1. Step(t, "loop") \/ Step(t, "f_lock")
    BY <1>5 DEF WorkerExitDone
  <2>2. "f_lock" \in TeardownLabels /\ ~WorkerAlive
    BY <1>5, <1>g DEF TeardownLabels, GoneLabels, WorkerExitDone
  <2> QED
    BY <1>0, <1>p, <1>l, <1>a, <2>1, <2>2, StepSafe
<1>6. CASE FinalizeBegin(t)
  <2>1. ~WorkerAlive /\ "f_mark" \in TeardownLabels
    BY <1>6, <1>g DEF FinalizeBegin, GoneLabels, TeardownLabels
  <2>2. CASE Step(t, AfterFinalize(t))
    BY <1>0, <1>p, <1>l, <1>a, <2>1, <2>2, StepSafe
  <2>3. CASE ~Step(t, AfterFinalize(t))
    <3>1. Moves(t, "f_mark")
      BY <1>0, <1>6, <1>p, <1>l, <2>1, <2>3, GotoMoves DEF FinalizeBegin
    <3>2. Keeps
      BY <1>6, <2>3, FrameKeeps DEF FinalizeBegin, session, worker
    <3> QED
      BY <1>0, <1>6, <1>a, <2>1, <2>3, <3>1, <3>2, MoveSafe DEF FinalizeBegin
  <2> QED
    BY <2>2, <2>3
<1>7. CASE MarkResourcesStopped(t)
  <2>1. ~WorkerAlive /\ {"f_manifest", "f_close"} \subseteq TeardownLabels
    BY <1>7, <1>g DEF MarkResourcesStopped, GoneLabels, TeardownLabels
  <2>2. CASE resourcesStopped /\ Step(t, "f_manifest")
    BY <1>0, <1>p, <1>l, <1>a, <2>1, <2>2, StepSafe
  <2>3. CASE ~resourcesStopped
    <3>1. Moves(t, "f_close")
      BY <1>0, <1>7, <1>p, <1>l, <2>1, <2>3, GotoMoves DEF MarkResourcesStopped
    <3>2. /\ resourcesStopped' = TRUE
          /\ UNCHANGED <<state, mode, sessionManifest, phase, recording, recordingLock>>
      BY <1>7, <2>3 DEF MarkResourcesStopped, worker, locks
    <3> USE DEF IInv, Moves, Finalizers, Threads
    <3>3. IntentHeld' /\ WorkerGone'
      BY <1>p, <2>1, <3>1, <3>2 DEF IntentHeld, WorkerGone, WorkerAlive
    <3>4. Marked'
      BY <2>3, <3>1, <3>2 DEF Marked
    <3>5. Recorded' /\ RecordingHeld'
      BY <1>p, <3>1, <3>2 DEF Recorded, RecordingHeld, StartLabels
    <3>6. SensorsOut' /\ RolloutOpen'
      BY <2>3, <3>1, <3>2 DEF SensorsOut, RolloutOpen, recording
    <3> QED
      BY <1>0, <3>3, <3>4, <3>5, <3>6
  <2> QED
    BY <1>7, <2>2, <2>3 DEF MarkResourcesStopped
<1>8. CASE CloseControl(t)
  <2>1. ~WorkerAlive /\ "f_sensors" \in TeardownLabels
    BY <1>8, <1>g DEF CloseControl, GoneLabels, TeardownLabels
  <2>2. Moves(t, "f_sensors") /\ At(t) = "f_close"
    BY <1>0, <1>8, <1>p, <1>l, <2>1, GotoMoves DEF CloseControl
  <2>3. UNCHANGED <<session, phase, recording, recordingLock>>
    BY <1>8 DEF CloseControl, worker, locks
  <2> USE DEF IInv, Moves, Finalizers, Threads, session
  <2>4. IntentHeld' /\ WorkerGone'
    BY <1>p, <2>1, <2>2, <2>3 DEF IntentHeld, WorkerGone, WorkerAlive
  <2>5. Marked'
    BY <2>2, <2>3 DEF Marked, StopLabels
  <2>6. Recorded' /\ RecordingHeld'
    BY <1>p, <2>2, <2>3 DEF Recorded, RecordingHeld, StartLabels
  <2>7. SensorsOut' /\ RolloutOpen'
    BY <2>2, <2>3 DEF SensorsOut, RolloutOpen, recording, StopLabels
  <2> QED
    BY <1>0, <2>4, <2>5, <2>6, <2>7
<1>9. CASE StopSensors(t)
  <2>1. ~WorkerAlive /\ "f_manifest" \in TeardownLabels
    BY <1>9, <1>g DEF StopSensors, GoneLabels, TeardownLabels
  <2>2. Moves(t, "f_manifest") /\ At(t) = "f_sensors"
    BY <1>0, <1>9, <1>p, <1>l, <2>1, GotoMoves DEF StopSensors
  <2>3. /\ UNCHANGED <<session, phase, rolloutIndex, store, rolloutManifest, recordingLock>>
        /\ recordingLock = "free" /\ activeSensors' = {}
    BY <1>9 DEF StopSensors, ButRecorded, worker, locks
  <2> USE DEF IInv, Moves, Finalizers, Threads, session
  <2>4. IntentHeld' /\ WorkerGone'
    BY <1>p, <2>1, <2>2, <2>3 DEF IntentHeld, WorkerGone, WorkerAlive
  <2>5. Marked'
    BY <2>2, <2>3 DEF Marked, StopLabels
  <2>6. Recorded' /\ RecordingHeld'
    BY <1>p, <2>2, <2>3 DEF Recorded, RecordingHeld, StartLabels
  <2>7. resourcesStopped /\ \A u \in Finalizers \ {t} : At(u) \notin StopLabels
    BY <2>2 DEF Marked, StopLabels
  <2>8. SensorsOut'
    BY <2>2, <2>3, <2>7 DEF SensorsOut, StopLabels, RecordingHeld, StartLabels
  <2>9. RolloutOpen'
    BY <2>3 DEF RolloutOpen
  <2> QED
    BY <1>0, <2>4, <2>5, <2>6, <2>8, <2>9
<1>10. CASE WriteSessionManifest(t)
  <2>1. ~WorkerAlive /\ resourcesStopped /\ At(t) = "f_manifest"
    BY <1>10, <1>g, <1>p DEF WriteSessionManifest, GoneLabels, IInv, Marked
  <2>2. UNCHANGED <<phase, recording, recordingLock>>
    BY <1>10 DEF WriteSessionManifest, worker
  <2>3. CASE sessionManifest' = mode /\ state' = "STOPPED" /\ Goto(t, AfterFinalize(t))
             /\ UNCHANGED <<mode, failStopRequested, resourcesStopped>>
    <3>1. Moves(t, AfterFinalize(t))
      BY <1>0, <1>p, <1>l, <2>3, GotoMoves
    <3>2. AfterFinalize(t) \notin StopLabels \cup GoneLabels \cup StartLabels \cup IntentLabels
                                    \cup {"sensor_start", "f_manifest"}
      BY <1>l DEF StopLabels, GoneLabels, StartLabels, IntentLabels, TeardownLabels
    <3> USE DEF IInv, Moves, Finalizers, Threads
    <3>3. IntentHeld' /\ WorkerGone'
      BY <1>p, <2>1, <2>2, <2>3, <3>1, <3>2 DEF IntentHeld, WorkerGone, WorkerAlive
    <3>4. Marked'
      BY <2>1, <2>3, <3>1, <3>2 DEF Marked
    <3>5. mode = "SHUTDOWN" => t = "main"
      BY <1>p DEF IntentHeld
    <3>6. Recorded'
      BY <1>p, <1>l, <2>3, <3>1, <3>5 DEF Recorded
    <3>7. RecordingHeld'
      BY <2>2, <3>1, <3>2 DEF RecordingHeld
    <3>8. SensorsOut' /\ RolloutOpen'
      BY <2>2, <2>3, <3>1, <3>2 DEF SensorsOut, RolloutOpen, recording
    <3> QED
      BY <1>0, <3>3, <3>4, <3>6, <3>7, <3>8
  <2>4. CASE t = "main" /\ RaiseFailStop(t, "exit_join")
    <3>1. Moves(t, "exit_join")
      BY <1>0, <1>l, <2>4, RaiseMoves
    <3>2. Keeps
      BY <2>2, <2>4, FrameKeeps DEF RaiseFailStop, teardown
    <3> QED
      BY <1>0, <1>a, <2>1, <2>2, <2>4, <3>1, <3>2, MoveSafe
  <2>5. CASE Goto(t, "done") /\ UNCHANGED session
    <3>1. Moves(t, "done")
      BY <1>0, <1>l, <1>p, <2>5, GotoMoves
    <3>2. Keeps
      BY <2>2, <2>5, FrameKeeps DEF session
    <3> QED
      BY <1>0, <1>a, <2>1, <2>2, <3>1, <3>2, MoveSafe
  <2> QED
    BY <1>10, <2>3, <2>4, <2>5 DEF WriteSessionManifest
<1> QED
  BY <1>1, <1>2, <1>3, <1>4, <1>5, <1>6, <1>7, <1>8, <1>9, <1>10 DEF Teardown

-----------------------------------------------------------------------------
\* request_fail_stop: the promotion of the intent starts the fail-stop thread.
LEMMA EstablishSafe ==
  ASSUME IInv, NEW t \in Threads, EstablishFailStop(t)
  PROVE  IInv'
<1>0. TypeOK' /\ ThreadType
  BY EstablishTyped DEF IInv, TypeOK
<1>1. ret[t] # "rfs" /\ pc[t] = "rfs" /\ UNCHANGED <<teardown, phase, recording, recordingLock>>
  BY <1>0 DEF EstablishFailStop, ThreadType, worker, locks
<1>2. CASE /\ pc' = [pc EXCEPT ![t] = ret[t]]
           /\ UNCHANGED <<state, mode>>
  <2>1. \A u \in Threads : At(u)' = At(u)
    BY <1>0, <1>1, <1>2 DEF EstablishFailStop, ThreadType, At
  <2>2. pc'["failstop"] # "idle" => pc["failstop"] # "idle"
    BY <1>0, <1>1, <1>2 DEF ThreadType
  <2>3. Keeps
    BY <1>1, <1>2, FrameKeeps DEF teardown
  <2> QED
    BY <1>0, <1>1, <2>1, <2>2, <2>3, StaySafe
<1>3. CASE /\ state # "STOPPED" /\ mode # "FAIL_STOP"
           /\ mode' = "FAIL_STOP"
           /\ pc' = [pc EXCEPT ![t] = ret[t], !["failstop"] = "fs_record"]
  <2>1. pc["failstop"] = "idle" /\ sessionManifest = "none"
    BY <1>3 DEF IInv, IntentHeld, Recorded, TypeOK, SessionType
  <2>2. t # "failstop"
    BY <1>1, <2>1
  <2>3. /\ \A u \in Threads \ {"failstop"} : At(u)' = At(u)
        /\ At("failstop")' = "fs_record"
    BY <1>0, <1>1, <1>3, <2>1, <2>2 DEF EstablishFailStop, ThreadType, At, Threads
  <2>4. "fs_record" \notin GoneLabels \cup StopLabels \cup {"f_manifest"}
    BY DEF GoneLabels, StopLabels
  <2> USE DEF IInv, Finalizers, Threads, teardown
  <2>5. IntentHeld' /\ Recorded' /\ RecordingHeld'
    BY <1>1, <1>3, <2>1, <2>3 DEF IntentHeld, Recorded, RecordingHeld
  <2>6. WorkerGone' /\ Marked'
    BY <1>1, <2>3, <2>4 DEF WorkerGone, WorkerAlive, Marked
  <2>7. SensorsOut' /\ RolloutOpen'
    BY <1>1, <2>3, <2>4 DEF SensorsOut, RolloutOpen, recording
  <2> QED
    BY <1>0, <2>5, <2>6, <2>7
<1> QED
  BY <1>2, <1>3 DEF EstablishFailStop

\* The loop of run(), its end, and the interrupt.
LEMMA LoopSafe ==
  IInv /\ Controller /\ (MainLoop \/ GetCommand \/ JoinFailStop \/ ReturnFromRun \/ Interrupt)
    => IInv'
<1> SUFFICES ASSUME IInv, Controller,
                    MainLoop \/ GetCommand \/ JoinFailStop \/ ReturnFromRun \/ Interrupt
             PROVE  IInv'
  OBVIOUS
<1>0. TypeOK' /\ ThreadType /\ "main" \in Threads
  BY ControllerTyped DEF IInv, TypeOK, Threads
<1>1. /\ pc["main"] \in {"loop", "get", "exit_join", "exit_final", "sd_wait"}
      /\ At("main") = pc["main"]
  BY DEF MainLoop, GetCommand, JoinFailStop, ReturnFromRun, Interrupt, At
<1>s. {"exit_join", "get", "loop", "exited", "exit_final", "init_send", "start_begin", "fin_send",
       "sd_mode", "comp_check"} \subseteq FreeLabels /\ FreeLabels \subseteq Labels \ {"rfs"}
  BY DEF FreeLabels, Labels, MainLabels, IntentLabels, TeardownLabels, GoneLabels, StartLabels
<1>a. ASSUME NEW l \in FreeLabels,
             sessionManifest = "SHUTDOWN" => l \in {"loop", "exit_join", "exited"}
      PROVE  Allowed("main", l)
  BY <1>a DEF Allowed, FreeLabels, StopLabels, IntentLabels, TeardownLabels, StartLabels
<1>c. sessionManifest = "SHUTDOWN" =>
        state = "STOPPED" /\ pc["main"] \in {"loop", "exit_join", "exited"}
  BY <1>1 DEF IInv, Recorded
<1>2. CASE MainLoop
  <2>1. PICK l \in {"exit_join", "get"} : Step("main", l) /\ (l = "get" => state # "STOPPED")
    BY <1>2 DEF MainLoop
  <2> QED
    BY <1>0, <1>1, <1>s, <1>a, <1>c, <2>1, StepSafe
<1>3. CASE GetCommand
  <2>0. pc["main"] = "get" /\ sessionManifest # "SHUTDOWN"
    BY <1>3, <1>c DEF GetCommand
  <2>1. CASE Step("main", "loop")
    BY <1>0, <1>s, <1>a, <2>0, <2>1, StepSafe
  <2>2. CASE ~Step("main", "loop")
    <3>1. /\ pc' = [pc EXCEPT !["main"] = Handler[Head(commands).name]]
          /\ UNCHANGED <<session, locks, recording, worker, ret>>
          /\ commands # <<>>
      BY <1>3, <2>2 DEF GetCommand
    <3>2. Head(commands) \in [name : CommandNames, from : States]
      BY <3>1, HeadTail DEF IInv, TypeOK, CommandType
    <3>3. \A n \in CommandNames : Handler[n] \in FreeLabels
      BY <1>s DEF Handler, CommandNames
    <3>4. PICK l \in FreeLabels : pc' = [pc EXCEPT !["main"] = l]
      BY <3>1, <3>2, <3>3
    <3>5. Moves("main", l)
      BY <1>0, <1>s, <2>0, <3>1, <3>4 DEF Moves, At, ThreadType, Threads
    <3>6. Keeps
      BY <3>1, FrameKeeps DEF session, worker
    <3> QED
      BY <1>0, <1>a, <2>0, <3>1, <3>5, <3>6, MoveSafe
  <2> QED
    BY <2>1, <2>2
<1>4. CASE JoinFailStop
  BY <1>0, <1>4, <1>s, <1>a, <1>c, StepSafe, FailStopFromSafe DEF JoinFailStop
<1>5. CASE ReturnFromRun
  BY <1>0, <1>5, <1>s, <1>a, StepSafe DEF ReturnFromRun
<1>6. CASE Interrupt
  BY <1>0, <1>6, <1>s, <1>a, FailStopFromSafe DEF Interrupt
<1> QED
  BY <1>2, <1>3, <1>4, <1>5, <1>6

LEMMA FailStopStepSafe ==
  IInv /\ Controller /\ (FailStopRecord \/ FailStopDeliver \/ FailStopPoll) => IInv'
<1> SUFFICES ASSUME IInv, Controller, FailStopRecord \/ FailStopDeliver \/ FailStopPoll
             PROVE  IInv'
  OBVIOUS
<1>0. TypeOK' /\ ThreadType /\ "failstop" \in Threads
  BY ControllerTyped DEF IInv, TypeOK, Threads
<1>a. ASSUME NEW l \in {"fs_deliver", "fs_poll", "sd_exit", "f_lock"}, l = "f_lock" => ~WorkerAlive
      PROVE  Allowed("failstop", l) /\ l \in Labels \ {"rfs"}
  BY <1>a DEF Allowed, StopLabels, GoneLabels, Labels, OtherLabels, TeardownLabels
<1>1. CASE FailStopRecord
  <2>1. Moves("failstop", "fs_deliver")
    BY <1>0, <1>a, <1>1, GotoMoves DEF FailStopRecord
  <2>2. Keeps
    BY <1>1, FinishRecordingSafe DEF FailStopRecord, FailRecordingBestEffort, ButRecorded, session,
       worker, Keeps, WorkerAlive, IInv, Recorded
  <2> QED
    BY <1>0, <1>a, <1>1, <2>1, <2>2, MoveSafe DEF FailStopRecord, ButRecorded, locks
<1>2. CASE FailStopDeliver
  <2>1. PICK l \in {"fs_poll", "sd_exit", "f_lock"} :
          Goto("failstop", l) /\ (l = "f_lock" => ~WorkerAlive)
    BY <1>2 DEF FailStopDeliver
  <2>2. Moves("failstop", l)
    BY <1>0, <1>a, <1>2, <2>1, GotoMoves DEF FailStopDeliver
  <2>3. Keeps
    BY <1>2, FrameKeeps DEF FailStopDeliver, session
  <2> QED
    BY <1>0, <1>a, <1>2, <2>1, <2>2, <2>3, MoveSafe DEF FailStopDeliver, locks
<1>3. CASE FailStopPoll
  <2>1. PICK l \in {"fs_deliver", "sd_exit", "f_lock"} :
          Step("failstop", l) /\ (l = "f_lock" => ~WorkerAlive)
    BY <1>3 DEF FailStopPoll
  <2> QED
    BY <1>0, <1>a, <1>3, <2>1, StepSafe DEF FailStopPoll
<1> QED
  BY <1>1, <1>2, <1>3

\* Threads that neither run handlers nor finalize can be anywhere outside the teardown.
LEMMA ReceiverSafe ==
  IInv /\ (Deliver \/ StatusCallback \/ EndOfFile \/ DisconnectCallback) => IInv'
<1> SUFFICES ASSUME IInv, Deliver \/ StatusCallback \/ EndOfFile \/ DisconnectCallback
             PROVE  IInv'
  OBVIOUS
<1>0. TypeOK' /\ ThreadType /\ "receiver" \in Threads
  BY ReceiverTyped DEF IInv, TypeOK, Threads
<1>a. ASSUME NEW l \in {"recv", "done", "status", "disconnect"}
      PROVE  Allowed("receiver", l) /\ l \in Labels \ {"rfs"}
  BY DEF Allowed, StopLabels, Finalizers, Labels, OtherLabels
<1>1. CASE Deliver
  <2>1. Keeps
    BY <1>1, FrameKeeps DEF Deliver, session
  <2>2. CASE UNCHANGED threads
    BY <1>0, <1>1, <2>1, <2>2, StaySafe DEF Deliver, threads, At, locks
  <2>3. CASE Goto("receiver", "status")
    BY <1>0, <1>1, <1>a, <2>1, <2>3, GotoMoves, MoveSafe DEF Deliver, locks
  <2> QED
    BY <1>1, <2>2, <2>3 DEF Deliver
<1>2. CASE StatusCallback
  <2>1. /\ UNCHANGED <<mode, resourcesStopped, sessionManifest, phase, recording, recordingLock>>
        /\ state = "STOPPED" => state' = "STOPPED"
        /\ RaiseFailStop("receiver", "recv") \/ Goto("receiver", "recv")
    BY <1>2 DEF StatusCallback, RaiseFailStop, Admit, teardown, session, worker, locks
  <2>2. Keeps /\ Moves("receiver", "recv")
    BY <1>0, <1>2, <1>a, <2>1, FrameKeeps, GotoMoves, RaiseMoves DEF StatusCallback
  <2> QED
    BY <1>0, <1>a, <2>1, <2>2, MoveSafe
<1>3. CASE EndOfFile
  <2>1. PICK l \in {"done", "disconnect"} : Goto("receiver", l)
    BY <1>3 DEF EndOfFile, Step
  <2>2. UNCHANGED <<session, phase, recording, locks>>
    BY <1>3 DEF EndOfFile, Step, ButThreads, worker
  <2>3. Keeps /\ Moves("receiver", l)
    BY <1>0, <1>3, <1>a, <2>1, <2>2, FrameKeeps, GotoMoves DEF EndOfFile, session
  <2> QED
    BY <1>0, <1>a, <2>2, <2>3, MoveSafe DEF locks
<1>4. CASE DisconnectCallback
  BY <1>0, <1>4, <1>a, StepSafe, FailStopFromSafe DEF DisconnectCallback
<1> QED
  BY <1>1, <1>2, <1>3, <1>4

\* Admission and the reports of other threads.
LEMMA ReportSafe ==
  IInv /\ Controller /\ (WorkerExitCallback \/ AdmitUserAction \/ RequestRolloutAbort \/ ReportFault)
    => IInv'
<1> SUFFICES ASSUME IInv, Controller,
                    WorkerExitCallback \/ AdmitUserAction \/ RequestRolloutAbort \/ ReportFault
             PROVE  IInv'
  OBVIOUS
<1>0. TypeOK' /\ ThreadType /\ {"reader", "reporter"} \subseteq Threads
  BY ControllerTyped DEF IInv, TypeOK, Threads
<1>a. ASSUME NEW t \in {"reader", "reporter"}
      PROVE  Allowed(t, "idle") /\ "idle" \in Labels \ {"rfs"}
  BY DEF Allowed, StopLabels, GoneLabels, Finalizers, Labels, OtherLabels
<1>1. CASE WorkerExitCallback
  <2>1. /\ UNCHANGED <<state, mode, resourcesStopped, sessionManifest, phase, recording, recordingLock>>
        /\ RaiseFailStop("reader", "idle") \/ UNCHANGED threads
    BY <1>1 DEF WorkerExitCallback, RaiseFailStop, teardown, session, worker, locks
  <2>2. Keeps
    BY <2>1, FrameKeeps
  <2>3. CASE UNCHANGED threads
    BY <1>0, <2>1, <2>2, <2>3, StaySafe DEF threads, At
  <2>4. CASE RaiseFailStop("reader", "idle")
    BY <1>0, <1>a, <2>1, <2>2, <2>4, RaiseMoves, MoveSafe
  <2> QED
    BY <2>1, <2>3, <2>4
<1>2. CASE AdmitUserAction \/ RequestRolloutAbort
  <2>1. PICK name, from, to : Admit(name, from, to) /\ from # "STOPPED" /\ UNCHANGED threads
    BY <1>2 DEF AdmitUserAction, RequestRolloutAbort, Transitions
  <2>2. Keeps
    BY <2>1, FrameKeeps DEF Admit, teardown, worker
  <2> QED
    BY <1>0, <2>1, <2>2, StaySafe DEF Admit, threads, At, locks
<1>3. CASE ReportFault
  BY <1>0, <1>3, <1>a, FailStopFromSafe DEF ReportFault
<1> QED
  BY <1>1, <1>2, <1>3

\* The worker never comes back.
LEMMA WorkerStaysGone == Worker /\ ~WorkerAlive => ~WorkerAlive'
<1> SUFFICES ASSUME Worker, phase \in Exited PROVE FALSE
  BY DEF WorkerAlive
<1>1. \A o \in Ordinary : Executing[o] \notin Exited
  BY DEF Executing, Ordinary, Exited
<1>2. ~WorkerReceive /\ ~WorkerCloses /\ ~WorkerExits /\ \A o \in Ordinary : ~WorkerComplete(o)
  BY <1>1 DEF WorkerReceive, WorkerCloses, WorkerExits, WorkerComplete, Exited
<1>3. ~WorkerPolicyEnds /\ ~WorkerError /\ ~WorkerCrashes
  BY DEF WorkerPolicyEnds, WorkerError, WorkerCrashes, WorkerAlive, Exited
<1> QED
  BY <1>2, <1>3 DEF Worker, WorkerStep

LEMMA WorkerSafe == IInv /\ Worker => IInv'
<1> SUFFICES ASSUME IInv, Worker PROVE IInv'
  OBVIOUS
<1>1. TypeOK'
  BY WorkerTyped DEF IInv
<1>2. UNCHANGED ButWorker
  BY DEF Worker, WorkerStep, WorkerReceive, WorkerCloses, WorkerExits, WorkerComplete, HangUp,
     WorkerPolicyEnds, WorkerError, WorkerCrashes, Report
<1>3. Keeps
  BY <1>2, WorkerStaysGone
     DEF ButWorker, session, recording, Keeps, IInv, Recorded, RolloutOpen, SensorsOut
<1> QED
  BY <1>1, <1>2, <1>3, StaySafe DEF ButWorker, locks, threads, At

-----------------------------------------------------------------------------
LEMMA InitSafe == Init => IInv
<1> SUFFICES ASSUME Init PROVE IInv
  OBVIOUS
<1>1. TypeOK
  BY InitTyped
<1>2. /\ \A t \in Threads : At(t) \in {"loop", "recv", "idle"}
      /\ pc["failstop"] = "idle"
  BY DEF Init, At, Threads
<1>3. {"loop", "recv", "idle"} \cap (IntentLabels \cup GoneLabels \cup StopLabels \cup StartLabels
         \cup {"f_manifest", "sensor_start"}) = {}
  BY DEF IntentLabels, GoneLabels, StopLabels, StartLabels, TeardownLabels
<1> USE DEF Finalizers, Threads
<1>4. IntentHeld /\ WorkerGone /\ Marked
  BY <1>2, <1>3 DEF Init, IntentHeld, WorkerGone, Marked
<1>5. Recorded /\ RecordingHeld /\ SensorsOut
  BY <1>2, <1>3 DEF Init, Recorded, RecordingHeld, SensorsOut
<1>6. RolloutOpen
  BY DEF Init, RolloutOpen
<1> QED
  BY <1>1, <1>4, <1>5, <1>6 DEF IInv

LEMMA NextSafe == IInv /\ [Next]_vars => IInv'
<1> SUFFICES ASSUME IInv, [Next]_vars PROVE IInv'
  OBVIOUS
<1>1. CASE UNCHANGED vars
  <2>1. TypeOK'
    BY <1>1, NextTyped DEF IInv
  <2>2. UNCHANGED <<session, locks, recording, worker, threads>>
    BY <1>1 DEF vars
  <2>3. Keeps
    BY <2>2, FrameKeeps DEF session, worker
  <2> QED
    BY <2>1, <2>2, <2>3, StaySafe DEF locks, threads, At
<1>2. CASE Controller
  BY <1>2, ControllerCases, RolloutSafe, ShutdownSafe, LoopSafe, FailStopStepSafe, TeardownSafe,
     ReceiverSafe, ReportSafe, EstablishSafe
<1>3. CASE Worker
  BY <1>3, WorkerSafe
<1> QED
  BY <1>1, <1>2, <1>3 DEF Next, Terminated

\* The inductive invariant: types, locks held only at the labels of their critical sections,
\* what the teardown's progress says of the worker, the sensors and the manifests.
THEOREM Invariance == Spec => []IInv
  BY InitSafe, NextSafe, PTL DEF Spec

\* The session manifest records the intent that decides the exit status.
THEOREM ManifestCorrect == Spec => []ManifestRecordsMode
<1>1. IInv => ManifestRecordsMode
  BY DEF IInv, Recorded, ManifestRecordsMode
<1> QED
  BY <1>1, Invariance, PTL

\* No channel is closed and no sensor stopped while the worker lives.
THEOREM WorkerGoneFirst == Spec => []WorkerGoneBeforeTeardown
<1>1. IInv => WorkerGoneBeforeTeardown
  BY DEF IInv, WorkerGone, WorkerGoneBeforeTeardown
<1> QED
  BY <1>1, Invariance, PTL

-----------------------------------------------------------------------------
(***************************************************************************)
(* Action properties: what a step may do to the variables they speak of.   *)
(***************************************************************************)
\* Only these steps touch the recording, the intent or the record.
LEMMA WhatChanges ==
  ASSUME IInv, [Next]_vars
  PROVE  /\ \/ UNCHANGED recording
            \/ BeginRecording \/ SensorStart \/ StartRecorder
            \/ UNCHANGED rolloutManifest /\ \E failed \in SUBSET activeSensors : FinalizeSensors(failed)
            \/ \E status, errors : errors \in BOOLEAN /\ FinishRecording(status, errors)
            \/ \E t \in Finalizers : StopSensors(t)
         /\ \/ UNCHANGED mode
            \/ ShutdownBegin \/ ShutdownRejected \/ \E t \in Threads : EstablishFailStop(t)
         /\ UNCHANGED sessionManifest \/ \E t \in Finalizers : WriteSessionManifest(t)
         /\ UNCHANGED phase \/ Worker \/ \E t \in Finalizers : ForceTerminate(t)
<1> USE DEF session, worker, recording, teardown, ButThreads, ButRecorded, ButWorker, Step, FailStopFrom,
            RaiseFailStop
<1>1. CASE Rollout
  <2>1. UNCHANGED <<mode, sessionManifest, phase>>
    BY <1>1 DEF Rollout, InitializeSend, InitializeWait, InitializeRejected, InitializeCheck,
       InitializeSet, HandlerFailed, BeginRecording, SensorCheck, SensorStart, Rearm, StartRecorder,
       StartGate, StartSend, StartWait, StartCheck, StartSet, StartFailed, ReleaseRecording,
       FinishSend, FinishWait, FinishRecord, FinishCheck, FinishSet, FinishFailed, CompletedCheck,
       CompletedRecord, CompletedSet, TransactSend, TransactWait, CheckState, SetState, RecordAndGoto
  <2>2. CASE BeginRecording \/ SensorStart \/ StartRecorder
    BY <2>1, <2>2
  <2>3. CASE SensorCheck
    <3>1. UNCHANGED recording \/ DiscardActiveSensors
      BY <2>3 DEF SensorCheck
    <3> QED
      BY <2>1, <3>1 DEF DiscardActiveSensors, Unacknowledged
  <2>4. CASE StartFailed \/ FinishRecord \/ FinishFailed \/ CompletedRecord
    BY <2>1, <2>4 DEF StartFailed, FailRecordingBestEffort, FinishRecord, FinishFailed,
       CompletedRecord, RecordAndGoto
  <2>5. CASE ~(BeginRecording \/ SensorStart \/ StartRecorder \/ SensorCheck \/ StartFailed
               \/ FinishRecord \/ FinishFailed \/ CompletedRecord)
    <3>1. UNCHANGED recording
      BY <1>1, <2>5 DEF Rollout, InitializeSend, InitializeWait, InitializeRejected,
         InitializeCheck, InitializeSet, HandlerFailed, Rearm, StartGate, StartSend, StartWait,
         StartCheck, StartSet, ReleaseRecording, FinishSend, FinishWait, FinishCheck, FinishSet,
         CompletedCheck, CompletedSet, TransactSend, TransactWait, CheckState, SetState
    <3> QED
      BY <2>1, <3>1
  <2> QED
    BY <2>2, <2>3, <2>4, <2>5
<1>2. CASE Shutdown
  <2>1. UNCHANGED <<sessionManifest, phase>>
    BY <1>2 DEF Shutdown, ShutdownBegin, ShutdownStopSend, ShutdownStopWait, ShutdownRecord,
       ShutdownSend, ShutdownAckWait, ShutdownRejected, TransactSend, TransactWait, RecordAndGoto
  <2>2. UNCHANGED mode \/ ShutdownBegin \/ ShutdownRejected
    BY <1>2 DEF Shutdown, ShutdownStopSend, ShutdownStopWait, ShutdownRecord, ShutdownSend,
       ShutdownAckWait, TransactSend, TransactWait, RecordAndGoto
  <2>3. UNCHANGED recording \/ \E status, errors : errors \in BOOLEAN /\ FinishRecording(status, errors)
    BY <1>2 DEF Shutdown, ShutdownBegin, ShutdownStopSend, ShutdownStopWait, ShutdownRecord,
       ShutdownSend, ShutdownAckWait, ShutdownRejected, TransactSend, TransactWait, RecordAndGoto
  <2> QED
    BY <2>1, <2>2, <2>3
<1>3. CASE \E t \in Finalizers : Teardown(t)
  <2>1. PICK t \in Finalizers : Teardown(t)
    BY <1>3
  <2>2. /\ UNCHANGED mode
        /\ UNCHANGED recording \/ StopSensors(t)
        /\ UNCHANGED sessionManifest \/ WriteSessionManifest(t)
        /\ UNCHANGED phase \/ ForceTerminate(t)
    BY <2>1 DEF Teardown, ExpectWorkerExit, WorkerExitWait, ForceTerminate, CheckReturnCode,
       WorkerExitDone, FinalizeBegin, MarkResourcesStopped, CloseControl, StopSensors,
       WriteSessionManifest
  <2> QED
    BY <2>2
<1>4. CASE \E t \in Threads : EstablishFailStop(t)
  BY <1>4 DEF EstablishFailStop
<1>5. CASE MainLoop \/ GetCommand \/ JoinFailStop \/ ReturnFromRun \/ Interrupt
  BY <1>5 DEF MainLoop, GetCommand, JoinFailStop, ReturnFromRun, Interrupt
<1>6. CASE FailStopRecord \/ FailStopDeliver \/ FailStopPoll
  BY <1>6 DEF FailStopRecord, FailRecordingBestEffort, FailStopDeliver, FailStopPoll
<1>7. CASE Deliver \/ StatusCallback \/ EndOfFile \/ DisconnectCallback
  BY <1>7 DEF Deliver, StatusCallback, EndOfFile, DisconnectCallback, Admit
<1>8. CASE WorkerExitCallback \/ AdmitUserAction \/ RequestRolloutAbort \/ ReportFault
  BY <1>8 DEF WorkerExitCallback, AdmitUserAction, RequestRolloutAbort, ReportFault, Admit
<1>9. CASE Worker
  BY <1>9 DEF Worker, WorkerStep, WorkerReceive, WorkerCloses, WorkerExits, WorkerComplete, HangUp,
     WorkerPolicyEnds, WorkerError, WorkerCrashes, Report
<1>10. CASE UNCHANGED vars
  BY <1>10 DEF vars
<1> QED
  BY <1>1, <1>2, <1>3, <1>4, <1>5, <1>6, <1>7, <1>8, <1>9, <1>10, ControllerCases
     DEF Next, Terminated

\* A finished recording leaves every sensor it does not hold alone.
LEMMA FinalizeKeepsStopped ==
  ASSUME IInv, NEW failed \in SUBSET activeSensors, FinalizeSensors(failed),
         NEW s \in Sensors, sensor[s] = "stopped"
  PROVE  sensor'[s] = "stopped"
  BY DEF IInv, SensorsOut, FinalizeSensors

\* A stopped sensor is never commanded again, by either thread.
THEOREM StoppedForGood == Spec => StoppedSensorsStayStopped
<1> DEFINE A == \A s \in Sensors : sensor[s] = "stopped" => sensor'[s] = "stopped"
<1>1. IInv /\ [Next]_vars => [A]_vars
  <2> SUFFICES ASSUME IInv, [Next]_vars, NEW s \in Sensors, sensor[s] = "stopped"
               PROVE  sensor'[s] = "stopped"
    OBVIOUS
  <2>1. CASE UNCHANGED recording \/ BeginRecording \/ StartRecorder
    BY <2>1 DEF recording, BeginRecording, StartRecorder
  <2>2. ~SensorStart
    BY DEF SensorStart, IInv, SensorsOut, At
  <2>3. CASE \E failed \in SUBSET activeSensors : FinalizeSensors(failed)
    BY <2>3, FinalizeKeepsStopped
  <2>4. CASE \E status, errors : errors \in BOOLEAN /\ FinishRecording(status, errors)
    <3>1. UNCHANGED sensor \/ \E failed \in SUBSET activeSensors : FinalizeSensors(failed)
      BY <2>4 DEF FinishRecording, Unacknowledged, recording
    <3> QED
      BY <3>1, <2>3
  <2>5. \A t \in Finalizers : ~StopSensors(t)
    BY DEF StopSensors, IInv, SensorsOut, At, StopLabels
  <2> QED
    BY <2>1, <2>2, <2>3, <2>4, <2>5, WhatChanges
<1> QED
  BY <1>1, Invariance, PTL DEF Spec, StoppedSensorsStayStopped

\* A rollout's manifest is written once.
THEOREM ManifestOnce == Spec => RolloutManifestIsFinal
<1> DEFINE A == \A i \in 1..MaxRollouts :
                  rolloutManifest[i] # "none" => rolloutManifest'[i] = rolloutManifest[i]
<1>1. IInv /\ [Next]_vars => [A]_vars
  <2> SUFFICES ASSUME IInv, [Next]_vars, NEW i \in 1..MaxRollouts, rolloutManifest[i] # "none"
               PROVE  rolloutManifest'[i] = rolloutManifest[i]
    OBVIOUS
  <2>1. CASE UNCHANGED rolloutManifest
    BY <2>1
  <2>2. CASE \E status, errors : errors \in BOOLEAN /\ FinishRecording(status, errors)
    <3>1. \/ UNCHANGED rolloutManifest
          \/ \E m : rolloutManifest' = [rolloutManifest EXCEPT ![store] = m]
      BY <2>2 DEF FinishRecording, recording
    <3>2. i # store
      BY DEF IInv, RolloutOpen
    <3> QED
      BY <3>1, <3>2 DEF IInv, TypeOK, RecordingType
  <2>3. CASE BeginRecording \/ SensorStart \/ StartRecorder \/ UNCHANGED recording
             \/ \E t \in Finalizers : StopSensors(t)
    BY <2>3 DEF BeginRecording, SensorStart, StartRecorder, StopSensors, recording
  <2> QED
    BY <2>1, <2>2, <2>3, WhatChanges
<1> QED
  BY <1>1, Invariance, PTL DEF Spec, RolloutManifestIsFinal

\* A fail-stop intent is final, and so is a shutdown once a fail-stop is requested.
THEOREM IntentFinal == Spec => IntentNotWithdrawn
<1> DEFINE A == (mode = "FAIL_STOP" \/ (failStopRequested /\ mode # "None")) => mode' # "None"
<1>1. IInv /\ [Next]_vars => [A]_vars
  <2> SUFFICES ASSUME IInv, [Next]_vars PROVE A
    OBVIOUS
  <2>1. CASE UNCHANGED mode
    BY <2>1
  <2>2. CASE ShutdownBegin \/ ShutdownRejected
    BY <2>2 DEF ShutdownBegin, ShutdownRejected, Step, ButThreads, session
  <2>3. CASE \E t \in Threads : EstablishFailStop(t)
    BY <2>3 DEF EstablishFailStop
  <2> QED
    BY <2>1, <2>2, <2>3, WhatChanges
<1> QED
  BY <1>1, Invariance, PTL DEF Spec, IntentNotWithdrawn

-----------------------------------------------------------------------------
\* InferenceSession implements SessionTermination.
THEOREM Implementation == Spec => TerminationSpec
<1>1. Init => Termination!Init
  BY DEF Init, Termination!Init, WorkerAlive, Exited
<1>2. IInv /\ IInv' /\ [Next]_vars => [Termination!Next]_(Termination!vars)
  <2> SUFFICES ASSUME IInv, IInv', [Next]_vars,
                      mode' # mode \/ sessionManifest' # sessionManifest
                        \/ WorkerAlive' # WorkerAlive
               PROVE  Termination!Next
    BY DEF Termination!vars
  <2> USE DEF Termination!Next, Termination!Open
  <2>0. WorkerAlive \in BOOLEAN /\ WorkerAlive' \in BOOLEAN
    BY DEF WorkerAlive
  <2>1. CASE mode' # mode
    <3>1. UNCHANGED <<sessionManifest, phase>> /\ sessionManifest = "none"
      <4>1. UNCHANGED <<sessionManifest, phase>>
        <5>1. ShutdownBegin \/ ShutdownRejected \/ \E t \in Threads : EstablishFailStop(t)
          BY <2>1, WhatChanges
        <5> QED
          BY <2>1, <5>1 DEF ShutdownBegin, ShutdownRejected, EstablishFailStop, teardown, worker,
             Step, ButThreads, session
      <4>2. CASE ShutdownBegin \/ \E t \in Threads : EstablishFailStop(t)
        <5>1. mode = "None" \/ (mode # "FAIL_STOP" /\ state # "STOPPED")
          BY <2>1, <4>2 DEF ShutdownBegin, EstablishFailStop, Step, ButThreads, session
        <5> QED
          BY <4>1, <5>1 DEF IInv, Recorded, TypeOK, SessionType
      <4>3. CASE ShutdownRejected
        <5>1. mode = "SHUTDOWN"
          BY <2>1, <4>3 DEF ShutdownRejected
        <5>2. At("main") = "sd_reject"
          BY <4>3 DEF ShutdownRejected, At
        <5> QED
          BY <4>1, <5>1, <5>2 DEF IInv, Recorded
      <4> QED
        BY <2>1, <4>1, <4>2, <4>3, WhatChanges
    <3>2. \/ mode = "None" /\ mode' = "SHUTDOWN"
          \/ mode = "SHUTDOWN" /\ mode' = "None"
          \/ mode # "FAIL_STOP" /\ mode' = "FAIL_STOP"
      BY <2>1, WhatChanges DEF ShutdownBegin, ShutdownRejected, EstablishFailStop, Step, ButThreads,
         session
    <3> QED
      BY <3>1, <3>2 DEF Termination!RequestShutdown, Termination!WithdrawShutdown, Termination!Fail,
         WorkerAlive
  <2>2. CASE mode' = mode /\ sessionManifest' # sessionManifest
    <3>1. PICK t \in Finalizers : WriteSessionManifest(t)
      BY <2>2, WhatChanges
    <3>2. sessionManifest' = mode /\ UNCHANGED phase
      BY <2>2, <3>1 DEF WriteSessionManifest, RaiseFailStop, teardown, session, worker
    <3>3. sessionManifest = "none"
      BY <2>2, <3>2 DEF IInv, Recorded
    <3>4. pc[t] = "f_manifest"
      BY <3>1 DEF WriteSessionManifest
    <3>5. mode # "None" /\ ~WorkerAlive
      BY <3>4, InTeardown DEF IInv, WorkerGone, GoneLabels, TeardownLabels, At
    <3> QED
      BY <2>2, <3>2, <3>3, <3>5 DEF Termination!Close, WorkerAlive
  <2>3. CASE mode' = mode /\ sessionManifest' = sessionManifest /\ WorkerAlive' # WorkerAlive
    <3>1. ~WorkerAlive => ~WorkerAlive'
      <4>1. UNCHANGED phase \/ Worker \/ \E t \in Finalizers : ForceTerminate(t)
        BY WhatChanges
      <4> QED
        BY <4>1, WorkerStaysGone DEF WorkerAlive, ForceTerminate, Exited
    <3> QED
      BY <2>0, <2>3, <3>1 DEF Termination!WorkerGone
  <2> QED
    BY <2>1, <2>2, <2>3
<1> QED
  BY <1>1, <1>2, Invariance, PTL DEF Spec, TerminationSpec, Termination!Spec

=============================================================================
