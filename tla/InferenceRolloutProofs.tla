------------------------ MODULE InferenceRolloutProofs ------------------------
(***************************************************************************)
(* Theorems about the rollouts of InferenceSession, for every MaxRollouts  *)
(* and every set of faults: no command is deferred, the controller is idle *)
(* only when nothing of a rollout is left, and a manifest says done only   *)
(* when everything has settled.                                            *)
(*                                                                         *)
(* None of them is inductive.  The main thread, the worker and the two     *)
(* queues between them agree on the state of one exchange at a time, so    *)
(* the invariant RInv says where that exchange is:                         *)
(*   - Reserved, Handled: a command is queued only in a transitional       *)
(*     state, and each label of a handler belongs to one operation;        *)
(*   - Wire: whatever is on the wire or being executed is the operation    *)
(*     the main thread awaits (Own), once (Single), not yet answered       *)
(*     (Staged) and not yet completed (Performed), and the worker is in a  *)
(*     rollout only while the controller rolls one out (Ended);            *)
(*   - Stored, Kept: sensors acquire only for the open rollout, and what   *)
(*     is open is what the main thread is recording;                       *)
(*   - Called, Left: who has asked for the termination, and why the main   *)
(*     thread may have left its loop.                                      *)
(* Wire holds until the main thread has Finished with the worker, that is  *)
(* until it has failed or is tearing the session down.                     *)
(***************************************************************************)
EXTENDS InferenceSessionProofs

\* The label of the main thread, also while it is inside request_fail_stop.
Here == At("main")

\* Labels at which no handler is running; start_release only gives the recording lock back.
Between == {"loop", "get", "start_release"}
\* Labels after the command loop.
Leaving == {"exit_join", "exit_final", "exited"}
\* States in which a user action or a completed rollout is admitted.
Admits == {"WAIT_START", "READY", "RUNNING"}

\* A command is queued only by leaving an admitting state, and handled before the next one.
Reserved ==
  /\ Here \notin Between \cup Leaving => commands = <<>> /\ state \notin Admits
  /\ commands # <<>> => Len(commands) = 1 /\ state \notin Admits

\* The operation the main thread remembers at the labels that use it.
Handled ==
  /\ Here \in {"init_send", "init_wait"} => op = "INITIALIZE"
  /\ Here \in {"start_begin", "start_fail", "start_set", "start_check"}
             \cup (StartLabels \ {"start_release"})
       => op = "START"
  /\ Here \in {"fin_send", "fin_wait"} => op \in {"STOP", "ABORT"}
  /\ Here \in {"sd_stop_send", "sd_stop_wait"} => op = "STOP"
  /\ Here = "sd_mode" => op \in {"STOP", "NONE"}

\* The main thread does not talk to the worker again, except for FAIL_STOP or SHUTDOWN.
Finished ==
  \/ Here \in {"raise_loop", "fin_fail", "start_fail", "sd_deadlock"}
             \cup Leaving \cup TeardownLabels
  \/ Here \in Between /\ commands = <<>> /\ state \notin Admits

\* The controller takes the worker to be in a rollout, or about to enter or leave one.
Rolling ==
  \/ Here \in {"start_wait", "start_check", "start_set", "fin_send", "fin_wait",
              "sd_stop_send", "sd_stop_wait"}
  \/ Here = "sd_mode" /\ op = "STOP"
  \/ Here \in Between /\ state = "RUNNING"
  \/ Here \in Between /\ commands # <<>> /\ HandlerOperation(Head(commands)) \in {"STOP", "ABORT"}

\* The main thread holds the recording of a rollout open, or is about to finish it.
Recording ==
  \/ Rolling
  \/ Here \in {"sensor_check", "sensor_start", "start_rearm", "start_record", "start_gate",
               "start_send", "fin_record", "sd_record", "comp_check", "comp_record"}
  \/ Here \in Between /\ commands # <<>> /\ Head(commands).name = "rollout_completed"

\* The operation whose ACK or status the main thread is waiting for.
Awaited ==
  IF Here \in {"init_wait", "start_wait", "fin_wait", "sd_stop_wait"} THEN op
  ELSE IF Here = "sd_ack" THEN "SHUTDOWN" ELSE "NONE"

-----------------------------------------------------------------------------
\* Outside request_fail_stop the label is pc itself.
LEMMA HereAt == pc["main"] # "rfs" => Here = pc["main"]
  BY DEF Here, At

\* A step or a fail-stop of the main thread leads to its label.
LEMMA HereMoves ==
  ASSUME ThreadType, NEW l, l # "rfs"
  PROVE  /\ Goto("main", l) => Here' = l /\ op' = op
         /\ RaiseFailStop("main", l) => Here' = l /\ op' = op
  BY DEF ThreadType, Threads, Goto, RaiseFailStop, Here, At

\* The other threads leave the label of the main thread.
LEMMA OthersMove ==
  ASSUME ThreadType, NEW t \in Threads \ {"main"}, NEW l
  PROVE  Goto(t, l) \/ RaiseFailStop(t, l) => Here' = Here /\ op' = op
  BY DEF ThreadType, Threads, Goto, RaiseFailStop, Here, At

\* FAIL_STOP is established without moving any thread past request_fail_stop.
LEMMA EstablishStays ==
  ASSUME ThreadType, NEW t \in Threads, EstablishFailStop(t)
  PROVE  /\ Here' = Here /\ op' = op /\ UNCHANGED commands
         /\ state' = state \/ state' = "FAIL_STOPPING"
  BY DEF ThreadType, Threads, EstablishFailStop, Here, At

\* A step that only terminates disturbs neither the command nor the exchange.
LEMMA Undisturbed ==
  ASSUME Reserved, Handled, Here' = Here, UNCHANGED <<op, commands>>,
         state' = state \/ state' \in {"FAIL_STOPPING", "STOPPED"}
  PROVE  /\ Reserved' /\ Handled'
         /\ ~Finished' => /\ ~Finished /\ Awaited' = Awaited
                          /\ Rolling' <=> Rolling
                          /\ Recording' <=> Recording
<1>1. Reserved' /\ Handled'
  BY DEF Reserved, Handled, Admits
<1>2. ~Finished' => ~Finished
  BY DEF Finished, Admits
<1>3. ~Finished' => Awaited' = Awaited
  BY DEF Awaited
<1>4. ~Finished' => (Rolling' <=> Rolling)
  BY DEF Rolling, Finished, Admits, HandlerOperation, Reserved
<1>5. ~Finished' => (Recording' <=> Recording)
  BY <1>4 DEF Recording
<1> QED
  BY <1>1, <1>2, <1>3, <1>4, <1>5

-----------------------------------------------------------------------------
\* What the two sides of the exchange read and write.
wire == <<inbox, outbox, acks, statuses, callback, phase>>

\* The exchange is the same.
Same == Awaited' = Awaited /\ (Rolling' <=> Rolling)

\* The main thread sends an operation; START begins the rollout, STOP or ABORT is sent in
\* one.
Sent(o) ==
  /\ Awaited = "NONE" /\ Awaited' = o /\ o \in Ordinary \cup {"SHUTDOWN"}
  /\ PutRequest(o) /\ UNCHANGED <<outbox, callback, phase>>
  /\ o \in Ordinary => statuses' = {}
  /\ Rolling' <=> Rolling \/ o = "START"
  /\ o \in {"STOP", "ABORT"} <=> Rolling

\* The main thread has its answer: ACK and status, or a rejection.
Answered ==
  /\ Awaited' = "NONE" /\ UNCHANGED wire
  /\ \/ Awaited \in Ordinary /\ acks[Awaited] = "accepted" /\ Completion[Awaited] \in statuses
     \/ Awaited # "NONE" /\ acks[Awaited] = "rejected"
  /\ Rolling' => Rolling
  /\ Rolling /\ ~Rolling' => Awaited \in {"STOP", "ABORT"} /\ Completion[Awaited] \in statuses

\* What a step that sends does to the queues.
Sending ==
  /\ PutRequest(op)
  /\ statuses' = {}
  /\ UNCHANGED <<outbox, callback, phase>>
  /\ op \in Ordinary

\* The worker process is killed or exits; what is queued stays.
Forced == phase' \in {phase} \cup Exited /\ UNCHANGED <<inbox, outbox, acks, statuses, callback>>

\* The status callback has run; after COMPLETED the controller takes the rollout as ended.
Heard ==
  /\ callback' = "none" /\ UNCHANGED <<inbox, outbox, acks, statuses, phase>>
  /\ Awaited' = Awaited
  /\ (Rolling' <=> Rolling) \/ (callback = "COMPLETED" /\ Awaited = "NONE" /\ ~Rolling')

\* Every step, by what it does to the exchange.
Exchange ==
  \/ Same /\ UNCHANGED wire
  \/ \E o \in Ordinary \cup {"SHUTDOWN"} : Sent(o)
  \/ Answered
  \/ Heard
  \/ Same /\ (Deliver \/ FailStopDeliver \/ Worker \/ Forced)

\* Where a step of the teardown leads, and what it leaves alone.
LEMMA TeardownMoves ==
  ASSUME NEW t \in Finalizers, Teardown(t)
  PROVE  /\ pc[t] \in TeardownLabels
         /\ \E l \in TeardownLabels \cup {AfterFinalize(t), "loop", "exit_join"} :
              Goto(t, l) \/ RaiseFailStop(t, l)
         /\ UNCHANGED <<op, commands>>
         /\ state' = state \/ state' = "STOPPED"
<1> DEFINE Moved == \E l \in TeardownLabels \cup {AfterFinalize(t), "loop", "exit_join"} :
                      Goto(t, l) \/ RaiseFailStop(t, l)
<1>1. ExpectWorkerExit(t) => pc[t] \in TeardownLabels /\ Moved
  BY DEF ExpectWorkerExit, Step, FailStopFrom, TeardownLabels
<1>2. WorkerExitWait(t) => pc[t] \in TeardownLabels /\ Moved
  BY DEF WorkerExitWait, Step, FailStopFrom, TeardownLabels, AfterFinalize, Finalizers
<1>3. ForceTerminate(t) => pc[t] \in TeardownLabels /\ Moved
  BY DEF ForceTerminate, Step, FailStopFrom, TeardownLabels
<1>4. CheckReturnCode(t) => pc[t] \in TeardownLabels /\ Moved
  BY DEF CheckReturnCode, Step, FailStopFrom, TeardownLabels
<1>5. WorkerExitDone(t) => pc[t] \in TeardownLabels /\ Moved
  BY DEF WorkerExitDone, Step, FailStopFrom, TeardownLabels, AfterFinalize, Finalizers
<1>6. FinalizeBegin(t) => pc[t] \in TeardownLabels /\ Moved
  BY DEF FinalizeBegin, Step, FailStopFrom, TeardownLabels
<1>7. MarkResourcesStopped(t) => pc[t] \in TeardownLabels /\ Moved
  BY DEF MarkResourcesStopped, Step, FailStopFrom, TeardownLabels
<1>8. CloseControl(t) => pc[t] \in TeardownLabels /\ Moved
  BY DEF CloseControl, Step, FailStopFrom, TeardownLabels
<1>9. StopSensors(t) => pc[t] \in TeardownLabels /\ Moved
  BY DEF StopSensors, Step, FailStopFrom, TeardownLabels
<1>10. WriteSessionManifest(t) => pc[t] \in TeardownLabels /\ Moved
  BY DEF WriteSessionManifest, Step, FailStopFrom, TeardownLabels, AfterFinalize, Finalizers
<1>11. UNCHANGED <<op, commands>> /\ (state' = state \/ state' = "STOPPED")
  BY DEF Teardown, ExpectWorkerExit, WorkerExitWait, ForceTerminate, CheckReturnCode,
         WorkerExitDone, FinalizeBegin, MarkResourcesStopped, CloseControl, StopSensors,
         WriteSessionManifest, Step, FailStopFrom, RaiseFailStop, Goto, ButThreads, ButRecorded,
         session
<1> QED
  BY <1>1, <1>2, <1>3, <1>4, <1>5, <1>6, <1>7, <1>8, <1>9, <1>10, <1>11 DEF Teardown

\* The steps of the other threads leave the main thread and the queue of commands alone.
LEMMA OthersStay ==
  ASSUME ThreadType,
         \/ \E t \in {"main", "receiver", "reader", "reporter"} : EstablishFailStop(t)
         \/ FailStopStep \/ Deliver \/ EndOfFile \/ DisconnectCallback \/ WorkerExitCallback
         \/ ReportFault \/ Worker \/ Terminated \/ UNCHANGED vars
  PROVE  /\ Here' = Here /\ UNCHANGED <<op, commands>>
         /\ state' = state \/ state' \in {"FAIL_STOPPING", "STOPPED"}
<1>1. ASSUME NEW t \in {"main", "receiver", "reader", "reporter"}, EstablishFailStop(t)
      PROVE  /\ Here' = Here /\ UNCHANGED <<op, commands>>
             /\ state' = state \/ state' \in {"FAIL_STOPPING", "STOPPED"}
  BY <1>1, EstablishStays DEF Threads
<1>2. ASSUME UNCHANGED <<threads, commands, state>>
      PROVE  Here' = Here /\ UNCHANGED <<op, commands, state>>
  BY <1>2 DEF threads, Here, At
<1>3. CASE Worker \/ Terminated \/ UNCHANGED vars
  BY <1>2, <1>3
     DEF Worker, WorkerStep, WorkerReceive, WorkerCloses, WorkerExits, WorkerComplete,
         WorkerPolicyEnds, WorkerError, WorkerCrashes, Report, HangUp, ButWorker, session,
         Terminated, vars
<1> DEFINE Other(t) == /\ \E l : Goto(t, l) \/ RaiseFailStop(t, l)
                       /\ UNCHANGED commands
                       /\ state' = state \/ state' = "STOPPED"
<1>4. ASSUME NEW t \in Threads \ {"main"}, Other(t)
      PROVE  /\ Here' = Here /\ UNCHANGED <<op, commands>>
             /\ state' = state \/ state' \in {"FAIL_STOPPING", "STOPPED"}
  BY <1>4, OthersMove
<1>5. CASE FailStopRecord \/ FailStopDeliver \/ FailStopPoll
  <2>1. Other("failstop")
    BY <1>5
       DEF FailStopRecord, FailStopDeliver, FailStopPoll, Step, ButThreads, ButRecorded, session
  <2> QED
    BY <2>1, <1>4 DEF Threads
<1>6. CASE Teardown("failstop")
  <2>1. "failstop" \in Finalizers
    BY DEF Finalizers
  <2>2. \E l : Goto("failstop", l) \/ RaiseFailStop("failstop", l)
    BY <1>6, <2>1, TeardownMoves
  <2>3. UNCHANGED commands /\ (state' = state \/ state' = "STOPPED")
    BY <1>6, <2>1, TeardownMoves
  <2> QED
    BY <2>2, <2>3, <1>4 DEF Threads
<1>7. CASE Deliver
  <2>1. UNCHANGED threads \/ Goto("receiver", "status")
    BY <1>7 DEF Deliver
  <2>2. UNCHANGED <<commands, state>>
    BY <1>7 DEF Deliver, session
  <2> QED
    BY <2>1, <2>2, <1>2, OthersMove DEF Threads
<1>8. CASE EndOfFile \/ DisconnectCallback
  <2>1. Other("receiver")
    BY <1>8
       DEF EndOfFile, DisconnectCallback, Step, ButThreads, session, FailStopFrom, RaiseFailStop
  <2> QED
    BY <2>1, <1>4 DEF Threads
<1>9. CASE WorkerExitCallback
  <2>1. UNCHANGED <<threads, state, commands>> \/ Other("reader")
    BY <1>9 DEF WorkerExitCallback, session, RaiseFailStop
  <2> QED
    BY <2>1, <1>2, <1>4 DEF Threads
<1>10. CASE ReportFault
  <2>1. Other("reporter")
    BY <1>10 DEF ReportFault, FailStopFrom, RaiseFailStop
  <2> QED
    BY <2>1, <1>4 DEF Threads
<1> QED
  BY <1>1, <1>3, <1>5, <1>6, <1>7, <1>8, <1>9, <1>10 DEF FailStopStep

\* The head and the tail of the queue of commands.
LEMMA HeadAndTail ==
  ASSUME NEW S, NEW q \in Seq(S), q # <<>>, Len(q) = 1
  PROVE  Head(q) \in S /\ Tail(q) = <<>>
<1>1. Head(q) \in S /\ Tail(q) \in Seq(S) /\ Len(Tail(q)) = 0
  BY HeadTailProperties
<1> QED
  BY <1>1, EmptySeq

\* Where the main thread goes with a command, and the operation it remembers.
LEMMA HeadHandled ==
  ASSUME CommandType, commands # <<>>
  PROVE  LET c == Head(commands) IN
         /\ Handler[c.name] # "rfs"
         /\ Handler[c.name] \notin Between \cup Leaving \cup TeardownLabels
         /\ \/ /\ c.name = "initialize" /\ Handler[c.name] = "init_send"
               /\ HandlerOperation(c) = "INITIALIZE"
            \/ c.name = "start" /\ Handler[c.name] = "start_begin" /\ HandlerOperation(c) = "START"
            \/ c.name = "stop" /\ Handler[c.name] = "fin_send" /\ HandlerOperation(c) = "STOP"
            \/ /\ c.name \in {"abort", "recoverable_abort"} /\ Handler[c.name] = "fin_send"
               /\ HandlerOperation(c) = "ABORT"
            \/ /\ c.name = "shutdown" /\ Handler[c.name] = "sd_mode"
               /\ HandlerOperation(c) \in {"STOP", "NONE"}
            \/ /\ c.name = "rollout_completed" /\ Handler[c.name] = "comp_check"
               /\ HandlerOperation(c) = "NONE"
<1> DEFINE c == Head(commands)
<1>1. c.name \in CommandNames
  <2>1. Head(commands) \in [name : CommandNames, from : States]
    BY HeadTail DEF CommandType
  <2> QED
    BY <2>1
<1>2. c.name \in DOMAIN Requests <=>
        c.name \in {"initialize", "start", "stop", "abort", "recoverable_abort"}
  BY DEF Requests
<1> HIDE DEF c
<1> QED
  BY <1>1, <1>2
     DEF c, CommandNames, Handler, HandlerOperation, Requests, Between, Leaving, TeardownLabels

\* A shutdown that sends STOP remembers STOP.
LEMMA HereBegins ==
  ASSUME ThreadType, ShutdownBegin, Here' = "sd_stop_send"
  PROVE  op = "STOP"
  BY HereMoves DEF ShutdownBegin, Step

\* Every step of the main thread keeps the account of commands and operations.
LEMMA MainKept ==
  ASSUME TypeOK, Reserved, Handled, MainStep \/ Interrupt, ~Teardown("main"),
         ~EstablishFailStop("main")
  PROVE  Reserved' /\ Handled'
<1>1. ThreadType /\ CommandType
  BY DEF TypeOK
<1> USE <1>1 DEF Between, Leaving, Admits, StartLabels, TeardownLabels, teardown, RaiseFailStop,
    Reserved, Handled, ButThreads, ButRecorded, session
<1>2. CASE MainLoop
  <2>1. Here = "loop"
    BY <1>2, HereAt DEF MainLoop, Step
  <2>2. Here' \in {"exit_join", "get"} /\ op' = op
    BY <1>2, HereMoves DEF MainLoop, Step
  <2> QED
    BY <1>2, <2>1, <2>2 DEF MainLoop, Step
<1>3. CASE GetCommand
  <2>1. Here = "get"
    BY <1>3, HereAt DEF GetCommand
  <2>4. commands = <<>> => Here' = "loop" /\ op' = op
    BY <1>3, HereMoves DEF GetCommand, Step
  <2>2. CASE commands = <<>>
    BY <1>3, <2>1, <2>2, <2>4 DEF GetCommand, Step, ButThreads, session, Reserved, Handled
  <2>3. CASE commands # <<>>
    <3>1. /\ Here' = Handler[Head(commands).name]
          /\ op' = HandlerOperation(Head(commands))
          /\ commands' = Tail(commands)
          /\ state' = state
      BY <1>3, <2>3, HeadHandled DEF GetCommand, Step, session, Here, At, ThreadType, Threads
    <3>2. Tail(commands) = <<>> /\ state \notin Admits
      BY <2>3, HeadAndTail DEF Reserved, CommandType
    <3> QED
      BY <2>1, <2>3, <3>1, <3>2, HeadHandled DEF Reserved, Handled
  <2> QED
    BY <2>2, <2>3
<1>4. CASE JoinFailStop
  <2>1. Here = "exit_join"
    BY <1>4, HereAt DEF JoinFailStop, Step, FailStopFrom
  <2>2. Here' \in {"exited", "exit_final"} /\ op' = op
    BY <1>4, HereMoves DEF JoinFailStop, Step, FailStopFrom
  <2> QED
    BY <1>4, <2>1, <2>2 DEF JoinFailStop, Step, FailStopFrom
<1>5. CASE ReturnFromRun
  <2>1. Here = "exit_final"
    BY <1>5, HereAt DEF ReturnFromRun, Step
  <2>2. Here' \in {"exited"} /\ op' = op
    BY <1>5, HereMoves DEF ReturnFromRun, Step
  <2> QED
    BY <1>5, <2>1, <2>2 DEF ReturnFromRun, Step
<1>6. CASE Interrupt
  <2>1. Here \in {"loop", "get", "sd_wait"}
    BY <1>6, HereAt DEF Interrupt, FailStopFrom
  <2>2. Here' \in {"exit_join"} /\ op' = op
    BY <1>6, HereMoves DEF Interrupt, FailStopFrom
  <2> QED
    BY <1>6, <2>1, <2>2 DEF Interrupt, FailStopFrom
<1>7. CASE InitializeSend
  <2>1. Here = "init_send"
    BY <1>7, HereAt DEF InitializeSend, TransactSend
  <2>2. Here' \in {"init_wait", "raise_loop"} /\ op' = op
    BY <1>7, HereMoves DEF InitializeSend, TransactSend
  <2> QED
    BY <1>7, <2>1, <2>2 DEF InitializeSend, TransactSend
<1>8. CASE InitializeWait
  <2>1. Here = "init_wait"
    BY <1>8, HereAt DEF InitializeWait, Step
  <2>2. Here' \in {"init_reject", "init_check", "raise_loop"} /\ op' = op
    BY <1>8, HereMoves DEF InitializeWait, Step
  <2> QED
    BY <1>8, <2>1, <2>2 DEF InitializeWait, Step
<1>9. CASE InitializeRejected
  <2>1. Here = "init_reject"
    BY <1>9, HereAt DEF InitializeRejected, SetState
  <2>2. Here' \in {"loop"} /\ op' = op
    BY <1>9, HereMoves DEF InitializeRejected, SetState
  <2> QED
    BY <1>9, <2>1, <2>2 DEF InitializeRejected, SetState
<1>10. CASE InitializeCheck
  <2>1. Here = "init_check"
    BY <1>10, HereAt DEF InitializeCheck, CheckState, Step
  <2>2. Here' \in {"init_set", "loop"} /\ op' = op
    BY <1>10, HereMoves DEF InitializeCheck, CheckState, Step
  <2> QED
    BY <1>10, <2>1, <2>2 DEF InitializeCheck, CheckState, Step
<1>11. CASE InitializeSet
  <2>1. Here = "init_set"
    BY <1>11, HereAt DEF InitializeSet, SetState
  <2>2. Here' \in {"loop"} /\ op' = op
    BY <1>11, HereMoves DEF InitializeSet, SetState
  <2> QED
    BY <1>11, <2>1, <2>2 DEF InitializeSet, SetState
<1>12. CASE HandlerFailed
  <2>1. Here = "raise_loop"
    BY <1>12, HereAt DEF HandlerFailed, FailStopFrom
  <2>2. Here' \in {"loop"} /\ op' = op
    BY <1>12, HereMoves DEF HandlerFailed, FailStopFrom
  <2> QED
    BY <1>12, <2>1, <2>2 DEF HandlerFailed, FailStopFrom
<1>13. CASE BeginRecording
  <2>1. Here = "start_begin"
    BY <1>13, HereAt DEF BeginRecording
  <2>2. Here' \in {"start_fail", "sensor_check"} /\ op' = op
    BY <1>13, HereMoves DEF BeginRecording
  <2> QED
    BY <1>13, <2>1, <2>2 DEF BeginRecording
<1>14. CASE SensorCheck
  <2>1. Here = "sensor_check"
    BY <1>14, HereAt DEF SensorCheck
  <2>2. Here' \in {"start_fail", "start_rearm", "sensor_start"} /\ op' = op
    BY <1>14, HereMoves DEF SensorCheck
  <2> QED
    BY <1>14, <2>1, <2>2 DEF SensorCheck
<1>15. CASE SensorStart
  <2>1. Here = "sensor_start"
    BY <1>15, HereAt DEF SensorStart
  <2>2. Here' \in {"sensor_check", "start_fail"} /\ op' = op
    BY <1>15, HereMoves DEF SensorStart
  <2> QED
    BY <1>15, <2>1, <2>2 DEF SensorStart
<1>16. CASE Rearm
  <2>1. Here = "start_rearm"
    BY <1>16, HereAt DEF Rearm, Step
  <2>2. Here' \in {"start_record", "start_fail"} /\ op' = op
    BY <1>16, HereMoves DEF Rearm, Step
  <2> QED
    BY <1>16, <2>1, <2>2 DEF Rearm, Step
<1>17. CASE StartRecorder
  <2>1. Here = "start_record"
    BY <1>17, HereAt DEF StartRecorder
  <2>2. Here' \in {"start_gate", "start_fail"} /\ op' = op
    BY <1>17, HereMoves DEF StartRecorder
  <2> QED
    BY <1>17, <2>1, <2>2 DEF StartRecorder
<1>18. CASE StartGate
  <2>1. Here = "start_gate"
    BY <1>18, HereAt DEF StartGate, Step
  <2>2. Here' \in {"start_send", "start_fail"} /\ op' = op
    BY <1>18, HereMoves DEF StartGate, Step
  <2> QED
    BY <1>18, <2>1, <2>2 DEF StartGate, Step
<1>19. CASE StartSend
  <2>1. Here = "start_send"
    BY <1>19, HereAt DEF StartSend, TransactSend
  <2>2. Here' \in {"start_wait", "start_fail"} /\ op' = op
    BY <1>19, HereMoves DEF StartSend, TransactSend
  <2> QED
    BY <1>19, <2>1, <2>2 DEF StartSend, TransactSend
<1>20. CASE StartWait
  <2>1. Here = "start_wait"
    BY <1>20, HereAt DEF StartWait, TransactWait, Step
  <2>2. Here' \in {"start_check", "start_fail"} /\ op' = op
    BY <1>20, HereMoves DEF StartWait, TransactWait, Step
  <2> QED
    BY <1>20, <2>1, <2>2 DEF StartWait, TransactWait, Step
<1>21. CASE StartCheck
  <2>1. Here = "start_check"
    BY <1>21, HereAt DEF StartCheck, CheckState, Step
  <2>2. Here' \in {"start_set", "start_release"} /\ op' = op
    BY <1>21, HereMoves DEF StartCheck, CheckState, Step
  <2> QED
    BY <1>21, <2>1, <2>2 DEF StartCheck, CheckState, Step
<1>22. CASE StartSet
  <2>1. Here = "start_set"
    BY <1>22, HereAt DEF StartSet
  <2>2. Here' \in {"start_release"} /\ op' = op
    BY <1>22, HereMoves DEF StartSet
  <2> QED
    BY <1>22, <2>1, <2>2 DEF StartSet
<1>23. CASE StartFailed
  <2>1. Here = "start_fail"
    BY <1>23, HereAt DEF StartFailed
  <2>2. Here' \in {"start_release"} /\ op' = op
    BY <1>23, HereMoves DEF StartFailed
  <2> QED
    BY <1>23, <2>1, <2>2 DEF StartFailed
<1>24. CASE ReleaseRecording
  <2>1. Here = "start_release"
    BY <1>24, HereAt DEF ReleaseRecording
  <2>2. Here' \in {"loop"} /\ op' = op
    BY <1>24, HereMoves DEF ReleaseRecording
  <2> QED
    BY <1>24, <2>1, <2>2 DEF ReleaseRecording
<1>25. CASE FinishSend
  <2>1. Here = "fin_send"
    BY <1>25, HereAt DEF FinishSend, TransactSend
  <2>2. Here' \in {"fin_wait", "fin_fail"} /\ op' = op
    BY <1>25, HereMoves DEF FinishSend, TransactSend
  <2> QED
    BY <1>25, <2>1, <2>2 DEF FinishSend, TransactSend
<1>26. CASE FinishWait
  <2>1. Here = "fin_wait"
    BY <1>26, HereAt DEF FinishWait, TransactWait, Step
  <2>2. Here' \in {"fin_record", "fin_fail"} /\ op' = op
    BY <1>26, HereMoves DEF FinishWait, TransactWait, Step
  <2> QED
    BY <1>26, <2>1, <2>2 DEF FinishWait, TransactWait, Step
<1>27. CASE FinishRecord
  <2>1. Here = "fin_record"
    BY <1>27, HereAt DEF FinishRecord, RecordAndGoto
  <2>2. Here' \in {"fin_check", "fin_fail"} /\ op' = op
    BY <1>27, HereMoves DEF FinishRecord, RecordAndGoto
  <2> QED
    BY <1>27, <2>1, <2>2 DEF FinishRecord, RecordAndGoto
<1>28. CASE FinishCheck
  <2>1. Here = "fin_check"
    BY <1>28, HereAt DEF FinishCheck, CheckState, Step
  <2>2. Here' \in {"fin_set", "loop"} /\ op' = op
    BY <1>28, HereMoves DEF FinishCheck, CheckState, Step
  <2> QED
    BY <1>28, <2>1, <2>2 DEF FinishCheck, CheckState, Step
<1>29. CASE FinishSet
  <2>1. Here = "fin_set"
    BY <1>29, HereAt DEF FinishSet, SetState
  <2>2. Here' \in {"loop"} /\ op' = op
    BY <1>29, HereMoves DEF FinishSet, SetState
  <2> QED
    BY <1>29, <2>1, <2>2 DEF FinishSet, SetState
<1>30. CASE FinishFailed
  <2>1. Here = "fin_fail"
    BY <1>30, HereAt DEF FinishFailed, RecordAndGoto
  <2>2. Here' \in {"raise_loop"} /\ op' = op
    BY <1>30, HereMoves DEF FinishFailed, RecordAndGoto
  <2> QED
    BY <1>30, <2>1, <2>2 DEF FinishFailed, RecordAndGoto
<1>31. CASE CompletedCheck
  <2>1. Here = "comp_check"
    BY <1>31, HereAt DEF CompletedCheck, CheckState, Step
  <2>2. Here' \in {"comp_record", "loop"} /\ op' = op
    BY <1>31, HereMoves DEF CompletedCheck, CheckState, Step
  <2> QED
    BY <1>31, <2>1, <2>2 DEF CompletedCheck, CheckState, Step
<1>32. CASE CompletedRecord
  <2>1. Here = "comp_record"
    BY <1>32, HereAt DEF CompletedRecord, RecordAndGoto
  <2>2. Here' \in {"comp_set", "raise_loop"} /\ op' = op
    BY <1>32, HereMoves DEF CompletedRecord, RecordAndGoto
  <2> QED
    BY <1>32, <2>1, <2>2 DEF CompletedRecord, RecordAndGoto
<1>33. CASE CompletedSet
  <2>1. Here = "comp_set"
    BY <1>33, HereAt DEF CompletedSet, SetState
  <2>2. Here' \in {"loop"} /\ op' = op
    BY <1>33, HereMoves DEF CompletedSet, SetState
  <2> QED
    BY <1>33, <2>1, <2>2 DEF CompletedSet, SetState
<1>34. CASE ShutdownBegin
  <2>1. Here = "sd_mode"
    BY <1>34, HereAt DEF ShutdownBegin, Step
  <2>2. Here' \in {"loop", "sd_stop_send", "sd_send"} /\ op' = op
    BY <1>34, HereMoves DEF ShutdownBegin, Step
  <2> QED
    BY <1>34, <2>1, <2>2, HereBegins DEF ShutdownBegin, Step
<1>35. CASE ShutdownStopSend
  <2>1. Here = "sd_stop_send"
    BY <1>35, HereAt DEF ShutdownStopSend, TransactSend
  <2>2. Here' \in {"sd_stop_wait", "raise_loop"} /\ op' = op
    BY <1>35, HereMoves DEF ShutdownStopSend, TransactSend
  <2> QED
    BY <1>35, <2>1, <2>2 DEF ShutdownStopSend, TransactSend
<1>36. CASE ShutdownStopWait
  <2>1. Here = "sd_stop_wait"
    BY <1>36, HereAt DEF ShutdownStopWait, TransactWait, Step
  <2>2. Here' \in {"sd_record", "raise_loop"} /\ op' = op
    BY <1>36, HereMoves DEF ShutdownStopWait, TransactWait, Step
  <2> QED
    BY <1>36, <2>1, <2>2 DEF ShutdownStopWait, TransactWait, Step
<1>37. CASE ShutdownRecord
  <2>1. Here = "sd_record"
    BY <1>37, HereAt DEF ShutdownRecord, RecordAndGoto
  <2>2. Here' \in {"sd_send", "raise_loop"} /\ op' = op
    BY <1>37, HereMoves DEF ShutdownRecord, RecordAndGoto
  <2> QED
    BY <1>37, <2>1, <2>2 DEF ShutdownRecord, RecordAndGoto
<1>38. CASE ShutdownSend
  <2>1. Here = "sd_send"
    BY <1>38, HereAt DEF ShutdownSend
  <2>2. Here' \in {"loop", "sd_ack", "raise_loop", "sd_deadlock"} /\ op' = op
    BY <1>38, HereMoves DEF ShutdownSend
  <2> QED
    BY <1>38, <2>1, <2>2 DEF ShutdownSend
<1>39. CASE ShutdownAckWait
  <2>1. Here = "sd_ack"
    BY <1>39, HereAt DEF ShutdownAckWait, Step
  <2>2. Here' \in {"sd_exit", "sd_reject", "raise_loop"} /\ op' = op
    BY <1>39, HereMoves DEF ShutdownAckWait, Step
  <2> QED
    BY <1>39, <2>1, <2>2 DEF ShutdownAckWait, Step
<1>40. CASE ShutdownRejected
  <2>1. Here = "sd_reject"
    BY <1>40, HereAt DEF ShutdownRejected
  <2>2. Here' \in {"loop"} /\ op' = op
    BY <1>40, HereMoves DEF ShutdownRejected
  <2> QED
    BY <1>40, <2>1, <2>2 DEF ShutdownRejected
<1> QED
  BY <1>2, <1>3, <1>4, <1>5, <1>6, <1>7, <1>8, <1>9, <1>10, <1>11, <1>12, <1>13, <1>14, <1>15,
     <1>16, <1>17, <1>18, <1>19, <1>20, <1>21, <1>22, <1>23, <1>24, <1>25, <1>26, <1>27, <1>28,
     <1>29, <1>30, <1>31, <1>32, <1>33, <1>34, <1>35, <1>36, <1>37, <1>38, <1>39, <1>40
     DEF MainStep, Rollout, Shutdown

\* The main thread tears down only when it has finished with the worker.
LEMMA MainTearsDown ==
  ASSUME TypeOK, Reserved, Handled, Teardown("main")
  PROVE  Reserved' /\ Handled' /\ Finished'
<1>1. "main" \in Finalizers /\ ThreadType
  BY DEF Finalizers, TypeOK
<1>2. Here \in TeardownLabels
  BY <1>1, TeardownMoves, HereAt DEF TeardownLabels
<1>3. /\ \E l \in TeardownLabels \cup {"loop", "exit_join"} :
           Goto("main", l) \/ RaiseFailStop("main", l)
      /\ UNCHANGED <<op, commands>>
      /\ state' = state \/ state' = "STOPPED"
  BY <1>1, TeardownMoves DEF AfterFinalize
<1>4. Here' \in TeardownLabels \cup {"loop", "exit_join"}
  BY <1>1, <1>3, HereMoves DEF TeardownLabels
<1>5. commands = <<>> /\ state \notin Admits
  BY <1>2 DEF Reserved, Between, Leaving, TeardownLabels
<1> QED
  BY <1>3, <1>4, <1>5
     DEF Reserved, Handled, Finished, Between, Leaving, Admits, TeardownLabels, StartLabels

\* Admitting a command finds the queue empty and leaves an admitting state.
LEMMA AdmitKept ==
  ASSUME TypeOK, Reserved, Handled, NEW n \in CommandNames, NEW from \in Admits,
         NEW to \in States \ Admits, Admit(n, from, to), Here' = Here, op' = op
  PROVE  /\ Reserved' /\ Handled'
         /\ commands = <<>> /\ commands' # <<>> /\ Head(commands') = Command(n, from)
<1>1. commands = <<>> /\ Here \in Between \cup Leaving
  BY DEF Admit, Reserved
<1>2. commands' = <<Command(n, from)>>
  BY <1>1 DEF Admit
<1>3. commands' # <<>> /\ Len(commands') = 1 /\ Head(commands') = Command(n, from)
  BY <1>2
<1> QED
  BY <1>1, <1>3 DEF Admit, Reserved, Handled, Between, Leaving, StartLabels

\* User actions are admitted in admitting states only.
LEMMA AdmissionAdmits ==
  ASSUME NEW t \in Transitions
  PROVE  t[1] \in CommandNames /\ t[2] \in Admits /\ t[3] \in States \ Admits
  BY DEF Transitions, CommandNames, Admits, States

\* Every step keeps the account of commands and operations.
LEMMA ControlKept ==
  ASSUME TypeOK, Reserved, Handled, [Next]_vars
  PROVE  Reserved' /\ Handled'
<1>1. ThreadType
  BY DEF TypeOK
<1>2. UNCHANGED threads => Here' = Here /\ op' = op
  BY DEF threads, Here, At
<1>3. CASE AdmitUserAction
  <2>1. PICK t \in Transitions : Admit(t[1], t[2], t[3])
    BY <1>3 DEF AdmitUserAction
  <2> QED
    BY <1>2, <1>3, <2>1, AdmissionAdmits, AdmitKept DEF AdmitUserAction
<1>4. CASE RequestRolloutAbort
  <2>1. /\ "recoverable_abort" \in CommandNames
        /\ "RUNNING" \in Admits
        /\ "ABORTING" \in States \ Admits
    BY DEF CommandNames, Admits, States
  <2> QED
    BY <1>2, <1>4, <2>1, AdmitKept DEF RequestRolloutAbort
<1>5. CASE StatusCallback
  <2>1. Here' = Here /\ op' = op
    BY <1>1, <1>5, OthersMove DEF StatusCallback, Threads
  <2>2. CASE Admit("rollout_completed", "RUNNING", "STOPPING_ROLLOUT")
    <3>1. /\ "rollout_completed" \in CommandNames
          /\ "RUNNING" \in Admits
          /\ "STOPPING_ROLLOUT" \in States \ Admits
      BY DEF CommandNames, Admits, States
    <3> QED
      BY <2>1, <2>2, <3>1, AdmitKept
  <2>3. CASE UNCHANGED <<commands, state>>
    BY <2>1, <2>3, Undisturbed
  <2> QED
    BY <1>5, <2>2, <2>3 DEF StatusCallback, RaiseFailStop, session
<1>6. CASE Teardown("main")
  BY <1>6, MainTearsDown
<1>7. CASE (MainStep \/ Interrupt) /\ ~Teardown("main") /\ ~EstablishFailStop("main")
  BY <1>7, MainKept
<1>8. CASE \/ \E t \in {"main", "receiver", "reader", "reporter"} : EstablishFailStop(t)
           \/ FailStopStep \/ Deliver \/ EndOfFile \/ DisconnectCallback \/ WorkerExitCallback
           \/ ReportFault \/ Worker \/ Terminated \/ UNCHANGED vars
  BY <1>1, <1>8, OthersStay, Undisturbed
<1> QED
  BY <1>3, <1>4, <1>5, <1>6, <1>7, <1>8 DEF Next, Controller, ReceiverStep, ReaderStep

-----------------------------------------------------------------------------
\* Every step of the main thread is a step of the exchange, until it has finished.
LEMMA MainExchange ==
  ASSUME TypeOK, Reserved, Handled, MainStep \/ Interrupt, ~Teardown("main"),
         ~EstablishFailStop("main"), ~Finished'
  PROVE  ~Finished /\ Exchange
<1>1. ThreadType /\ CommandType
  BY DEF TypeOK
<1> USE <1>1 DEF Between, Leaving, Admits, TeardownLabels, teardown, ButThreads, ButRecorded,
    session, worker, client, wire
<1>2. CASE MainLoop
  <2>1. Here = "loop"
    BY <1>2, HereAt DEF MainLoop, Step
  <2>2. Here' \in {"exit_join", "get"} /\ op' = op
    BY <1>2, HereMoves DEF MainLoop, Step
  <2> QED
    BY <1>2, <2>1, <2>2
       DEF MainLoop, Step, Reserved, Handled, Finished, Exchange, Same, Sent, Sending, Answered,
           Rolling, Awaited, Ordinary, StartLabels, RaiseFailStop
<1>3. CASE GetCommand
  <2>1. Here = "get"
    BY <1>3, HereAt DEF GetCommand
  <2>2. CASE commands = <<>>
    <3>1. Here' = "loop" /\ UNCHANGED <<commands, state>> /\ UNCHANGED wire
      BY <1>3, <2>2, HereMoves DEF GetCommand, Step, ButThreads, session, worker, client, wire
    <3> QED
      BY <2>1, <2>2, <3>1 DEF Finished, Exchange, Same, Rolling, Awaited
  <2>3. CASE commands # <<>>
    <3>1. /\ Here' = Handler[Head(commands).name]
          /\ op' = HandlerOperation(Head(commands))
          /\ state' = state
      BY <1>3, <2>3, HeadHandled DEF GetCommand, Step, session, Here, At, ThreadType, Threads
    <3>2. UNCHANGED wire
      BY <1>3, <2>3 DEF GetCommand, Step, ButThreads, worker, client, wire
    <3>3. ~Finished /\ Awaited = "NONE" /\ state # "RUNNING"
      BY <2>1, <2>3 DEF Finished, Awaited, Reserved
    <3>4. Awaited' = "NONE" /\ (Rolling' <=> HandlerOperation(Head(commands)) \in {"STOP", "ABORT"})
      BY <2>3, <3>1, HeadHandled DEF Awaited, Rolling
    <3>5. Rolling <=> HandlerOperation(Head(commands)) \in {"STOP", "ABORT"}
      BY <2>1, <2>3, <3>3 DEF Rolling
    <3> QED
      BY <3>2, <3>3, <3>4, <3>5 DEF Exchange, Same
  <2> QED
    BY <2>2, <2>3
<1>4. CASE JoinFailStop
  <2>1. Here = "exit_join"
    BY <1>4, HereAt DEF JoinFailStop, Step, FailStopFrom
  <2>2. Here' \in {"exited", "exit_final"} /\ op' = op
    BY <1>4, HereMoves DEF JoinFailStop, Step, FailStopFrom
  <2> QED
    BY <1>4, <2>1, <2>2
       DEF JoinFailStop, Step, FailStopFrom, Reserved, Handled, Finished, Exchange, Same, Sent,
           Sending, Answered, Rolling, Awaited, Ordinary, StartLabels, RaiseFailStop
<1>5. CASE ReturnFromRun
  <2>1. Here = "exit_final"
    BY <1>5, HereAt DEF ReturnFromRun, Step
  <2>2. Here' \in {"exited"} /\ op' = op
    BY <1>5, HereMoves DEF ReturnFromRun, Step
  <2> QED
    BY <1>5, <2>1, <2>2
       DEF ReturnFromRun, Step, Reserved, Handled, Finished, Exchange, Same, Sent, Sending,
           Answered, Rolling, Awaited, Ordinary, StartLabels, RaiseFailStop
<1>6. CASE Interrupt
  <2>1. Here \in {"loop", "get", "sd_wait"}
    BY <1>6, HereAt DEF Interrupt, FailStopFrom
  <2>2. Here' \in {"exit_join"} /\ op' = op
    BY <1>6, HereMoves DEF Interrupt, FailStopFrom
  <2> QED
    BY <1>6, <2>1, <2>2
       DEF Interrupt, FailStopFrom, Reserved, Handled, Finished, Exchange, Same, Sent, Sending,
           Answered, Rolling, Awaited, Ordinary, StartLabels, RaiseFailStop
<1>7. CASE InitializeSend
  <2>1. Here = "init_send"
    BY <1>7, HereAt DEF InitializeSend, TransactSend
  <2>2. Here' \in {"init_wait", "raise_loop"} /\ op' = op
    BY <1>7, HereMoves DEF InitializeSend, TransactSend
  <2>3. Here' = "init_wait" => Sending
    BY <1>7, <2>1, HereMoves
       DEF InitializeSend, TransactSend, Settled, Rejected, Sending, Handled, Ordinary
  <2> QED
    BY <1>7, <2>1, <2>2, <2>3
       DEF InitializeSend, TransactSend, Reserved, Handled, Finished, Exchange, Same, Sent,
           Sending, Answered, Rolling, Awaited, Ordinary, StartLabels, RaiseFailStop
<1>8. CASE InitializeWait
  <2>1. Here = "init_wait"
    BY <1>8, HereAt DEF InitializeWait, Step
  <2>2. Here' \in {"init_reject", "init_check", "raise_loop"} /\ op' = op
    BY <1>8, HereMoves DEF InitializeWait, Step
  <2>3. Here' = "init_reject" => acks[op] = "rejected"
    BY <1>8, <2>1, HereMoves DEF InitializeWait, Step, Settled, Rejected, Sending, Handled, Ordinary
  <2>4. Here' = "init_check" =>
          acks[op] = "accepted" /\ Completion[op] \in statuses /\ op \in Ordinary
    BY <1>8, <2>1, HereMoves DEF InitializeWait, Step, Settled, Rejected, Sending, Handled, Ordinary
  <2> QED
    BY <1>8, <2>1, <2>2, <2>3, <2>4
       DEF InitializeWait, Step, Reserved, Handled, Finished, Exchange, Same, Sent, Sending,
           Answered, Rolling, Awaited, Ordinary, StartLabels, RaiseFailStop
<1>9. CASE InitializeRejected
  <2>1. Here = "init_reject"
    BY <1>9, HereAt DEF InitializeRejected, SetState
  <2>2. Here' \in {"loop"} /\ op' = op
    BY <1>9, HereMoves DEF InitializeRejected, SetState
  <2> QED
    BY <1>9, <2>1, <2>2
       DEF InitializeRejected, SetState, Reserved, Handled, Finished, Exchange, Same, Sent,
           Sending, Answered, Rolling, Awaited, Ordinary, StartLabels, RaiseFailStop
<1>10. CASE InitializeCheck
  <2>1. Here = "init_check"
    BY <1>10, HereAt DEF InitializeCheck, CheckState, Step
  <2>2. Here' \in {"init_set", "loop"} /\ op' = op
    BY <1>10, HereMoves DEF InitializeCheck, CheckState, Step
  <2> QED
    BY <1>10, <2>1, <2>2
       DEF InitializeCheck, CheckState, Step, Reserved, Handled, Finished, Exchange, Same, Sent,
           Sending, Answered, Rolling, Awaited, Ordinary, StartLabels, RaiseFailStop
<1>11. CASE InitializeSet
  <2>1. Here = "init_set"
    BY <1>11, HereAt DEF InitializeSet, SetState
  <2>2. Here' \in {"loop"} /\ op' = op
    BY <1>11, HereMoves DEF InitializeSet, SetState
  <2> QED
    BY <1>11, <2>1, <2>2
       DEF InitializeSet, SetState, Reserved, Handled, Finished, Exchange, Same, Sent, Sending,
           Answered, Rolling, Awaited, Ordinary, StartLabels, RaiseFailStop
<1>12. CASE HandlerFailed
  <2>1. Here = "raise_loop"
    BY <1>12, HereAt DEF HandlerFailed, FailStopFrom
  <2>2. Here' \in {"loop"} /\ op' = op
    BY <1>12, HereMoves DEF HandlerFailed, FailStopFrom
  <2> QED
    BY <1>12, <2>1, <2>2
       DEF HandlerFailed, FailStopFrom, Reserved, Handled, Finished, Exchange, Same, Sent, Sending,
           Answered, Rolling, Awaited, Ordinary, StartLabels, RaiseFailStop
<1>13. CASE BeginRecording
  <2>1. Here = "start_begin"
    BY <1>13, HereAt DEF BeginRecording
  <2>2. Here' \in {"start_fail", "sensor_check"} /\ op' = op
    BY <1>13, HereMoves DEF BeginRecording
  <2> QED
    BY <1>13, <2>1, <2>2
       DEF BeginRecording, Reserved, Handled, Finished, Exchange, Same, Sent, Sending, Answered,
           Rolling, Awaited, Ordinary, StartLabels, RaiseFailStop
<1>14. CASE SensorCheck
  <2>1. Here = "sensor_check"
    BY <1>14, HereAt DEF SensorCheck
  <2>2. Here' \in {"start_fail", "start_rearm", "sensor_start"} /\ op' = op
    BY <1>14, HereMoves DEF SensorCheck
  <2> QED
    BY <1>14, <2>1, <2>2
       DEF SensorCheck, Reserved, Handled, Finished, Exchange, Same, Sent, Sending, Answered,
           Rolling, Awaited, Ordinary, StartLabels, RaiseFailStop
<1>15. CASE SensorStart
  <2>1. Here = "sensor_start"
    BY <1>15, HereAt DEF SensorStart
  <2>2. Here' \in {"sensor_check", "start_fail"} /\ op' = op
    BY <1>15, HereMoves DEF SensorStart
  <2> QED
    BY <1>15, <2>1, <2>2
       DEF SensorStart, Reserved, Handled, Finished, Exchange, Same, Sent, Sending, Answered,
           Rolling, Awaited, Ordinary, StartLabels, RaiseFailStop
<1>16. CASE Rearm
  <2>1. Here = "start_rearm"
    BY <1>16, HereAt DEF Rearm, Step
  <2>2. Here' \in {"start_record", "start_fail"} /\ op' = op
    BY <1>16, HereMoves DEF Rearm, Step
  <2> QED
    BY <1>16, <2>1, <2>2
       DEF Rearm, Step, Reserved, Handled, Finished, Exchange, Same, Sent, Sending, Answered,
           Rolling, Awaited, Ordinary, StartLabels, RaiseFailStop
<1>17. CASE StartRecorder
  <2>1. Here = "start_record"
    BY <1>17, HereAt DEF StartRecorder
  <2>2. Here' \in {"start_gate", "start_fail"} /\ op' = op
    BY <1>17, HereMoves DEF StartRecorder
  <2> QED
    BY <1>17, <2>1, <2>2
       DEF StartRecorder, Reserved, Handled, Finished, Exchange, Same, Sent, Sending, Answered,
           Rolling, Awaited, Ordinary, StartLabels, RaiseFailStop
<1>18. CASE StartGate
  <2>1. Here = "start_gate"
    BY <1>18, HereAt DEF StartGate, Step
  <2>2. Here' \in {"start_send", "start_fail"} /\ op' = op
    BY <1>18, HereMoves DEF StartGate, Step
  <2> QED
    BY <1>18, <2>1, <2>2
       DEF StartGate, Step, Reserved, Handled, Finished, Exchange, Same, Sent, Sending, Answered,
           Rolling, Awaited, Ordinary, StartLabels, RaiseFailStop
<1>19. CASE StartSend
  <2>1. Here = "start_send"
    BY <1>19, HereAt DEF StartSend, TransactSend
  <2>2. Here' \in {"start_wait", "start_fail"} /\ op' = op
    BY <1>19, HereMoves DEF StartSend, TransactSend
  <2>3. Here' = "start_wait" => Sending
    BY <1>19, <2>1, HereMoves
       DEF StartSend, TransactSend, Settled, Rejected, Sending, Handled, Ordinary
  <2> QED
    BY <1>19, <2>1, <2>2, <2>3
       DEF StartSend, TransactSend, Reserved, Handled, Finished, Exchange, Same, Sent, Sending,
           Answered, Rolling, Awaited, Ordinary, StartLabels, RaiseFailStop
<1>20. CASE StartWait
  <2>1. Here = "start_wait"
    BY <1>20, HereAt DEF StartWait, TransactWait, Step
  <2>2. Here' \in {"start_check", "start_fail"} /\ op' = op
    BY <1>20, HereMoves DEF StartWait, TransactWait, Step
  <2>3. Here' = "start_check" => acks[op] = "accepted" /\ Completion[op] \in statuses
    BY <1>20, <2>1, HereMoves
       DEF StartWait, TransactWait, Step, Settled, Rejected, Sending, Handled, Ordinary
  <2> QED
    BY <1>20, <2>1, <2>2, <2>3
       DEF StartWait, TransactWait, Step, Reserved, Handled, Finished, Exchange, Same, Sent,
           Sending, Answered, Rolling, Awaited, Ordinary, StartLabels, RaiseFailStop
<1>21. CASE StartCheck
  <2>1. Here = "start_check"
    BY <1>21, HereAt DEF StartCheck, CheckState, Step
  <2>2. Here' \in {"start_set", "start_release"} /\ op' = op
    BY <1>21, HereMoves DEF StartCheck, CheckState, Step
  <2> QED
    BY <1>21, <2>1, <2>2
       DEF StartCheck, CheckState, Step, Reserved, Handled, Finished, Exchange, Same, Sent,
           Sending, Answered, Rolling, Awaited, Ordinary, StartLabels, RaiseFailStop
<1>22. CASE StartSet
  <2>1. Here = "start_set"
    BY <1>22, HereAt DEF StartSet
  <2>2. Here' \in {"start_release"} /\ op' = op
    BY <1>22, HereMoves DEF StartSet
  <2> QED
    BY <1>22, <2>1, <2>2
       DEF StartSet, Reserved, Handled, Finished, Exchange, Same, Sent, Sending, Answered, Rolling,
           Awaited, Ordinary, StartLabels, RaiseFailStop
<1>23. CASE StartFailed
  <2>1. Here = "start_fail"
    BY <1>23, HereAt DEF StartFailed
  <2>2. Here' \in {"start_release"} /\ op' = op
    BY <1>23, HereMoves DEF StartFailed
  <2> QED
    BY <1>23, <2>1, <2>2
       DEF StartFailed, Reserved, Handled, Finished, Exchange, Same, Sent, Sending, Answered,
           Rolling, Awaited, Ordinary, StartLabels, RaiseFailStop
<1>24. CASE ReleaseRecording
  <2>1. Here = "start_release"
    BY <1>24, HereAt DEF ReleaseRecording
  <2>2. Here' \in {"loop"} /\ op' = op
    BY <1>24, HereMoves DEF ReleaseRecording
  <2> QED
    BY <1>24, <2>1, <2>2
       DEF ReleaseRecording, Reserved, Handled, Finished, Exchange, Same, Sent, Sending, Answered,
           Rolling, Awaited, Ordinary, StartLabels, RaiseFailStop
<1>25. CASE FinishSend
  <2>1. Here = "fin_send"
    BY <1>25, HereAt DEF FinishSend, TransactSend
  <2>2. Here' \in {"fin_wait", "fin_fail"} /\ op' = op
    BY <1>25, HereMoves DEF FinishSend, TransactSend
  <2>3. Here' = "fin_wait" => Sending
    BY <1>25, <2>1, HereMoves
       DEF FinishSend, TransactSend, Settled, Rejected, Sending, Handled, Ordinary
  <2> QED
    BY <1>25, <2>1, <2>2, <2>3
       DEF FinishSend, TransactSend, Reserved, Handled, Finished, Exchange, Same, Sent, Sending,
           Answered, Rolling, Awaited, Ordinary, StartLabels, RaiseFailStop
<1>26. CASE FinishWait
  <2>1. Here = "fin_wait"
    BY <1>26, HereAt DEF FinishWait, TransactWait, Step
  <2>2. Here' \in {"fin_record", "fin_fail"} /\ op' = op
    BY <1>26, HereMoves DEF FinishWait, TransactWait, Step
  <2>3. Here' = "fin_record" => acks[op] = "accepted" /\ Completion[op] \in statuses
    BY <1>26, <2>1, HereMoves
       DEF FinishWait, TransactWait, Step, Settled, Rejected, Sending, Handled, Ordinary
  <2> QED
    BY <1>26, <2>1, <2>2, <2>3
       DEF FinishWait, TransactWait, Step, Reserved, Handled, Finished, Exchange, Same, Sent,
           Sending, Answered, Rolling, Awaited, Ordinary, StartLabels, RaiseFailStop
<1>27. CASE FinishRecord
  <2>1. Here = "fin_record"
    BY <1>27, HereAt DEF FinishRecord, RecordAndGoto
  <2>2. Here' \in {"fin_check", "fin_fail"} /\ op' = op
    BY <1>27, HereMoves DEF FinishRecord, RecordAndGoto
  <2> QED
    BY <1>27, <2>1, <2>2
       DEF FinishRecord, RecordAndGoto, Reserved, Handled, Finished, Exchange, Same, Sent, Sending,
           Answered, Rolling, Awaited, Ordinary, StartLabels, RaiseFailStop
<1>28. CASE FinishCheck
  <2>1. Here = "fin_check"
    BY <1>28, HereAt DEF FinishCheck, CheckState, Step
  <2>2. Here' \in {"fin_set", "loop"} /\ op' = op
    BY <1>28, HereMoves DEF FinishCheck, CheckState, Step
  <2> QED
    BY <1>28, <2>1, <2>2
       DEF FinishCheck, CheckState, Step, Reserved, Handled, Finished, Exchange, Same, Sent,
           Sending, Answered, Rolling, Awaited, Ordinary, StartLabels, RaiseFailStop
<1>29. CASE FinishSet
  <2>1. Here = "fin_set"
    BY <1>29, HereAt DEF FinishSet, SetState
  <2>2. Here' \in {"loop"} /\ op' = op
    BY <1>29, HereMoves DEF FinishSet, SetState
  <2> QED
    BY <1>29, <2>1, <2>2
       DEF FinishSet, SetState, Reserved, Handled, Finished, Exchange, Same, Sent, Sending,
           Answered, Rolling, Awaited, Ordinary, StartLabels, RaiseFailStop
<1>30. CASE FinishFailed
  <2>1. Here = "fin_fail"
    BY <1>30, HereAt DEF FinishFailed, RecordAndGoto
  <2>2. Here' \in {"raise_loop"} /\ op' = op
    BY <1>30, HereMoves DEF FinishFailed, RecordAndGoto
  <2> QED
    BY <1>30, <2>1, <2>2
       DEF FinishFailed, RecordAndGoto, Reserved, Handled, Finished, Exchange, Same, Sent, Sending,
           Answered, Rolling, Awaited, Ordinary, StartLabels, RaiseFailStop
<1>31. CASE CompletedCheck
  <2>1. Here = "comp_check"
    BY <1>31, HereAt DEF CompletedCheck, CheckState, Step
  <2>2. Here' \in {"comp_record", "loop"} /\ op' = op
    BY <1>31, HereMoves DEF CompletedCheck, CheckState, Step
  <2> QED
    BY <1>31, <2>1, <2>2
       DEF CompletedCheck, CheckState, Step, Reserved, Handled, Finished, Exchange, Same, Sent,
           Sending, Answered, Rolling, Awaited, Ordinary, StartLabels, RaiseFailStop
<1>32. CASE CompletedRecord
  <2>1. Here = "comp_record"
    BY <1>32, HereAt DEF CompletedRecord, RecordAndGoto
  <2>2. Here' \in {"comp_set", "raise_loop"} /\ op' = op
    BY <1>32, HereMoves DEF CompletedRecord, RecordAndGoto
  <2> QED
    BY <1>32, <2>1, <2>2
       DEF CompletedRecord, RecordAndGoto, Reserved, Handled, Finished, Exchange, Same, Sent,
           Sending, Answered, Rolling, Awaited, Ordinary, StartLabels, RaiseFailStop
<1>33. CASE CompletedSet
  <2>1. Here = "comp_set"
    BY <1>33, HereAt DEF CompletedSet, SetState
  <2>2. Here' \in {"loop"} /\ op' = op
    BY <1>33, HereMoves DEF CompletedSet, SetState
  <2> QED
    BY <1>33, <2>1, <2>2
       DEF CompletedSet, SetState, Reserved, Handled, Finished, Exchange, Same, Sent, Sending,
           Answered, Rolling, Awaited, Ordinary, StartLabels, RaiseFailStop
<1>34. CASE ShutdownBegin
  <2>1. Here = "sd_mode"
    BY <1>34, HereAt DEF ShutdownBegin, Step
  <2>2. Here' \in {"loop", "sd_stop_send", "sd_send"} /\ op' = op
    BY <1>34, HereMoves DEF ShutdownBegin, Step
  <2>3. Here' = "sd_stop_send" <=> op = "STOP" /\ Here' # "loop"
    BY <1>34, <2>1, HereMoves DEF ShutdownBegin, Step, Settled, Rejected, Sending, Handled, Ordinary
  <2> QED
    BY <1>34, <2>1, <2>2, <2>3
       DEF ShutdownBegin, Step, Reserved, Handled, Finished, Exchange, Same, Sent, Sending,
           Answered, Rolling, Awaited, Ordinary, StartLabels, RaiseFailStop
<1>35. CASE ShutdownStopSend
  <2>1. Here = "sd_stop_send"
    BY <1>35, HereAt DEF ShutdownStopSend, TransactSend
  <2>2. Here' \in {"sd_stop_wait", "raise_loop"} /\ op' = op
    BY <1>35, HereMoves DEF ShutdownStopSend, TransactSend
  <2>3. Here' = "sd_stop_wait" => Sending
    BY <1>35, <2>1, HereMoves
       DEF ShutdownStopSend, TransactSend, Settled, Rejected, Sending, Handled, Ordinary
  <2> QED
    BY <1>35, <2>1, <2>2, <2>3
       DEF ShutdownStopSend, TransactSend, Reserved, Handled, Finished, Exchange, Same, Sent,
           Sending, Answered, Rolling, Awaited, Ordinary, StartLabels, RaiseFailStop
<1>36. CASE ShutdownStopWait
  <2>1. Here = "sd_stop_wait"
    BY <1>36, HereAt DEF ShutdownStopWait, TransactWait, Step
  <2>2. Here' \in {"sd_record", "raise_loop"} /\ op' = op
    BY <1>36, HereMoves DEF ShutdownStopWait, TransactWait, Step
  <2>3. Here' = "sd_record" => acks[op] = "accepted" /\ Completion[op] \in statuses
    BY <1>36, <2>1, HereMoves
       DEF ShutdownStopWait, TransactWait, Step, Settled, Rejected, Sending, Handled, Ordinary
  <2> QED
    BY <1>36, <2>1, <2>2, <2>3
       DEF ShutdownStopWait, TransactWait, Step, Reserved, Handled, Finished, Exchange, Same, Sent,
           Sending, Answered, Rolling, Awaited, Ordinary, StartLabels, RaiseFailStop
<1>37. CASE ShutdownRecord
  <2>1. Here = "sd_record"
    BY <1>37, HereAt DEF ShutdownRecord, RecordAndGoto
  <2>2. Here' \in {"sd_send", "raise_loop"} /\ op' = op
    BY <1>37, HereMoves DEF ShutdownRecord, RecordAndGoto
  <2> QED
    BY <1>37, <2>1, <2>2
       DEF ShutdownRecord, RecordAndGoto, Reserved, Handled, Finished, Exchange, Same, Sent,
           Sending, Answered, Rolling, Awaited, Ordinary, StartLabels, RaiseFailStop
<1>38. CASE ShutdownSend
  <2>1. Here = "sd_send"
    BY <1>38, HereAt DEF ShutdownSend
  <2>2. Here' \in {"loop", "sd_ack", "raise_loop", "sd_deadlock"} /\ op' = op
    BY <1>38, HereMoves DEF ShutdownSend
  <2>3. Here' = "sd_ack" => PutRequest("SHUTDOWN") /\ UNCHANGED <<outbox, callback, phase>>
    BY <1>38, <2>1, HereMoves DEF ShutdownSend, Settled, Rejected, Sending, Handled, Ordinary
  <2> QED
    BY <1>38, <2>1, <2>2, <2>3
       DEF ShutdownSend, Reserved, Handled, Finished, Exchange, Same, Sent, Sending, Answered,
           Rolling, Awaited, Ordinary, StartLabels, RaiseFailStop
<1>39. CASE ShutdownAckWait
  <2>1. Here = "sd_ack"
    BY <1>39, HereAt DEF ShutdownAckWait, Step
  <2>2. Here' \in {"sd_exit", "sd_reject", "raise_loop"} /\ op' = op
    BY <1>39, HereMoves DEF ShutdownAckWait, Step
  <2>3. Here' = "sd_reject" => acks["SHUTDOWN"] = "rejected"
    BY <1>39, <2>1, HereMoves
       DEF ShutdownAckWait, Step, Settled, Rejected, Sending, Handled, Ordinary
  <2> QED
    BY <1>39, <2>1, <2>2, <2>3
       DEF ShutdownAckWait, Step, Reserved, Handled, Finished, Exchange, Same, Sent, Sending,
           Answered, Rolling, Awaited, Ordinary, StartLabels, RaiseFailStop
<1>40. CASE ShutdownRejected
  <2>1. Here = "sd_reject"
    BY <1>40, HereAt DEF ShutdownRejected
  <2>2. Here' \in {"loop"} /\ op' = op
    BY <1>40, HereMoves DEF ShutdownRejected
  <2> QED
    BY <1>40, <2>1, <2>2
       DEF ShutdownRejected, Reserved, Handled, Finished, Exchange, Same, Sent, Sending, Answered,
           Rolling, Awaited, Ordinary, StartLabels, RaiseFailStop
<1> QED
  BY <1>2, <1>3, <1>4, <1>5, <1>6, <1>7, <1>8, <1>9, <1>10, <1>11, <1>12, <1>13, <1>14, <1>15,
     <1>16, <1>17, <1>18, <1>19, <1>20, <1>21, <1>22, <1>23, <1>24, <1>25, <1>26, <1>27, <1>28,
     <1>29, <1>30, <1>31, <1>32, <1>33, <1>34, <1>35, <1>36, <1>37, <1>38, <1>39, <1>40
     DEF MainStep, Rollout, Shutdown

\* Admitting a command keeps the exchange; it stays in a rollout only to STOP or ABORT it.
LEMMA AdmitExchange ==
  ASSUME TypeOK, Reserved, Handled, NEW n \in CommandNames, NEW from \in Admits,
         NEW to \in States \ Admits, Admit(n, from, to), Here' = Here, op' = op, ~Finished'
  PROVE  /\ ~Finished /\ Awaited = "NONE" /\ Awaited' = "NONE"
         /\ Rolling <=> from = "RUNNING"
         /\ Rolling' <=> HandlerOperation(Command(n, from)) \in {"STOP", "ABORT"}
<1>1. /\ Reserved' /\ commands = <<>> /\ commands' # <<>> /\ Head(commands') = Command(n, from)
  BY AdmitKept
<1>2. Here \in Between /\ state = from /\ state' = to
  BY <1>1 DEF Admit, Reserved, Finished
<1> QED
  BY <1>1, <1>2 DEF Finished, Awaited, Rolling, Between, Admits

\* In RUNNING a user action ends in STOP or ABORT, elsewhere it does not.
LEMMA AdmissionRolls ==
  ASSUME NEW t \in Transitions
  PROVE  HandlerOperation(Command(t[1], t[2])) \in {"STOP", "ABORT"} <=> t[2] = "RUNNING"
<1>1. DOMAIN Requests = {"initialize", "start", "stop", "abort", "recoverable_abort"}
  BY DEF Requests
<1> QED
  BY <1>1 DEF Transitions, HandlerOperation, Command, Requests

\* A recoverable abort sends ABORT, a completed rollout sends nothing.
LEMMA AbortRolls ==
  /\ HandlerOperation(Command("recoverable_abort", "RUNNING")) = "ABORT"
  /\ HandlerOperation(Command("rollout_completed", "RUNNING")) = "NONE"
<1>1. DOMAIN Requests = {"initialize", "start", "stop", "abort", "recoverable_abort"}
  BY DEF Requests
<1> QED
  BY <1>1 DEF HandlerOperation, Command, Requests

\* Every step is a step of the exchange, and Finished is for good.
LEMMA NextExchange ==
  ASSUME TypeOK, Reserved, Handled, [Next]_vars, ~Finished'
  PROVE  ~Finished /\ Exchange
<1>1. ThreadType
  BY DEF TypeOK
<1>2. UNCHANGED threads => Here' = Here /\ op' = op
  BY DEF threads, Here, At
<1>3. CASE AdmitUserAction
  <2>1. PICK t \in Transitions : Admit(t[1], t[2], t[3])
    BY <1>3 DEF AdmitUserAction
  <2>2. UNCHANGED wire
    BY <1>3, <2>1 DEF AdmitUserAction, Admit, wire, worker, client
  <2> QED
    BY <1>2, <1>3, <2>1, <2>2, AdmissionAdmits, AdmissionRolls, AdmitExchange
       DEF AdmitUserAction, Exchange, Same
<1>4. CASE RequestRolloutAbort
  <2>1. /\ "recoverable_abort" \in CommandNames
        /\ "RUNNING" \in Admits
        /\ "ABORTING" \in States \ Admits
    BY DEF CommandNames, Admits, States
  <2>2. UNCHANGED wire
    BY <1>4 DEF RequestRolloutAbort, Admit, wire, worker, client
  <2> QED
    BY <1>2, <1>4, <2>1, <2>2, AbortRolls, AdmitExchange DEF RequestRolloutAbort, Exchange, Same
<1>5. CASE StatusCallback
  <2>1. Here' = Here /\ op' = op
    BY <1>1, <1>5, OthersMove DEF StatusCallback, Threads
  <2>2. callback' = "none" /\ UNCHANGED <<inbox, outbox, acks, statuses, phase>>
    BY <1>5 DEF StatusCallback, Admit, worker
  <2>3. CASE callback = "COMPLETED" /\ Admit("rollout_completed", "RUNNING", "STOPPING_ROLLOUT")
    <3>1. /\ "rollout_completed" \in CommandNames
          /\ "RUNNING" \in Admits
          /\ "STOPPING_ROLLOUT" \in States \ Admits
      BY DEF CommandNames, Admits, States
    <3>2. ~Finished /\ Awaited = "NONE" /\ Awaited' = "NONE" /\ ~Rolling'
      BY <2>1, <2>3, <3>1, AbortRolls, AdmitExchange
    <3> QED
      BY <2>2, <2>3, <3>2 DEF Exchange, Heard
  <2>4. CASE UNCHANGED <<commands, state>>
    BY <2>1, <2>2, <2>4, Undisturbed DEF Exchange, Heard
  <2> QED
    BY <1>5, <2>3, <2>4 DEF StatusCallback, RaiseFailStop, session
<1>6. CASE Teardown("main")
  BY <1>6, MainTearsDown
<1>7. CASE (MainStep \/ Interrupt) /\ ~Teardown("main") /\ ~EstablishFailStop("main")
  BY <1>7, MainExchange
<1>8. CASE \/ \E t \in {"main", "receiver", "reader", "reporter"} : EstablishFailStop(t)
           \/ FailStopStep \/ Deliver \/ EndOfFile \/ DisconnectCallback \/ WorkerExitCallback
           \/ ReportFault \/ Worker \/ Terminated \/ UNCHANGED vars
  <2>1. ~Finished /\ Same
    BY <1>1, <1>8, OthersStay, Undisturbed DEF Same
  <2>2. CASE Deliver \/ FailStopDeliver \/ Worker \/ ForceTerminate("failstop")
    BY <2>1, <2>2 DEF Exchange, Forced, ForceTerminate, client, Exited
  <2>3. CASE UNCHANGED wire
    BY <2>1, <2>3 DEF Exchange
  <2>4. CASE /\ \/ \E t \in {"main", "receiver", "reader", "reporter"} : EstablishFailStop(t)
                \/ EndOfFile \/ DisconnectCallback \/ WorkerExitCallback
                \/ ReportFault \/ Terminated \/ UNCHANGED vars
    <3>1. UNCHANGED wire
      BY <2>4
         DEF EstablishFailStop, EndOfFile, DisconnectCallback, WorkerExitCallback, ReportFault,
             Terminated, vars, Step, FailStopFrom, ButThreads, wire, worker, client
    <3> QED
      BY <2>3, <3>1
  <2>5. CASE FailStopStep /\ ~FailStopDeliver /\ ~ForceTerminate("failstop")
    <3>1. UNCHANGED wire
      BY <2>5
         DEF FailStopStep, FailStopRecord, FailStopPoll, Teardown, ExpectWorkerExit,
             WorkerExitWait, CheckReturnCode, WorkerExitDone, FinalizeBegin, MarkResourcesStopped,
             CloseControl, StopSensors, WriteSessionManifest, Step, FailStopFrom, ButThreads,
             ButRecorded, wire, worker, client
    <3> QED
      BY <2>3, <3>1
  <2> QED
    BY <1>8, <2>2, <2>4, <2>5
<1> QED
  BY <1>3, <1>4, <1>5, <1>6, <1>7, <1>8 DEF Next, Controller, ReceiverStep, ReaderStep

-----------------------------------------------------------------------------
\* The operations the main thread awaits an ACK for.
Answerable == Ordinary \cup {"SHUTDOWN"}
\* The phases of a worker that is in a rollout.
RolloutPhases == {"STARTING", "RUNNING", "STOPPING", "ABORTING"}
\* The statuses that end an operation or a rollout.
Ends == {"INITIALIZED", "STARTED", "STOPPED", "ABORTED", "COMPLETED"}

\* Operation o is queued for the worker.
Out(q, o) == \E i \in DOMAIN q : q[i] = o
\* Operation o is queued at most once.
OutOnce(q, o) == \A i, j \in DOMAIN q : q[i] = o /\ q[j] = o => i = j

\* A message is queued for the controller.
Back(q, k, n) == \E i \in DOMAIN q : q[i].kind = k /\ q[i].name = n
\* A message is queued at most once.
BackOnce(q, k, n) ==
  \A i, j \in DOMAIN q :
    q[i].kind = k /\ q[i].name = n /\ q[j].kind = k /\ q[j].name = n => i = j
\* A rejection of operation o is queued for the controller.
Refused(q, o) == \E i \in DOMAIN q : q[i].kind = "ack" /\ q[i].name = o /\ ~q[i].ok

\* Whatever is on the wire or being executed is the operation the main thread awaits.
Own ==
  \A o \in Answerable :
    \/ Out(inbox, o) \/ Back(outbox, "ack", o)
    \/ o \in Ordinary /\ (Back(outbox, "status", Completion[o]) \/ phase = Executing[o])
    => o = Awaited

\* Nothing of an exchange is on the wire twice.
Single ==
  /\ \A o \in Answerable : OutOnce(inbox, o) /\ BackOnce(outbox, "ack", o)
  /\ \A n \in Ends : BackOnce(outbox, "status", n)

\* A request that has not arrived is not acknowledged, an ACK that has not is not recorded.
Staged ==
  Awaited \in Answerable =>
    /\ Out(inbox, Awaited) => ~Back(outbox, "ack", Awaited)
    /\ Out(inbox, Awaited) \/ Back(outbox, "ack", Awaited) => acks[Awaited] = "none"

\* A request that is not executed has no status, a rejected one never gets one.
Performed ==
  Awaited \in Ordinary =>
    LET done == Completion[Awaited] IN
    /\ Out(inbox, Awaited) => phase # Executing[Awaited]
    /\ Out(inbox, Awaited) \/ phase = Executing[Awaited] => ~Back(outbox, "status", done)
    /\ Out(inbox, Awaited) \/ phase = Executing[Awaited] \/ Back(outbox, "status", done)
         => done \notin statuses
    /\ Refused(outbox, Awaited) \/ acks[Awaited] = "rejected"
         => phase # Executing[Awaited] /\ ~Back(outbox, "status", done)

\* COMPLETED is under way to the controller, or in its callback.
Completing == Back(outbox, "status", "COMPLETED") \/ callback = "COMPLETED"

\* The worker is in a rollout only while the controller rolls one out.
Ended ==
  /\ Awaited \in {"STOP", "ABORT"}
       /\ (Back(outbox, "status", Completion[Awaited]) \/ Completion[Awaited] \in statuses)
       => phase \notin RolloutPhases /\ ~Completing
  /\ Out(inbox, "START") \/ Completing => phase \notin RolloutPhases
  /\ Completing => ~Out(inbox, "START")
  /\ ~(Back(outbox, "status", "COMPLETED") /\ callback = "COMPLETED")
  /\ ~Rolling => phase \notin RolloutPhases /\ ~Completing

\* The main thread and the worker agree on the exchange.
Wire == Own /\ Single /\ Staged /\ Performed /\ Ended

-----------------------------------------------------------------------------
\* Appending a request to the queue.
LEMMA OutAppend ==
  ASSUME NEW S, NEW q \in Seq(S), NEW m \in S
  PROVE  \A o : /\ Out(Append(q, m), o) <=> Out(q, o) \/ m = o
                /\ OutOnce(q, o) /\ ~(Out(q, o) /\ m = o) => OutOnce(Append(q, m), o)
<1> DEFINE r == Append(q, m)
<1>1. DOMAIN q = 1..Len(q) /\ DOMAIN r = 1..(Len(q) + 1) /\ Len(q) \in Nat
  OBVIOUS
<1>2. r[Len(q) + 1] = m /\ \A i \in 1..Len(q) : r[i] = q[i]
  OBVIOUS
<1> HIDE DEF r
<1>3. ASSUME NEW o
      PROVE  /\ Out(r, o) <=> Out(q, o) \/ m = o
             /\ OutOnce(q, o) /\ ~(Out(q, o) /\ m = o) => OutOnce(r, o)
  <2>1. Out(r, o) <=> Out(q, o) \/ m = o
    BY <1>1, <1>2 DEF Out
  <2>2. OutOnce(q, o) /\ ~(Out(q, o) /\ m = o) => OutOnce(r, o)
    BY <1>1, <1>2 DEF Out, OutOnce
  <2> QED
    BY <2>1, <2>2
<1> QED
  BY <1>3 DEF r

\* Taking a request from the queue.
LEMMA OutTail ==
  ASSUME NEW S, NEW q \in Seq(S), q # <<>>
  PROVE  \A o : /\ Out(q, o) <=> Head(q) = o \/ Out(Tail(q), o)
                /\ OutOnce(q, o) => OutOnce(Tail(q), o) /\ ~(Head(q) = o /\ Out(Tail(q), o))
<1> DEFINE r == Tail(q)
<1>1. /\ Len(q) \in Nat /\ Len(q) > 0 /\ DOMAIN q = 1..Len(q) /\ DOMAIN r = 1..(Len(q) - 1)
      /\ Head(q) = q[1] /\ \A i \in 1..(Len(q) - 1) : r[i] = q[i + 1]
  BY HeadTailProperties, EmptySeq
<1>2. \A i \in DOMAIN q : i = 1 \/ (i - 1 \in DOMAIN r /\ r[i - 1] = q[i])
  BY <1>1
<1>3. \A i \in DOMAIN r : i \in Nat /\ i + 1 \in DOMAIN q /\ i + 1 # 1 /\ r[i] = q[i + 1]
  BY <1>1
<1>4. 1 \in DOMAIN q /\ Head(q) = q[1]
  BY <1>1
<1> HIDE DEF r
<1>5. ASSUME NEW o
      PROVE  /\ Out(q, o) <=> Head(q) = o \/ Out(r, o)
             /\ OutOnce(q, o) => OutOnce(r, o) /\ ~(Head(q) = o /\ Out(r, o))
  <2>1. Out(q, o) <=> Head(q) = o \/ Out(r, o)
    BY <1>2, <1>3, <1>4 DEF Out
  <2>2. OutOnce(q, o) => ~(Head(q) = o /\ Out(r, o))
    BY <1>3, <1>4 DEF Out, OutOnce
  <2>3. OutOnce(q, o) => OutOnce(r, o)
    BY <1>3 DEF OutOnce
  <2> QED
    BY <2>1, <2>2, <2>3
<1> QED
  BY <1>5 DEF r

\* Appending a message to the queue.
LEMMA BackAppend ==
  ASSUME NEW q \in Seq(Messages), NEW m \in Messages
  PROVE  /\ \A k, n : /\ Back(Append(q, m), k, n) <=> Back(q, k, n) \/ (m.kind = k /\ m.name = n)
                      /\ BackOnce(q, k, n) /\ ~(Back(q, k, n) /\ m.kind = k /\ m.name = n)
                           => BackOnce(Append(q, m), k, n)
         /\ \A o : Refused(Append(q, m), o)
                     <=> Refused(q, o) \/ (m.kind = "ack" /\ m.name = o /\ ~m.ok)
<1> DEFINE r == Append(q, m)
<1>1. DOMAIN q = 1..Len(q) /\ DOMAIN r = 1..(Len(q) + 1) /\ Len(q) \in Nat
  OBVIOUS
<1>2. r[Len(q) + 1] = m /\ \A i \in 1..Len(q) : r[i] = q[i]
  OBVIOUS
<1> HIDE DEF r
<1>3. ASSUME NEW k, NEW n
      PROVE  /\ Back(r, k, n) <=> Back(q, k, n) \/ (m.kind = k /\ m.name = n)
             /\ BackOnce(q, k, n) /\ ~(Back(q, k, n) /\ m.kind = k /\ m.name = n)
                  => BackOnce(r, k, n)
  <2>1. Back(r, k, n) <=> Back(q, k, n) \/ (m.kind = k /\ m.name = n)
    BY <1>1, <1>2 DEF Back
  <2>2. BackOnce(q, k, n) /\ ~(Back(q, k, n) /\ m.kind = k /\ m.name = n) => BackOnce(r, k, n)
    BY <1>1, <1>2 DEF Back, BackOnce
  <2> QED
    BY <2>1, <2>2
<1>4. ASSUME NEW o
      PROVE  Refused(r, o) <=> Refused(q, o) \/ (m.kind = "ack" /\ m.name = o /\ ~m.ok)
  BY <1>1, <1>2 DEF Refused
<1> QED
  BY <1>3, <1>4 DEF r

\* Taking a message from the queue.
LEMMA BackTail ==
  ASSUME NEW q \in Seq(Messages), q # <<>>
  PROVE  LET m == Head(q) IN
         /\ \A k, n : /\ Back(q, k, n) <=> (m.kind = k /\ m.name = n) \/ Back(Tail(q), k, n)
                      /\ BackOnce(q, k, n) =>
                           /\ BackOnce(Tail(q), k, n)
                           /\ ~(m.kind = k /\ m.name = n /\ Back(Tail(q), k, n))
         /\ \A o : Refused(q, o) <=> \/ m.kind = "ack" /\ m.name = o /\ ~m.ok
                                     \/ Refused(Tail(q), o)
<1> DEFINE r == Tail(q)
<1>1. /\ Len(q) \in Nat /\ Len(q) > 0 /\ DOMAIN q = 1..Len(q) /\ DOMAIN r = 1..(Len(q) - 1)
      /\ Head(q) = q[1] /\ \A i \in 1..(Len(q) - 1) : r[i] = q[i + 1]
  BY HeadTailProperties, EmptySeq
<1>2. \A i \in DOMAIN q : i = 1 \/ (i - 1 \in DOMAIN r /\ r[i - 1] = q[i])
  BY <1>1
<1>3. \A i \in DOMAIN r : i \in Nat /\ i + 1 \in DOMAIN q /\ i + 1 # 1 /\ r[i] = q[i + 1]
  BY <1>1
<1>4. 1 \in DOMAIN q /\ Head(q) = q[1]
  BY <1>1
<1> DEFINE m == Head(q)
<1>m. m = q[1]
  BY <1>4
<1> HIDE DEF r, m
<1>5. ASSUME NEW k, NEW n
      PROVE  /\ Back(q, k, n) <=> (m.kind = k /\ m.name = n) \/ Back(r, k, n)
             /\ BackOnce(q, k, n) => /\ BackOnce(r, k, n)
                                     /\ ~(m.kind = k /\ m.name = n /\ Back(r, k, n))
  <2>1. Back(q, k, n) <=> (m.kind = k /\ m.name = n) \/ Back(r, k, n)
    BY <1>2, <1>3, <1>4, <1>m DEF Back
  <2>2. BackOnce(q, k, n) => ~(m.kind = k /\ m.name = n /\ Back(r, k, n))
    BY <1>3, <1>4, <1>m DEF Back, BackOnce
  <2>3. BackOnce(q, k, n) => BackOnce(r, k, n)
    BY <1>3 DEF BackOnce
  <2> QED
    BY <2>1, <2>2, <2>3
<1>6. ASSUME NEW o
      PROVE  Refused(q, o) <=> (m.kind = "ack" /\ m.name = o /\ ~m.ok) \/ Refused(r, o)
  BY <1>2, <1>3, <1>4, <1>m DEF Refused
<1> QED
  BY <1>5, <1>6 DEF r, m

\* Appending two messages is appending one and then the other.
LEMMA TwoAppended ==
  ASSUME NEW S, NEW q \in Seq(S), NEW a \in S, NEW b \in S
  PROVE  Append(q, a) \in Seq(S) /\ q \o <<a, b>> = Append(Append(q, a), b)
  OBVIOUS

\* What the tables of operations, statuses and phases have in common.
LEMMA Tables ==
  /\ \A o, p \in Ordinary : Completion[o] = Completion[p] => o = p
  /\ \A o \in Operations, p \in Ordinary : Executing[o] = Executing[p] => o = p
  /\ \A o \in Ordinary : Completion[o] \in Ends \ {"COMPLETED"}
  /\ \A o, p \in Ordinary : Executed[o] # Executing[p]
  /\ \A o \in Ordinary : Executed[o] \in RolloutPhases <=> o = "START"
  /\ \A o \in Operations : Executing[o] \in RolloutPhases <=> o \in {"START", "STOP", "ABORT"}
  /\ \A o \in Ordinary : Executing[o] \notin {"WAIT_INITIALIZE", "INITIALIZED", "RUNNING", "FATAL",
                                               "RETURNING", "EXITED_CLEAN", "EXITED_FAULT"}
  BY DEF Ordinary, Operations, Completion, Executing, Executed, Ends, RolloutPhases

\* What is awaited is answerable, and the operations of a rollout are awaited in one.
LEMMA AwaitedRange ==
  ASSUME Handled
  PROVE  Awaited \in Answerable \cup {"NONE"} /\ (Awaited \in {"START", "STOP", "ABORT"} => Rolling)
  BY DEF Handled, Awaited, Rolling, Answerable, Ordinary, StartLabels

\* A step that touches neither side keeps the agreement.
LEMMA WireUnchanged ==
  ASSUME Wire, Same, UNCHANGED wire
  PROVE  Wire'
  BY DEF Wire, Same, wire, Own, Single, Staged, Performed, Ended, Completing

\* Sending keeps the agreement: nothing else is on the wire.
LEMMA WireSent ==
  ASSUME TypeOK, Wire, NEW o \in Answerable, Sent(o)
  PROVE  Wire'
<1>1. /\ inbox' = Append(inbox, o)
      /\ acks' = [acks EXCEPT ![o] = "none"]
      /\ UNCHANGED <<outbox, callback, phase>>
  BY DEF Sent, PutRequest
<1>2. inbox \in Seq(Operations) /\ o \in Operations /\ acks'[o] = "none"
  BY <1>1 DEF TypeOK, WorkerType, ClientType, Answerable, Ordinary, Operations
<1>3. \A p : /\ Out(inbox', p) <=> Out(inbox, p) \/ o = p
             /\ OutOnce(inbox, p) /\ ~(Out(inbox, p) /\ o = p) => OutOnce(inbox', p)
  BY <1>1, <1>2, OutAppend
<1>4. Awaited = "NONE" /\ Awaited' = o /\ "NONE" \notin Answerable
  BY DEF Sent, Answerable, Ordinary
<1>5. \A p \in Answerable :
        /\ ~Out(inbox, p) /\ ~Back(outbox, "ack", p)
        /\ p \in Ordinary => ~Back(outbox, "status", Completion[p]) /\ phase # Executing[p]
  BY <1>4 DEF Wire, Own
<1>6. Own'
  BY <1>1, <1>3, <1>4, <1>5 DEF Own
<1>7. Single'
  BY <1>1, <1>3, <1>5 DEF Wire, Single
<1>8. Staged'
  BY <1>1, <1>2, <1>4, <1>5 DEF Staged
<1>9. ~Refused(outbox, o)
  BY <1>5 DEF Refused, Back
<1>10. Performed'
  <2>1. ASSUME o \in Ordinary PROVE statuses' = {}
    BY <2>1 DEF Sent
  <2> QED
    BY <1>1, <1>2, <1>4, <1>5, <1>9, <2>1 DEF Performed
<1>11. Ended'
  <2>1. o \in {"STOP", "ABORT"} =>
          o \in Ordinary /\ statuses' = {} /\ ~Back(outbox, "status", Completion[o])
    BY <1>5 DEF Sent, Ordinary
  <2>2. (Rolling' <=> Rolling \/ o = "START") /\ (o = "START" => ~Rolling)
    BY DEF Sent
  <2> QED
    BY <1>1, <1>3, <1>4, <2>1, <2>2 DEF Wire, Ended, Completing
<1> QED
  BY <1>6, <1>7, <1>8, <1>10, <1>11 DEF Wire

\* Having the answer keeps the agreement: it was the last message of its exchange.
LEMMA WireAnswered ==
  ASSUME TypeOK, Handled, Wire, Answered
  PROVE  Wire'
<1>1. UNCHANGED wire /\ Awaited' = "NONE" /\ Awaited \in Answerable /\ "NONE" \notin Answerable
  BY AwaitedRange DEF Answered, Answerable, Ordinary
<1>2. ~Out(inbox, Awaited) /\ ~Back(outbox, "ack", Awaited)
  BY <1>1 DEF Wire, Staged, Answered
<1>3. Awaited \in Ordinary =>
        phase # Executing[Awaited] /\ ~Back(outbox, "status", Completion[Awaited])
  BY DEF Wire, Performed, Answered
<1>4. Own'
  BY <1>1, <1>2, <1>3 DEF Own, Wire, wire
<1>5. Single' /\ Staged' /\ Performed'
  BY <1>1 DEF Wire, Single, Staged, Performed, wire, Answerable
<1>6. Ended'
  BY <1>1 DEF Wire, Ended, Completing, Answered, wire
<1> QED
  BY <1>4, <1>5, <1>6 DEF Wire

\* The status callback keeps the agreement: COMPLETED has ended the rollout.
LEMMA WireHeard ==
  ASSUME Wire, Heard
  PROVE  Wire'
<1>1. UNCHANGED <<inbox, outbox, acks, statuses, phase>> /\ Awaited' = Awaited /\ callback' = "none"
  BY DEF Heard
<1>2. Own' /\ Single' /\ Staged' /\ Performed'
  BY <1>1 DEF Wire, Own, Single, Staged, Performed
<1>3. Ended'
  BY <1>1 DEF Wire, Ended, Completing, Heard
<1> QED
  BY <1>2, <1>3 DEF Wire

\* The exit of the worker keeps the agreement.
LEMMA WireForced ==
  ASSUME Wire, Same, Forced
  PROVE  Wire'
<1>1. /\ UNCHANGED <<inbox, outbox, acks, statuses, callback>>
      /\ Awaited' = Awaited
      /\ (Rolling' <=> Rolling)
      /\ phase' = phase \/ phase' \in {"EXITED_CLEAN", "EXITED_FAULT"}
  BY DEF Forced, Same, Exited
<1>2. phase' \in RolloutPhases => phase' = phase
  BY <1>1 DEF RolloutPhases
<1>3. \A o \in Ordinary : phase' = Executing[o] => phase' = phase
  BY <1>1, Tables
<1>4. Own'
  BY <1>1, <1>3 DEF Wire, Own
<1>5. Single' /\ Staged'
  BY <1>1 DEF Wire, Single, Staged
<1>6. Performed'
  BY <1>1, <1>3 DEF Wire, Performed
<1>7. Ended'
  BY <1>1, <1>2 DEF Wire, Ended, Completing
<1> QED
  BY <1>4, <1>5, <1>6, <1>7 DEF Wire

\* A FAIL_STOP request keeps the agreement: nobody awaits its ACK here.
LEMMA WireFailStop ==
  ASSUME TypeOK, Wire, Same, FailStopDeliver
  PROVE  Wire'
<1>1. /\ UNCHANGED <<outbox, statuses, callback, phase>>
      /\ Awaited' = Awaited
      /\ (Rolling' <=> Rolling)
      /\ (UNCHANGED <<inbox, acks>>) \/ PutRequest("FAIL_STOP")
  BY DEF FailStopDeliver, Same
<1>2. "FAIL_STOP" \in Operations /\ "FAIL_STOP" \notin Answerable
  BY DEF Operations, Answerable, Ordinary
<1>3. \A p \in Answerable : /\ Out(inbox', p) <=> Out(inbox, p)
                            /\ OutOnce(inbox, p) => OutOnce(inbox', p)
                            /\ acks'[p] = acks[p]
  <2>1. CASE UNCHANGED <<inbox, acks>>
    BY <2>1
  <2>2. CASE PutRequest("FAIL_STOP")
    <3>1. /\ inbox \in Seq(Operations)
          /\ acks \in [Operations -> {"none", "accepted", "rejected"}]
          /\ Answerable \subseteq Operations
      BY DEF TypeOK, WorkerType, ClientType, Answerable, Ordinary, Operations
    <3>2. \A p : /\ Out(inbox', p) <=> Out(inbox, p) \/ "FAIL_STOP" = p
                 /\ OutOnce(inbox, p) /\ ~(Out(inbox, p) /\ "FAIL_STOP" = p) => OutOnce(inbox', p)
      BY <1>2, <2>2, <3>1, OutAppend DEF PutRequest
    <3>3. \A p \in Answerable : p # "FAIL_STOP" /\ acks'[p] = acks[p]
      BY <1>2, <2>2, <3>1 DEF PutRequest
    <3> QED
      BY <1>2, <3>2, <3>3
  <2> QED
    BY <1>1, <2>1, <2>2
<1>4. "START" \in Answerable /\ Ordinary \subseteq Answerable
  BY DEF Answerable, Ordinary
<1>5. Own'
  BY <1>1, <1>3 DEF Wire, Own
<1>6. Single' /\ Staged'
  BY <1>1, <1>3 DEF Wire, Single, Staged
<1>7. Performed'
  BY <1>1, <1>3, <1>4 DEF Wire, Performed
<1>8. Ended'
  BY <1>1, <1>3, <1>4 DEF Wire, Ended, Completing
<1> QED
  BY <1>5, <1>6, <1>7, <1>8 DEF Wire

\* Queue r is q with an ACK of o at its end.
AckAdded(q, r, o, ok) ==
  /\ \A k, n : /\ Back(r, k, n) <=> Back(q, k, n) \/ (k = "ack" /\ n = o)
               /\ BackOnce(q, k, n) /\ ~(Back(q, k, n) /\ k = "ack" /\ n = o) => BackOnce(r, k, n)
  /\ \A p : Refused(r, p) <=> Refused(q, p) \/ (p = o /\ ~ok)

\* Queue r is q with status s at its end.
StatusAdded(q, r, s) ==
  /\ \A k, n : /\ Back(r, k, n) <=> Back(q, k, n) \/ (k = "status" /\ n = s)
               /\ BackOnce(q, k, n) /\ ~(Back(q, k, n) /\ k = "status" /\ n = s)
                    => BackOnce(r, k, n)
  /\ \A p : Refused(r, p) <=> Refused(q, p)

\* What the worker sends back when it receives o: an ACK, with the status of a fail-stop.
Heads(o, ok) ==
  /\ \A k, n : /\ Back(outbox', k, n) <=> \/ Back(outbox, k, n)
                                          \/ k = "ack" /\ n = o
                                          \/ /\ k = "status" /\ n = "FAIL_STOPPING"
                                             /\ o = "FAIL_STOP" /\ ok
               /\ BackOnce(outbox, k, n) /\ ~(Back(outbox, k, n) /\ k = "ack" /\ n = o)
                    /\ n # "FAIL_STOPPING"
                    => BackOnce(outbox', k, n)
  /\ \A p : Refused(outbox', p) <=> Refused(outbox, p) \/ (o = p /\ ~ok)
  /\ IF ok THEN Allows(phase, o) /\ phase' = Executing[o] ELSE phase' = phase

\* Append adds an ACK.
LEMMA AckAppended ==
  ASSUME NEW q \in Seq(Messages), NEW o \in Operations, NEW ok \in BOOLEAN
  PROVE  AckAdded(q, Append(q, Ack(o, ok)), o, ok)
<1>1. Ack(o, ok) \in Messages
  BY DEF Ack, Messages
<1>2. Ack(o, ok).kind = "ack" /\ Ack(o, ok).name = o /\ Ack(o, ok).ok = ok
  BY DEF Ack
<1> DEFINE m == Ack(o, ok)
<1> HIDE DEF m
<1> QED
  BY <1>1, <1>2, BackAppend DEF AckAdded, m

\* Append adds a status.
LEMMA StatusAppended ==
  ASSUME NEW q \in Seq(Messages), NEW s \in Statuses
  PROVE  StatusAdded(q, Append(q, Status(s)), s)
<1>1. Status(s) \in Messages
  BY DEF Status, Messages
<1>2. Status(s).kind = "status" /\ Status(s).name = s
  BY DEF Status
<1> QED
  BY <1>1, <1>2, BackAppend DEF StatusAdded

\* The worker receives a request: the agreement is kept.
LEMMA WireReceived ==
  ASSUME TypeOK, Handled, Wire, Same, WorkerReceive
  PROVE  Wire'
<1> DEFINE o == Head(inbox)
<1>1. /\ inbox \in Seq(Operations) /\ outbox \in Seq(Messages) /\ inbox # <<>>
      /\ inbox' = Tail(inbox) /\ o \in Operations
      /\ UNCHANGED <<acks, statuses, callback>> /\ Awaited' = Awaited /\ (Rolling' <=> Rolling)
  BY HeadTail DEF WorkerReceive, Same, TypeOK, WorkerType, ButWorker, client
<1>2. \A p : /\ Out(inbox, p) <=> o = p \/ Out(inbox', p)
             /\ OutOnce(inbox, p) => OutOnce(inbox', p) /\ ~(o = p /\ Out(inbox', p))
  BY <1>1, OutTail
<1> HIDE DEF o
<1>3. PICK ok \in BOOLEAN : Heads(o, ok)
  <2>1. CASE Allows(phase, o) /\ phase' = Executing[o] /\ o = "FAIL_STOP"
                /\ outbox' = outbox \o <<Ack(o, TRUE), Status("FAIL_STOPPING")>>
    <3>1. /\ Ack(o, TRUE) \in Messages
          /\ Status("FAIL_STOPPING") \in Messages
          /\ "FAIL_STOPPING" \in Statuses
      BY <1>1 DEF Ack, Status, Messages, Statuses
    <3> DEFINE r == Append(outbox, Ack(o, TRUE))
    <3> DEFINE a == Ack(o, TRUE)
               b == Status("FAIL_STOPPING")
    <3>6. Append(outbox, a) \in Seq(Messages) /\ outbox \o <<a, b>> = Append(Append(outbox, a), b)
      <4> HIDE DEF a, b
      <4>1. a \in Messages /\ b \in Messages
        BY <3>1 DEF a, b
      <4> QED
        BY <1>1, <4>1, TwoAppended
    <3>2. outbox' = Append(r, Status("FAIL_STOPPING")) /\ r \in Seq(Messages)
      BY <2>1, <3>6
    <3>4. AckAdded(outbox, r, o, TRUE)
      BY <1>1, AckAppended
    <3> HIDE DEF r
    <3>5. StatusAdded(r, outbox', "FAIL_STOPPING")
      BY <3>1, <3>2, StatusAppended
    <3> QED
      BY <2>1, <3>4, <3>5 DEF AckAdded, StatusAdded, Heads
  <2>2. ASSUME NEW ok \in BOOLEAN, outbox' = Append(outbox, Ack(o, ok)), ok => o # "FAIL_STOP",
               IF ok THEN Allows(phase, o) /\ phase' = Executing[o] ELSE phase' = phase
        PROVE  Heads(o, ok)
    <3>1. AckAdded(outbox, outbox', o, ok)
      BY <1>1, <2>2, AckAppended
    <3> QED
      BY <2>2, <3>1 DEF AckAdded, Heads
  <2>3. CASE /\ Allows(phase, o) /\ phase' = Executing[o] /\ o # "FAIL_STOP"
             /\ outbox' = Append(outbox, Ack(o, TRUE))
    <3>1. Heads(o, TRUE)
      BY <2>2, <2>3
    <3> QED
      BY <3>1
  <2>4. CASE outbox' = Append(outbox, Ack(o, FALSE)) /\ phase' = phase
    <3>1. Heads(o, FALSE)
      BY <2>2, <2>4
    <3> QED
      BY <3>1
  <2> QED
    BY <2>1, <2>3, <2>4 DEF WorkerReceive, o
<1>4. o \in Answerable => o = Awaited /\ ~Back(outbox, "ack", o) /\ acks[o] = "none"
  BY <1>2 DEF Wire, Own, Staged
<1>5. o \in Ordinary => /\ phase # Executing[o] /\ ~Back(outbox, "status", Completion[o])
                        /\ Completion[o] \notin statuses
  BY <1>2, <1>4 DEF Wire, Performed, Answerable
<1>6. /\ Operations = Answerable \cup {"FAIL_STOP"}
      /\ "FAIL_STOP" \notin Answerable
      /\ Ordinary \subseteq Answerable
      /\ "SHUTDOWN" \in Answerable /\ "SHUTDOWN" \notin Ordinary /\ "NONE" \notin Answerable
  BY DEF Operations, Answerable, Ordinary
<1>7. \A p \in Ordinary : phase' = Executing[p] => phase = Executing[p] \/ (o = p /\ ok)
  BY <1>1, <1>3, Tables DEF Heads
<1>8. \A n \in Ends : /\ Back(outbox', "status", n) <=> Back(outbox, "status", n)
                      /\ BackOnce(outbox, "status", n) => BackOnce(outbox', "status", n)
  <2>1. "FAIL_STOPPING" \notin Ends
    BY DEF Ends
  <2> QED
    BY <1>3, <2>1 DEF Heads
<1>14. /\ \A p : Back(outbox', "ack", p) <=> Back(outbox, "ack", p) \/ p = o
       /\ \A p : Refused(outbox', p) <=> Refused(outbox, p) \/ (o = p /\ ~ok)
       /\ \A p \in Answerable :
            BackOnce(outbox, "ack", p) /\ ~(Back(outbox, "ack", p) /\ p = o)
              => BackOnce(outbox', "ack", p)
  <2>1. "FAIL_STOPPING" \notin Answerable
    BY DEF Answerable, Ordinary
  <2> QED
    BY <1>3, <2>1 DEF Heads
<1>9. Own'
  BY <1>1, <1>2, <1>4, <1>6, <1>7, <1>8, <1>14, Tables DEF Wire, Own
<1>10. Single'
  BY <1>2, <1>4, <1>8, <1>14 DEF Wire, Single
<1>11. Staged'
  BY <1>1, <1>2, <1>4, <1>6, <1>14 DEF Wire, Own, Single, Staged
<1>12. Performed'
  <2> SUFFICES ASSUME Awaited \in Ordinary PROVE Performed'
    BY <1>1 DEF Performed
  <2>1. o = Awaited => ~Out(inbox', Awaited)
    BY <1>2, <1>4, <1>6 DEF Wire, Single
  <2>2. Completion[Awaited] \in Ends
    BY Tables
  <2> DEFINE done == Completion[Awaited]
  <2>3. Back(outbox', "status", done) <=> Back(outbox, "status", done)
    BY <1>8, <2>2
  <2>4. Out(inbox', Awaited) => Out(inbox, Awaited) /\ o # Awaited
    BY <1>2, <2>1
  <2>5. phase' = Executing[Awaited] => phase = Executing[Awaited] \/ (o = Awaited /\ ok)
    BY <1>7
  <2>6. Refused(outbox', Awaited) => Refused(outbox, Awaited) \/ (o = Awaited /\ ~ok)
    BY <1>14
  <2>7. o = Awaited => /\ acks[Awaited] = "none" /\ ~Refused(outbox, Awaited)
                       /\ phase # Executing[Awaited]
                       /\ ~Back(outbox, "status", done)
                       /\ done \notin statuses
    BY <1>4, <1>5, <1>6 DEF Refused, Back
  <2>8. Performed
    BY DEF Wire
  <2> QED
    BY <1>1, <2>3, <2>4, <2>5, <2>6, <2>7, <2>8 DEF Performed
<1>13. Ended'
  <2>1. phase' \in RolloutPhases => phase \in RolloutPhases \/ (o = "START" /\ ok)
    BY <1>1, <1>3, Tables DEF Allows, RolloutPhases, Heads
  <2>2. o \in {"START", "STOP", "ABORT"} => Rolling /\ o = Awaited
    BY <1>4, <1>6, AwaitedRange DEF Ordinary, Answerable
  <2>3. Completing' <=> Completing
    BY <1>1, <1>8 DEF Completing, Ends
  <2>4. \A p \in Ordinary :
          Back(outbox', "status", Completion[p]) <=> Back(outbox, "status", Completion[p])
    BY <1>8, Tables
  <2>5. Back(outbox', "status", "COMPLETED") <=> Back(outbox, "status", "COMPLETED")
    BY <1>8 DEF Ends
  <2>6. o = "START" => ~Out(inbox', "START")
    BY <1>2, <1>4, <1>6 DEF Wire, Single, Answerable, Ordinary
  <2>7. Out(inbox', "START") \/ o = "START" => Out(inbox, "START")
    BY <1>2
  <2>8. phase' \in RolloutPhases => phase \in RolloutPhases \/ o = "START"
    BY <2>1
  <2>9. Out(inbox', "START") => o \notin {"START", "STOP", "ABORT"}
    BY <1>2, <1>4, <1>6, <2>2, <2>6 DEF Wire, Own, Answerable, Ordinary
  <2> QED
    BY <1>1, <2>2, <2>3, <2>4, <2>5, <2>6, <2>7, <2>8, <2>9 DEF Wire, Ended, Ordinary
<1> QED
  BY <1>9, <1>10, <1>11, <1>12, <1>13 DEF Wire

\* What a status of the worker changes.
LEMMA WireReported ==
  ASSUME TypeOK, Handled, Wire, Same, NEW s \in Statuses, NEW p, Report(s, p)
  PROVE  /\ UNCHANGED <<inbox, acks, statuses, callback>>
         /\ Awaited' = Awaited
         /\ (Rolling' <=> Rolling)
         /\ StatusAdded(outbox, outbox', s) /\ phase' = p
  BY StatusAppended DEF Report, Same, ButWorker, client, TypeOK, WorkerType

\* The worker completes an operation: the agreement is kept.
LEMMA WireCompleted ==
  ASSUME TypeOK, Handled, Wire, Same, NEW o \in Ordinary, WorkerComplete(o)
  PROVE  Wire'
<1>1. /\ UNCHANGED <<inbox, acks, statuses, callback>>
      /\ Awaited' = Awaited
      /\ (Rolling' <=> Rolling)
      /\ StatusAdded(outbox, outbox', Completion[o]) /\ phase = Executing[o] /\ phase' = Executed[o]
  <2>1. Completion[o] \in Statuses
    BY DEF Completion, Ordinary, Statuses
  <2> QED
    BY <2>1, WireReported DEF WorkerComplete
<1>2. o = Awaited /\ o \in Answerable /\ Ordinary \subseteq Answerable
  BY <1>1 DEF Wire, Own, Answerable
<1>3. /\ ~Out(inbox, o) /\ ~Back(outbox, "status", Completion[o]) /\ Completion[o] \notin statuses
      /\ ~Refused(outbox, o) /\ acks[o] # "rejected"
  BY <1>1, <1>2 DEF Wire, Performed
<1>4. \A q \in Ordinary : phase' # Executing[q]
  BY <1>1, Tables
<1>5. /\ \A q : /\ Back(outbox', "ack", q) <=> Back(outbox, "ack", q)
                /\ BackOnce(outbox, "ack", q) => BackOnce(outbox', "ack", q)
                /\ Refused(outbox', q) <=> Refused(outbox, q)
      /\ \A n : Back(outbox', "status", n) <=> Back(outbox, "status", n) \/ n = Completion[o]
      /\ \A n : BackOnce(outbox, "status", n) => BackOnce(outbox', "status", n)
  BY <1>1, <1>3 DEF StatusAdded
<1>6. Own'
  BY <1>1, <1>2, <1>4, <1>5, Tables DEF Wire, Own
<1>7. Single' /\ Staged'
  BY <1>1, <1>5 DEF Wire, Single, Staged
<1>8. Performed'
  BY <1>1, <1>2, <1>3, <1>4, <1>5 DEF Wire, Performed
<1>9. Ended'
  <2>1. Completion[o] # "COMPLETED"
    BY Tables
  <2>2. Completing' <=> Completing
    BY <1>1, <1>5, <2>1 DEF Completing
  <2>3. phase' \in RolloutPhases => o = "START"
    BY <1>1, Tables
  <2>4. o \in {"START", "STOP", "ABORT"} => phase \in RolloutPhases /\ Rolling /\ ~Completing
    BY <1>1, <1>2, Tables, AwaitedRange DEF Wire, Ended, Operations
  <2>5. o \notin {"START", "STOP", "ABORT"} => phase' \notin RolloutPhases
    BY <2>3
  <2>6. Out(inbox, "START") => o # "START"
    BY <1>3
  <2> QED
    BY <1>1, <1>2, <1>5, <2>1, <2>2, <2>3, <2>4, <2>6 DEF Wire, Ended
<1> QED
  BY <1>6, <1>7, <1>8, <1>9 DEF Wire

\* The worker ends the rollout itself, or fails: the agreement is kept.
LEMMA WireSpontaneous ==
  ASSUME TypeOK, Handled, Wire, Same, NEW s \in {"COMPLETED", "ERROR"},
      NEW p \in {"WAIT_INITIALIZE", "FATAL"},
         Report(s, p), s = "COMPLETED" => phase = "RUNNING"
  PROVE  Wire'
<1>1. /\ UNCHANGED <<inbox, acks, statuses, callback>>
      /\ Awaited' = Awaited
      /\ (Rolling' <=> Rolling)
      /\ StatusAdded(outbox, outbox', s) /\ phase' \in {"WAIT_INITIALIZE", "FATAL"}
  BY WireReported DEF Statuses
<1>2. phase' \notin RolloutPhases /\ \A o \in Ordinary : phase' # Executing[o] /\ Completion[o] # s
  <2>1. \A o \in Ordinary : Completion[o] # s
    BY Tables DEF Ends, Completion, Ordinary
  <2> QED
    BY <1>1, <2>1, Tables DEF RolloutPhases
<1>3. s = "COMPLETED" => /\ phase \in RolloutPhases /\ ~Completing
                         /\ ~Out(inbox, "START") /\ Rolling
  BY DEF Wire, Ended, RolloutPhases
<1>4. s = "COMPLETED" => ~Back(outbox, "status", s)
  BY <1>3 DEF Completing
<1>5. /\ \A q : /\ Back(outbox', "ack", q) <=> Back(outbox, "ack", q)
                /\ BackOnce(outbox, "ack", q) => BackOnce(outbox', "ack", q)
                /\ Refused(outbox', q) <=> Refused(outbox, q)
      /\ \A n : Back(outbox', "status", n) <=> Back(outbox, "status", n) \/ n = s
      /\ \A n \in Ends : BackOnce(outbox, "status", n) => BackOnce(outbox', "status", n)
  BY <1>1, <1>4 DEF StatusAdded, Ends
<1>6. Own'
  BY <1>1, <1>2, <1>5 DEF Wire, Own
<1>7. Single' /\ Staged'
  BY <1>1, <1>5 DEF Wire, Single, Staged
<1>8. Performed'
  BY <1>1, <1>2, <1>5 DEF Wire, Performed
<1>9. Ended'
  <2>1. \A o \in Ordinary :
          Back(outbox', "status", Completion[o]) <=> Back(outbox, "status", Completion[o])
    BY <1>2, <1>5
  <2>2. "STOP" \in Ordinary /\ "ABORT" \in Ordinary
    BY DEF Ordinary
  <2>3. s # "COMPLETED" =>
          (Back(outbox', "status", "COMPLETED") <=> Back(outbox, "status", "COMPLETED"))
    BY <1>5
  <2> QED
    BY <1>1, <1>2, <1>3, <2>1, <2>2, <2>3 DEF Wire, Ended, Completing
<1> QED
  BY <1>6, <1>7, <1>8, <1>9 DEF Wire

\* Every step of the worker keeps the agreement.
LEMMA WireWorker ==
  ASSUME TypeOK, Handled, Wire, Same, Worker
  PROVE  Wire'
<1>1. CASE WorkerReceive
  BY <1>1, WireReceived
<1>2. CASE \E o \in Ordinary : WorkerComplete(o)
  BY <1>2, WireCompleted
<1>3. CASE WorkerPolicyEnds \/ WorkerError
  BY <1>3, WireSpontaneous DEF WorkerPolicyEnds, WorkerError
<1>4. CASE WorkerCloses \/ WorkerExits \/ WorkerCrashes
  <2>1. UNCHANGED <<inbox, outbox, acks, statuses, callback>>
    BY <1>4 DEF WorkerCloses, WorkerExits, WorkerCrashes, HangUp, ButWorker, client
  <2>2. phase' \in {phase} \cup Exited
    BY <1>4 DEF WorkerCloses, WorkerExits, WorkerCrashes, HangUp, Exited
  <2> QED
    BY <2>1, <2>2, WireForced DEF Forced
<1> QED
  BY <1>1, <1>2, <1>3, <1>4 DEF Worker, WorkerStep

\* Delivering a message keeps the agreement.
LEMMA WireDelivered ==
  ASSUME TypeOK, Handled, Wire, Same, Deliver
  PROVE  Wire'
<1> DEFINE m == Head(outbox)
<1>1. /\ outbox \in Seq(Messages) /\ outbox # <<>> /\ outbox' = Tail(outbox) /\ m \in Messages
      /\ UNCHANGED <<inbox, phase>> /\ Awaited' = Awaited /\ (Rolling' <=> Rolling)
      /\ acks \in [Operations -> {"none", "accepted", "rejected"}]
  BY HeadTail DEF Deliver, Same, TypeOK, WorkerType, ClientType
<1>2. /\ \A k, n : /\ Back(outbox, k, n) <=> (m.kind = k /\ m.name = n) \/ Back(outbox', k, n)
                   /\ BackOnce(outbox, k, n) =>
                           /\ BackOnce(outbox', k, n)
                           /\ ~(m.kind = k /\ m.name = n /\ Back(outbox', k, n))
      /\ \A o : Refused(outbox, o)
                  <=> (m.kind = "ack" /\ m.name = o /\ ~m.ok) \/ Refused(outbox', o)
  BY <1>1, BackTail
<1>3. \/ /\ m.kind = "ack" /\ m.name \in Operations
         /\ acks' = [acks EXCEPT ![m.name] = IF m.ok THEN "accepted" ELSE "rejected"]
         /\ UNCHANGED <<statuses, callback>>
      \/ /\ m.kind = "status" /\ statuses' = statuses \cup {m.name} /\ callback' = m.name
         /\ UNCHANGED acks
  <2>1. m.kind = "ack" => m.name \in Operations
    BY <1>1 DEF Messages
  <2> QED
    BY <2>1 DEF Deliver
<1> HIDE DEF m
<1>4. Own'
  BY <1>1, <1>2 DEF Wire, Own
<1>5. Single'
  BY <1>1, <1>2 DEF Wire, Single
<1>6. /\ "NONE" \notin Answerable /\ Ordinary \subseteq Answerable
      /\ \A o \in Ordinary : Completion[o] \in Ends
  BY Tables DEF Answerable, Ordinary
<1>7. CASE m.kind = "ack"
  <2>1. /\ m.name \in Operations /\ UNCHANGED <<statuses, callback>>
        /\ acks' = [acks EXCEPT ![m.name] = IF m.ok THEN "accepted" ELSE "rejected"]
    BY <1>3, <1>7
  <2>2. \A n : Back(outbox', "status", n) <=> Back(outbox, "status", n)
    BY <1>2, <1>7
  <2>3. \A o \in Operations :
          acks'[o] = IF o = m.name THEN IF m.ok THEN "accepted" ELSE "rejected" ELSE acks[o]
    BY <1>1, <2>1
  <2>4. Awaited \in Answerable => Awaited \in Operations
    BY DEF Answerable, Ordinary, Operations
  <2>5. Staged'
    BY <1>1, <1>2, <1>7, <2>3, <2>4 DEF Wire, Single, Staged
  <2>6. Performed'
    <3> SUFFICES ASSUME Awaited \in Ordinary PROVE Performed'
      BY <1>1 DEF Performed
    <3>1. acks'[Awaited] = "rejected" => acks[Awaited] = "rejected" \/ Refused(outbox, Awaited)
      BY <1>2, <1>6, <1>7, <2>3, <2>4
    <3>2. Refused(outbox', Awaited) => Refused(outbox, Awaited)
      BY <1>2
    <3> QED
      BY <1>1, <2>1, <2>2, <3>1, <3>2 DEF Wire, Performed
  <2>7. Ended'
    BY <1>1, <2>1, <2>2 DEF Wire, Ended, Completing
  <2> QED
    BY <1>4, <1>5, <2>5, <2>6, <2>7 DEF Wire
<1>8. CASE m.kind = "status"
  <2>1. /\ UNCHANGED acks /\ statuses' = statuses \cup {m.name} /\ callback' = m.name
    BY <1>3, <1>8
  <2>2. \A n : Back(outbox', "ack", n) <=> Back(outbox, "ack", n)
    BY <1>2, <1>8
  <2>3. \A n : Back(outbox, "status", n) <=> m.name = n \/ Back(outbox', "status", n)
    BY <1>2, <1>8
  <2>4. \A n \in Ends : ~(m.name = n /\ Back(outbox', "status", n))
    BY <1>2, <1>8 DEF Wire, Single
  <2>5. Staged'
    BY <1>1, <2>1, <2>2 DEF Wire, Staged
  <2>6. \A o : Refused(outbox', o) => Refused(outbox, o)
    BY <1>2
  <2>7. Performed'
    BY <1>1, <1>6, <2>1, <2>3, <2>4, <2>6 DEF Wire, Performed
  <2>8. Ended'
    <3>1. "COMPLETED" \in Ends
      BY DEF Ends
    <3> QED
      BY <1>1, <1>6, <2>1, <2>3, <2>4, <3>1 DEF Wire, Ended, Completing
  <2> QED
    BY <1>4, <1>5, <2>5, <2>7, <2>8 DEF Wire
<1> QED
  BY <1>3, <1>7, <1>8

\* Every step keeps the agreement.
LEMMA WireKept ==
  ASSUME TypeOK, Handled, Wire, Exchange
  PROVE  Wire'
  BY WireUnchanged, WireSent, WireAnswered, WireHeard, WireDelivered, WireFailStop, WireWorker,
     WireForced
     DEF Exchange, Answerable

\* The agreement holds initially.
LEMMA WireBegins == Init => Wire
<1> SUFFICES ASSUME Init PROVE Wire
  OBVIOUS
<1>1. /\ inbox = <<>>
      /\ outbox = <<>>
      /\ phase = "WAIT_INITIALIZE"
      /\ callback = "none"
      /\ Here = "loop"
      /\ state = "WAIT_START"
      /\ commands = <<>>
  BY DEF Init, Here, At, Threads
<1>2. Awaited = "NONE" /\ Awaited \notin Answerable
  BY <1>1 DEF Awaited, Answerable, Ordinary
<1>3. \A o \in Ordinary : phase # Executing[o]
  BY <1>1, Tables
<1>4. \A k, n : ~Back(outbox, k, n) /\ BackOnce(outbox, k, n) /\ ~Out(inbox, n) /\ OutOnce(inbox, n)
  BY <1>1 DEF Back, BackOnce, Out, OutOnce
<1> QED
  BY <1>1, <1>2, <1>3, <1>4
     DEF Wire, Own, Single, Staged, Performed, Ended, Completing, RolloutPhases, Answerable

-----------------------------------------------------------------------------
\* A sensor is acquiring.
Acquiring == \E s \in Sensors : sensor[s] = "acquiring"

\* The fail-stop thread is past its recording.
Away == At("failstop") \notin {"idle", "fs_record"}

\* Sensors acquire for the open rollout only, and never past a fail-stop or a teardown.
Stored ==
  /\ \A s \in Sensors : sensor[s] = "acquiring" => s \in activeSensors
  /\ Acquiring => store # 0
  /\ Here \in {"sensor_check", "sensor_start"} => store # 0
  /\ Away => ~Acquiring /\ Here # "sensor_start"
  /\ Here \in TeardownLabels => ~Acquiring

\* Until the main thread has finished, what is open is what it is recording.
Kept ==
  ~Finished =>
    /\ ~Recording => ~Acquiring
    /\ \A s \in Sensors : s \in activeSensors \/ sensor[s] = "idle" \/ resourcesStopped
    /\ ~failStopRequested => IF Recording THEN store # 0
                             ELSE store = 0 /\ activeSensors = {} /\ recorder = "idle"

\* The fail-stop thread and request_fail_stop run only after a fail-stop was requested.
Called ==
  /\ pc["failstop"] # "idle" => failStopRequested
  /\ \A t \in Threads : pc[t] = "rfs" => failStopRequested
  /\ mode = "FAIL_STOP" => failStopRequested

\* Why the main thread has left its loop, and that STOPPED follows the teardown.
Left ==
  /\ Here \in Leaving => failStopRequested \/ resourcesStopped
  /\ state = "STOPPED" => resourcesStopped
  /\ resourcesStopped => failStopRequested \/ Finished

\* Thread t goes to a label, or raises a fail-stop on its way there.
Walks(t) ==
  /\ failStopRequested => failStopRequested'
  /\ mode' = mode \/ mode' # "FAIL_STOP"
  /\ t = "failstop" => pc[t] # "idle"
  /\ \/ \E l \in Labels \ {"rfs"} : pc' = [pc EXCEPT ![t] = l] /\ UNCHANGED ret
     \/ \E l \in Labels \ {"rfs"} : RaiseFailStop(t, l)

\* No thread moves.
Rests == UNCHANGED <<pc, ret, failStopRequested, mode>>

\* A step of the main thread that leaves the recording alone.
Still ==
  /\ UNCHANGED recording
  /\ Here' \notin {"sensor_check", "sensor_start"}
  /\ Here' \in TeardownLabels => Here = "sd_ack"
  /\ Here' \in Leaving => Here \in Leaving \/ failStopRequested' \/ state = "STOPPED"
  /\ ~Finished' => (Recording' <=> Recording)

\* The steps of the main thread but nine leave the recording alone.
LEMMA MainStill ==
  ASSUME TypeOK, Reserved, Handled, MainStep \/ Interrupt, ~Teardown("main"),
      ~EstablishFailStop("main"),
         ~BeginRecording, ~SensorCheck, ~SensorStart, ~StartRecorder, ~StartFailed,
         ~FinishRecord, ~FinishFailed, ~CompletedRecord, ~ShutdownRecord
  PROVE  Still
<1>1. ThreadType /\ CommandType
  BY DEF TypeOK
<1> USE <1>1 DEF Between, Leaving, Admits, TeardownLabels, teardown
<1>2. CASE MainLoop
  <2>1. Here = "loop"
    BY <1>2, HereAt DEF MainLoop, Step
  <2>2. Here' \in {"exit_join", "get"} /\ op' = op
    BY <1>2, HereMoves DEF MainLoop, Step
  <2>3. Here' = "exit_join" => state = "STOPPED"
    BY <1>2, <2>1, HereMoves DEF MainLoop, Step
  <2> QED
    BY <1>2, <2>1, <2>2, <2>3
       DEF MainLoop, Step, RaiseFailStop, Reserved, Handled, ButThreads, session, Finished, Still,
           Rolling, Recording
<1>3. CASE GetCommand
  <2>1. Here = "get"
    BY <1>3, HereAt DEF GetCommand
  <2>2. CASE commands = <<>>
    <3>1. Here' = "loop" /\ UNCHANGED <<commands, state>> /\ UNCHANGED recording
      BY <1>3, <2>2, HereMoves DEF GetCommand, Step, ButThreads, session
    <3> QED
      BY <2>1, <2>2, <3>1 DEF Still, Rolling, Recording
  <2>3. CASE commands # <<>>
    <3>1. /\ Here' = Handler[Head(commands).name]
          /\ op' = HandlerOperation(Head(commands))
          /\ state' = state
      BY <1>3, <2>3, HeadHandled DEF GetCommand, Step, session, Here, At, ThreadType, Threads
    <3>2. UNCHANGED recording
      BY <1>3, <2>3 DEF GetCommand, Step, ButThreads
    <3>3. state # "RUNNING"
      BY <2>1, <2>3 DEF Reserved
    <3>4. Rolling' <=> HandlerOperation(Head(commands)) \in {"STOP", "ABORT"}
      BY <2>3, <3>1, HeadHandled DEF Rolling
    <3>5. Rolling <=> HandlerOperation(Head(commands)) \in {"STOP", "ABORT"}
      BY <2>1, <2>3, <3>3 DEF Rolling
    <3>6. Recording' <=> Rolling' \/ Head(commands).name = "rollout_completed"
      BY <2>3, <3>1, HeadHandled DEF Recording
    <3>7. Recording <=> Rolling \/ Head(commands).name = "rollout_completed"
      BY <2>1, <2>3 DEF Recording
    <3>8. Here' \notin Between \cup Leaving \cup TeardownLabels
                           \cup {"sensor_check", "sensor_start"}
      BY <2>3, <3>1, HeadHandled
    <3> QED
      BY <3>2, <3>4, <3>5, <3>6, <3>7, <3>8 DEF Still
  <2> QED
    BY <2>2, <2>3
<1>4. CASE JoinFailStop
  <2>1. Here = "exit_join"
    BY <1>4, HereAt DEF JoinFailStop, Step, FailStopFrom
  <2>2. Here' \in {"exited", "exit_final"} /\ op' = op
    BY <1>4, HereMoves DEF JoinFailStop, Step, FailStopFrom
  <2> QED
    BY <1>4, <2>1, <2>2
       DEF JoinFailStop, Step, FailStopFrom, RaiseFailStop, Reserved, Handled, ButThreads, session,
           Finished, Still, Rolling, Recording
<1>5. CASE ReturnFromRun
  <2>1. Here = "exit_final"
    BY <1>5, HereAt DEF ReturnFromRun, Step
  <2>2. Here' \in {"exited"} /\ op' = op
    BY <1>5, HereMoves DEF ReturnFromRun, Step
  <2> QED
    BY <1>5, <2>1, <2>2
       DEF ReturnFromRun, Step, RaiseFailStop, Reserved, Handled, ButThreads, session, Finished,
           Still, Rolling, Recording
<1>6. CASE Interrupt
  <2>1. Here \in {"loop", "get", "sd_wait"}
    BY <1>6, HereAt DEF Interrupt, FailStopFrom
  <2>2. Here' \in {"exit_join"} /\ op' = op
    BY <1>6, HereMoves DEF Interrupt, FailStopFrom
  <2>3. failStopRequested'
    BY <1>6, <2>1, HereMoves DEF Interrupt, FailStopFrom, RaiseFailStop
  <2> QED
    BY <1>6, <2>1, <2>2, <2>3
       DEF Interrupt, FailStopFrom, RaiseFailStop, Reserved, Handled, ButThreads, session,
           Finished, Still, Rolling, Recording
<1>7. CASE InitializeSend
  <2>1. Here = "init_send"
    BY <1>7, HereAt DEF InitializeSend, TransactSend
  <2>2. Here' \in {"init_wait", "raise_loop"} /\ op' = op
    BY <1>7, HereMoves DEF InitializeSend, TransactSend
  <2> QED
    BY <1>7, <2>1, <2>2
       DEF InitializeSend, TransactSend, RaiseFailStop, Reserved, Handled, ButThreads, session,
           Finished, Still, Rolling, Recording
<1>8. CASE InitializeWait
  <2>1. Here = "init_wait"
    BY <1>8, HereAt DEF InitializeWait, Step
  <2>2. Here' \in {"init_reject", "init_check", "raise_loop"} /\ op' = op
    BY <1>8, HereMoves DEF InitializeWait, Step
  <2> QED
    BY <1>8, <2>1, <2>2
       DEF InitializeWait, Step, RaiseFailStop, Reserved, Handled, ButThreads, session, Finished,
           Still, Rolling, Recording
<1>9. CASE InitializeRejected
  <2>1. Here = "init_reject"
    BY <1>9, HereAt DEF InitializeRejected, SetState
  <2>2. Here' \in {"loop"} /\ op' = op
    BY <1>9, HereMoves DEF InitializeRejected, SetState
  <2> QED
    BY <1>9, <2>1, <2>2
       DEF InitializeRejected, SetState, RaiseFailStop, Reserved, Handled, ButThreads, session,
           Finished, Still, Rolling, Recording
<1>10. CASE InitializeCheck
  <2>1. Here = "init_check"
    BY <1>10, HereAt DEF InitializeCheck, CheckState, Step
  <2>2. Here' \in {"init_set", "loop"} /\ op' = op
    BY <1>10, HereMoves DEF InitializeCheck, CheckState, Step
  <2> QED
    BY <1>10, <2>1, <2>2
       DEF InitializeCheck, CheckState, Step, RaiseFailStop, Reserved, Handled, ButThreads,
           session, Finished, Still, Rolling, Recording
<1>11. CASE InitializeSet
  <2>1. Here = "init_set"
    BY <1>11, HereAt DEF InitializeSet, SetState
  <2>2. Here' \in {"loop"} /\ op' = op
    BY <1>11, HereMoves DEF InitializeSet, SetState
  <2> QED
    BY <1>11, <2>1, <2>2
       DEF InitializeSet, SetState, RaiseFailStop, Reserved, Handled, ButThreads, session,
           Finished, Still, Rolling, Recording
<1>12. CASE HandlerFailed
  <2>1. Here = "raise_loop"
    BY <1>12, HereAt DEF HandlerFailed, FailStopFrom
  <2>2. Here' \in {"loop"} /\ op' = op
    BY <1>12, HereMoves DEF HandlerFailed, FailStopFrom
  <2> QED
    BY <1>12, <2>1, <2>2
       DEF HandlerFailed, FailStopFrom, RaiseFailStop, Reserved, Handled, ButThreads, session,
           Finished, Still, Rolling, Recording
<1>13. CASE Rearm
  <2>1. Here = "start_rearm"
    BY <1>13, HereAt DEF Rearm, Step
  <2>2. Here' \in {"start_record", "start_fail"} /\ op' = op
    BY <1>13, HereMoves DEF Rearm, Step
  <2> QED
    BY <1>13, <2>1, <2>2
       DEF Rearm, Step, RaiseFailStop, Reserved, Handled, ButThreads, session, Finished, Still,
           Rolling, Recording
<1>14. CASE StartGate
  <2>1. Here = "start_gate"
    BY <1>14, HereAt DEF StartGate, Step
  <2>2. Here' \in {"start_send", "start_fail"} /\ op' = op
    BY <1>14, HereMoves DEF StartGate, Step
  <2> QED
    BY <1>14, <2>1, <2>2
       DEF StartGate, Step, RaiseFailStop, Reserved, Handled, ButThreads, session, Finished, Still,
           Rolling, Recording
<1>15. CASE StartSend
  <2>1. Here = "start_send"
    BY <1>15, HereAt DEF StartSend, TransactSend
  <2>2. Here' \in {"start_wait", "start_fail"} /\ op' = op
    BY <1>15, HereMoves DEF StartSend, TransactSend
  <2> QED
    BY <1>15, <2>1, <2>2
       DEF StartSend, TransactSend, RaiseFailStop, Reserved, Handled, ButThreads, session,
           Finished, Still, Rolling, Recording
<1>16. CASE StartWait
  <2>1. Here = "start_wait"
    BY <1>16, HereAt DEF StartWait, TransactWait, Step
  <2>2. Here' \in {"start_check", "start_fail"} /\ op' = op
    BY <1>16, HereMoves DEF StartWait, TransactWait, Step
  <2> QED
    BY <1>16, <2>1, <2>2
       DEF StartWait, TransactWait, Step, RaiseFailStop, Reserved, Handled, ButThreads, session,
           Finished, Still, Rolling, Recording
<1>17. CASE StartCheck
  <2>1. Here = "start_check"
    BY <1>17, HereAt DEF StartCheck, CheckState, Step
  <2>2. Here' \in {"start_set", "start_release"} /\ op' = op
    BY <1>17, HereMoves DEF StartCheck, CheckState, Step
  <2> QED
    BY <1>17, <2>1, <2>2
       DEF StartCheck, CheckState, Step, RaiseFailStop, Reserved, Handled, ButThreads, session,
           Finished, Still, Rolling, Recording
<1>18. CASE StartSet
  <2>1. Here = "start_set"
    BY <1>18, HereAt DEF StartSet
  <2>2. Here' \in {"start_release"} /\ op' = op
    BY <1>18, HereMoves DEF StartSet
  <2> QED
    BY <1>18, <2>1, <2>2
       DEF StartSet, RaiseFailStop, Reserved, Handled, ButThreads, session, Finished, Still,
           Rolling, Recording
<1>19. CASE ReleaseRecording
  <2>1. Here = "start_release"
    BY <1>19, HereAt DEF ReleaseRecording
  <2>2. Here' \in {"loop"} /\ op' = op
    BY <1>19, HereMoves DEF ReleaseRecording
  <2> QED
    BY <1>19, <2>1, <2>2
       DEF ReleaseRecording, RaiseFailStop, Reserved, Handled, ButThreads, session, Finished,
           Still, Rolling, Recording
<1>20. CASE FinishSend
  <2>1. Here = "fin_send"
    BY <1>20, HereAt DEF FinishSend, TransactSend
  <2>2. Here' \in {"fin_wait", "fin_fail"} /\ op' = op
    BY <1>20, HereMoves DEF FinishSend, TransactSend
  <2> QED
    BY <1>20, <2>1, <2>2
       DEF FinishSend, TransactSend, RaiseFailStop, Reserved, Handled, ButThreads, session,
           Finished, Still, Rolling, Recording
<1>21. CASE FinishWait
  <2>1. Here = "fin_wait"
    BY <1>21, HereAt DEF FinishWait, TransactWait, Step
  <2>2. Here' \in {"fin_record", "fin_fail"} /\ op' = op
    BY <1>21, HereMoves DEF FinishWait, TransactWait, Step
  <2> QED
    BY <1>21, <2>1, <2>2
       DEF FinishWait, TransactWait, Step, RaiseFailStop, Reserved, Handled, ButThreads, session,
           Finished, Still, Rolling, Recording
<1>22. CASE FinishCheck
  <2>1. Here = "fin_check"
    BY <1>22, HereAt DEF FinishCheck, CheckState, Step
  <2>2. Here' \in {"fin_set", "loop"} /\ op' = op
    BY <1>22, HereMoves DEF FinishCheck, CheckState, Step
  <2> QED
    BY <1>22, <2>1, <2>2
       DEF FinishCheck, CheckState, Step, RaiseFailStop, Reserved, Handled, ButThreads, session,
           Finished, Still, Rolling, Recording
<1>23. CASE FinishSet
  <2>1. Here = "fin_set"
    BY <1>23, HereAt DEF FinishSet, SetState
  <2>2. Here' \in {"loop"} /\ op' = op
    BY <1>23, HereMoves DEF FinishSet, SetState
  <2> QED
    BY <1>23, <2>1, <2>2
       DEF FinishSet, SetState, RaiseFailStop, Reserved, Handled, ButThreads, session, Finished,
           Still, Rolling, Recording
<1>24. CASE CompletedCheck
  <2>1. Here = "comp_check"
    BY <1>24, HereAt DEF CompletedCheck, CheckState, Step
  <2>2. Here' \in {"comp_record", "loop"} /\ op' = op
    BY <1>24, HereMoves DEF CompletedCheck, CheckState, Step
  <2> QED
    BY <1>24, <2>1, <2>2
       DEF CompletedCheck, CheckState, Step, RaiseFailStop, Reserved, Handled, ButThreads, session,
           Finished, Still, Rolling, Recording
<1>25. CASE CompletedSet
  <2>1. Here = "comp_set"
    BY <1>25, HereAt DEF CompletedSet, SetState
  <2>2. Here' \in {"loop"} /\ op' = op
    BY <1>25, HereMoves DEF CompletedSet, SetState
  <2> QED
    BY <1>25, <2>1, <2>2
       DEF CompletedSet, SetState, RaiseFailStop, Reserved, Handled, ButThreads, session, Finished,
           Still, Rolling, Recording
<1>26. CASE ShutdownBegin
  <2>1. Here = "sd_mode"
    BY <1>26, HereAt DEF ShutdownBegin, Step
  <2>2. Here' \in {"loop", "sd_stop_send", "sd_send"} /\ op' = op
    BY <1>26, HereMoves DEF ShutdownBegin, Step
  <2>3. Here' = "sd_stop_send" <=> op = "STOP" /\ Here' # "loop"
    BY <1>26, <2>1, HereMoves DEF ShutdownBegin, Step
  <2> QED
    BY <1>26, <2>1, <2>2, <2>3
       DEF ShutdownBegin, Step, RaiseFailStop, Reserved, Handled, ButThreads, session, Finished,
           Still, Rolling, Recording
<1>27. CASE ShutdownStopSend
  <2>1. Here = "sd_stop_send"
    BY <1>27, HereAt DEF ShutdownStopSend, TransactSend
  <2>2. Here' \in {"sd_stop_wait", "raise_loop"} /\ op' = op
    BY <1>27, HereMoves DEF ShutdownStopSend, TransactSend
  <2> QED
    BY <1>27, <2>1, <2>2
       DEF ShutdownStopSend, TransactSend, RaiseFailStop, Reserved, Handled, ButThreads, session,
           Finished, Still, Rolling, Recording
<1>28. CASE ShutdownStopWait
  <2>1. Here = "sd_stop_wait"
    BY <1>28, HereAt DEF ShutdownStopWait, TransactWait, Step
  <2>2. Here' \in {"sd_record", "raise_loop"} /\ op' = op
    BY <1>28, HereMoves DEF ShutdownStopWait, TransactWait, Step
  <2> QED
    BY <1>28, <2>1, <2>2
       DEF ShutdownStopWait, TransactWait, Step, RaiseFailStop, Reserved, Handled, ButThreads,
           session, Finished, Still, Rolling, Recording
<1>29. CASE ShutdownSend
  <2>1. Here = "sd_send"
    BY <1>29, HereAt DEF ShutdownSend
  <2>2. Here' \in {"loop", "sd_ack", "raise_loop", "sd_deadlock"} /\ op' = op
    BY <1>29, HereMoves DEF ShutdownSend
  <2> QED
    BY <1>29, <2>1, <2>2
       DEF ShutdownSend, RaiseFailStop, Reserved, Handled, ButThreads, session, Finished, Still,
           Rolling, Recording
<1>30. CASE ShutdownAckWait
  <2>1. Here = "sd_ack"
    BY <1>30, HereAt DEF ShutdownAckWait, Step
  <2>2. Here' \in {"sd_exit", "sd_reject", "raise_loop"} /\ op' = op
    BY <1>30, HereMoves DEF ShutdownAckWait, Step
  <2> QED
    BY <1>30, <2>1, <2>2
       DEF ShutdownAckWait, Step, RaiseFailStop, Reserved, Handled, ButThreads, session, Finished,
           Still, Rolling, Recording
<1>31. CASE ShutdownRejected
  <2>1. Here = "sd_reject"
    BY <1>31, HereAt DEF ShutdownRejected
  <2>2. Here' \in {"loop"} /\ op' = op
    BY <1>31, HereMoves DEF ShutdownRejected
  <2> QED
    BY <1>31, <2>1, <2>2
       DEF ShutdownRejected, RaiseFailStop, Reserved, Handled, ButThreads, session, Finished,
           Still, Rolling, Recording
<1> QED
  BY <1>2, <1>3, <1>4, <1>5, <1>6, <1>7, <1>8, <1>9, <1>10, <1>11, <1>12, <1>13, <1>14, <1>15,
     <1>16, <1>17, <1>18, <1>19, <1>20, <1>21, <1>22, <1>23, <1>24, <1>25, <1>26, <1>27, <1>28,
     <1>29, <1>30, <1>31
     DEF MainStep, Rollout, Shutdown

\* Only the session manifest stops the state, only the teardown stops the resources.
LEMMA Stops ==
  ASSUME TypeOK, [Next]_vars
  PROVE  /\ state' = "STOPPED" => state = "STOPPED" \/ \E t \in Finalizers : WriteSessionManifest(t)
         /\ resourcesStopped => resourcesStopped'
         /\ resourcesStopped' => resourcesStopped \/ \E t \in Finalizers : MarkResourcesStopped(t)
<1> USE DEF session, teardown, ButThreads, ButRecorded, ButWorker, Step, FailStopFrom, RaiseFailStop
<1>1. CASE Rollout
  BY <1>1 DEF Rollout, InitializeSend, InitializeWait, InitializeRejected, InitializeCheck,
     InitializeSet, HandlerFailed, BeginRecording, SensorCheck, SensorStart, Rearm, StartRecorder,
     StartGate, StartSend, StartWait, StartCheck, StartSet, StartFailed, ReleaseRecording,
     FinishSend, FinishWait, FinishRecord, FinishCheck, FinishSet, FinishFailed, CompletedCheck,
     CompletedRecord, CompletedSet, TransactSend, TransactWait, CheckState, SetState, RecordAndGoto
<1>2. CASE Shutdown
  BY <1>2 DEF Shutdown, ShutdownBegin, ShutdownStopSend, ShutdownStopWait, ShutdownRecord,
     ShutdownSend, ShutdownAckWait, ShutdownRejected, TransactSend, TransactWait, RecordAndGoto
<1>3. CASE \E t \in Finalizers : Teardown(t)
  BY <1>3 DEF Teardown, ExpectWorkerExit, WorkerExitWait, ForceTerminate, CheckReturnCode,
     WorkerExitDone, FinalizeBegin, MarkResourcesStopped, CloseControl, StopSensors,
     WriteSessionManifest
<1>4. CASE \E t \in Threads : EstablishFailStop(t)
  BY <1>4 DEF EstablishFailStop
<1>5. CASE MainLoop \/ GetCommand \/ JoinFailStop \/ ReturnFromRun \/ Interrupt
  BY <1>5 DEF MainLoop, GetCommand, JoinFailStop, ReturnFromRun, Interrupt
<1>6. CASE FailStopRecord \/ FailStopDeliver \/ FailStopPoll
  BY <1>6 DEF FailStopRecord, FailStopDeliver, FailStopPoll
<1>7. CASE Deliver \/ StatusCallback \/ EndOfFile \/ DisconnectCallback
  BY <1>7 DEF Deliver, StatusCallback, EndOfFile, DisconnectCallback, Admit
<1>8. CASE WorkerExitCallback \/ AdmitUserAction \/ RequestRolloutAbort \/ ReportFault
  <2>1. \A n \in Transitions : n[3] # "STOPPED"
    BY DEF Transitions
  <2> QED
    BY <1>8, <2>1 DEF WorkerExitCallback, AdmitUserAction, RequestRolloutAbort, ReportFault, Admit
<1>9. CASE Worker
  <2>1. UNCHANGED <<session, threads>>
    BY <1>9
       DEF Worker, WorkerStep, WorkerReceive, WorkerCloses, WorkerExits, WorkerComplete,
           WorkerPolicyEnds, WorkerError, WorkerCrashes, Report, HangUp
  <2> QED
    BY <2>1
<1>10. CASE UNCHANGED vars
  BY <1>10 DEF vars
<1> QED
  BY <1>1, <1>2, <1>3, <1>4, <1>5, <1>6, <1>7, <1>8, <1>9, <1>10, ControllerCases
     DEF Next, Terminated

-----------------------------------------------------------------------------
\* Every step of the main thread moves it.
LEMMA MainWalks ==
  ASSUME TypeOK, MainStep \/ Interrupt, ~Teardown("main"), ~EstablishFailStop("main")
  PROVE  Walks("main")
<1> USE DEF Labels, MainLabels, OtherLabels, TeardownLabels, Walks, Goto, RaiseFailStop,
            ButThreads, ButRecorded, session
<1>1. CASE MainLoop
  BY <1>1 DEF MainLoop, Step
<1>2. CASE GetCommand
  <2>1. CASE commands = <<>>
    BY <1>2, <2>1 DEF GetCommand, Step, ButThreads, session
  <2>2. CASE commands # <<>>
    <3>1. /\ pc' = [pc EXCEPT !["main"] = Handler[Head(commands).name]] /\ UNCHANGED ret
          /\ UNCHANGED <<failStopRequested, mode>>
      BY <1>2, <2>2 DEF GetCommand, Step, ButThreads, session
    <3>2. Handler[Head(commands).name] \in Labels \ {"rfs"}
      BY <2>2, HeadHandled DEF TypeOK
    <3> DEFINE l == Handler[Head(commands).name]
    <3> HIDE DEF l
    <3>3. l \in Labels \ {"rfs"} /\ pc' = [pc EXCEPT !["main"] = l]
      BY <3>1, <3>2 DEF l
    <3> QED
      BY <3>1, <3>3
  <2> QED
    BY <2>1, <2>2
<1>3. CASE JoinFailStop
  BY <1>3 DEF JoinFailStop, Step, FailStopFrom
<1>4. CASE ReturnFromRun
  BY <1>4 DEF ReturnFromRun, Step
<1>5. CASE Interrupt
  BY <1>5 DEF Interrupt, FailStopFrom
<1>6. CASE InitializeSend
  BY <1>6 DEF InitializeSend, TransactSend
<1>7. CASE InitializeWait
  BY <1>7 DEF InitializeWait, Step
<1>8. CASE InitializeRejected
  BY <1>8 DEF InitializeRejected, SetState
<1>9. CASE InitializeCheck
  BY <1>9 DEF InitializeCheck, CheckState, Step
<1>10. CASE InitializeSet
  BY <1>10 DEF InitializeSet, SetState
<1>11. CASE HandlerFailed
  BY <1>11 DEF HandlerFailed, FailStopFrom
<1>12. CASE BeginRecording
  BY <1>12 DEF BeginRecording
<1>13. CASE SensorCheck
  BY <1>13 DEF SensorCheck
<1>14. CASE SensorStart
  BY <1>14 DEF SensorStart
<1>15. CASE Rearm
  BY <1>15 DEF Rearm, Step
<1>16. CASE StartRecorder
  BY <1>16 DEF StartRecorder
<1>17. CASE StartGate
  BY <1>17 DEF StartGate, Step
<1>18. CASE StartSend
  BY <1>18 DEF StartSend, TransactSend
<1>19. CASE StartWait
  BY <1>19 DEF StartWait, TransactWait, Step
<1>20. CASE StartCheck
  BY <1>20 DEF StartCheck, CheckState, Step
<1>21. CASE StartSet
  BY <1>21 DEF StartSet
<1>22. CASE StartFailed
  BY <1>22 DEF StartFailed
<1>23. CASE ReleaseRecording
  BY <1>23 DEF ReleaseRecording
<1>24. CASE FinishSend
  BY <1>24 DEF FinishSend, TransactSend
<1>25. CASE FinishWait
  BY <1>25 DEF FinishWait, TransactWait, Step
<1>26. CASE FinishRecord
  BY <1>26 DEF FinishRecord, RecordAndGoto
<1>27. CASE FinishCheck
  BY <1>27 DEF FinishCheck, CheckState, Step
<1>28. CASE FinishSet
  BY <1>28 DEF FinishSet, SetState
<1>29. CASE FinishFailed
  BY <1>29 DEF FinishFailed, RecordAndGoto
<1>30. CASE CompletedCheck
  BY <1>30 DEF CompletedCheck, CheckState, Step
<1>31. CASE CompletedRecord
  BY <1>31 DEF CompletedRecord, RecordAndGoto
<1>32. CASE CompletedSet
  BY <1>32 DEF CompletedSet, SetState
<1>33. CASE ShutdownBegin
  BY <1>33 DEF ShutdownBegin, Step
<1>34. CASE ShutdownStopSend
  BY <1>34 DEF ShutdownStopSend, TransactSend
<1>35. CASE ShutdownStopWait
  BY <1>35 DEF ShutdownStopWait, TransactWait, Step
<1>36. CASE ShutdownRecord
  BY <1>36 DEF ShutdownRecord, RecordAndGoto
<1>37. CASE ShutdownSend
  BY <1>37 DEF ShutdownSend
<1>38. CASE ShutdownAckWait
  BY <1>38 DEF ShutdownAckWait, Step
<1>39. CASE ShutdownRejected
  BY <1>39 DEF ShutdownRejected
<1> QED
  BY <1>1, <1>2, <1>3, <1>4, <1>5, <1>6, <1>7, <1>8, <1>9, <1>10, <1>11, <1>12, <1>13, <1>14,
     <1>15, <1>16, <1>17, <1>18, <1>19, <1>20, <1>21, <1>22, <1>23, <1>24, <1>25, <1>26, <1>27,
     <1>28, <1>29, <1>30, <1>31, <1>32, <1>33, <1>34, <1>35, <1>36, <1>37, <1>38, <1>39
     DEF MainStep, Rollout, Shutdown

\* Every step of the teardown moves its thread.
LEMMA TeardownWalks ==
  ASSUME NEW t \in Finalizers, Teardown(t)
  PROVE  Walks(t)
<1>1. \E l \in Labels \ {"rfs"} : Goto(t, l) \/ RaiseFailStop(t, l)
  <2>1. TeardownLabels \cup {AfterFinalize(t), "loop", "exit_join"} \subseteq Labels \ {"rfs"}
    BY DEF Labels, MainLabels, OtherLabels, TeardownLabels, AfterFinalize
  <2> QED
    BY <2>1, TeardownMoves
<1>2. (failStopRequested => failStopRequested') /\ UNCHANGED mode
  BY DEF Teardown, ExpectWorkerExit, WorkerExitWait, ForceTerminate, CheckReturnCode,
         WorkerExitDone, FinalizeBegin, MarkResourcesStopped, CloseControl, StopSensors,
         WriteSessionManifest, Step, FailStopFrom, RaiseFailStop, ButThreads, ButRecorded, session
<1>3. pc[t] # "idle"
  BY TeardownMoves DEF TeardownLabels
<1> QED
  BY <1>1, <1>2, <1>3 DEF Walks, Goto

\* Every step moves one thread, establishes a FAIL_STOP or moves nobody.
LEMMA NextWalks ==
  ASSUME TypeOK, [Next]_vars
  PROVE  Rests \/ (\E t \in Threads : Walks(t)) \/ (\E t \in Threads : EstablishFailStop(t))
<1>1. CASE MainStep \/ Interrupt
  BY <1>1, MainWalks, TeardownWalks DEF Threads, Finalizers
<1>2. CASE FailStopStep
  <2>1. CASE Teardown("failstop")
    BY <2>1, TeardownWalks DEF Threads, Finalizers
  <2>2. CASE FailStopRecord \/ FailStopDeliver \/ FailStopPoll
    <3>1. Walks("failstop")
      BY <2>2
         DEF FailStopRecord, FailStopDeliver, FailStopPoll, Step, ButThreads, ButRecorded, session,
             Goto, Walks, Labels, OtherLabels, TeardownLabels
    <3> QED
      BY <3>1 DEF Threads
  <2> QED
    BY <1>2, <2>1, <2>2 DEF FailStopStep
<1>3. CASE Deliver \/ StatusCallback \/ EndOfFile \/ DisconnectCallback
  <2>1. Rests \/ Walks("receiver")
    <3> USE DEF Step, ButThreads, session, threads, Goto, Walks, Rests, Labels, OtherLabels
    <3>1. CASE Deliver
      BY <3>1 DEF Deliver
    <3>2. CASE StatusCallback
      BY <3>2 DEF StatusCallback, Admit, RaiseFailStop
    <3>3. CASE EndOfFile
      BY <3>3 DEF EndOfFile
    <3>4. CASE DisconnectCallback
      BY <3>4 DEF DisconnectCallback, FailStopFrom, RaiseFailStop
    <3> QED
      BY <1>3, <3>1, <3>2, <3>3, <3>4
  <2> QED
    BY <2>1 DEF Threads
<1>4. CASE WorkerExitCallback \/ ReportFault
  <2>1. Rests \/ Walks("reader") \/ Walks("reporter")
    <3> USE DEF session, threads, Walks, Rests, Labels, OtherLabels, FailStopFrom, RaiseFailStop
    <3>1. CASE WorkerExitCallback
      BY <1>4, <3>1 DEF WorkerExitCallback
    <3>2. CASE ReportFault
      BY <1>4, <3>2 DEF ReportFault
    <3> QED
      BY <1>4, <3>1, <3>2
  <2> QED
    BY <2>1 DEF Threads
<1>5. CASE AdmitUserAction \/ RequestRolloutAbort
  <2>1. Rests
    BY <1>5 DEF AdmitUserAction, RequestRolloutAbort, Admit, threads, Rests
  <2> QED
    BY <2>1
<1>6. CASE Worker
  <2>1. UNCHANGED <<session, threads>>
    BY <1>6
       DEF Worker, WorkerStep, WorkerReceive, WorkerCloses, WorkerExits, WorkerComplete,
           WorkerPolicyEnds, WorkerError, WorkerCrashes, Report, HangUp, ButWorker
  <2> QED
    BY <2>1 DEF session, threads, Rests
<1>7. CASE UNCHANGED vars
  BY <1>7 DEF vars, session, threads, Rests
<1>8. CASE \E t \in {"receiver", "reader", "reporter"} : EstablishFailStop(t)
  BY <1>8 DEF Threads
<1> QED
  BY <1>1, <1>2, <1>3, <1>4, <1>5, <1>6, <1>7, <1>8
     DEF Next, Controller, Terminated, ReceiverStep, ReaderStep

\* A thread that moves leaves the others where they are.
LEMMA WalksAlone ==
  ASSUME ThreadType, NEW t \in Threads, Walks(t), NEW u \in Threads \ {t}
  PROVE  pc'[u] = pc[u] /\ At(u)' = At(u)
  BY DEF ThreadType, Walks, RaiseFailStop, At

\* A fail-stop is requested for good, before anything of it runs.
LEMMA CalledKept ==
  ASSUME TypeOK, Called, [Next]_vars
  PROVE  Called' /\ (failStopRequested => failStopRequested')
<1>1. ThreadType /\ "failstop" \in Threads
  BY DEF TypeOK, Threads
<1>2. CASE Rests
  BY <1>2 DEF Called, Rests
<1>3. CASE \E t \in Threads : Walks(t)
  <2>1. PICK t \in Threads : Walks(t)
    BY <1>3
  <2>2. \A u \in Threads \ {t} : pc'[u] = pc[u]
    BY <1>1, <2>1, WalksAlone
  <2>3. pc'[t] = "rfs" => failStopRequested'
    BY <1>1, <2>1 DEF Walks, RaiseFailStop, ThreadType
  <2>4. pc'["failstop"] # "idle" => failStopRequested'
    BY <1>1, <2>1, <2>2 DEF Walks, Called
  <2> QED
    BY <2>1, <2>2, <2>3, <2>4 DEF Called, Walks
<1>4. CASE \E t \in Threads : EstablishFailStop(t)
  <2>1. PICK t \in Threads : EstablishFailStop(t)
    BY <1>4
  <2>2. failStopRequested /\ failStopRequested'
    BY <2>1 DEF EstablishFailStop, Called
  <2> QED
    BY <2>2 DEF Called
<1> QED
  BY <1>2, <1>3, <1>4, NextWalks

-----------------------------------------------------------------------------
\* The part of the invariant that holds to the end of the session.
Filed == IInv /\ Reserved /\ Handled /\ Stored /\ Kept /\ Called /\ Left

\* FinishRecording leaves no sensor acquiring, and nothing open when it meets no error.
LEMMA Closes ==
  ASSUME RecordingType, Stored, NEW status, NEW errors \in BOOLEAN, FinishRecording(status, errors)
  PROVE  /\ ~Acquiring'
         /\ \A s \in Sensors : s \in activeSensors' \/ sensor'[s] = "idle"
                               \/ (s \notin activeSensors /\ sensor'[s] = sensor[s])
         /\ store # 0 /\ ~errors => store' = 0 /\ activeSensors' = {} /\ recorder' = "idle"
<1>1. CASE store = 0
  BY <1>1 DEF FinishRecording, Stored, recording, Acquiring
<1>2. CASE store # 0
  <2>1. PICK failed \in SUBSET activeSensors :
          /\ FinalizeSensors(failed)
          /\ ~errors => failed = {} /\ store' = 0 /\ recorder' = "idle"
    BY <1>2 DEF FinishRecording, Unacknowledged
  <2>2. \A s \in Sensors : sensor'[s] = IF s \in failed THEN "unknown"
                                        ELSE IF s \in activeSensors THEN "idle" ELSE sensor[s]
    BY <2>1 DEF FinalizeSensors
  <2>3. activeSensors' = failed /\ activeSensors \subseteq Sensors
    BY <2>1 DEF FinalizeSensors, RecordingType
  <2>4. ~Acquiring'
    BY <2>2 DEF Stored, Acquiring
  <2> QED
    BY <2>1, <2>2, <2>3, <2>4
<1> QED
  BY <1>1, <1>2

\* When no sensor acquires, every acquiring sensor is active.
LEMMA Nothing ==
  ASSUME ~Acquiring'
  PROVE  \A s \in Sensors : sensor'[s] = "acquiring" => s \in activeSensors'
  BY DEF Acquiring

\* A step that leaves the recording alone keeps its account.
LEMMA StillFiled ==
  ASSUME Stored, Kept, UNCHANGED recording, Called, failStopRequested => failStopRequested',
         resourcesStopped => resourcesStopped',
         Here' \in {"sensor_check", "sensor_start"} => Here' = Here,
         Away' => Away,
         Here' \in TeardownLabels => Here \in TeardownLabels \/ ~Acquiring,
         ~Finished' => ~Finished /\ (Recording' <=> Recording)
  PROVE  Stored' /\ Kept'
<1>1. UNCHANGED <<sensor, activeSensors, store, recorder>>
  BY DEF recording
<1>2. Acquiring' <=> Acquiring
  BY <1>1 DEF Acquiring
<1>3. Stored'
  BY <1>1, <1>2 DEF Stored
<1>4. Kept'
  BY <1>1, <1>2 DEF Kept
<1> QED
  BY <1>3, <1>4

\* Every step of the main thread outside the teardown keeps the account of the recording.
LEMMA MainFiled ==
  ASSUME Filed, MainStep \/ Interrupt, ~Teardown("main"), ~EstablishFailStop("main"),
         failStopRequested => failStopRequested', resourcesStopped => resourcesStopped',
         ~Finished' => ~Finished
  PROVE  /\ Stored'
         /\ Kept'
         /\ (Here' \in Leaving => Here \in Leaving \/ failStopRequested' \/ state = "STOPPED")
<1> USE DEF Filed
<1>0. ThreadType /\ RecordingType /\ TypeOK
  BY DEF IInv, TypeOK
<1>1. Away' <=> Away
  <2>1. Walks("main") /\ "main" \in Threads /\ "failstop" \in Threads \ {"main"}
    BY <1>0, MainWalks DEF Threads
  <2>2. At("failstop")' = At("failstop")
    BY <1>0, <2>1, WalksAlone
  <2> QED
    BY <2>2 DEF Away
<1>2. CASE Still
  <2>1. Here' \in TeardownLabels => ~Acquiring
    <3>1. Here = "sd_ack" => ~Finished /\ ~Recording
      BY DEF Finished, Recording, Rolling, Leaving, Between, TeardownLabels
    <3> QED
      BY <1>2, <3>1 DEF Still, Kept
  <2>2. Stored' /\ Kept'
    BY <1>1, <1>2, <2>1, StillFiled DEF Still
  <2> QED
    BY <1>2, <2>2 DEF Still
<1> DEFINE NotLeaving == Here' \notin Leaving
<1> USE DEF Leaving
<1>3. CASE BeginRecording
  <2>1. Here = "start_begin"
    BY <1>0, <1>3, HereAt DEF BeginRecording
  <2>2. Here' \in {"start_fail", "sensor_check"}
    BY <1>0, <1>3, HereMoves DEF BeginRecording
  <2>3. Here' = "sensor_check" => store' = rolloutIndex + 1
    BY <1>0, <1>3, <2>1, HereMoves DEF BeginRecording
  <2>4. /\ UNCHANGED <<activeSensors, sensor, recorder>>
        /\ (store' = store \/ store' = rolloutIndex + 1)
        /\ rolloutIndex \in Nat
    BY <1>0, <1>3 DEF BeginRecording, RecordingType
  <2>5. rolloutIndex + 1 # 0
    BY <2>4
  <2>6. ~Finished /\ ~Recording
    BY <2>1 DEF Finished, Recording, Rolling, Between, TeardownLabels
  <2>7. ~Acquiring /\ ~Acquiring'
    BY <2>4, <2>6 DEF Kept, Acquiring
  <2>8. Stored'
    BY <1>1, <2>2, <2>3, <2>5, <2>7, Nothing DEF Stored, TeardownLabels
  <2>9. Here' = "sensor_check" => Recording'
    BY DEF Recording
  <2>10. Here' = "start_fail" => Finished'
    BY DEF Finished
  <2>11. Kept'
    BY <2>2, <2>3, <2>4, <2>5, <2>6, <2>7, <2>9, <2>10 DEF Kept
  <2> QED
    BY <2>2, <2>8, <2>11
<1>4. CASE SensorCheck
  <2>1. Here = "sensor_check"
    BY <1>0, <1>4, HereAt DEF SensorCheck
  <2>2. Here' \in {"start_fail", "start_rearm", "sensor_start"}
    BY <1>0, <1>4, HereMoves DEF SensorCheck
  <2>3. ~Finished /\ Recording /\ Here \notin TeardownLabels
    BY <2>1 DEF Finished, Recording, Rolling, Between, TeardownLabels
  <2>4. CASE Terminating /\ DiscardActiveSensors /\ Goto("main", "start_fail")
    <3>1. Here' = "start_fail"
      BY <1>0, <2>4, HereMoves
    <3>2. PICK failed \in SUBSET activeSensors : FinalizeSensors(failed)
      BY <2>4 DEF DiscardActiveSensors, Unacknowledged
    <3>3. ~Acquiring'
      BY <3>2 DEF FinalizeSensors, Stored, Acquiring
    <3> QED
      BY <1>1, <3>1, <3>3, Nothing DEF Stored, Kept, Finished, TeardownLabels
  <2>5. CASE ~Terminating /\ UNCHANGED recording
    <3>1. ~Away
      BY <2>5 DEF Terminating, IInv, IntentHeld, Away, At
    <3>2. UNCHANGED <<sensor, activeSensors, store, recorder>>
      BY <2>5 DEF recording
    <3>3. Acquiring' <=> Acquiring
      BY <3>2 DEF Acquiring
    <3>4. Stored'
      BY <1>1, <2>1, <2>2, <3>1, <3>2, <3>3 DEF Stored, TeardownLabels
    <3>5. ~Finished' => Recording'
      BY <2>2 DEF Recording, Finished
    <3>6. Kept'
      BY <2>3, <3>2, <3>3, <3>5 DEF Kept
    <3> QED
      BY <2>2, <3>4, <3>6
  <2> QED
    BY <1>4, <2>4, <2>5 DEF SensorCheck
<1>5. CASE SensorStart
  <2>1. Here = "sensor_start"
    BY <1>0, <1>5, HereAt DEF SensorStart
  <2>2. Here' \in {"start_fail", "sensor_check"}
    BY <1>0, <1>5, HereMoves DEF SensorStart
  <2>3. ~Finished /\ Recording /\ ~Away /\ store # 0 /\ store' = store
    BY <1>5, <2>1 DEF Finished, Recording, Rolling, Between, TeardownLabels, Stored, SensorStart
  <2> DEFINE s == IF "ft300" \notin activeSensors THEN "ft300" ELSE "xense"
  <2>4. s \in Sensors
    BY DEF Sensors
  <2>5. CASE /\ activeSensors' = activeSensors \cup {s}
             /\ sensor' = [sensor EXCEPT ![s] = "acquiring"]
             /\ Goto("main", "sensor_check")
    <3>1. Here' = "sensor_check"
      BY <1>0, <2>5, HereMoves
    <3> HIDE DEF s
    <3>2. \A r \in Sensors : sensor'[r] = IF r = s THEN "acquiring" ELSE sensor[r]
      BY <1>0, <2>4, <2>5 DEF RecordingType
    <3>3. \A r \in Sensors : sensor'[r] = "acquiring" => r \in activeSensors'
      BY <2>5, <3>2 DEF Stored
    <3>4. Stored'
      BY <1>1, <2>3, <3>1, <3>3 DEF Stored, TeardownLabels
    <3>5. Recording'
      BY <3>1 DEF Recording
    <3>6. Kept'
      BY <2>3, <2>5, <3>2, <3>5 DEF Kept
    <3> QED
      BY <3>1, <3>4, <3>6
  <2>6. CASE /\ \E failed \in SUBSET activeSensors :
                  sensor' = [r \in Sensors |-> IF r = s \/ r \in failed THEN "unknown"
                             ELSE IF r \in activeSensors THEN "idle" ELSE sensor[r]]
             /\ Goto("main", "start_fail")
    <3>1. Here' = "start_fail"
      BY <1>0, <2>6, HereMoves
    <3> HIDE DEF s
    <3>2. \A r \in Sensors :
            sensor'[r] = "acquiring" => r \notin activeSensors /\ sensor[r] = "acquiring"
      BY <2>6
    <3>3. ~Acquiring'
      BY <3>2 DEF Acquiring, Stored
    <3> QED
      BY <1>1, <3>1, <3>3, Nothing DEF Stored, Kept, Finished, TeardownLabels
  <2> QED
    BY <1>5, <2>5, <2>6 DEF SensorStart
<1>6. CASE StartRecorder
  <2>1. Here = "start_record"
    BY <1>0, <1>6, HereAt DEF StartRecorder
  <2>2. Here' \in {"start_fail", "start_gate"}
    BY <1>0, <1>6, HereMoves DEF StartRecorder
  <2>3. UNCHANGED <<sensor, activeSensors, store>>
    BY <1>6 DEF StartRecorder
  <2>4. ~Finished /\ Recording /\ (Finished' \/ Recording')
    BY <2>1, <2>2 DEF Finished, Recording, Rolling, Between, TeardownLabels
  <2>5. Acquiring' <=> Acquiring
    BY <2>3 DEF Acquiring
  <2>6. Stored'
    BY <1>1, <2>2, <2>3, <2>5 DEF Stored, TeardownLabels
  <2>7. Kept'
    BY <2>3, <2>4, <2>5 DEF Kept
  <2> QED
    BY <2>2, <2>6, <2>7
<1>7. ASSUME NEW status, NEW errors \in BOOLEAN, FinishRecording(status, errors),
             Here \notin TeardownLabels, 
             Here' \notin {"sensor_check", "sensor_start"} \cup TeardownLabels \cup Leaving,
             ~Finished' => ~errors /\ Recording /\ ~Recording'
      PROVE  Stored' /\ Kept' /\ Here' \notin Leaving
  <2>1. /\ ~Acquiring'
        /\ \A s \in Sensors : s \in activeSensors' \/ sensor'[s] = "idle"
                               \/ (s \notin activeSensors /\ sensor'[s] = sensor[s])
        /\ store # 0 /\ ~errors => store' = 0 /\ activeSensors' = {} /\ recorder' = "idle"
    BY <1>0, <1>7, Closes
  <2>2. Stored'
    BY <1>1, <1>7, <2>1, Nothing DEF Stored
  <2>3. Kept'
    BY <1>7, <2>1 DEF Kept
  <2> QED
    BY <1>7, <2>2, <2>3
<1>8. CASE StartFailed
  <2>1. Here = "start_fail"
    BY <1>0, <1>8, HereAt DEF StartFailed
  <2>2. Here' = "start_release"
    BY <1>0, <1>8, HereMoves DEF StartFailed
  <2>3. Finished'
    BY <1>8, <2>1, <2>2 DEF StartFailed, RaiseFailStop, Reserved, Finished, Between, Leaving
  <2>4. /\ Here \notin TeardownLabels
        /\ Here' \notin {"sensor_check", "sensor_start"} \cup TeardownLabels \cup Leaving
    BY <2>1, <2>2 DEF TeardownLabels
  <2> QED
    BY <1>7, <1>8, <2>3, <2>4 DEF StartFailed, FailRecordingBestEffort
<1>9. ASSUME NEW at \in {"fin_record", "comp_record", "sd_record"}, NEW status,
             NEW done \in {"fin_check", "comp_set", "sd_send"}, NEW fail \in {"fin_fail",
                 "raise_loop"},
             RecordAndGoto(at, status, done, fail)
      PROVE  Stored' /\ Kept' /\ Here' \notin Leaving
  <2>1. Here = at /\ Recording /\ Here \notin TeardownLabels
    <3>1. Here = at
      BY <1>0, <1>9, HereAt DEF RecordAndGoto
    <3> QED
      BY <1>9, <3>1 DEF Recording, TeardownLabels
  <2>2. PICK errors \in BOOLEAN :
          FinishRecording(status, errors) /\ Goto("main", IF errors THEN fail ELSE done)
    BY <1>9 DEF RecordAndGoto
  <2>3. Here' = IF errors THEN fail ELSE done
    <3>1. fail # "rfs" /\ done # "rfs"
      BY <1>9
    <3> QED
      BY <1>0, <2>2, <3>1, HereMoves
  <2>4. errors => Finished'
    BY <1>9, <2>3 DEF Finished
  <2>5. ~errors => ~Recording'
    BY <1>9, <2>3 DEF Recording, Rolling, Between
  <2>6. Here' \notin {"sensor_check", "sensor_start"} \cup TeardownLabels \cup Leaving
    BY <1>9, <2>3 DEF TeardownLabels
  <2> QED
    BY <1>7, <2>1, <2>2, <2>4, <2>5, <2>6
<1>10. CASE FinishRecord \/ CompletedRecord \/ ShutdownRecord
  BY <1>9, <1>10 DEF FinishRecord, CompletedRecord, ShutdownRecord
<1>11. CASE FinishFailed
  <2>1. Here = "fin_fail"
    BY <1>0, <1>11, HereAt DEF FinishFailed, RecordAndGoto
  <2>2. Here' = "raise_loop"
    BY <1>0, <1>11, HereMoves DEF FinishFailed, RecordAndGoto
  <2>3. /\ Finished'
        /\ Here \notin TeardownLabels
        /\ Here' \notin {"sensor_check", "sensor_start"} \cup TeardownLabels \cup Leaving
    BY <2>1, <2>2 DEF Finished, TeardownLabels
  <2> QED
    BY <1>7, <1>11, <2>3 DEF FinishFailed, RecordAndGoto
<1>12. CASE ~(BeginRecording \/ SensorCheck \/ SensorStart \/ StartRecorder \/ StartFailed
              \/ FinishRecord \/ FinishFailed \/ CompletedRecord \/ ShutdownRecord)
  BY <1>0, <1>2, <1>12, MainStill
<1> QED
  BY <1>3, <1>4, <1>5, <1>6, <1>8, <1>10, <1>11, <1>12

\* So does a step of another thread that leaves the recording alone,
LEMMA OthersFiled ==
  ASSUME Filed, Here' = Here, UNCHANGED recording, Away' => Away,
         failStopRequested => failStopRequested', resourcesStopped => resourcesStopped',
         ~Finished' => ~Finished /\ (Recording' <=> Recording)
  PROVE  Stored' /\ Kept'
  BY StillFiled DEF Filed

\* the fail-stop thread, which finishes the recording itself,
LEMMA FailStopFiled ==
  ASSUME Filed, FailStopStep, Here' = Here,
         failStopRequested => failStopRequested', resourcesStopped => resourcesStopped',
         ~Finished' => ~Finished /\ (Recording' <=> Recording)
  PROVE  Stored' /\ Kept'
<1> USE DEF Filed
<1>1. ThreadType /\ RecordingType /\ failStopRequested
  <2>1. pc["failstop"] # "idle"
    <3>1. "failstop" \in Finalizers
      BY DEF Finalizers
    <3>2. Teardown("failstop") => pc["failstop"] \in TeardownLabels
      BY <3>1, TeardownMoves
    <3> QED
      BY <3>2 DEF FailStopStep, FailStopRecord, FailStopDeliver, FailStopPoll, Step, TeardownLabels
  <2> QED
    BY <2>1 DEF IInv, TypeOK, Called
<1>2. recordingLock = "free" => Here \notin StartLabels
  BY DEF IInv, RecordingHeld, Here
<1>3. CASE FailStopRecord
  <2>1. PICK errors \in BOOLEAN : FinishRecording("failed", errors)
    BY <1>3 DEF FailStopRecord, FailRecordingBestEffort
  <2>2. /\ ~Acquiring'
        /\ \A s \in Sensors : s \in activeSensors' \/ sensor'[s] = "idle"
                               \/ (s \notin activeSensors /\ sensor'[s] = sensor[s])
    BY <1>1, <2>1, Closes
  <2>3. Here \notin {"sensor_check", "sensor_start"}
    BY <1>2, <1>3 DEF FailStopRecord, StartLabels
  <2> QED
    BY <1>1, <2>2, <2>3, Nothing DEF Stored, Kept
<1>4. CASE StopSensors("failstop")
  <2>1. ~Acquiring' /\ activeSensors' = {} /\ store' = store
    BY <1>4 DEF StopSensors, Acquiring
  <2>2. resourcesStopped
    BY <1>4 DEF StopSensors, IInv, Marked, At, StopLabels, Finalizers
  <2>3. Here \notin {"sensor_check", "sensor_start"}
    BY <1>2, <1>4 DEF StopSensors, StartLabels
  <2> QED
    BY <1>1, <2>1, <2>2, <2>3, Nothing DEF Stored, Kept
<1>5. CASE ~FailStopRecord /\ ~StopSensors("failstop")
  <2>1. UNCHANGED recording
    BY <1>5
       DEF FailStopStep, FailStopDeliver, FailStopPoll, Teardown, ExpectWorkerExit, WorkerExitWait,
           ForceTerminate,
       CheckReturnCode, WorkerExitDone, FinalizeBegin, MarkResourcesStopped, CloseControl,
       WriteSessionManifest, Step, FailStopFrom, ButThreads
  <2>2. Away
    <3>1. "failstop" \in Finalizers
      BY DEF Finalizers
    <3>2. Teardown("failstop") => pc["failstop"] \in TeardownLabels
      BY <3>1, TeardownMoves
    <3>3. pc["failstop"] \in TeardownLabels \cup {"fs_deliver", "fs_poll"}
      BY <1>5, <3>2 DEF FailStopStep, FailStopDeliver, FailStopPoll, Step
    <3> QED
      BY <3>3 DEF Away, At, TeardownLabels
  <2> QED
    BY <2>1, <2>2, OthersFiled
<1> QED
  BY <1>3, <1>4, <1>5

\* the teardown by the main thread,
LEMMA MainTearsFiled ==
  ASSUME Filed, Teardown("main"), resourcesStopped => resourcesStopped'
  PROVE  Stored' /\ Kept' /\ (Here' \in Leaving => failStopRequested' \/ resourcesStopped)
<1> USE DEF Filed
<1>0. /\ "main" \in Finalizers
      /\ TypeOK
      /\ ThreadType
      /\ "main" \in Threads
      /\ "failstop" \in Threads \ {"main"}
  BY DEF Finalizers, IInv, TypeOK, Threads
<1>1. Finished'
  BY <1>0, MainTearsDown
<1>2. Here \in TeardownLabels /\ Here' \notin {"sensor_check", "sensor_start"}
  <2>1. Here \in TeardownLabels
    BY <1>0, TeardownMoves, HereAt DEF TeardownLabels
  <2>2. Here' \in TeardownLabels \cup {"loop", "exit_join"}
    <3>1. \E l \in TeardownLabels \cup {"loop", "exit_join"} :
            Goto("main", l) \/ RaiseFailStop("main", l)
      BY <1>0, TeardownMoves DEF AfterFinalize
    <3> QED
      BY <1>0, <3>1, HereMoves DEF TeardownLabels
  <2> QED
    BY <2>1, <2>2 DEF TeardownLabels
<1>3. Away' <=> Away
  <2>1. Walks("main")
    BY <1>0, TeardownWalks
  <2>2. At("failstop")' = At("failstop")
    BY <1>0, <2>1, WalksAlone
  <2> QED
    BY <2>2 DEF Away
<1>4. ~Acquiring'
  <2>1. ~Acquiring
    BY <1>2 DEF Stored
  <2>2. UNCHANGED recording \/ StopSensors("main")
    BY DEF Teardown, ExpectWorkerExit, WorkerExitWait, ForceTerminate, CheckReturnCode,
           WorkerExitDone, FinalizeBegin, MarkResourcesStopped, CloseControl,
       WriteSessionManifest, Step, FailStopFrom, ButThreads
  <2> QED
    BY <2>1, <2>2 DEF StopSensors, Acquiring, recording
<1>5. Stored' /\ Kept'
  BY <1>1, <1>2, <1>3, <1>4, Nothing DEF Stored, Kept
<1>6. Here' \in Leaving => failStopRequested'
  <2>1. CASE WriteSessionManifest("main")
    <3>1. Goto("main", "loop") \/ failStopRequested'
      BY <2>1 DEF WriteSessionManifest, AfterFinalize, RaiseFailStop
    <3>2. Goto("main", "loop") => Here' = "loop"
      BY <1>0, HereMoves
    <3> QED
      BY <3>1, <3>2 DEF Leaving
  <2>2. CASE ~WriteSessionManifest("main")
    <3>1. \E l \in TeardownLabels \cup {"loop"} : Goto("main", l) \/ RaiseFailStop("main", l)
      BY <2>2
         DEF Teardown, ExpectWorkerExit, WorkerExitWait, ForceTerminate, CheckReturnCode,
             WorkerExitDone, FinalizeBegin, MarkResourcesStopped, CloseControl,
       StopSensors, Step, FailStopFrom, AfterFinalize, TeardownLabels
    <3>2. Here' \in TeardownLabels \cup {"loop"}
      BY <1>0, <3>1, HereMoves DEF TeardownLabels
    <3> QED
      BY <3>2 DEF Leaving, TeardownLabels
  <2> QED
    BY <2>1, <2>2
<1> QED
  BY <1>5, <1>6

\* and every other action.
LEMMA RestFiled ==
  ASSUME Filed, Here' = Here, failStopRequested => failStopRequested',
      resourcesStopped => resourcesStopped',
         ~Finished' => ~Finished /\ (Recording' <=> Recording),
         \/ \E t \in Threads : EstablishFailStop(t)
         \/ Deliver \/ StatusCallback \/ EndOfFile \/ DisconnectCallback \/ WorkerExitCallback
         \/ ReportFault \/ AdmitUserAction \/ RequestRolloutAbort \/ Worker \/ UNCHANGED vars
  PROVE  Stored' /\ Kept'
<1>0. ThreadType
  BY DEF Filed, IInv, TypeOK
<1>1. CASE \E t \in Threads : EstablishFailStop(t)
  <2>1. PICK t \in Threads : EstablishFailStop(t)
    BY <1>1
  <2>2. UNCHANGED recording
    BY <2>1 DEF EstablishFailStop
  <2>3. At("failstop")' = At("failstop") \/ At("failstop")' = "fs_record"
    BY <1>0, <2>1 DEF EstablishFailStop, ThreadType, Threads, At
  <2> QED
    BY <2>2, <2>3, OthersFiled DEF Away
<1>2. CASE \/ Deliver
           \/ StatusCallback
           \/ EndOfFile
           \/ DisconnectCallback
           \/ WorkerExitCallback
           \/ ReportFault
  <2>1. UNCHANGED recording
    BY <1>2
       DEF Deliver, StatusCallback, EndOfFile, DisconnectCallback, WorkerExitCallback, ReportFault,
           Step, FailStopFrom, ButThreads, Admit
  <2>2. \/ UNCHANGED threads
        \/ \E t \in Threads \ {"failstop"} : \E l : Goto(t, l) \/ RaiseFailStop(t, l)
    <3>1. \/ UNCHANGED threads
          \/ \E t \in {"receiver", "reader", "reporter"} : \E l : Goto(t, l) \/ RaiseFailStop(t, l)
      <4>1. CASE Deliver
        BY <4>1 DEF Deliver
      <4>2. CASE StatusCallback
        BY <4>2 DEF StatusCallback
      <4>3. CASE EndOfFile
        BY <4>3 DEF EndOfFile, Step
      <4>4. CASE DisconnectCallback
        BY <4>4 DEF DisconnectCallback, Step, FailStopFrom
      <4>5. CASE WorkerExitCallback
        BY <4>5 DEF WorkerExitCallback
      <4>6. CASE ReportFault
        BY <4>6 DEF ReportFault, FailStopFrom
      <4> QED
        BY <1>2, <4>1, <4>2, <4>3, <4>4, <4>5, <4>6
    <3> QED
      BY <3>1 DEF Threads
  <2>3. At("failstop")' = At("failstop")
    <3>1. UNCHANGED threads => At("failstop")' = At("failstop")
      BY DEF At, threads
    <3>2. ASSUME NEW t \in Threads \ {"failstop"}, NEW l, Goto(t, l) \/ RaiseFailStop(t, l)
          PROVE  At("failstop")' = At("failstop")
      BY <1>0, <3>2 DEF Goto, RaiseFailStop, At, ThreadType, Threads
    <3> QED
      BY <2>2, <3>1, <3>2
  <2> QED
    BY <2>1, <2>3, OthersFiled DEF Away
<1>3. CASE AdmitUserAction \/ RequestRolloutAbort \/ Worker \/ UNCHANGED vars
  <2>1. UNCHANGED <<recording, threads>>
    <3>1. CASE Worker
      BY <3>1
         DEF Worker, WorkerStep, WorkerReceive, WorkerCloses, WorkerExits, WorkerComplete,
             WorkerPolicyEnds, WorkerError, WorkerCrashes, Report, HangUp, ButWorker
    <3> QED
      BY <1>3, <3>1 DEF AdmitUserAction, RequestRolloutAbort, Admit, vars
  <2>2. At("failstop")' = At("failstop")
    BY <2>1 DEF At, threads
  <2> QED
    BY <2>1, <2>2, OthersFiled DEF Away
<1> QED
  BY <1>1, <1>2, <1>3

\* Admitting a command keeps a recording for those who finish it.
LEMMA AdmitRecords ==
  ASSUME TypeOK, Reserved, Handled, NEW n \in CommandNames, NEW from \in Admits,
         NEW to \in States \ Admits, Admit(n, from, to), Here' = Here, op' = op, ~Finished'
  PROVE  /\ Recording <=> from = "RUNNING"
         /\ Recording' <=> \/ HandlerOperation(Command(n, from)) \in {"STOP", "ABORT"}
                           \/ n = "rollout_completed"
<1>1. /\ Reserved' /\ commands = <<>> /\ commands' # <<>> /\ Head(commands') = Command(n, from)
  BY AdmitKept
<1>2. Here \in Between /\ state = from /\ state' = to
  BY <1>1 DEF Admit, Reserved, Finished
<1>3. Command(n, from).name = n
  BY DEF Command
<1> QED
  BY <1>1, <1>2, <1>3, AdmitExchange DEF Recording, Between

\* The steps of the other threads leave it to the main thread whether it records.
LEMMA OthersRecord ==
  ASSUME TypeOK, Reserved, Handled,
         \/ \E t \in {"main", "receiver", "reader", "reporter"} : EstablishFailStop(t)
         \/ FailStopStep
         \/ Deliver \/ StatusCallback \/ EndOfFile \/ DisconnectCallback \/ WorkerExitCallback
         \/ ReportFault \/ AdmitUserAction \/ RequestRolloutAbort \/ Worker \/ UNCHANGED vars
  PROVE  Here' = Here /\ (~Finished' => (Recording' <=> Recording))
<1>1. ThreadType
  BY DEF TypeOK
<1>2. UNCHANGED threads => Here' = Here /\ op' = op
  BY DEF threads, Here, At
<1>3. CASE AdmitUserAction
  <2>1. PICK t \in Transitions : Admit(t[1], t[2], t[3])
    BY <1>3 DEF AdmitUserAction
  <2>2. t[1] # "rollout_completed"
    BY DEF Transitions
  <2> QED
    BY <1>2, <1>3, <2>1, <2>2, AdmissionAdmits, AdmissionRolls, AdmitRecords
       DEF AdmitUserAction
<1>4. CASE RequestRolloutAbort
  <2>1. /\ "recoverable_abort" \in CommandNames
        /\ "RUNNING" \in Admits
        /\ "ABORTING" \in States \ Admits
    BY DEF CommandNames, Admits, States
  <2> QED
    BY <1>2, <1>4, <2>1, AbortRolls, AdmitRecords DEF RequestRolloutAbort
<1>5. CASE StatusCallback
  <2>1. Here' = Here /\ op' = op
    BY <1>1, <1>5, OthersMove DEF StatusCallback, Threads
  <2>3. CASE callback = "COMPLETED" /\ Admit("rollout_completed", "RUNNING", "STOPPING_ROLLOUT")
    <3>1. /\ "rollout_completed" \in CommandNames
          /\ "RUNNING" \in Admits
          /\ "STOPPING_ROLLOUT" \in States \ Admits
      BY DEF CommandNames, Admits, States
    <3> QED
      BY <2>1, <2>3, <3>1, AdmitRecords
  <2>4. CASE UNCHANGED <<commands, state>>
    BY <2>1, <2>4, Undisturbed
  <2> QED
    BY <1>5, <2>1, <2>3, <2>4 DEF StatusCallback, RaiseFailStop, session
<1>6. CASE \/ \E t \in {"main", "receiver", "reader", "reporter"} : EstablishFailStop(t)
           \/ FailStopStep \/ Deliver \/ EndOfFile \/ DisconnectCallback \/ WorkerExitCallback
           \/ ReportFault \/ Worker \/ UNCHANGED vars
  BY <1>1, <1>6, OthersStay, Undisturbed
<1> QED
  BY <1>3, <1>4, <1>5, <1>6

-----------------------------------------------------------------------------
\* The inductive invariant.
RInv == Filed /\ (~Finished => Wire)

\* Every step keeps what holds to the end of the session.
LEMMA FiledKept ==
  ASSUME Filed, [Next]_vars
  PROVE  Filed'
<1>1. TypeOK /\ Reserved /\ Handled /\ Called /\ Left
  BY DEF Filed, IInv
<1>2. Reserved' /\ Handled' /\ (Finished => Finished')
  BY <1>1, ControlKept, NextExchange
<1>3. IInv'
  BY NextSafe DEF Filed
<1>4. /\ Called'
      /\ (failStopRequested => failStopRequested')
      /\ (resourcesStopped => resourcesStopped')
  BY <1>1, CalledKept, Stops
<1>5. Stored' /\ Kept' /\ (Here' \in Leaving => failStopRequested' \/ resourcesStopped')
  <2>1. CASE Teardown("main")
    BY <1>4, <2>1, MainTearsFiled
  <2>2. CASE (MainStep \/ Interrupt) /\ ~Teardown("main") /\ ~EstablishFailStop("main")
    BY <1>1, <1>2, <1>4, <2>2, MainFiled DEF Left
  <2>3. CASE \/ \E t \in {"main", "receiver", "reader", "reporter"} : EstablishFailStop(t)
             \/ FailStopStep
             \/ Deliver \/ StatusCallback \/ EndOfFile \/ DisconnectCallback \/ WorkerExitCallback
             \/ ReportFault \/ AdmitUserAction \/ RequestRolloutAbort \/ Worker \/ UNCHANGED vars
    <3>1. Here' = Here /\ (~Finished' => ~Finished /\ (Recording' <=> Recording))
      BY <1>1, <1>2, <2>3, OthersRecord
    <3>2. Stored' /\ Kept'
      <4>1. CASE FailStopStep
        BY <1>4, <3>1, <4>1, FailStopFiled
      <4>2. CASE ~FailStopStep
        BY <1>4, <2>3, <3>1, <4>2, RestFiled DEF Threads
      <4> QED
        BY <4>1, <4>2
    <3> QED
      BY <1>1, <1>4, <3>1, <3>2 DEF Left
  <2> QED
    BY <2>1, <2>2, <2>3 DEF Next, Controller, ReceiverStep, ReaderStep, Terminated
<1>6. state' = "STOPPED" => resourcesStopped'
  <2>1. ASSUME NEW t \in Finalizers, WriteSessionManifest(t) PROVE resourcesStopped
    BY <2>1 DEF WriteSessionManifest, Filed, IInv, Marked, At
  <2> QED
    BY <1>1, <1>4, <2>1, Stops DEF Left
<1>7. resourcesStopped' => failStopRequested' \/ Finished'
  <2>1. CASE resourcesStopped
    BY <1>1, <1>2, <1>4, <2>1 DEF Left
  <2>2. CASE MarkResourcesStopped("main")
    BY <1>1, <2>2, MainTearsDown DEF Teardown
  <2>3. CASE MarkResourcesStopped("failstop")
    BY <1>1, <1>4, <2>3 DEF MarkResourcesStopped, Called
  <2> QED
    BY <1>1, <2>1, <2>2, <2>3, Stops DEF Finalizers
<1> QED
  BY <1>2, <1>3, <1>4, <1>5, <1>6, <1>7 DEF Filed, Left

\* The invariant holds initially.
LEMMA RolloutBegins == Init => RInv
<1> SUFFICES ASSUME Init PROVE RInv
  OBVIOUS
<1>1. /\ pc = [t \in Threads |->
                 IF t = "main" THEN "loop" ELSE IF t = "receiver" THEN "recv" ELSE "idle"]
      /\ Here = "loop" /\ At("failstop") = "idle"
  BY DEF Init, Here, At, Threads
<1>2. /\ state = "WAIT_START" /\ mode = "None" /\ commands = <<>> /\ store = 0 /\ activeSensors = {}
      /\ recorder = "idle" /\ ~failStopRequested /\ ~resourcesStopped
      /\ \A s \in Sensors : sensor[s] = "idle"
  BY DEF Init
<1>3. Reserved /\ Handled
  BY <1>1, <1>2 DEF Reserved, Handled, Between, Leaving, StartLabels
<1>4. ~Recording /\ ~Acquiring
  BY <1>1, <1>2 DEF Recording, Rolling, Acquiring, Between
<1>5. Stored /\ Kept
  BY <1>1, <1>2, <1>4 DEF Stored, Kept, Away, Acquiring, TeardownLabels
<1>6. Called /\ Left
  BY <1>1, <1>2 DEF Called, Left, Threads, Leaving
<1> QED
  BY <1>3, <1>5, <1>6, InitSafe, WireBegins DEF RInv, Filed

\* Every step keeps the invariant.
LEMMA RolloutKept ==
  ASSUME RInv, [Next]_vars
  PROVE  RInv'
<1>1. TypeOK /\ Reserved /\ Handled
  BY DEF RInv, Filed, IInv
<1>2. Filed'
  BY FiledKept DEF RInv
<1>3. ~Finished' => Wire'
  BY <1>1, NextExchange, WireKept DEF RInv
<1> QED
  BY <1>2, <1>3 DEF RInv

-----------------------------------------------------------------------------
\* RInv is an invariant of the session.
THEOREM RolloutInvariance == Spec => []RInv
  BY RolloutBegins, RolloutKept, PTL DEF Spec

\* When the controller idles in WAIT_START or READY, no store, sensor, recorder or worker of
\* a rollout is left over from the last one.
THEOREM QuiescentWhenIdle == Spec => []IdleMeansQuiescent
<1>1. ASSUME RInv PROVE IdleMeansQuiescent
  <2> SUFFICES ASSUME state \in {"WAIT_START", "READY"}, ~Terminating,
                      pc["main"] \in {"loop", "get"}
               PROVE  /\ store = 0 /\ activeSensors = {}
                      /\ \A s \in Sensors : sensor[s] = "idle"
                      /\ recorder = "idle"
                      /\ phase \notin {"STARTING", "RUNNING", "STOPPING", "ABORTING"}
    BY DEF IdleMeansQuiescent
  <2>1. Here = pc["main"] /\ ~failStopRequested /\ ~resourcesStopped
    BY HereAt DEF Terminating
  <2>2. commands = <<>>
    BY <1>1 DEF RInv, Filed, Reserved, Admits
  <2>3. ~Finished /\ ~Recording /\ ~Rolling
    BY <2>1, <2>2 DEF Finished, Recording, Rolling, Leaving, TeardownLabels, Admits
  <2>4. phase \notin RolloutPhases
    BY <1>1, <2>3 DEF RInv, Wire, Ended
  <2>5. /\ store = 0 /\ activeSensors = {} /\ recorder = "idle"
        /\ \A s \in Sensors : sensor[s] = "idle"
    BY <1>1, <2>1, <2>3 DEF RInv, Filed, Kept
  <2> QED
    BY <2>4, <2>5 DEF RolloutPhases
<1> QED
  BY <1>1, RolloutInvariance, PTL

\* A queued command is always the next thing the main thread handles, and the only one.
THEOREM NothingDeferred == Spec => []NoDeferredCommand
<1>1. ASSUME RInv PROVE NoDeferredCommand
  <2> SUFFICES ASSUME commands # <<>>, ~Terminating
               PROVE  Len(commands) = 1 /\ pc["main"] \in {"start_release", "loop", "get"}
    BY DEF NoDeferredCommand
  <2>1. ~failStopRequested /\ ~resourcesStopped
    BY DEF Terminating
  <2>2. Len(commands) = 1 /\ Here \in Between \cup Leaving
    BY <1>1 DEF RInv, Filed, Reserved
  <2>3. Here \notin Leaving /\ pc["main"] # "rfs"
    BY <1>1, <2>1 DEF RInv, Filed, Left, Called, Threads
  <2> QED
    BY <2>2, <2>3, HereAt DEF Between
<1> QED
  BY <1>1, RolloutInvariance, PTL

\* No sensor is stopped for good while it is acquiring: its recording is discarded first.
THEOREM DiscardedFirst == Spec => DiscardBeforeStop
<1> DEFINE A == \A s \in Sensors : sensor'[s] = "stopped" => sensor[s] # "acquiring"
<1>1. RInv /\ [Next]_vars => [A]_vars
  <2> SUFFICES ASSUME RInv, [Next]_vars, NEW s \in Sensors, sensor'[s] = "stopped"
               PROVE  sensor[s] # "acquiring"
    OBVIOUS
  <2>0. IInv /\ RecordingType /\ Stored
    BY DEF RInv, Filed, IInv, TypeOK
  <2>1. CASE UNCHANGED recording \/ BeginRecording \/ StartRecorder
    BY <2>1 DEF recording, BeginRecording, StartRecorder
  <2>2. CASE SensorStart
    BY <2>0, <2>2 DEF SensorStart, RecordingType, Sensors
  <2>3. CASE \E failed \in SUBSET activeSensors : FinalizeSensors(failed)
    BY <2>3 DEF FinalizeSensors
  <2>4. CASE \E status, errors : errors \in BOOLEAN /\ FinishRecording(status, errors)
    <3>1. UNCHANGED sensor \/ \E failed \in SUBSET activeSensors : FinalizeSensors(failed)
      BY <2>4 DEF FinishRecording, Unacknowledged, recording
    <3> QED
      BY <3>1, <2>3
  <2>5. CASE \E t \in Finalizers : StopSensors(t)
    <3>1. StopSensors("main") => Here \in TeardownLabels
      BY HereAt DEF StopSensors, TeardownLabels
    <3>2. StopSensors("failstop") => Away
      BY DEF StopSensors, Away, At
    <3>3. ~Acquiring
      BY <2>0, <2>5, <3>1, <3>2 DEF Stored, Finalizers
    <3> QED
      BY <3>3 DEF Acquiring
  <2> QED
    BY <2>0, <2>1, <2>2, <2>3, <2>4, <2>5, WhatChanges
<1> QED
  BY <1>1, RolloutInvariance, PTL DEF Spec, DiscardBeforeStop

\* A manifest turns done only when the main thread finishes a recording without an error.
LEMMA Filing ==
  ASSUME Filed, [Next]_vars,
         NEW i \in 1..MaxRollouts, rolloutManifest'[i] = "done", rolloutManifest[i] # "done"
  PROVE  /\ Here \in {"fin_record", "comp_record", "sd_record"}
         /\ FinishRecording("done", FALSE)
<1>1. IInv /\ TypeOK /\ Reserved /\ Handled /\ RecordingType
  BY DEF Filed, IInv, TypeOK
<1>2. rolloutManifest' # rolloutManifest
  OBVIOUS
<1>3. ASSUME NEW status, NEW errors \in BOOLEAN, FinishRecording(status, errors)
      PROVE  status = "done" /\ ~errors
  BY <1>1, <1>3 DEF FinishRecording, RecordingType, recording
<1>4. CASE Controller /\ ~(MainStep \/ Interrupt)
  <2>1. ~FailStopRecord
    BY <1>3 DEF FailStopRecord, FailRecordingBestEffort
  <2> QED
    BY <1>2, <1>4, <2>1
       DEF Controller, FailStopStep, FailStopDeliver, FailStopPoll, Teardown, ExpectWorkerExit,
           WorkerExitWait, ForceTerminate, CheckReturnCode, WorkerExitDone, FinalizeBegin,
           MarkResourcesStopped, CloseControl, StopSensors, WriteSessionManifest, Step, ButThreads,
           ButRecorded, ButWorker, recording, ReceiverStep, ReaderStep, EstablishFailStop, Deliver,
           StatusCallback, EndOfFile, DisconnectCallback, WorkerExitCallback, AdmitUserAction,
           RequestRolloutAbort, ReportFault, Admit, FailStopFrom, RaiseFailStop, session, worker,
           teardown
<1>5. CASE MainStep \/ Interrupt
  <2>1. ~BeginRecording /\ ~SensorCheck /\ ~SensorStart /\ ~StartRecorder
    BY <1>2
       DEF BeginRecording, SensorCheck, DiscardActiveSensors, SensorStart, StartRecorder, recording
  <2>2. ~StartFailed /\ ~FinishFailed
    BY <1>3 DEF StartFailed, FailRecordingBestEffort, FinishFailed, RecordAndGoto
  <2>3. ~Teardown("main")
    BY <1>2
       DEF Teardown, ExpectWorkerExit, WorkerExitWait, ForceTerminate, CheckReturnCode,
           WorkerExitDone, FinalizeBegin, MarkResourcesStopped, CloseControl, StopSensors,
           WriteSessionManifest, Step, ButThreads, ButRecorded, ButWorker, recording, FailStopFrom,
           RaiseFailStop, session, worker, teardown
  <2>4. ~EstablishFailStop("main")
    BY <1>2 DEF EstablishFailStop, recording
  <2>5. FinishRecord \/ CompletedRecord \/ ShutdownRecord
    <3>1. ~Still
      BY <1>2 DEF Still, recording
    <3> QED
      BY <1>1, <1>5, <2>1, <2>2, <2>3, <2>4, <3>1, MainStill
  <2>6. /\ pc["main"] \in {"fin_record", "comp_record", "sd_record"}
        /\ \E status, errors : errors \in BOOLEAN /\ FinishRecording(status, errors)
    BY <2>5 DEF FinishRecord, CompletedRecord, ShutdownRecord, RecordAndGoto
  <2> QED
    BY <1>3, <2>6, HereAt
<1>6. CASE Worker \/ Terminated \/ UNCHANGED vars
  BY <1>2, <1>6
     DEF Worker, WorkerStep, WorkerReceive, WorkerCloses, WorkerExits, WorkerComplete,
         WorkerPolicyEnds, WorkerError, WorkerCrashes, Report, HangUp, ButWorker, recording, vars,
         Terminated
<1> QED
  BY <1>4, <1>5, <1>6 DEF Next

\* What has settled by then.
LEMMA Settles ==
  ASSUME Filed, Wire, Here \in {"fin_record", "comp_record", "sd_record"}, FinishRecording("done",
      FALSE),
         rolloutManifest' # rolloutManifest
  PROVE  /\ phase \notin RolloutPhases
         /\ activeSensors' = {} /\ recorder' = "idle"
         /\ resourcesStopped \/ \A s \in Sensors : sensor'[s] = "idle"
<1>1. ~Finished /\ ~Rolling
  BY DEF Finished, Rolling, Leaving, TeardownLabels, Between
<1>2. phase \notin RolloutPhases
  BY <1>1 DEF Wire, Ended
<1>3. FinalizeSensors({}) /\ recorder' = "idle"
  BY DEF FinishRecording, recording
<1>4. resourcesStopped \/ \A s \in Sensors : s \in activeSensors \/ sensor[s] = "idle"
  BY <1>1 DEF Filed, Kept
<1> QED
  BY <1>2, <1>3, <1>4 DEF FinalizeSensors

\* A manifest says done only when the worker has left the rollout, the recorder has stopped
\* and every sensor has acknowledged, or the teardown has stopped it.
THEOREM SettledWhenDone == Spec => DoneMeansSettled
<1> DEFINE A == \A i \in 1..MaxRollouts :
                  rolloutManifest'[i] = "done" /\ rolloutManifest[i] # "done" =>
                    /\ phase \notin {"STARTING", "RUNNING", "STOPPING", "ABORTING"}
                    /\ activeSensors' = {} /\ recorder' = "idle"
                    /\ resourcesStopped \/ \A s \in Sensors : sensor'[s] = "idle"
<1>1. RInv /\ [Next]_vars => [A]_vars
  <2> SUFFICES ASSUME RInv, [Next]_vars, NEW i \in 1..MaxRollouts,
                      rolloutManifest'[i] = "done", rolloutManifest[i] # "done"
               PROVE  /\ phase \notin {"STARTING", "RUNNING", "STOPPING", "ABORTING"}
                      /\ activeSensors' = {} /\ recorder' = "idle"
                      /\ resourcesStopped \/ \A s \in Sensors : sensor'[s] = "idle"
    OBVIOUS
  <2>1. Here \in {"fin_record", "comp_record", "sd_record"} /\ FinishRecording("done", FALSE)
    BY Filing DEF RInv
  <2>2. ~Finished
    BY <2>1 DEF Finished, Leaving, TeardownLabels, Between
  <2>3. rolloutManifest' # rolloutManifest
    OBVIOUS
  <2> QED
    BY <2>1, <2>2, <2>3, Settles DEF RInv, RolloutPhases
<1> QED
  BY <1>1, RolloutInvariance, PTL DEF Spec, DoneMeansSettled
===============================================================================
