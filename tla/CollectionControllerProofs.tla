--------------------- MODULE CollectionControllerProofs ---------------------
(***************************************************************************)
(* Theorems about CollectionController, for every number of inputs and     *)
(* faults and every set of faults: its types, that the devices are always  *)
(* where the controller takes them to be, that every demo gets the one     *)
(* manifest it deserves, and that no death of RealSense is overlooked.     *)
(*                                                                         *)
(* ControllerMatchesDevices speaks of the loop only and is not inductive:  *)
(* IInv follows the devices through every handler, with those still to be  *)
(* commanded, those that answered and those that did not (Tracked).        *)
(***************************************************************************)
EXTENDS CollectionController, FiniteSetTheorems, SequenceTheorems, TLAPS

\* Labels from which the thread can still come back to its loop.
Live == {"services", "bootstrap", "ready", "loop", "start", "record", "resume", "rollback",
         "pause", "autopause", "finish", "discard", "restart", "relaunch", "readiness"}

SensorsIn(S) == \A s \in Sensors : sensor[s] \in S

AtRest ==
  state = "WAIT_START" /\ store = 0 /\ bag \in {"idle", "unacked"} /\ SensorsIn({"idle", "unacked"})

Resting ==
  state = "PAUSED" /\ store # 0 /\ recordStarted /\ bag = "paused" /\ SensorsIn({"paused"})

Collecting ==
  state = "COLLECTING" /\ store # 0 /\ recordStarted /\ bag = "recording"
  /\ SensorsIn({"acquiring"})

\* Before the first command.
Booting ==
  /\ pc \in {"services", "bootstrap", "ready"} =>
       /\ state \in {"STARTING_SERVICES", "INIT"} /\ store = 0
       /\ SensorsIn({"idle"})
  /\ pc = "services" => camera = "off" /\ ~expectedExit
  /\ pc = "ready" => bag = "idle"
  /\ pc \in Live /\ camera = "off" => pc = "services"

Waiting ==
  /\ pc = "loop" => AtRest \/ Resting \/ Collecting
  /\ pc \in {"restart", "relaunch", "readiness"} => AtRest \/ Resting

\* A start or a resume: the sensors commanded so far acquire, the others are as they were.
Starting ==
  pc \in {"start", "record", "resume"} =>
    /\ store # 0 /\ todo \subseteq (IF pc = "start" THEN Sensors ELSE {})
    /\ \A s \in Sensors :
         sensor[s] \in IF s \notin todo THEN {"acquiring"}
                       ELSE IF newDemo THEN {"idle", "unacked"} ELSE {"paused"}
    /\ state = IF newDemo THEN "WAIT_START" ELSE "PAUSED"
    /\ recordStarted <=> ~newDemo \/ pc = "resume"
    /\ bag \in IF recordStarted THEN {"paused"} ELSE {"idle", "unacked"}

\* Its rollback: what is not to be discarded is at rest, or failed to confirm.
RollingBack ==
  pc = "rollback" =>
    /\ store # 0
    /\ \A s \in Sensors :
         sensor[s] \in IF s \in todo THEN {"acquiring", "paused", "unacked"}
                       ELSE IF s \in failed THEN {"unknown"} ELSE {"idle", "unacked"}
    /\ "rosbag" \notin todo \cup failed => bag \in {"idle", "unacked"}

Pausing ==
  pc \in {"pause", "autopause"} =>
    /\ state = "PAUSED" /\ store # 0 /\ recordStarted
    /\ \A s \in Sensors :
         sensor[s] \in IF s \in todo THEN {"acquiring"}
                       ELSE IF s \in failed THEN {"unknown"} ELSE {"paused"}
    /\ "rosbag" \notin todo \cup failed => bag = "paused"

Ending ==
  pc \in {"finish", "discard"} =>
    /\ state = IF pc = "finish" THEN "FINALIZING" ELSE "DISCARDING"
    /\ store # 0
    /\ \A s \in Sensors :
         sensor[s] \in IF s \in todo THEN {"acquiring", "paused"}
                       ELSE IF s \in failed THEN {"unknown"} ELSE {"idle"}
    /\ "rosbag" \notin todo \cup failed => bag = "idle"

\* Where the devices are, whatever the thread is doing.
Tracked ==
  /\ Booting /\ Waiting /\ Starting /\ RollingBack /\ Pausing /\ Ending
  /\ pc = "abort" => store # 0 /\ state \in {"COLLECTING", "PAUSED", "ERROR"}
  /\ SensorsIn({"idle", "acquiring", "paused", "unacked", "unknown", "stopped"})

\* The manifests: the open demo has none until its handler ends, every other demo has its own.
Manifested ==
  /\ \A d \in Demos : d > demos => manifest[d] = "none"
  /\ \A d \in 1..demos : d # store => manifest[d] # "none"
  /\ store # 0 /\ manifest[store] # "none" => state \in {"STOPPING", "STOPPED"}
  /\ state \in {"STOPPING", "STOPPED"} => pc \in {"stop", "leave", "end"}
  /\ frame = "try" /\ state \in {"STOPPING", "STOPPED"} /\ store # 0 => manifest[store] # "none"
  /\ frame = "try" /\ pc = "end" => state = "STOPPED"
  /\ pc = "stop" => state = "STOPPING"

\* Every exit that is still to be reported is accounted for: the one that is expected, and that
\* of the process that died by itself.
Owed == (IF expectedExit THEN 1 ELSE 0) + (IF camera = "dead" /\ pc # "relaunch" THEN 1 ELSE 0)

ExitsAccounted == pc \in Live => Queued("process_exit") \/ unread >= Owed

\* Demos are created by keys that were typed.
StartsIn(queue) == {i \in DOMAIN queue : queue[i].name = "s"}

DemosTyped == demos + Cardinality(StartsIn(commands)) <= inputs

\* The inductive invariant.
IInv == TypeOK /\ Tracked /\ Manifested /\ ExitsAccounted /\ DemosTyped

\* What ManifestTruthful says of one step.
Truthful ==
  \A d \in Demos :
    /\ manifest[d] # "none" => manifest'[d] = manifest[d]
    /\ manifest[d] # "done" /\ manifest'[d] = "done" =>
         bag = "idle" /\ \A s \in Sensors : sensor[s] = "idle"

-----------------------------------------------------------------------------
(***************************************************************************)
(* The queue.                                                              *)
(***************************************************************************)
\* The command at the head of the queue, and what follows it.
LEMMA QueueHead ==
  ASSUME commands \in Seq(Entries), commands # <<>>
  PROVE  Head(commands) \in Entries /\ Tail(commands) \in Seq(Entries)
  BY HeadTailProperties

\* What is queued stays queued but for the command that is taken.
LEMMA QueuedTail ==
  ASSUME commands \in Seq(Entries), commands # <<>>, NEW name,
         commands' = Tail(commands), Queued(name), Head(commands).name # name
  PROVE  Queued(name)'
<1>1. PICK i \in DOMAIN commands : commands[i].name = name
  BY DEF Queued
<1>2. i \in 1..Len(commands) /\ i # 1
  BY <1>1
<1>3. i - 1 \in 1..Len(Tail(commands)) /\ Tail(commands)[i - 1] = commands[i]
  BY <1>2, HeadTailProperties
<1>4. i - 1 \in DOMAIN Tail(commands)
  BY <1>3, HeadTailProperties
<1> QED
  BY <1>1, <1>3, <1>4 DEF Queued

\* A queue that does not change holds what it held.
LEMMA QueuedSame ==
  ASSUME commands' = commands, NEW name
  PROVE  Queued(name)' <=> Queued(name)
  BY DEF Queued

\* An element that is appended is queued, and so is what was.
LEMMA QueuedAppend ==
  ASSUME commands \in Seq(Entries), NEW name, NEW e \in Entries,
         commands' = Append(commands, e), Queued(name) \/ e.name = name
  PROVE  Queued(name)'
<1>1. CASE Queued(name)
  <2>1. PICK i \in DOMAIN commands : commands[i].name = name
    BY <1>1 DEF Queued
  <2>2. i \in DOMAIN commands' /\ commands'[i] = commands[i]
    BY <2>1, AppendProperties
  <2> QED
    BY <2>1, <2>2 DEF Queued
<1>2. CASE e.name = name
  <2>1. Len(commands) + 1 \in DOMAIN commands' /\ commands'[Len(commands) + 1] = e
    BY AppendProperties
  <2> QED
    BY <1>2, <2>1 DEF Queued
<1> QED
  BY <1>1, <1>2

\* How many "s" keys a queue holds, and after an element is appended or taken.
LEMMA CountFinite ==
  ASSUME NEW queue \in Seq(Entries)
  PROVE  IsFiniteSet(StartsIn(queue)) /\ Cardinality(StartsIn(queue)) \in Nat
<1>1. IsFiniteSet(1..Len(queue))
  BY FS_Interval
<1>2. StartsIn(queue) \in SUBSET (1..Len(queue))
  BY DEF StartsIn
<1> QED
  BY <1>1, <1>2, FS_Subset, FS_CardinalityType

\* Appending a command adds the demo it starts.
LEMMA CountAppend ==
  ASSUME NEW queue \in Seq(Entries), NEW e \in Entries
  PROVE  Cardinality(StartsIn(Append(queue, e)))
           = Cardinality(StartsIn(queue)) + IF e.name = "s" THEN 1 ELSE 0
<1>1. StartsIn(Append(queue, e))
        = StartsIn(queue) \cup IF e.name = "s" THEN {Len(queue) + 1} ELSE {}
  BY AppendProperties DEF StartsIn
<1>2. Len(queue) + 1 \notin StartsIn(queue)
  BY DEF StartsIn
<1>3. CASE e.name = "s"
  BY <1>1, <1>2, <1>3, CountFinite, FS_AddElement
<1>4. CASE e.name # "s"
  <2>1. StartsIn(Append(queue, e)) = StartsIn(queue)
    BY <1>1, <1>4
  <2> QED
    BY <1>4, <2>1, CountFinite
<1> QED
  BY <1>3, <1>4

\* Taking a command removes the demo it starts.
LEMMA CountTail ==
  ASSUME NEW queue \in Seq(Entries), queue # <<>>
  PROVE  Cardinality(StartsIn(Tail(queue)))
           = Cardinality(StartsIn(queue)) - IF Head(queue).name = "s" THEN 1 ELSE 0
<1> DEFINE S == StartsIn(Tail(queue))
           T == StartsIn(queue) \ {1}
           shift == [i \in S |-> i + 1]
<1>1. Tail(queue) \in Seq(Entries) /\ Len(Tail(queue)) = Len(queue) - 1
      /\ \A i \in 1..Len(Tail(queue)) : Tail(queue)[i] = queue[i + 1]
  BY HeadTailProperties
<1>2. \A i \in S : i \in Nat \ {0} /\ i + 1 \in T
  BY <1>1 DEF StartsIn
<1>3. \A j \in T : j - 1 \in S
  BY <1>1 DEF StartsIn
<1>4. shift \in Bijection(S, T)
  <2>1. shift \in [S -> T]
    BY <1>2
  <2>2. ASSUME NEW i \in S, NEW j \in S, shift[i] = shift[j] PROVE i = j
    BY <2>2, <1>2
  <2>3. ASSUME NEW j \in T PROVE \E i \in S : shift[i] = j
    <3>1. j - 1 \in S /\ shift[j - 1] = (j - 1) + 1
      BY <1>3, <2>3
    <3>2. j \in Nat
      BY <2>3 DEF StartsIn
    <3> QED
      BY <3>1, <3>2
  <2> QED
    BY <2>1, <2>2, <2>3 DEF Bijection, Injection, IsInjective, Surjection
<1>5. IsFiniteSet(S)
  BY <1>1, CountFinite
<1>6. Cardinality(T) = Cardinality(S)
  BY <1>4, <1>5, FS_Bijection DEF ExistsBijection
<1>7. 1 \in StartsIn(queue) <=> Head(queue).name = "s"
  BY DEF StartsIn
<1> HIDE DEF S, T
<1>8. Cardinality(T) = Cardinality(StartsIn(queue)) - IF Head(queue).name = "s" THEN 1 ELSE 0
  <2>1. CASE Head(queue).name = "s"
    BY <1>7, <2>1, CountFinite, FS_RemoveElement DEF T
  <2>2. CASE Head(queue).name # "s"
    <3>1. T = StartsIn(queue)
      BY <1>7, <2>2 DEF T
    <3> QED
      BY <2>2, <3>1, CountFinite
  <2> QED
    BY <2>1, <2>2
<1> QED
  BY <1>6, <1>8 DEF S

\* Every step keeps the queue a sequence of entries.
LEMMA QueueStep ==
  ASSUME IInv, [Next]_vars
  PROVE  QueueType'
<1> USE DEF IInv, TypeOK, QueueType, Entries, Keys, ProcessType, demo, thread, devices, process,
            bounds
<1>1. CASE StartServices
  BY <1>1, QueueHead DEF StartServices, Fails, BeginStop, Transact
<1>2. CASE StopBootstrap
  BY <1>2, QueueHead DEF StopBootstrap, Fails, BeginStop, Transact
<1>3. CASE StartupReady
  BY <1>3, QueueHead DEF StartupReady, Fails, BeginStop, Transact
<1>4. CASE Reject
  BY <1>4, QueueHead DEF Reject, Take
<1>5. CASE StartOrResume
  BY <1>5, QueueHead DEF StartOrResume, Take, Transact
<1>6. CASE PauseDemo
  BY <1>6, QueueHead DEF PauseDemo, Take, Transact
<1>7. CASE FinishDemo
  BY <1>7, QueueHead DEF FinishDemo, Take, Transact
<1>8. CASE DiscardDemo
  BY <1>8, QueueHead DEF DiscardDemo, Take, Transact
<1>9. CASE Quit
  BY <1>9, QueueHead DEF Quit, Take, AbortOrStop, ActiveDemo, BeginAbort, BeginStop, Transact
<1>10. CASE UnrecoverableFatal
  BY <1>10, QueueHead
     DEF UnrecoverableFatal, Take, AbortOrStop, ActiveDemo, BeginAbort, BeginStop, Transact
<1>11. CASE RealsenseFatal
  BY <1>11, QueueHead DEF RealsenseFatal, Take, Transact
<1>12. CASE Leave
  BY <1>12, QueueHead DEF Leave, BeginStop, Transact
<1>13. CASE CommandDevice
  BY <1>13, QueueHead
     DEF CommandDevice, Turn, Rank, SensorCommand, BagCommand, Legal, Target, Unconfirmed, Request,
         Fails
<1>14. CASE StartSensor
  BY <1>14, QueueHead DEF StartSensor, Turn, Rank, Legal, Fails, Rollback, Transact
<1>15. CASE CheckImages
  BY <1>15, QueueHead DEF CheckImages, Fails, Rollback, Transact
<1>16. CASE RecordBag
  BY <1>16, QueueHead DEF RecordBag, Fails, Rollback, Transact
<1>17. CASE ResumeBag
  BY <1>17, QueueHead DEF ResumeBag, Fails, Rollback, Transact
<1>18. CASE RolledBack
  BY <1>18, QueueHead DEF RolledBack, Write, Forget, SaveFails, LoopFails, Escapes, Fails,
                          BeginStop, Transact
<1>19. CASE Paused
  BY <1>19, QueueHead DEF Paused, Write, Forget, SaveFails, LoopFails, Escapes, Fails, BeginStop,
                          Transact
<1>20. CASE Finished
  BY <1>20, QueueHead DEF Finished, Write, Forget, SaveFails, LoopFails, Escapes, Fails,
                          BeginStop, Transact
<1>21. CASE Discarded
  BY <1>21, QueueHead DEF Discarded, Write, Forget, SaveFails, LoopFails, Escapes, Fails,
                          BeginStop, Transact
<1>22. CASE Aborted
  BY <1>22, QueueHead DEF Aborted, Write, Forget, SaveFails, LoopFails, Escapes, Fails, BeginStop,
                          Transact
<1>23. CASE StopCamera
  BY <1>23, QueueHead DEF StopCamera, KillCamera, Alive
<1>24. CASE RelaunchCamera
  BY <1>24, QueueHead DEF RelaunchCamera
<1>25. CASE CameraReady
  BY <1>25, QueueHead
     DEF CameraReady, Alive, Fails, AbortOrStop, ActiveDemo, BeginAbort, BeginStop, Transact
<1>26. CASE Teardown
  BY <1>26, QueueHead DEF Teardown, KillCamera, Alive
<1>27. CASE ReportExit
  <2>1. CASE expectedExit
    BY <1>27, <2>1 DEF ReportExit
  <2>2. CASE ~expectedExit
    <3>1. commands' = Append(commands, [name |-> "process_exit", epoch |-> epoch])
      BY <1>27, <2>2 DEF ReportExit, Enqueue
    <3> QED
      BY <3>1
  <2> QED
    BY <2>1, <2>2
<1>28. ASSUME NEW key \in Keys, Type(key) PROVE QueueType'
  BY <1>28, QueueHead DEF Type, Enqueue
<1>29. CASE CameraFatalLine
  BY <1>29, QueueHead DEF CameraFatalLine, Event, Alive, Enqueue
<1>30. CASE CameraExits
  BY <1>30, QueueHead DEF CameraExits, Event, Alive
<1>31. CASE ReceiverFails
  BY <1>31, QueueHead DEF ReceiverFails, Event, Enqueue
<1>32. CASE Interrupt
  BY <1>32, QueueHead DEF Interrupt, AbortOrStop, ActiveDemo, BeginAbort, BeginStop, Transact
<1>33. CASE UNCHANGED vars
  BY <1>33 DEF vars
<1> QED
  BY <1>1, <1>2, <1>3, <1>4, <1>5, <1>6, <1>7, <1>8, <1>9, <1>10, <1>11, <1>12, <1>13, <1>14,
     <1>15, <1>16, <1>17, <1>18, <1>19, <1>20, <1>21, <1>22, <1>23, <1>24, <1>25, <1>26, <1>27,
     <1>28, <1>29, <1>30, <1>31, <1>32, <1>33
     DEF Next, Main, Environment

\* Every step keeps the types of the state and of the demos; a new demo needs a key.
LEMMA DemoTypeStep ==
  ASSUME IInv, [Next]_vars
  PROVE  DemoType'
<1> USE DEF IInv, TypeOK, DemoType, Demos, demo, thread, devices, process, bounds
<1>1. CASE StartServices
  BY <1>1, CollectionAssumption DEF StartServices, Fails, BeginStop, Transact
<1>2. CASE StopBootstrap
  BY <1>2, CollectionAssumption DEF StopBootstrap, Fails, BeginStop, Transact
<1>3. CASE StartupReady
  BY <1>3, CollectionAssumption DEF StartupReady, Fails, BeginStop, Transact
<1>4. CASE Reject
  BY <1>4, CollectionAssumption DEF Reject, Take
<1>5. CASE StartOrResume
  <2>1. recordStarted' \in BOOLEAN
    BY <1>5 DEF StartOrResume
  <2>2. state' = state /\ manifest' = manifest /\ store' \in {store, demos'} /\ demos' \in {demos,
      demos + 1}
    BY <1>5 DEF StartOrResume
  <2>3. Head(commands).name = "s" /\ commands \in Seq(Entries) /\ commands # <<>>
    BY <1>5 DEF StartOrResume, Take, QueueType
  <2>4. /\ Cardinality(StartsIn(Tail(commands))) = Cardinality(StartsIn(commands)) - 1
        /\ {Cardinality(StartsIn(commands)), Cardinality(StartsIn(Tail(commands)))} \subseteq Nat
    BY <2>3, CountFinite, CountTail, QueueHead
  <2>5. demos + 1 <= MaxInputs
    BY <2>4, CollectionAssumption DEF DemosTyped
  <2> QED
    BY <2>1, <2>2, <2>5
<1>6. CASE PauseDemo
  BY <1>6, CollectionAssumption DEF PauseDemo, Take, Transact
<1>7. CASE FinishDemo
  BY <1>7, CollectionAssumption DEF FinishDemo, Take, Transact
<1>8. CASE DiscardDemo
  BY <1>8, CollectionAssumption DEF DiscardDemo, Take, Transact
<1>9. CASE Quit
  BY <1>9, CollectionAssumption
     DEF Quit, Take, AbortOrStop, ActiveDemo, BeginAbort, BeginStop, Transact
<1>10. CASE UnrecoverableFatal
  BY <1>10, CollectionAssumption
     DEF UnrecoverableFatal, Take, AbortOrStop, ActiveDemo, BeginAbort, BeginStop, Transact
<1>11. CASE RealsenseFatal
  BY <1>11, CollectionAssumption DEF RealsenseFatal, Take, Transact
<1>12. CASE Leave
  BY <1>12, CollectionAssumption DEF Leave, BeginStop, Transact
<1>13. CASE CommandDevice
  BY <1>13, CollectionAssumption
     DEF CommandDevice, Turn, Rank, SensorCommand, BagCommand, Legal, Target, Unconfirmed, Request,
         Fails
<1>14. CASE StartSensor
  BY <1>14, CollectionAssumption DEF StartSensor, Turn, Rank, Legal, Fails, Rollback, Transact
<1>15. CASE CheckImages
  BY <1>15, CollectionAssumption DEF CheckImages, Fails, Rollback, Transact
<1>16. CASE RecordBag
  BY <1>16, CollectionAssumption DEF RecordBag, Fails, Rollback, Transact
<1>17. CASE ResumeBag
  BY <1>17, CollectionAssumption DEF ResumeBag, Fails, Rollback, Transact
<1>18. CASE RolledBack
  <2>1. recordStarted' \in BOOLEAN
    BY <1>18 DEF RolledBack, Write, Forget, SaveFails, LoopFails, Escapes, Fails, BeginStop,
                 Transact
  <2>2. /\ state' \in {"WAIT_START", "STOPPING", "STOPPED", state}
        /\ demos' = demos /\ store' \in {0, store}
    BY <1>18 DEF RolledBack, Write, Forget, SaveFails, LoopFails, Escapes, Fails, BeginStop,
                 Transact
  <2>3. manifest' \in [Demos -> {"none", "done", "failed", "discarded"}]
    BY <1>18 DEF RolledBack, Write, Forget, SaveFails, LoopFails, Escapes, Fails, BeginStop,
                 Transact
  <2> QED
    BY <2>1, <2>2, <2>3
<1>19. CASE Paused
  BY <1>19, CollectionAssumption DEF Paused, Write, Forget, SaveFails, LoopFails, Escapes, Fails,
                                     BeginStop, Transact
<1>20. CASE Finished
  <2>1. recordStarted' \in BOOLEAN
    BY <1>20 DEF Finished, Write, Forget, SaveFails, LoopFails, Escapes, Fails, BeginStop, Transact
  <2>2. /\ state' \in {"WAIT_START", "STOPPING", "STOPPED", state}
        /\ demos' = demos /\ store' \in {0, store}
    BY <1>20 DEF Finished, Write, Forget, SaveFails, LoopFails, Escapes, Fails, BeginStop, Transact
  <2>3. manifest' \in [Demos -> {"none", "done", "failed", "discarded"}]
    BY <1>20 DEF Finished, Write, Forget, SaveFails, LoopFails, Escapes, Fails, BeginStop, Transact
  <2> QED
    BY <2>1, <2>2, <2>3
<1>21. CASE Discarded
  <2>1. recordStarted' \in BOOLEAN
    BY <1>21 DEF Discarded, Write, Forget, SaveFails, LoopFails, Escapes, Fails, BeginStop, Transact
  <2>2. /\ state' \in {"WAIT_START", "STOPPING", "STOPPED", state}
        /\ demos' = demos /\ store' \in {0, store}
    BY <1>21 DEF Discarded, Write, Forget, SaveFails, LoopFails, Escapes, Fails, BeginStop, Transact
  <2>3. manifest' \in [Demos -> {"none", "done", "failed", "discarded"}]
    BY <1>21 DEF Discarded, Write, Forget, SaveFails, LoopFails, Escapes, Fails, BeginStop, Transact
  <2> QED
    BY <2>1, <2>2, <2>3
<1>22. CASE Aborted
  <2>1. recordStarted' \in BOOLEAN
    BY <1>22 DEF Aborted, Write, Forget, SaveFails, LoopFails, Escapes, Fails, BeginStop, Transact
  <2>2. /\ state' \in {"WAIT_START", "STOPPING", "STOPPED", state}
        /\ demos' = demos /\ store' \in {0, store}
    BY <1>22 DEF Aborted, Write, Forget, SaveFails, LoopFails, Escapes, Fails, BeginStop, Transact
  <2>3. manifest' \in [Demos -> {"none", "done", "failed", "discarded"}]
    BY <1>22 DEF Aborted, Write, Forget, SaveFails, LoopFails, Escapes, Fails, BeginStop, Transact
  <2> QED
    BY <2>1, <2>2, <2>3
<1>23. CASE StopCamera
  BY <1>23, CollectionAssumption DEF StopCamera, KillCamera, Alive
<1>24. CASE RelaunchCamera
  BY <1>24, CollectionAssumption DEF RelaunchCamera
<1>25. CASE CameraReady
  BY <1>25, CollectionAssumption
     DEF CameraReady, Alive, Fails, AbortOrStop, ActiveDemo, BeginAbort, BeginStop, Transact
<1>26. CASE Teardown
  BY <1>26, CollectionAssumption DEF Teardown, KillCamera, Alive
<1>27. CASE ReportExit
  BY <1>27, CollectionAssumption DEF ReportExit, Enqueue
<1>28. ASSUME NEW key \in Keys, Type(key) PROVE DemoType'
  BY <1>28, CollectionAssumption DEF Type, Enqueue
<1>29. CASE CameraFatalLine
  BY <1>29, CollectionAssumption DEF CameraFatalLine, Event, Alive, Enqueue
<1>30. CASE CameraExits
  BY <1>30, CollectionAssumption DEF CameraExits, Event, Alive
<1>31. CASE ReceiverFails
  BY <1>31, CollectionAssumption DEF ReceiverFails, Event, Enqueue
<1>32. CASE Interrupt
  BY <1>32, CollectionAssumption
     DEF Interrupt, AbortOrStop, ActiveDemo, BeginAbort, BeginStop, Transact
<1>33. CASE UNCHANGED vars
  BY <1>33 DEF vars
<1> QED
  BY <1>1, <1>2, <1>3, <1>4, <1>5, <1>6, <1>7, <1>8, <1>9, <1>10, <1>11, <1>12, <1>13, <1>14,
     <1>15, <1>16, <1>17, <1>18, <1>19, <1>20, <1>21, <1>22, <1>23, <1>24, <1>25, <1>26, <1>27,
     <1>28, <1>29, <1>30, <1>31, <1>32, <1>33
     DEF Next, Main, Environment

\* Every step keeps the types of the RealSense process.
LEMMA ProcessTypeStep ==
  ASSUME IInv, [Next]_vars
  PROVE  ProcessType'
<1> USE DEF IInv, TypeOK, ProcessType, demo, thread, devices, process, bounds
<1>1. CASE StartServices
  BY <1>1 DEF StartServices, Fails, BeginStop, Transact
<1>2. CASE StopBootstrap
  BY <1>2 DEF StopBootstrap, Fails, BeginStop, Transact
<1>3. CASE StartupReady
  BY <1>3 DEF StartupReady, Fails, BeginStop, Transact
<1>4. CASE Reject
  BY <1>4 DEF Reject, Take
<1>5. CASE StartOrResume
  BY <1>5 DEF StartOrResume, Take, Transact
<1>6. CASE PauseDemo
  BY <1>6 DEF PauseDemo, Take, Transact
<1>7. CASE FinishDemo
  BY <1>7 DEF FinishDemo, Take, Transact
<1>8. CASE DiscardDemo
  BY <1>8 DEF DiscardDemo, Take, Transact
<1>9. CASE Quit
  BY <1>9 DEF Quit, Take, AbortOrStop, ActiveDemo, BeginAbort, BeginStop, Transact
<1>10. CASE UnrecoverableFatal
  BY <1>10 DEF UnrecoverableFatal, Take, AbortOrStop, ActiveDemo, BeginAbort, BeginStop, Transact
<1>11. CASE RealsenseFatal
  BY <1>11 DEF RealsenseFatal, Take, Transact
<1>12. CASE Leave
  BY <1>12 DEF Leave, BeginStop, Transact
<1>13. CASE CommandDevice
  BY <1>13
     DEF CommandDevice, Turn, Rank, SensorCommand, BagCommand, Legal, Target, Unconfirmed, Request,
         Fails
<1>14. CASE StartSensor
  BY <1>14 DEF StartSensor, Turn, Rank, Legal, Fails, Rollback, Transact
<1>15. CASE CheckImages
  BY <1>15 DEF CheckImages, Fails, Rollback, Transact
<1>16. CASE RecordBag
  BY <1>16 DEF RecordBag, Fails, Rollback, Transact
<1>17. CASE ResumeBag
  BY <1>17 DEF ResumeBag, Fails, Rollback, Transact
<1>18. CASE RolledBack
  BY <1>18 DEF RolledBack, Write, Forget, SaveFails, LoopFails, Escapes, Fails, BeginStop, Transact
<1>19. CASE Paused
  BY <1>19 DEF Paused, Write, Forget, SaveFails, LoopFails, Escapes, Fails, BeginStop, Transact
<1>20. CASE Finished
  BY <1>20 DEF Finished, Write, Forget, SaveFails, LoopFails, Escapes, Fails, BeginStop, Transact
<1>21. CASE Discarded
  BY <1>21 DEF Discarded, Write, Forget, SaveFails, LoopFails, Escapes, Fails, BeginStop, Transact
<1>22. CASE Aborted
  BY <1>22 DEF Aborted, Write, Forget, SaveFails, LoopFails, Escapes, Fails, BeginStop, Transact
<1>23. CASE StopCamera
  BY <1>23 DEF StopCamera, KillCamera, Alive
<1>24. CASE RelaunchCamera
  BY <1>24 DEF RelaunchCamera
<1>25. CASE CameraReady
  BY <1>25 DEF CameraReady, Alive, Fails, AbortOrStop, ActiveDemo, BeginAbort, BeginStop, Transact
<1>26. CASE Teardown
  BY <1>26 DEF Teardown, KillCamera, Alive
<1>27. CASE ReportExit
  <2>1. expectedExit' \in BOOLEAN
    BY <1>27 DEF ReportExit
  <2>2. unread' \in Nat /\ camera' = camera /\ epoch' = epoch
    BY <1>27 DEF ReportExit
  <2> QED
    BY <2>1, <2>2
<1>28. ASSUME NEW key \in Keys, Type(key) PROVE ProcessType'
  BY <1>28 DEF Type, Enqueue
<1>29. CASE CameraFatalLine
  BY <1>29 DEF CameraFatalLine, Event, Alive, Enqueue
<1>30. CASE CameraExits
  BY <1>30 DEF CameraExits, Event, Alive
<1>31. CASE ReceiverFails
  BY <1>31 DEF ReceiverFails, Event, Enqueue
<1>32. CASE Interrupt
  BY <1>32 DEF Interrupt, AbortOrStop, ActiveDemo, BeginAbort, BeginStop, Transact
<1>33. CASE UNCHANGED vars
  BY <1>33 DEF vars
<1> QED
  BY <1>1, <1>2, <1>3, <1>4, <1>5, <1>6, <1>7, <1>8, <1>9, <1>10, <1>11, <1>12, <1>13, <1>14,
     <1>15, <1>16, <1>17, <1>18, <1>19, <1>20, <1>21, <1>22, <1>23, <1>24, <1>25, <1>26, <1>27,
     <1>28, <1>29, <1>30, <1>31, <1>32, <1>33
     DEF Next, Main, Environment

\* Every step keeps the types of the main thread.
LEMMA ThreadTypeStep ==
  ASSUME IInv, [Next]_vars
  PROVE  ThreadType'
<1> USE DEF IInv, TypeOK, ThreadType, Request, Devices, Sensors, demo, thread, devices, process,
            bounds
<1>1. CASE StartServices
  BY <1>1 DEF StartServices, Fails, BeginStop, Transact
<1>2. CASE StopBootstrap
  BY <1>2 DEF StopBootstrap, Fails, BeginStop, Transact
<1>3. CASE StartupReady
  BY <1>3 DEF StartupReady, Fails, BeginStop, Transact
<1>4. CASE Reject
  BY <1>4 DEF Reject, Take
<1>5. CASE StartOrResume
  BY <1>5 DEF StartOrResume, Take, Transact
<1>6. CASE PauseDemo
  BY <1>6 DEF PauseDemo, Take, Transact
<1>7. CASE FinishDemo
  BY <1>7 DEF FinishDemo, Take, Transact
<1>8. CASE DiscardDemo
  BY <1>8 DEF DiscardDemo, Take, Transact
<1>9. CASE Quit
  BY <1>9 DEF Quit, Take, AbortOrStop, ActiveDemo, BeginAbort, BeginStop, Transact
<1>10. CASE UnrecoverableFatal
  BY <1>10 DEF UnrecoverableFatal, Take, AbortOrStop, ActiveDemo, BeginAbort, BeginStop, Transact
<1>11. CASE RealsenseFatal
  BY <1>11 DEF RealsenseFatal, Take, Transact
<1>12. CASE Leave
  BY <1>12 DEF Leave, BeginStop, Transact
<1>13. CASE CommandDevice
  BY <1>13
     DEF CommandDevice, Turn, Rank, SensorCommand, BagCommand, Legal, Target, Unconfirmed, Request,
         Fails
<1>14. CASE StartSensor
  BY <1>14 DEF StartSensor, Turn, Rank, Legal, Fails, Rollback, Transact
<1>15. CASE CheckImages
  BY <1>15 DEF CheckImages, Fails, Rollback, Transact
<1>16. CASE RecordBag
  BY <1>16 DEF RecordBag, Fails, Rollback, Transact
<1>17. CASE ResumeBag
  BY <1>17 DEF ResumeBag, Fails, Rollback, Transact
<1>18. CASE RolledBack
  BY <1>18 DEF RolledBack, Write, Forget, SaveFails, LoopFails, Escapes, Fails, BeginStop, Transact
<1>19. CASE Paused
  BY <1>19 DEF Paused, Write, Forget, SaveFails, LoopFails, Escapes, Fails, BeginStop, Transact
<1>20. CASE Finished
  BY <1>20 DEF Finished, Write, Forget, SaveFails, LoopFails, Escapes, Fails, BeginStop, Transact
<1>21. CASE Discarded
  BY <1>21 DEF Discarded, Write, Forget, SaveFails, LoopFails, Escapes, Fails, BeginStop, Transact
<1>22. CASE Aborted
  BY <1>22 DEF Aborted, Write, Forget, SaveFails, LoopFails, Escapes, Fails, BeginStop, Transact
<1>23. CASE StopCamera
  BY <1>23 DEF StopCamera, KillCamera, Alive
<1>24. CASE RelaunchCamera
  BY <1>24 DEF RelaunchCamera
<1>25. CASE CameraReady
  BY <1>25 DEF CameraReady, Alive, Fails, AbortOrStop, ActiveDemo, BeginAbort, BeginStop, Transact
<1>26. CASE Teardown
  BY <1>26 DEF Teardown, KillCamera, Alive
<1>27. CASE ReportExit
  BY <1>27 DEF ReportExit, Enqueue
<1>28. ASSUME NEW key \in Keys, Type(key) PROVE ThreadType'
  BY <1>28 DEF Type, Enqueue
<1>29. CASE CameraFatalLine
  BY <1>29 DEF CameraFatalLine, Event, Alive, Enqueue
<1>30. CASE CameraExits
  BY <1>30 DEF CameraExits, Event, Alive
<1>31. CASE ReceiverFails
  BY <1>31 DEF ReceiverFails, Event, Enqueue
<1>32. CASE Interrupt
  BY <1>32 DEF Interrupt, AbortOrStop, ActiveDemo, BeginAbort, BeginStop, Transact
<1>33. CASE UNCHANGED vars
  BY <1>33 DEF vars
<1> QED
  BY <1>1, <1>2, <1>3, <1>4, <1>5, <1>6, <1>7, <1>8, <1>9, <1>10, <1>11, <1>12, <1>13, <1>14,
     <1>15, <1>16, <1>17, <1>18, <1>19, <1>20, <1>21, <1>22, <1>23, <1>24, <1>25, <1>26, <1>27,
     <1>28, <1>29, <1>30, <1>31, <1>32, <1>33
     DEF Next, Main, Environment

\* Every step keeps the types of the devices.
LEMMA DeviceTypeStep ==
  ASSUME IInv, [Next]_vars
  PROVE  DeviceType'
<1> USE DEF IInv, TypeOK, DeviceType, Devices, Sensors, demo, thread, devices, process, bounds
<1>1. CASE StartServices
  BY <1>1 DEF StartServices, Fails, BeginStop, Transact
<1>2. CASE StopBootstrap
  BY <1>2 DEF StopBootstrap, Fails, BeginStop, Transact
<1>3. CASE StartupReady
  BY <1>3 DEF StartupReady, Fails, BeginStop, Transact
<1>4. CASE Reject
  BY <1>4 DEF Reject, Take
<1>5. CASE StartOrResume
  BY <1>5 DEF StartOrResume, Take, Transact
<1>6. CASE PauseDemo
  BY <1>6 DEF PauseDemo, Take, Transact
<1>7. CASE FinishDemo
  BY <1>7 DEF FinishDemo, Take, Transact
<1>8. CASE DiscardDemo
  BY <1>8 DEF DiscardDemo, Take, Transact
<1>9. CASE Quit
  BY <1>9 DEF Quit, Take, AbortOrStop, ActiveDemo, BeginAbort, BeginStop, Transact
<1>10. CASE UnrecoverableFatal
  BY <1>10 DEF UnrecoverableFatal, Take, AbortOrStop, ActiveDemo, BeginAbort, BeginStop, Transact
<1>11. CASE RealsenseFatal
  BY <1>11 DEF RealsenseFatal, Take, Transact
<1>12. CASE Leave
  BY <1>12 DEF Leave, BeginStop, Transact
<1>13. CASE CommandDevice
  BY <1>13
     DEF CommandDevice, Turn, Rank, SensorCommand, BagCommand, Legal, Target, Unconfirmed, Request,
         Fails
<1>14. CASE StartSensor
  BY <1>14 DEF StartSensor, Turn, Rank, Legal, Fails, Rollback, Transact
<1>15. CASE CheckImages
  BY <1>15 DEF CheckImages, Fails, Rollback, Transact
<1>16. CASE RecordBag
  BY <1>16 DEF RecordBag, Fails, Rollback, Transact
<1>17. CASE ResumeBag
  BY <1>17 DEF ResumeBag, Fails, Rollback, Transact
<1>18. CASE RolledBack
  BY <1>18 DEF RolledBack, Write, Forget, SaveFails, LoopFails, Escapes, Fails, BeginStop, Transact
<1>19. CASE Paused
  BY <1>19 DEF Paused, Write, Forget, SaveFails, LoopFails, Escapes, Fails, BeginStop, Transact
<1>20. CASE Finished
  BY <1>20 DEF Finished, Write, Forget, SaveFails, LoopFails, Escapes, Fails, BeginStop, Transact
<1>21. CASE Discarded
  BY <1>21 DEF Discarded, Write, Forget, SaveFails, LoopFails, Escapes, Fails, BeginStop, Transact
<1>22. CASE Aborted
  BY <1>22 DEF Aborted, Write, Forget, SaveFails, LoopFails, Escapes, Fails, BeginStop, Transact
<1>23. CASE StopCamera
  BY <1>23 DEF StopCamera, KillCamera, Alive
<1>24. CASE RelaunchCamera
  BY <1>24 DEF RelaunchCamera
<1>25. CASE CameraReady
  BY <1>25 DEF CameraReady, Alive, Fails, AbortOrStop, ActiveDemo, BeginAbort, BeginStop, Transact
<1>26. CASE Teardown
  BY <1>26 DEF Teardown, KillCamera, Alive
<1>27. CASE ReportExit
  BY <1>27 DEF ReportExit, Enqueue
<1>28. ASSUME NEW key \in Keys, Type(key) PROVE DeviceType'
  BY <1>28 DEF Type, Enqueue
<1>29. CASE CameraFatalLine
  BY <1>29 DEF CameraFatalLine, Event, Alive, Enqueue
<1>30. CASE CameraExits
  BY <1>30 DEF CameraExits, Event, Alive
<1>31. CASE ReceiverFails
  BY <1>31 DEF ReceiverFails, Event, Enqueue
<1>32. CASE Interrupt
  BY <1>32 DEF Interrupt, AbortOrStop, ActiveDemo, BeginAbort, BeginStop, Transact
<1>33. CASE UNCHANGED vars
  BY <1>33 DEF vars
<1> QED
  BY <1>1, <1>2, <1>3, <1>4, <1>5, <1>6, <1>7, <1>8, <1>9, <1>10, <1>11, <1>12, <1>13, <1>14,
     <1>15, <1>16, <1>17, <1>18, <1>19, <1>20, <1>21, <1>22, <1>23, <1>24, <1>25, <1>26, <1>27,
     <1>28, <1>29, <1>30, <1>31, <1>32, <1>33
     DEF Next, Main, Environment

\* No step exceeds the bounds.
LEMMA BoundStep ==
  ASSUME IInv, [Next]_vars
  PROVE  inputs' \in 0..MaxInputs /\ faults' \in 0..MaxFaults
<1> USE DEF IInv, TypeOK, demo, thread, devices, process, bounds
<1>1. CASE StartServices
  BY <1>1, CollectionAssumption DEF StartServices, Fails, BeginStop, Transact
<1>2. CASE StopBootstrap
  BY <1>2, CollectionAssumption DEF StopBootstrap, Fails, BeginStop, Transact
<1>3. CASE StartupReady
  BY <1>3, CollectionAssumption DEF StartupReady, Fails, BeginStop, Transact
<1>4. CASE Reject
  BY <1>4, CollectionAssumption DEF Reject, Take
<1>5. CASE StartOrResume
  BY <1>5, CollectionAssumption DEF StartOrResume, Take, Transact
<1>6. CASE PauseDemo
  BY <1>6, CollectionAssumption DEF PauseDemo, Take, Transact
<1>7. CASE FinishDemo
  BY <1>7, CollectionAssumption DEF FinishDemo, Take, Transact
<1>8. CASE DiscardDemo
  BY <1>8, CollectionAssumption DEF DiscardDemo, Take, Transact
<1>9. CASE Quit
  BY <1>9, CollectionAssumption
     DEF Quit, Take, AbortOrStop, ActiveDemo, BeginAbort, BeginStop, Transact
<1>10. CASE UnrecoverableFatal
  BY <1>10, CollectionAssumption
     DEF UnrecoverableFatal, Take, AbortOrStop, ActiveDemo, BeginAbort, BeginStop, Transact
<1>11. CASE RealsenseFatal
  BY <1>11, CollectionAssumption DEF RealsenseFatal, Take, Transact
<1>12. CASE Leave
  BY <1>12, CollectionAssumption DEF Leave, BeginStop, Transact
<1>13. CASE CommandDevice
  BY <1>13, CollectionAssumption
     DEF CommandDevice, Turn, Rank, SensorCommand, BagCommand, Legal, Target, Unconfirmed, Request,
         Fails
<1>14. CASE StartSensor
  BY <1>14, CollectionAssumption DEF StartSensor, Turn, Rank, Legal, Fails, Rollback, Transact
<1>15. CASE CheckImages
  BY <1>15, CollectionAssumption DEF CheckImages, Fails, Rollback, Transact
<1>16. CASE RecordBag
  BY <1>16, CollectionAssumption DEF RecordBag, Fails, Rollback, Transact
<1>17. CASE ResumeBag
  BY <1>17, CollectionAssumption DEF ResumeBag, Fails, Rollback, Transact
<1>18. CASE RolledBack
  BY <1>18, CollectionAssumption
     DEF RolledBack, Write, Forget, SaveFails, LoopFails, Escapes, Fails, BeginStop, Transact
<1>19. CASE Paused
  BY <1>19, CollectionAssumption DEF Paused, Write, Forget, SaveFails, LoopFails, Escapes, Fails,
                                     BeginStop, Transact
<1>20. CASE Finished
  BY <1>20, CollectionAssumption DEF Finished, Write, Forget, SaveFails, LoopFails, Escapes,
                                     Fails, BeginStop, Transact
<1>21. CASE Discarded
  BY <1>21, CollectionAssumption DEF Discarded, Write, Forget, SaveFails, LoopFails, Escapes,
                                     Fails, BeginStop, Transact
<1>22. CASE Aborted
  BY <1>22, CollectionAssumption DEF Aborted, Write, Forget, SaveFails, LoopFails, Escapes, Fails,
                                     BeginStop, Transact
<1>23. CASE StopCamera
  BY <1>23, CollectionAssumption DEF StopCamera, KillCamera, Alive
<1>24. CASE RelaunchCamera
  BY <1>24, CollectionAssumption DEF RelaunchCamera
<1>25. CASE CameraReady
  BY <1>25, CollectionAssumption
     DEF CameraReady, Alive, Fails, AbortOrStop, ActiveDemo, BeginAbort, BeginStop, Transact
<1>26. CASE Teardown
  BY <1>26, CollectionAssumption DEF Teardown, KillCamera, Alive
<1>27. CASE ReportExit
  BY <1>27, CollectionAssumption DEF ReportExit, Enqueue
<1>28. ASSUME NEW key \in Keys, Type(key) PROVE inputs' \in 0..MaxInputs /\ faults' \in 0..MaxFaults
  BY <1>28, CollectionAssumption DEF Type, Enqueue
<1>29. CASE CameraFatalLine
  BY <1>29, CollectionAssumption DEF CameraFatalLine, Event, Alive, Enqueue
<1>30. CASE CameraExits
  BY <1>30, CollectionAssumption DEF CameraExits, Event, Alive
<1>31. CASE ReceiverFails
  BY <1>31, CollectionAssumption DEF ReceiverFails, Event, Enqueue
<1>32. CASE Interrupt
  BY <1>32, CollectionAssumption
     DEF Interrupt, AbortOrStop, ActiveDemo, BeginAbort, BeginStop, Transact
<1>33. CASE UNCHANGED vars
  BY <1>33 DEF vars
<1> QED
  BY <1>1, <1>2, <1>3, <1>4, <1>5, <1>6, <1>7, <1>8, <1>9, <1>10, <1>11, <1>12, <1>13, <1>14,
     <1>15, <1>16, <1>17, <1>18, <1>19, <1>20, <1>21, <1>22, <1>23, <1>24, <1>25, <1>26, <1>27,
     <1>28, <1>29, <1>30, <1>31, <1>32, <1>33
     DEF Next, Main, Environment

\* Every step leaves the devices where the invariant says.
LEMMA TrackedStep ==
  ASSUME IInv, [Next]_vars
  PROVE  Tracked'
<1> USE DEF IInv, TypeOK, DemoType, ThreadType, DeviceType, Devices, Sensors, Tracked, Booting,
            Waiting, Starting, RollingBack, Pausing, Ending, SensorsIn, AtRest, Resting,
            Collecting, Live, demo, thread, devices, process, bounds
<1>1. CASE StartServices
  BY <1>1 DEF StartServices, Fails, BeginStop, Transact
<1>2. CASE StopBootstrap
  BY <1>2 DEF StopBootstrap, Fails, BeginStop, Transact
<1>3. CASE StartupReady
  BY <1>3 DEF StartupReady, Fails, BeginStop, Transact
<1>4. CASE Reject
  BY <1>4 DEF Reject, Take
<1>5. CASE StartOrResume
  <2>1. /\ pc' = "start" /\ todo' = Sensors /\ failed' = {}
        /\ state' = state /\ UNCHANGED <<frame, sensor, bag, camera, expectedExit>>
        /\ state \in {"WAIT_START", "PAUSED"} /\ pc = "loop"
    BY <1>5 DEF StartOrResume, Take, Transact
  <2>2. newDemo' <=> state = "WAIT_START"
    BY <1>5 DEF StartOrResume
  <2>3. CASE state = "WAIT_START"
    <3>1. demos' = demos + 1 /\ store' = demos'
      BY <1>5, <2>3 DEF StartOrResume
    <3>2. store' # 0
      BY <3>1
    <3>3. recordStarted' = FALSE
      BY <1>5, <2>3 DEF StartOrResume
    <3> QED
      BY <2>1, <2>2, <2>3, <3>2, <3>3
  <2>4. CASE state = "PAUSED"
    <3>1. UNCHANGED <<store, recordStarted>>
      BY <1>5, <2>4 DEF StartOrResume
    <3> QED
      BY <2>1, <2>2, <2>4, <3>1
  <2> QED
    BY <2>1, <2>3, <2>4
<1>6. CASE PauseDemo
  BY <1>6 DEF PauseDemo, Take, Transact
<1>7. CASE FinishDemo
  BY <1>7 DEF FinishDemo, Take, Transact
<1>8. CASE DiscardDemo
  BY <1>8 DEF DiscardDemo, Take, Transact
<1>9. CASE Quit
  BY <1>9 DEF Quit, Take, AbortOrStop, ActiveDemo, BeginAbort, BeginStop, Transact
<1>10. CASE UnrecoverableFatal
  BY <1>10 DEF UnrecoverableFatal, Take, AbortOrStop, ActiveDemo, BeginAbort, BeginStop, Transact
<1>11. CASE RealsenseFatal
  BY <1>11 DEF RealsenseFatal, Take, Transact
<1>12. CASE Leave
  BY <1>12 DEF Leave, BeginStop, Transact
<1>13. CASE CommandDevice
  BY <1>13
     DEF CommandDevice, Turn, Rank, SensorCommand, BagCommand, Legal, Target, Unconfirmed, Request,
         Fails
<1>14. CASE StartSensor
  BY <1>14 DEF StartSensor, Turn, Rank, Legal, Fails, Rollback, Transact
<1>15. CASE CheckImages
  BY <1>15 DEF CheckImages, Fails, Rollback, Transact
<1>16. CASE RecordBag
  BY <1>16 DEF RecordBag, Fails, Rollback, Transact
<1>17. CASE ResumeBag
  BY <1>17 DEF ResumeBag, Fails, Rollback, Transact
<1>18. CASE RolledBack
  BY <1>18 DEF RolledBack, Write, Forget, SaveFails, LoopFails, Escapes, Fails, BeginStop, Transact
<1>19. CASE Paused
  BY <1>19 DEF Paused, Write, Forget, SaveFails, LoopFails, Escapes, Fails, BeginStop, Transact
<1>20. CASE Finished
  BY <1>20 DEF Finished, Write, Forget, SaveFails, LoopFails, Escapes, Fails, BeginStop, Transact
<1>21. CASE Discarded
  BY <1>21 DEF Discarded, Write, Forget, SaveFails, LoopFails, Escapes, Fails, BeginStop, Transact
<1>22. CASE Aborted
  BY <1>22 DEF Aborted, Write, Forget, SaveFails, LoopFails, Escapes, Fails, BeginStop, Transact
<1>23. CASE StopCamera
  BY <1>23 DEF StopCamera, KillCamera, Alive
<1>24. CASE RelaunchCamera
  BY <1>24 DEF RelaunchCamera
<1>25. CASE CameraReady
  BY <1>25 DEF CameraReady, Alive, Fails, AbortOrStop, ActiveDemo, BeginAbort, BeginStop, Transact
<1>26. CASE Teardown
  BY <1>26 DEF Teardown, KillCamera, Alive
<1>27. CASE ReportExit
  BY <1>27 DEF ReportExit, Enqueue
<1>28. ASSUME NEW key \in Keys, Type(key) PROVE Tracked'
  BY <1>28 DEF Type, Enqueue
<1>29. CASE CameraFatalLine
  BY <1>29 DEF CameraFatalLine, Event, Alive, Enqueue
<1>30. CASE CameraExits
  BY <1>30 DEF CameraExits, Event, Alive
<1>31. CASE ReceiverFails
  BY <1>31 DEF ReceiverFails, Event, Enqueue
<1>32. CASE Interrupt
  BY <1>32 DEF Interrupt, AbortOrStop, ActiveDemo, BeginAbort, BeginStop, Transact
<1>33. CASE UNCHANGED vars
  BY <1>33 DEF vars
<1> QED
  BY <1>1, <1>2, <1>3, <1>4, <1>5, <1>6, <1>7, <1>8, <1>9, <1>10, <1>11, <1>12, <1>13, <1>14,
     <1>15, <1>16, <1>17, <1>18, <1>19, <1>20, <1>21, <1>22, <1>23, <1>24, <1>25, <1>26, <1>27,
     <1>28, <1>29, <1>30, <1>31, <1>32, <1>33
     DEF Next, Main, Environment

\* Every step keeps the manifests in order.
LEMMA ManifestedStep ==
  ASSUME IInv, [Next]_vars
  PROVE  Manifested'
<1> USE DEF IInv, TypeOK, DemoType, ThreadType, Demos, Tracked, Booting, Waiting, Starting,
            RollingBack, Pausing, Ending, AtRest, Resting, Collecting, Manifested, demo, thread,
            devices, process, bounds
<1>1. CASE StartServices
  BY <1>1, CollectionAssumption DEF StartServices, Fails, BeginStop, Transact
<1>2. CASE StopBootstrap
  BY <1>2, CollectionAssumption DEF StopBootstrap, Fails, BeginStop, Transact
<1>3. CASE StartupReady
  BY <1>3, CollectionAssumption DEF StartupReady, Fails, BeginStop, Transact
<1>4. CASE Reject
  BY <1>4, CollectionAssumption DEF Reject, Take
<1>5. CASE StartOrResume
  <2>1. /\ state' = state /\ manifest' = manifest /\ frame' = frame /\ pc' = "start"
        /\ state \in {"WAIT_START", "PAUSED"} /\ demos' \in 0..MaxInputs
    BY <1>5, DemoTypeStep DEF StartOrResume, Take, Transact
  <2>2. CASE state = "WAIT_START"
    <3>1. demos' = demos + 1 /\ store' = demos + 1 /\ store = 0
      BY <1>5, <2>2 DEF StartOrResume, Take
    <3> QED
      BY <2>1, <2>2, <3>1
  <2>3. CASE state = "PAUSED"
    <3>1. UNCHANGED <<demos, store>>
      BY <1>5, <2>3 DEF StartOrResume, Take
    <3> QED
      BY <2>1, <2>3, <3>1
  <2> QED
    BY <2>1, <2>2, <2>3
<1>6. CASE PauseDemo
  BY <1>6, CollectionAssumption DEF PauseDemo, Take, Transact
<1>7. CASE FinishDemo
  BY <1>7, CollectionAssumption DEF FinishDemo, Take, Transact
<1>8. CASE DiscardDemo
  BY <1>8, CollectionAssumption DEF DiscardDemo, Take, Transact
<1>9. CASE Quit
  BY <1>9, CollectionAssumption
     DEF Quit, Take, AbortOrStop, ActiveDemo, BeginAbort, BeginStop, Transact
<1>10. CASE UnrecoverableFatal
  BY <1>10, CollectionAssumption
     DEF UnrecoverableFatal, Take, AbortOrStop, ActiveDemo, BeginAbort, BeginStop, Transact
<1>11. CASE RealsenseFatal
  BY <1>11, CollectionAssumption DEF RealsenseFatal, Take, Transact
<1>12. CASE Leave
  BY <1>12, CollectionAssumption DEF Leave, BeginStop, Transact
<1>13. CASE CommandDevice
  BY <1>13, CollectionAssumption
     DEF CommandDevice, Turn, Rank, SensorCommand, BagCommand, Legal, Target, Unconfirmed, Request,
         Fails
<1>14. CASE StartSensor
  BY <1>14, CollectionAssumption DEF StartSensor, Turn, Rank, Legal, Fails, Rollback, Transact
<1>15. CASE CheckImages
  BY <1>15, CollectionAssumption DEF CheckImages, Fails, Rollback, Transact
<1>16. CASE RecordBag
  BY <1>16, CollectionAssumption DEF RecordBag, Fails, Rollback, Transact
<1>17. CASE ResumeBag
  BY <1>17, CollectionAssumption DEF ResumeBag, Fails, Rollback, Transact
<1>18. CASE RolledBack
  BY <1>18, CollectionAssumption
     DEF RolledBack, Write, Forget, SaveFails, LoopFails, Escapes, Fails, BeginStop, Transact
<1>19. CASE Paused
  BY <1>19, CollectionAssumption DEF Paused, Write, Forget, SaveFails, LoopFails, Escapes, Fails,
                                     BeginStop, Transact
<1>20. CASE Finished
  BY <1>20, CollectionAssumption DEF Finished, Write, Forget, SaveFails, LoopFails, Escapes,
                                     Fails, BeginStop, Transact
<1>21. CASE Discarded
  BY <1>21, CollectionAssumption DEF Discarded, Write, Forget, SaveFails, LoopFails, Escapes,
                                     Fails, BeginStop, Transact
<1>22. CASE Aborted
  BY <1>22, CollectionAssumption DEF Aborted, Write, Forget, SaveFails, LoopFails, Escapes, Fails,
                                     BeginStop, Transact
<1>23. CASE StopCamera
  BY <1>23, CollectionAssumption DEF StopCamera, KillCamera, Alive
<1>24. CASE RelaunchCamera
  BY <1>24, CollectionAssumption DEF RelaunchCamera
<1>25. CASE CameraReady
  BY <1>25, CollectionAssumption
     DEF CameraReady, Alive, Fails, AbortOrStop, ActiveDemo, BeginAbort, BeginStop, Transact
<1>26. CASE Teardown
  BY <1>26, CollectionAssumption DEF Teardown, KillCamera, Alive
<1>27. CASE ReportExit
  BY <1>27, CollectionAssumption DEF ReportExit, Enqueue
<1>28. ASSUME NEW key \in Keys, Type(key) PROVE Manifested'
  BY <1>28, CollectionAssumption DEF Type, Enqueue
<1>29. CASE CameraFatalLine
  BY <1>29, CollectionAssumption DEF CameraFatalLine, Event, Alive, Enqueue
<1>30. CASE CameraExits
  BY <1>30, CollectionAssumption DEF CameraExits, Event, Alive
<1>31. CASE ReceiverFails
  BY <1>31, CollectionAssumption DEF ReceiverFails, Event, Enqueue
<1>32. CASE Interrupt
  BY <1>32, CollectionAssumption
     DEF Interrupt, AbortOrStop, ActiveDemo, BeginAbort, BeginStop, Transact
<1>33. CASE UNCHANGED vars
  BY <1>33 DEF vars
<1> QED
  BY <1>1, <1>2, <1>3, <1>4, <1>5, <1>6, <1>7, <1>8, <1>9, <1>10, <1>11, <1>12, <1>13, <1>14,
     <1>15, <1>16, <1>17, <1>18, <1>19, <1>20, <1>21, <1>22, <1>23, <1>24, <1>25, <1>26, <1>27,
     <1>28, <1>29, <1>30, <1>31, <1>32, <1>33
     DEF Next, Main, Environment

\* A demo is created by taking the key that was typed for it.
LEMMA DemosTypedStep ==
  ASSUME IInv, [Next]_vars
  PROVE  DemosTyped'
<1> USE DEF IInv, TypeOK, QueueType, DemoType, ProcessType, DemosTyped, demo, thread, devices,
            process, bounds
<1>1. CASE StartServices
  <2>1. UNCHANGED <<commands, demos, inputs>>
    BY <1>1 DEF StartServices, Fails, BeginStop, Transact
  <2> QED
    BY <2>1
<1>2. CASE StopBootstrap
  <2>1. UNCHANGED <<commands, demos, inputs>>
    BY <1>2 DEF StopBootstrap, Fails, BeginStop, Transact
  <2> QED
    BY <2>1
<1>3. CASE StartupReady
  <2>1. UNCHANGED <<commands, demos, inputs>>
    BY <1>3 DEF StartupReady, Fails, BeginStop, Transact
  <2> QED
    BY <2>1
<1>4. CASE Reject
  <2>1. commands # <<>> /\ commands' = Tail(commands) /\ UNCHANGED <<demos, inputs>>
    BY <1>4 DEF Reject, Take
  <2> QED
    BY <2>1, CountTail, CountFinite, QueueHead
<1>5. CASE StartOrResume
  <2>1. /\ commands # <<>> /\ commands' = Tail(commands) /\ Head(commands).name = "s"
        /\ demos' \in {demos, demos + 1} /\ inputs' = inputs
    BY <1>5 DEF StartOrResume, Take
  <2> QED
    BY <2>1, CountTail, CountFinite, QueueHead
<1>6. CASE PauseDemo
  <2>1. commands # <<>> /\ commands' = Tail(commands) /\ UNCHANGED <<demos, inputs>>
    BY <1>6 DEF PauseDemo, Take, Transact
  <2> QED
    BY <2>1, CountTail, CountFinite, QueueHead
<1>7. CASE FinishDemo
  <2>1. commands # <<>> /\ commands' = Tail(commands) /\ UNCHANGED <<demos, inputs>>
    BY <1>7 DEF FinishDemo, Take, Transact
  <2> QED
    BY <2>1, CountTail, CountFinite, QueueHead
<1>8. CASE DiscardDemo
  <2>1. commands # <<>> /\ commands' = Tail(commands) /\ UNCHANGED <<demos, inputs>>
    BY <1>8 DEF DiscardDemo, Take, Transact
  <2> QED
    BY <2>1, CountTail, CountFinite, QueueHead
<1>9. CASE Quit
  <2>1. commands # <<>> /\ commands' = Tail(commands) /\ UNCHANGED <<demos, inputs>>
    BY <1>9 DEF Quit, Take, AbortOrStop, ActiveDemo, BeginAbort, BeginStop, Transact
  <2> QED
    BY <2>1, CountTail, CountFinite, QueueHead
<1>10. CASE UnrecoverableFatal
  <2>1. commands # <<>> /\ commands' = Tail(commands) /\ UNCHANGED <<demos, inputs>>
    BY <1>10 DEF UnrecoverableFatal, Take, AbortOrStop, ActiveDemo, BeginAbort, BeginStop, Transact
  <2> QED
    BY <2>1, CountTail, CountFinite, QueueHead
<1>11. CASE RealsenseFatal
  <2>1. commands # <<>> /\ commands' = Tail(commands) /\ UNCHANGED <<demos, inputs>>
    BY <1>11 DEF RealsenseFatal, Take, Transact
  <2> QED
    BY <2>1, CountTail, CountFinite, QueueHead
<1>12. CASE Leave
  <2>1. UNCHANGED <<commands, demos, inputs>>
    BY <1>12 DEF Leave, BeginStop, Transact
  <2> QED
    BY <2>1
<1>13. CASE CommandDevice
  <2>1. UNCHANGED <<commands, demos, inputs>>
    BY <1>13
       DEF CommandDevice, Turn, Rank, SensorCommand, BagCommand, Legal, Target, Unconfirmed,
           Request, Fails
  <2> QED
    BY <2>1
<1>14. CASE StartSensor
  <2>1. UNCHANGED <<commands, demos, inputs>>
    BY <1>14 DEF StartSensor, Turn, Rank, Legal, Fails, Rollback, Transact
  <2> QED
    BY <2>1
<1>15. CASE CheckImages
  <2>1. UNCHANGED <<commands, demos, inputs>>
    BY <1>15 DEF CheckImages, Fails, Rollback, Transact
  <2> QED
    BY <2>1
<1>16. CASE RecordBag
  <2>1. UNCHANGED <<commands, demos, inputs>>
    BY <1>16 DEF RecordBag, Fails, Rollback, Transact
  <2> QED
    BY <2>1
<1>17. CASE ResumeBag
  <2>1. UNCHANGED <<commands, demos, inputs>>
    BY <1>17 DEF ResumeBag, Fails, Rollback, Transact
  <2> QED
    BY <2>1
<1>18. CASE RolledBack
  <2>1. UNCHANGED <<commands, demos, inputs>>
    BY <1>18 DEF RolledBack, Write, Forget, SaveFails, LoopFails, Escapes, Fails, BeginStop,
                 Transact
  <2> QED
    BY <2>1
<1>19. CASE Paused
  <2>1. UNCHANGED <<commands, demos, inputs>>
    BY <1>19 DEF Paused, Write, Forget, SaveFails, LoopFails, Escapes, Fails, BeginStop, Transact
  <2> QED
    BY <2>1
<1>20. CASE Finished
  <2>1. UNCHANGED <<commands, demos, inputs>>
    BY <1>20 DEF Finished, Write, Forget, SaveFails, LoopFails, Escapes, Fails, BeginStop, Transact
  <2> QED
    BY <2>1
<1>21. CASE Discarded
  <2>1. UNCHANGED <<commands, demos, inputs>>
    BY <1>21 DEF Discarded, Write, Forget, SaveFails, LoopFails, Escapes, Fails, BeginStop, Transact
  <2> QED
    BY <2>1
<1>22. CASE Aborted
  <2>1. UNCHANGED <<commands, demos, inputs>>
    BY <1>22 DEF Aborted, Write, Forget, SaveFails, LoopFails, Escapes, Fails, BeginStop, Transact
  <2> QED
    BY <2>1
<1>23. CASE StopCamera
  <2>1. UNCHANGED <<commands, demos, inputs>>
    BY <1>23 DEF StopCamera, KillCamera, Alive
  <2> QED
    BY <2>1
<1>24. CASE RelaunchCamera
  <2>1. UNCHANGED <<commands, demos, inputs>>
    BY <1>24 DEF RelaunchCamera
  <2> QED
    BY <2>1
<1>25. CASE CameraReady
  <2>1. UNCHANGED <<commands, demos, inputs>>
    BY <1>25 DEF CameraReady, Alive, Fails, AbortOrStop, ActiveDemo, BeginAbort, BeginStop, Transact
  <2> QED
    BY <2>1
<1>26. CASE Teardown
  <2>1. UNCHANGED <<commands, demos, inputs>>
    BY <1>26 DEF Teardown, KillCamera, Alive
  <2> QED
    BY <2>1
<1>27. CASE ReportExit
  <2>1. demos' = demos /\ inputs' = inputs
    BY <1>27 DEF ReportExit
  <2>2. CASE expectedExit
    BY <1>27, <2>1, <2>2 DEF ReportExit
  <2>3. CASE ~expectedExit
    <3>1. commands' = Append(commands, [name |-> "process_exit", epoch |-> epoch])
      BY <1>27, <2>3 DEF ReportExit, Enqueue
    <3>2. [name |-> "process_exit", epoch |-> epoch] \in Entries
      BY DEF Entries
    <3> QED
      BY <2>1, <3>1, <3>2, CountAppend, CountFinite
  <2> QED
    BY <2>2, <2>3
<1>28. ASSUME NEW key \in Keys, Type(key) PROVE DemosTyped'
  <2>1. commands' = Append(commands, [name |-> key,
      epoch |-> epoch]) /\ demos' = demos /\ inputs' = inputs + 1
    BY <1>28 DEF Type, Enqueue
  <2>2. [name |-> key, epoch |-> epoch] \in Entries
    BY DEF Entries, Keys
  <2> QED
    BY <2>1, <2>2, CountAppend, CountFinite
<1>29. CASE CameraFatalLine
  <2>1. commands' = Append(commands, [name |-> "realsense_fatal",
      epoch |-> epoch]) /\ demos' = demos /\ inputs' = inputs + 1
    BY <1>29 DEF CameraFatalLine, Event, Alive, Enqueue
  <2>2. [name |-> "realsense_fatal", epoch |-> epoch] \in Entries
    BY DEF Entries, Keys
  <2> QED
    BY <2>1, <2>2, CountAppend, CountFinite
<1>30. CASE CameraExits
  <2>1. commands' = commands /\ demos' = demos /\ inputs' = inputs + 1
    BY <1>30 DEF CameraExits, Event
  <2> QED
    BY <2>1, CountFinite
<1>31. CASE ReceiverFails
  <2>1. commands' = Append(commands, [name |-> "fatal",
      epoch |-> epoch]) /\ demos' = demos /\ inputs' = inputs + 1
    BY <1>31 DEF ReceiverFails, Event, Enqueue
  <2>2. [name |-> "fatal", epoch |-> epoch] \in Entries
    BY DEF Entries, Keys
  <2> QED
    BY <2>1, <2>2, CountAppend, CountFinite
<1>32. CASE Interrupt
  <2>1. UNCHANGED <<commands, demos, inputs>>
    BY <1>32 DEF Interrupt, AbortOrStop, ActiveDemo, BeginAbort, BeginStop, Transact
  <2> QED
    BY <2>1
<1>33. CASE UNCHANGED vars
  BY <1>33 DEF vars
<1> QED
  BY <1>1, <1>2, <1>3, <1>4, <1>5, <1>6, <1>7, <1>8, <1>9, <1>10, <1>11, <1>12, <1>13, <1>14,
     <1>15, <1>16, <1>17, <1>18, <1>19, <1>20, <1>21, <1>22, <1>23, <1>24, <1>25, <1>26, <1>27,
     <1>28, <1>29, <1>30, <1>31, <1>32, <1>33
     DEF Next, Main, Environment

\* Every step keeps the account of the exits still to be reported.
LEMMA ExitsStep ==
  ASSUME IInv, [Next]_vars
  PROVE  ExitsAccounted'
<1> USE DEF IInv, TypeOK, QueueType, ThreadType, ProcessType, Tracked, Booting, ExitsAccounted,
            Owed, Live, demo, thread, devices, process, bounds
<1>1. CASE StartServices
  <2>1. commands' = commands
    BY <1>1 DEF StartServices, Fails, BeginStop, Transact
  <2> QED
    BY <1>1, <2>1, QueuedSame DEF StartServices, Fails, BeginStop, Transact
<1>2. CASE StopBootstrap
  <2>1. commands' = commands
    BY <1>2 DEF StopBootstrap, Fails, BeginStop, Transact
  <2> QED
    BY <1>2, <2>1, QueuedSame DEF StopBootstrap, Fails, BeginStop, Transact
<1>3. CASE StartupReady
  <2>1. commands' = commands
    BY <1>3 DEF StartupReady, Fails, BeginStop, Transact
  <2> QED
    BY <1>3, <2>1, QueuedSame DEF StartupReady, Fails, BeginStop, Transact
<1>4. CASE Reject
  <2>1. /\ commands # <<>> /\ commands' = Tail(commands) /\ Head(commands).name # "process_exit"
        /\ UNCHANGED process /\ pc \in Live \ {"relaunch"} /\ pc' # "relaunch"
    BY <1>4 DEF Reject, Take
  <2>2. Queued("process_exit") => Queued("process_exit")'
    BY <2>1, QueuedTail
  <2> QED
    BY <2>1, <2>2
<1>5. CASE StartOrResume
  <2>1. /\ commands # <<>> /\ commands' = Tail(commands) /\ Head(commands).name # "process_exit"
        /\ UNCHANGED process /\ pc \in Live \ {"relaunch"} /\ pc' # "relaunch"
    BY <1>5 DEF StartOrResume, Take, Transact
  <2>2. Queued("process_exit") => Queued("process_exit")'
    BY <2>1, QueuedTail
  <2> QED
    BY <2>1, <2>2
<1>6. CASE PauseDemo
  <2>1. /\ commands # <<>> /\ commands' = Tail(commands) /\ Head(commands).name # "process_exit"
        /\ UNCHANGED process /\ pc \in Live \ {"relaunch"} /\ pc' # "relaunch"
    BY <1>6 DEF PauseDemo, Take, Transact
  <2>2. Queued("process_exit") => Queued("process_exit")'
    BY <2>1, QueuedTail
  <2> QED
    BY <2>1, <2>2
<1>7. CASE FinishDemo
  <2>1. /\ commands # <<>> /\ commands' = Tail(commands) /\ Head(commands).name # "process_exit"
        /\ UNCHANGED process /\ pc \in Live \ {"relaunch"} /\ pc' # "relaunch"
    BY <1>7 DEF FinishDemo, Take, Transact
  <2>2. Queued("process_exit") => Queued("process_exit")'
    BY <2>1, QueuedTail
  <2> QED
    BY <2>1, <2>2
<1>8. CASE DiscardDemo
  <2>1. /\ commands # <<>> /\ commands' = Tail(commands) /\ Head(commands).name # "process_exit"
        /\ UNCHANGED process /\ pc \in Live \ {"relaunch"} /\ pc' # "relaunch"
    BY <1>8 DEF DiscardDemo, Take, Transact
  <2>2. Queued("process_exit") => Queued("process_exit")'
    BY <2>1, QueuedTail
  <2> QED
    BY <2>1, <2>2
<1>9. CASE Quit
  <2>1. pc' \notin Live
    BY <1>9 DEF Quit, Take, AbortOrStop, ActiveDemo, BeginAbort, BeginStop, Transact
  <2> QED
    BY <2>1
<1>10. CASE UnrecoverableFatal
  <2>1. pc' \notin Live
    BY <1>10 DEF UnrecoverableFatal, Take, AbortOrStop, ActiveDemo, BeginAbort, BeginStop, Transact
  <2> QED
    BY <2>1
<1>11. CASE RealsenseFatal
  <2>1. /\ commands # <<>> /\ commands' = Tail(commands) /\ Head(commands).name # "process_exit"
        /\ UNCHANGED process /\ pc \in Live \ {"relaunch"} /\ pc' # "relaunch"
    BY <1>11 DEF RealsenseFatal, Take, Transact
  <2>2. Queued("process_exit") => Queued("process_exit")'
    BY <2>1, QueuedTail
  <2> QED
    BY <2>1, <2>2
<1>12. CASE Leave
  <2>1. commands' = commands
    BY <1>12 DEF Leave, BeginStop, Transact
  <2> QED
    BY <1>12, <2>1, QueuedSame DEF Leave, BeginStop, Transact
<1>13. CASE CommandDevice
  <2>1. commands' = commands
    BY <1>13
       DEF CommandDevice, Turn, Rank, SensorCommand, BagCommand, Legal, Target, Unconfirmed,
           Request, Fails
  <2> QED
    BY <1>13, <2>1, QueuedSame
       DEF CommandDevice, Turn, Rank, SensorCommand, BagCommand, Legal, Target, Unconfirmed,
           Request, Fails
<1>14. CASE StartSensor
  <2>1. commands' = commands
    BY <1>14 DEF StartSensor, Turn, Rank, Legal, Fails, Rollback, Transact
  <2> QED
    BY <1>14, <2>1, QueuedSame DEF StartSensor, Turn, Rank, Legal, Fails, Rollback, Transact
<1>15. CASE CheckImages
  <2>1. commands' = commands
    BY <1>15 DEF CheckImages, Fails, Rollback, Transact
  <2> QED
    BY <1>15, <2>1, QueuedSame DEF CheckImages, Fails, Rollback, Transact
<1>16. CASE RecordBag
  <2>1. commands' = commands
    BY <1>16 DEF RecordBag, Fails, Rollback, Transact
  <2> QED
    BY <1>16, <2>1, QueuedSame DEF RecordBag, Fails, Rollback, Transact
<1>17. CASE ResumeBag
  <2>1. commands' = commands
    BY <1>17 DEF ResumeBag, Fails, Rollback, Transact
  <2> QED
    BY <1>17, <2>1, QueuedSame DEF ResumeBag, Fails, Rollback, Transact
<1>18. CASE RolledBack
  <2>1. commands' = commands
    BY <1>18 DEF RolledBack, Write, Forget, SaveFails, LoopFails, Escapes, Fails, BeginStop,
                 Transact
  <2> QED
    BY <1>18, <2>1, QueuedSame DEF RolledBack, Write, Forget, SaveFails, LoopFails, Escapes,
                                   Fails, BeginStop, Transact
<1>19. CASE Paused
  <2>1. commands' = commands
    BY <1>19 DEF Paused, Write, Forget, SaveFails, LoopFails, Escapes, Fails, BeginStop, Transact
  <2> QED
    BY <1>19, <2>1, QueuedSame DEF Paused, Write, Forget, SaveFails, LoopFails, Escapes, Fails,
                                   BeginStop, Transact
<1>20. CASE Finished
  <2>1. commands' = commands
    BY <1>20 DEF Finished, Write, Forget, SaveFails, LoopFails, Escapes, Fails, BeginStop, Transact
  <2> QED
    BY <1>20, <2>1, QueuedSame DEF Finished, Write, Forget, SaveFails, LoopFails, Escapes, Fails,
                                   BeginStop, Transact
<1>21. CASE Discarded
  <2>1. commands' = commands
    BY <1>21 DEF Discarded, Write, Forget, SaveFails, LoopFails, Escapes, Fails, BeginStop, Transact
  <2> QED
    BY <1>21, <2>1, QueuedSame DEF Discarded, Write, Forget, SaveFails, LoopFails, Escapes, Fails,
                                   BeginStop, Transact
<1>22. CASE Aborted
  <2>1. commands' = commands
    BY <1>22 DEF Aborted, Write, Forget, SaveFails, LoopFails, Escapes, Fails, BeginStop, Transact
  <2> QED
    BY <1>22, <2>1, QueuedSame DEF Aborted, Write, Forget, SaveFails, LoopFails, Escapes, Fails,
                                   BeginStop, Transact
<1>23. CASE StopCamera
  <2>1. commands' = commands
    BY <1>23 DEF StopCamera, KillCamera, Alive
  <2> QED
    BY <1>23, <2>1, QueuedSame DEF StopCamera, KillCamera, Alive
<1>24. CASE RelaunchCamera
  <2>1. commands' = commands
    BY <1>24 DEF RelaunchCamera
  <2> QED
    BY <1>24, <2>1, QueuedSame DEF RelaunchCamera
<1>25. CASE CameraReady
  <2>1. commands' = commands
    BY <1>25 DEF CameraReady, Alive, Fails, AbortOrStop, ActiveDemo, BeginAbort, BeginStop, Transact
  <2> QED
    BY <1>25, <2>1, QueuedSame
       DEF CameraReady, Alive, Fails, AbortOrStop, ActiveDemo, BeginAbort, BeginStop, Transact
<1>26. CASE Teardown
  <2>1. commands' = commands
    BY <1>26 DEF Teardown, KillCamera, Alive
  <2> QED
    BY <1>26, <2>1, QueuedSame DEF Teardown, KillCamera, Alive
<1>27. CASE ReportExit
  <2>1. UNCHANGED <<pc, camera>> /\ unread' = unread - 1 /\ ~expectedExit'
    BY <1>27 DEF ReportExit
  <2>2. CASE expectedExit
    <3>1. commands' = commands
      BY <1>27, <2>2 DEF ReportExit
    <3> QED
      BY <2>1, <2>2, <3>1, QueuedSame
  <2>3. CASE ~expectedExit
    <3>1. commands' = Append(commands, [name |-> "process_exit", epoch |-> epoch])
      BY <1>27, <2>3 DEF ReportExit, Enqueue
    <3>2. [name |-> "process_exit", epoch |-> epoch] \in Entries
      BY DEF Entries
    <3>3. Queued("process_exit")'
      BY <3>1, <3>2, QueuedAppend
    <3> QED
      BY <3>3
  <2> QED
    BY <2>2, <2>3
<1>28. ASSUME NEW key \in Keys, Type(key) PROVE ExitsAccounted'
  <2>1. /\ commands' = Append(commands, [name |-> key, epoch |-> epoch])
        /\ UNCHANGED <<pc, expectedExit, unread>> /\ (camera' = "dead" => camera = "dead")
    BY <1>28 DEF Type, Enqueue
  <2>2. [name |-> key, epoch |-> epoch] \in Entries
    BY DEF Entries, Keys
  <2>3. Queued("process_exit") => Queued("process_exit")'
    BY <2>1, <2>2, QueuedAppend
  <2> QED
    BY <2>1, <2>3
<1>29. CASE CameraFatalLine
  <2>1. /\ commands' = Append(commands, [name |-> "realsense_fatal", epoch |-> epoch])
        /\ UNCHANGED <<pc, expectedExit, unread>> /\ (camera' = "dead" => camera = "dead")
    BY <1>29 DEF CameraFatalLine, Event, Alive, Enqueue
  <2>2. [name |-> "realsense_fatal", epoch |-> epoch] \in Entries
    BY DEF Entries, Keys
  <2>3. Queued("process_exit") => Queued("process_exit")'
    BY <2>1, <2>2, QueuedAppend
  <2> QED
    BY <2>1, <2>3
<1>30. CASE CameraExits
  <2>1. commands' = commands
    BY <1>30 DEF CameraExits, Event, Alive
  <2> QED
    BY <1>30, <2>1, QueuedSame DEF CameraExits, Event, Alive
<1>31. CASE ReceiverFails
  <2>1. /\ commands' = Append(commands, [name |-> "fatal", epoch |-> epoch])
        /\ UNCHANGED <<pc, expectedExit, unread>> /\ (camera' = "dead" => camera = "dead")
    BY <1>31 DEF ReceiverFails, Event, Enqueue
  <2>2. [name |-> "fatal", epoch |-> epoch] \in Entries
    BY DEF Entries, Keys
  <2>3. Queued("process_exit") => Queued("process_exit")'
    BY <2>1, <2>2, QueuedAppend
  <2> QED
    BY <2>1, <2>3
<1>32. CASE Interrupt
  <2>1. commands' = commands
    BY <1>32 DEF Interrupt, AbortOrStop, ActiveDemo, BeginAbort, BeginStop, Transact
  <2> QED
    BY <1>32, <2>1, QueuedSame
       DEF Interrupt, AbortOrStop, ActiveDemo, BeginAbort, BeginStop, Transact
<1>33. CASE UNCHANGED vars
  BY <1>33, QueuedSame DEF vars
<1> QED
  BY <1>1, <1>2, <1>3, <1>4, <1>5, <1>6, <1>7, <1>8, <1>9, <1>10, <1>11, <1>12, <1>13, <1>14,
     <1>15, <1>16, <1>17, <1>18, <1>19, <1>20, <1>21, <1>22, <1>23, <1>24, <1>25, <1>26, <1>27,
     <1>28, <1>29, <1>30, <1>31, <1>32, <1>33
     DEF Next, Main, Environment

\* A step from a state of the invariant writes manifests truthfully.
LEMMA TruthfulStep ==
  ASSUME IInv, [Next]_vars
  PROVE  Truthful
<1> USE DEF IInv, TypeOK, DemoType, ThreadType, Tracked, Booting, Waiting, Starting, RollingBack,
            Pausing, Ending, Manifested, Truthful, Sensors, Devices, Demos, demo, thread, devices,
            process, bounds
<1>1. CASE StartServices
  BY <1>1 DEF StartServices, Fails, BeginStop, Transact
<1>2. CASE StopBootstrap
  BY <1>2 DEF StopBootstrap, Fails, BeginStop, Transact
<1>3. CASE StartupReady
  BY <1>3 DEF StartupReady, Fails, BeginStop, Transact
<1>4. CASE Reject
  BY <1>4 DEF Reject, Take
<1>5. CASE StartOrResume
  BY <1>5 DEF StartOrResume, Take, Transact
<1>6. CASE PauseDemo
  BY <1>6 DEF PauseDemo, Take, Transact
<1>7. CASE FinishDemo
  BY <1>7 DEF FinishDemo, Take, Transact
<1>8. CASE DiscardDemo
  BY <1>8 DEF DiscardDemo, Take, Transact
<1>9. CASE Quit
  BY <1>9 DEF Quit, Take, AbortOrStop, ActiveDemo, BeginAbort, BeginStop, Transact
<1>10. CASE UnrecoverableFatal
  BY <1>10 DEF UnrecoverableFatal, Take, AbortOrStop, ActiveDemo, BeginAbort, BeginStop, Transact
<1>11. CASE RealsenseFatal
  BY <1>11 DEF RealsenseFatal, Take, Transact
<1>12. CASE Leave
  BY <1>12 DEF Leave, BeginStop, Transact
<1>13. CASE CommandDevice
  BY <1>13
     DEF CommandDevice, Turn, Rank, SensorCommand, BagCommand, Legal, Target, Unconfirmed, Request,
         Fails
<1>14. CASE StartSensor
  BY <1>14 DEF StartSensor, Turn, Rank, Legal, Fails, Rollback, Transact
<1>15. CASE CheckImages
  BY <1>15 DEF CheckImages, Fails, Rollback, Transact
<1>16. CASE RecordBag
  BY <1>16 DEF RecordBag, Fails, Rollback, Transact
<1>17. CASE ResumeBag
  BY <1>17 DEF ResumeBag, Fails, Rollback, Transact
<1>18. CASE RolledBack
  <2>1. store # 0 /\ manifest[store] = "none"
    BY <1>18 DEF RolledBack
  <2>2. manifest' \in {manifest} \cup {[manifest EXCEPT ![store] = status] : status \in {"failed"}}
    BY <1>18 DEF RolledBack, Write, Forget, SaveFails, LoopFails, Escapes, Fails, BeginStop,
                 Transact
  <2> QED
    BY <2>1, <2>2
<1>19. CASE Paused
  <2>1. store # 0 /\ manifest[store] = "none"
    BY <1>19 DEF Paused
  <2>2. manifest' \in {manifest} \cup {[manifest EXCEPT ![store] = status] : status \in {"failed"}}
    BY <1>19 DEF Paused, Write, Forget, SaveFails, LoopFails, Escapes, Fails, BeginStop, Transact
  <2> QED
    BY <2>1, <2>2
<1>20. CASE Finished
  <2>1. store # 0 /\ manifest[store] = "none"
    BY <1>20 DEF Finished
  <2>2. CASE failed = {}
    <3>1. bag = "idle" /\ \A s \in Sensors : sensor[s] = "idle"
      BY <1>20, <2>2 DEF Finished
    <3>2. manifest' \in {manifest}
             \cup {[manifest EXCEPT ![store] = status] : status \in {"failed", "done"}}
      BY <1>20 DEF Finished, Write, SaveFails, LoopFails, Escapes, demo
    <3> QED
      BY <2>1, <3>1, <3>2
  <2>3. CASE failed # {}
    <3>1. manifest' \in {manifest, [manifest EXCEPT ![store] = "failed"]}
      BY <1>20, <2>3 DEF Finished, Write, SaveFails, LoopFails, Escapes, demo
    <3> QED
      BY <2>1, <3>1
  <2> QED
    BY <2>2, <2>3
<1>21. CASE Discarded
  <2>1. store # 0 /\ manifest[store] = "none"
    BY <1>21 DEF Discarded
  <2>2. manifest' \in {manifest} \cup {[manifest EXCEPT ![store] = status] : status \in {"failed",
      "discarded"}}
    BY <1>21 DEF Discarded, Write, Forget, SaveFails, LoopFails, Escapes, Fails, BeginStop, Transact
  <2> QED
    BY <2>1, <2>2
<1>22. CASE Aborted
  <2>1. store # 0 /\ manifest[store] = "none"
    BY <1>22 DEF Aborted
  <2>2. manifest' \in {manifest} \cup {[manifest EXCEPT ![store] = status] : status \in {"failed"}}
    BY <1>22 DEF Aborted, Write, Forget, SaveFails, LoopFails, Escapes, Fails, BeginStop, Transact
  <2> QED
    BY <2>1, <2>2
<1>23. CASE StopCamera
  BY <1>23 DEF StopCamera, KillCamera, Alive
<1>24. CASE RelaunchCamera
  BY <1>24 DEF RelaunchCamera
<1>25. CASE CameraReady
  BY <1>25 DEF CameraReady, Alive, Fails, AbortOrStop, ActiveDemo, BeginAbort, BeginStop, Transact
<1>26. CASE Teardown
  BY <1>26 DEF Teardown, KillCamera, Alive
<1>27. CASE ReportExit
  BY <1>27 DEF ReportExit, Enqueue
<1>28. ASSUME NEW key \in Keys, Type(key) PROVE Truthful
  BY <1>28 DEF Type, Enqueue
<1>29. CASE CameraFatalLine
  BY <1>29 DEF CameraFatalLine, Event, Alive, Enqueue
<1>30. CASE CameraExits
  BY <1>30 DEF CameraExits, Event, Alive
<1>31. CASE ReceiverFails
  BY <1>31 DEF ReceiverFails, Event, Enqueue
<1>32. CASE Interrupt
  BY <1>32 DEF Interrupt, AbortOrStop, ActiveDemo, BeginAbort, BeginStop, Transact
<1>33. CASE UNCHANGED vars
  BY <1>33 DEF vars
<1> QED
  BY <1>1, <1>2, <1>3, <1>4, <1>5, <1>6, <1>7, <1>8, <1>9, <1>10, <1>11, <1>12, <1>13, <1>14,
     <1>15, <1>16, <1>17, <1>18, <1>19, <1>20, <1>21, <1>22, <1>23, <1>24, <1>25, <1>26, <1>27,
     <1>28, <1>29, <1>30, <1>31, <1>32, <1>33
     DEF Next, Main, Environment

-----------------------------------------------------------------------------
(***************************************************************************)
(* The theorems.                                                           *)
(***************************************************************************)
\* The invariant holds initially.
LEMMA InitIInv == Init => IInv
<1> SUFFICES ASSUME Init
             PROVE  IInv
  OBVIOUS
<1> USE DEF Init
<1>1. QueueType
  BY DEF QueueType
<1>2. DemoType /\ ThreadType /\ ProcessType
  <2>1. DemoType
    <3>1. demos \in 0..MaxInputs /\ store \in 0..demos
      BY CollectionAssumption
    <3> QED
      BY <3>1 DEF DemoType
  <2>2. ThreadType
    BY DEF ThreadType
  <2> QED
    BY <2>1, <2>2 DEF ProcessType
<1>8. DeviceType
  BY DEF DeviceType
<1>3. inputs \in 0..MaxInputs /\ faults \in 0..MaxFaults
  BY CollectionAssumption
<1>4. Tracked
  BY DEF Tracked, Booting, Waiting, Starting, RollingBack, Pausing, Ending, SensorsIn, Live
<1>5. Manifested
  BY DEF Manifested, Demos
<1>6. ExitsAccounted
  BY DEF ExitsAccounted, Owed
<1>7. DemosTyped
  <2>1. StartsIn(commands) = {}
    BY DEF StartsIn
  <2>2. Cardinality(StartsIn(commands)) = 0
    BY <2>1, FS_EmptySet
  <2> QED
    BY <2>2 DEF DemosTyped
<1> QED
  BY <1>1, <1>2, <1>8, <1>3, <1>4, <1>5, <1>6, <1>7 DEF IInv, TypeOK

\* Every step keeps the invariant.
LEMMA NextIInv == IInv /\ [Next]_vars => IInv'
<1> SUFFICES ASSUME IInv, [Next]_vars
             PROVE  IInv'
  OBVIOUS
<1>1. TypeOK'
  BY QueueStep, DemoTypeStep, ThreadTypeStep, DeviceTypeStep, ProcessTypeStep, BoundStep
     DEF TypeOK
<1> QED
  BY <1>1, TrackedStep, ManifestedStep, ExitsStep, DemosTypedStep DEF IInv

\* The invariant holds in every state, whatever the keys, the failures and their order.
THEOREM InvariantHolds == Spec => []IInv
<1> QED
  BY InitIInv, NextIInv, PTL DEF Spec

\* Types; in particular no more demos are created than keys were typed.
THEOREM TypeCorrect == Spec => []TypeOK
<1>1. IInv => TypeOK
  BY DEF IInv
<1> QED
  BY <1>1, InvariantHolds, PTL

\* Whenever the controller waits for a command, both sensors and the recorder are where its
\* state says.
THEOREM DevicesMatched == Spec => []ControllerMatchesDevices
<1>1. IInv => ControllerMatchesDevices
  BY DEF IInv, Tracked, Waiting, AtRest, Resting, Collecting, SensorsIn, ControllerMatchesDevices
<1> QED
  BY <1>1, InvariantHolds, PTL

\* No sensor is ever sent a command its protocol does not allow.
THEOREM SensorsNeverConfused == Spec => []NeverConfused
<1>1. IInv => NeverConfused
  BY DEF IInv, Tracked, SensorsIn, NeverConfused
<1> QED
  BY <1>1, InvariantHolds, PTL

\* A run that ends by itself leaves a manifest for every demo.
THEOREM DemosSettled == Spec => []EveryDemoSettled
<1>1. IInv => EveryDemoSettled
  BY DEF IInv, TypeOK, DemoType, Manifested, EveryDemoSettled
<1> QED
  BY <1>1, InvariantHolds, PTL

\* A RealSense process that died by itself is reported, or about to be.
THEOREM LossReported == Spec => []LossIsReported
<1>1. IInv => LossIsReported
  BY DEF IInv, TypeOK, ProcessType, ExitsAccounted, Owed, Live, LossIsReported
<1> QED
  BY <1>1, InvariantHolds, PTL

\* A manifest is written once, and says done only when the sensors and the recorder are at rest.
THEOREM ManifestsTruthful == Spec => ManifestTruthful
<1>1. IInv /\ [Next]_vars => [Truthful]_vars
  BY TruthfulStep
<1> QED
  BY <1>1, InvariantHolds, PTL DEF Spec, ManifestTruthful, Truthful

=============================================================================
