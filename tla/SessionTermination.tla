------------------------- MODULE SessionTermination -------------------------
(***************************************************************************)
(* What an inference session promises about its end, with no thread, lock  *)
(* or message in it: a shutdown can be requested and withdrawn, a failure  *)
(* overrides it for good, and the session closes once, after the worker is *)
(* gone, with a record of the intent that was in force at that moment.     *)
(* InferenceSession implements it (TerminationSpec there).                 *)
(***************************************************************************)
VARIABLES
  intent,    \* "None", "SHUTDOWN" or "FAIL_STOP"
  record,    \* the intent the closed session recorded, or "none"
  workerUp   \* the robot worker is running

vars == <<intent, record, workerUp>>

Init == intent = "None" /\ record = "none" /\ workerUp = TRUE

Open == record = "none"

RequestShutdown ==
  /\ Open /\ intent = "None"
  /\ intent' = "SHUTDOWN"
  /\ UNCHANGED <<record, workerUp>>

WithdrawShutdown ==
  /\ Open /\ intent = "SHUTDOWN"
  /\ intent' = "None"
  /\ UNCHANGED <<record, workerUp>>

Fail ==
  /\ Open /\ intent # "FAIL_STOP"
  /\ intent' = "FAIL_STOP"
  /\ UNCHANGED <<record, workerUp>>

\* The worker exits on request, is killed or crashes; it is never started again.
WorkerGone == workerUp /\ workerUp' = FALSE /\ UNCHANGED <<intent, record>>

Close ==
  /\ Open /\ ~workerUp
  /\ intent # "None"
  /\ record' = intent
  /\ UNCHANGED <<intent, workerUp>>

Next == RequestShutdown \/ WithdrawShutdown \/ Fail \/ WorkerGone \/ Close

Spec == Init /\ [][Next]_vars

=============================================================================
