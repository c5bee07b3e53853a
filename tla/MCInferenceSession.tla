------------------------- MODULE MCInferenceSession -------------------------
(***************************************************************************)
(* Model of InferenceSession for TLC.  All kinds of faults at once are too *)
(* many states, so each behaviour belongs to a scenario, which fixes the   *)
(* kinds that may occur in it and the number of rollouts.                  *)
(***************************************************************************)
EXTENDS InferenceSession

VARIABLE scenario

\* The liveness properties suppose what the scenario "live" has: the worker fails, but it executes
\* what it accepted, disk writes succeed and bounded waits are long enough.
LiveFaults == {"complete", "error", "crash"}

\* Rollouts after one another; a fault report while the recorder fails; faults of the worker;
\* its crash while sensors and recorder fail; faults of the session's surroundings.
Scenarios ==
  [rollouts     |-> [rollouts |-> 2, faults |-> {"complete", "abort"}],
   recorder     |-> [rollouts |-> 1, faults |-> {"report", "rosbag"}],
   worker       |-> [rollouts |-> 1, faults |-> {"error", "reject", "slow", "crash"}],
   devices      |-> [rollouts |-> 1, faults |-> {"crash", "sensor", "rosbag"}],
   surroundings |-> [rollouts |-> 1, faults |-> {"interrupt", "disk", "health"}],
   live         |-> [rollouts |-> 1, faults |-> LiveFaults]]

Session(rollouts, faults) ==
  INSTANCE InferenceSession WITH MaxRollouts <- rollouts, Faults <- faults

MCInit == Init /\ scenario \in DOMAIN Scenarios

MCNext ==
  \E i \in DOMAIN Scenarios :
    /\ scenario = i
    /\ Session(Scenarios[i].rollouts, Scenarios[i].faults)!Next
    /\ UNCHANGED scenario

MCSpec == MCInit /\ [][MCNext]_<<vars, scenario>>

-----------------------------------------------------------------------------
(***************************************************************************)
(* The fairness of InferenceSession!FairSpec, in the scenario "live".      *)
(***************************************************************************)
Live == INSTANCE InferenceSession WITH MaxRollouts <- 1, Faults <- LiveFaults

Running == scenario = "live" /\ pc["main"] # "exited"

FairMCSpec ==
  /\ MCSpec
  /\ WF_vars(Running /\ Live!MainStep)
  /\ WF_vars(Running /\ Live!FailStopStep)
  /\ WF_vars(Running /\ Live!ReceiverStep)
  /\ WF_vars(Running /\ Live!ReaderStep)
  /\ WF_vars(Running /\ Live!EstablishFailStop("reporter"))
  /\ WF_vars(scenario = "live" /\ Live!WorkerStep)

\* The main thread waits for the lock it holds itself, which no thread can help.
SelfDeadlock == pc["main"] = "sd_deadlock"

\* A requested fail-stop ends with the session finalized, whatever the main thread is doing
\* and however the worker failed, unless the main thread has locked itself out.
FailStopFinalizes ==
  scenario = "live" => (failStopRequested ~> sessionManifest # "none" \/ SelfDeadlock)

\* Once a fail-stop is requested every rollout, also one that begins afterwards on the main
\* thread, is closed, and in the end none is open, with the same exception.
RolloutSettles ==
  scenario = "live" => (failStopRequested ~> [](store = 0) \/ SelfDeadlock)

=============================================================================
