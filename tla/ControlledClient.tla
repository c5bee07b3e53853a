-------------------------- MODULE ControlledClient --------------------------
(***************************************************************************)
(* The client end of the LeRobot control socket                            *)
(* (main_controller/inference_protocol.py, class ControlledClient):        *)
(* threads that run transactions or send without waiting, the receiver     *)
(* thread that files their answers, and close().  InferenceSession uses    *)
(* the client through what this module shows of it.                        *)
(*                                                                         *)
(* An operation stands for its completion status too: START for STARTED.   *)
(* The worker at the other end is external.                                *)
(***************************************************************************)
EXTENDS Integers, Sequences, FiniteSets

CONSTANTS
  Transactors,  \* threads that call transact()
  Senders,      \* threads that call send() only, as the fail-stop thread does
  Operations,   \* the ordinary operations
  MaxSequence,  \* bound: sequence numbers allocated
  Faults        \* what may happen in this instance

ASSUME ClientAssumption ==
  /\ IsFiniteSet(Transactors \cup Senders)
  /\ Transactors \cap Senders = {}
  /\ {"receiver", "free"} \cap (Transactors \cup Senders) = {}
  /\ {"FAIL_STOP", "ERROR", "none"} \cap Operations = {}
  /\ MaxSequence \in Nat \ {0}
  /\ Faults \subseteq {"error",     \* the worker reports STATUS ERROR
                       "hangup",    \* the worker closes the socket at any time
                       "protocol",  \* the worker repeats, misnumbers or garbles a response
                       "close"}     \* the controller closes the client

VARIABLES
  sequence,       \* _sequence
  socket,         \* _socket: "none" (before connect and after close) or "open"
  stop,           \* _stop
  disconnected,   \* _disconnected
  ordinaryLock,   \* holder of _ordinary_lock
  sentOperations, \* _sent_operations
  acks,           \* _acks
  statuses,       \* _statuses
  reported,       \* calls of on_disconnect
  protocolError,  \* the receiver raised ControlledClientProtocolError
  pc,
  request,        \* the sequence each thread is sending or waiting for
  operation,      \* its operation
  after,          \* after_index of its transaction
  answered,       \* the request whose completion its last transaction returned
  first,          \* what a thread read in _mark_disconnected
  toPeer, fromPeer, link, serving, peerStatus  \* external: the wires and the worker

callers == <<ordinaryLock, pc, request, operation, after, answered, first>>
filed   == <<acks, statuses>>
channel == <<socket, stop, disconnected, reported, protocolError>>
peer    == <<toPeer, fromPeer, link, serving, peerStatus>>
vars    == <<sequence, sentOperations, callers, filed, channel, peer>>

Callers   == Transactors \cup Senders
Threads   == Callers \cup {"receiver"}
Sequences == 1..MaxSequence
FailStop  == "FAIL_STOP"

Ack(s, o, ok)        == [kind |-> "ack", seq |-> s, name |-> o, ok |-> ok]
Status(n, name, for) == [kind |-> "status", seq |-> n, name |-> name, for |-> for]
Garbled              == [kind |-> "garbled"]

Goto(t, label) == pc' = [pc EXCEPT ![t] = label]

\* Bound: a thread begins only when a sequence number is left for it.
Allocatable == sequence + Cardinality({t \in Callers : pc[t] = "allocate"}) < MaxSequence

-----------------------------------------------------------------------------
Connect ==
  /\ socket = "none" /\ ~stop /\ pc["receiver"] = "off"
  /\ socket' = "open"
  /\ Goto("receiver", "recv")
  /\ UNCHANGED <<sequence, sentOperations, ordinaryLock, request, operation, after, answered,
                 first, filed, stop, disconnected, reported, protocolError, peer>>

\* Mutant: the scan for the completion starts at the first status ever received.
BeginFromStart(t, o) ==
  /\ pc[t] = "idle" /\ ordinaryLock = "free" /\ Allocatable
  /\ ordinaryLock' = t
  /\ operation' = [operation EXCEPT ![t] = o]
  /\ after' = [after EXCEPT ![t] = 0]
  /\ answered' = [answered EXCEPT ![t] = 0]
  /\ Goto(t, "allocate")
  /\ UNCHANGED <<sequence, sentOperations, request, first, filed, channel, peer>>

\* transact: the ordinary lock, then status_count.
Begin(t, o) ==
  /\ pc[t] = "idle" /\ ordinaryLock = "free" /\ Allocatable
  /\ ordinaryLock' = t
  /\ operation' = [operation EXCEPT ![t] = o]
  /\ after' = [after EXCEPT ![t] = Len(statuses)]
  /\ answered' = [answered EXCEPT ![t] = 0]
  /\ Goto(t, "allocate")
  /\ UNCHANGED <<sequence, sentOperations, request, first, filed, channel, peer>>

BeginSend(t) ==
  /\ pc[t] = "idle" /\ Allocatable
  /\ operation' = [operation EXCEPT ![t] = FailStop]
  /\ Goto(t, "allocate")
  /\ UNCHANGED <<sequence, sentOperations, ordinaryLock, request, after, answered, first,
                 filed, channel, peer>>

\* The caller returns or raises; a transaction releases the ordinary lock.
Leave(t) ==
  /\ Goto(t, "idle")
  /\ ordinaryLock' = IF t \in Transactors THEN "free" ELSE ordinaryLock

\* Mutant: every send waits for its turn among the transactions.
AllocateInTurn(t) ==
  /\ pc[t] = "allocate" /\ ordinaryLock \in {"free", t}
  /\ sequence' = sequence + 1
  /\ request' = [request EXCEPT ![t] = sequence + 1]
  /\ \/ socket = "open" /\ Goto(t, "register") /\ UNCHANGED ordinaryLock
     \/ socket # "open" /\ Leave(t)
  /\ UNCHANGED <<sentOperations, operation, after, answered, first, filed, channel, peer>>

(***************************************************************************)
(* send: allocate under the sequence lock and read the socket; register    *)
(* the operation under the condition; sendall under the send lock.  The    *)
(* three are separate critical sections.                                   *)
(***************************************************************************)
Allocate(t) ==
  /\ pc[t] = "allocate"
  /\ sequence' = sequence + 1
  /\ request' = [request EXCEPT ![t] = sequence + 1]
  /\ \/ socket = "open" /\ Goto(t, "register") /\ UNCHANGED ordinaryLock
     \/ socket # "open" /\ Leave(t)
  /\ UNCHANGED <<sentOperations, operation, after, answered, first, filed, channel, peer>>

\* Mutant: the operation is registered under _sequence as it is now.
RegisterLatest(t) ==
  /\ pc[t] = "register"
  /\ sentOperations' = [sentOperations EXCEPT ![sequence] = operation[t]]
  /\ Goto(t, "transmit")
  /\ UNCHANGED <<sequence, ordinaryLock, request, operation, after, answered, first, filed,
                 channel, peer>>

Register(t) ==
  /\ pc[t] = "register"
  /\ sentOperations' = [sentOperations EXCEPT ![request[t]] = operation[t]]
  /\ Goto(t, "transmit")
  /\ UNCHANGED <<sequence, ordinaryLock, request, operation, after, answered, first, filed,
                 channel, peer>>

\* sendall; an error withdraws the registration.
Transmit(t) ==
  /\ pc[t] = "transmit"
  /\ \/ /\ link = "up" /\ socket = "open"
        /\ toPeer' = Append(toPeer, <<request[t], operation[t]>>)
        /\ \/ t \in Transactors /\ Goto(t, "ack")
           \/ t \in Senders     /\ Goto(t, "idle")
        /\ UNCHANGED sentOperations
     \/ /\ link # "up" \/ socket # "open"
        /\ sentOperations' = [sentOperations EXCEPT ![request[t]] = "none"]
        /\ Goto(t, "mark")
        /\ UNCHANGED toPeer
  /\ UNCHANGED <<sequence, ordinaryLock, request, operation, after, answered, first, filed,
                 channel, fromPeer, link, serving, peerStatus>>

\* wait_for_ack without a timeout.
WaitForAck(t) ==
  /\ pc[t] = "ack"
  /\ \/ /\ acks[request[t]] = "accepted"
        /\ Goto(t, "status")
        /\ UNCHANGED ordinaryLock
     \/ /\ acks[request[t]] = "rejected" \/ (acks[request[t]] = "none" /\ disconnected)
        /\ Leave(t)
  /\ UNCHANGED <<sequence, sentOperations, request, operation, after, answered, first, filed,
                 channel, peer>>

\* The statuses wait_for_status scans: the first that is an ERROR or the completion decides.
Decisive(t) == {i \in after[t] + 1 .. Len(statuses) :
                  statuses[i].name \in {"ERROR", operation[t]}}

WaitForStatus(t) ==
  /\ pc[t] = "status"
  /\ \/ \E i \in Decisive(t) :
          /\ \A j \in Decisive(t) : i <= j
          /\ answered' = [answered EXCEPT
                            ![t] = IF statuses[i].name = "ERROR" THEN 0 ELSE statuses[i].for]
     \/ Decisive(t) = {} /\ disconnected /\ UNCHANGED answered
  /\ Leave(t)
  /\ UNCHANGED <<sequence, sentOperations, request, operation, after, first, filed, channel,
                 peer>>

-----------------------------------------------------------------------------
\* _mark_disconnected: the flag is read, then set in a separate step.
MarkRead(t) ==
  /\ pc[t] = "mark"
  /\ first' = [first EXCEPT ![t] = ~disconnected]
  /\ Goto(t, "mark_set")
  /\ UNCHANGED <<sequence, sentOperations, ordinaryLock, request, operation, after, answered,
                 filed, channel, peer>>

\* Mutant: the flag is read after it has been set.
MarkSetForgetful(t) ==
  /\ pc[t] = "mark_set"
  /\ disconnected' = TRUE
  /\ UNCHANGED reported
  /\ \/ t = "receiver" /\ Goto(t, "ended") /\ UNCHANGED ordinaryLock
     \/ t \in Callers /\ Leave(t)
  /\ UNCHANGED <<sequence, sentOperations, request, operation, after, answered, first, filed,
                 socket, stop, protocolError, peer>>

\* Mutant: on_disconnect is called but the event is not set.
MarkSetSilent(t) ==
  /\ pc[t] = "mark_set"
  /\ reported' = IF first[t] THEN reported + 1 ELSE reported
  /\ \/ t = "receiver" /\ Goto(t, "ended") /\ UNCHANGED ordinaryLock
     \/ t \in Callers /\ Leave(t)
  /\ UNCHANGED <<sequence, sentOperations, request, operation, after, answered, first, filed,
                 socket, stop, disconnected, protocolError, peer>>

\* The event, the notification and on_disconnect.
MarkSet(t) ==
  /\ pc[t] = "mark_set"
  /\ disconnected' = TRUE
  /\ reported' = IF first[t] THEN reported + 1 ELSE reported
  /\ \/ t = "receiver" /\ Goto(t, "ended") /\ UNCHANGED ordinaryLock
     \/ t \in Callers /\ Leave(t)
  /\ UNCHANGED <<sequence, sentOperations, request, operation, after, answered, first, filed,
                 socket, stop, protocolError, peer>>

-----------------------------------------------------------------------------
\* What _receive_loop accepts; parse_response has rejected a garbled packet before.
Acceptable(m) ==
  \/ /\ m.kind = "ack"
     /\ m.seq \in Sequences
     /\ sentOperations[m.seq] = m.name
     /\ acks[m.seq] = "none"
  \/ /\ m.kind = "status"
     /\ \A i \in DOMAIN statuses : statuses[i].seq < m.seq

Receive ==
  /\ pc["receiver"] = "recv" /\ socket = "open" /\ fromPeer # <<>>
  /\ fromPeer' = Tail(fromPeer)
  /\ LET m == Head(fromPeer) IN
     \/ /\ Acceptable(m) /\ m.kind = "ack"
        /\ acks' = [acks EXCEPT ![m.seq] = IF m.ok THEN "accepted" ELSE "rejected"]
        /\ UNCHANGED <<statuses, protocolError, pc>>
     \/ /\ Acceptable(m) /\ m.kind = "status"
        /\ statuses' = Append(statuses, m)
        /\ UNCHANGED <<acks, protocolError, pc>>
     \/ /\ ~Acceptable(m)
        /\ protocolError' = TRUE
        /\ Goto("receiver", "raised")
        /\ UNCHANGED filed
  /\ UNCHANGED <<sequence, sentOperations, ordinaryLock, request, operation, after, answered,
                 first, socket, stop, disconnected, reported, toPeer, link, serving,
                 peerStatus>>

\* recv returns nothing or fails; after close() the loop ends or the socket is gone.
EndOfFile ==
  /\ pc["receiver"] = "recv"
  /\ socket # "open" \/ (link # "up" /\ fromPeer = <<>>)
  /\ Goto("receiver", "raised")
  /\ UNCHANGED <<sequence, sentOperations, ordinaryLock, request, operation, after, answered,
                 first, filed, channel, peer>>

\* The except clause: nothing is marked once the client is being closed.
ReceiverRaised ==
  /\ pc["receiver"] = "raised"
  /\ Goto("receiver", IF stop THEN "ended" ELSE "mark")
  /\ UNCHANGED <<sequence, sentOperations, ordinaryLock, request, operation, after, answered,
                 first, filed, channel, peer>>

\* close(): the notification wakes the waiters, which test conditions it has not changed.
Close ==
  /\ "close" \in Faults
  /\ ~stop
  /\ stop' = TRUE
  /\ socket' = "none"
  /\ UNCHANGED <<sequence, sentOperations, callers, filed, disconnected, reported,
                 protocolError, peer>>

-----------------------------------------------------------------------------
\* The worker (external) acknowledges a request, and completes what it accepted.
PeerAcknowledge(ok) ==
  /\ link = "up" /\ serving = 0 /\ toPeer # <<>>
  /\ toPeer' = Tail(toPeer)
  /\ fromPeer' = Append(fromPeer, Ack(Head(toPeer)[1], Head(toPeer)[2], ok))
  /\ serving' = IF ok /\ Head(toPeer)[2] # FailStop THEN Head(toPeer)[1] ELSE 0
  /\ UNCHANGED <<sequence, sentOperations, callers, filed, channel, link, peerStatus>>

PeerReports(name, for) ==
  /\ fromPeer' = Append(fromPeer, Status(peerStatus + 1, name, for))
  /\ peerStatus' = peerStatus + 1
  /\ UNCHANGED <<sequence, sentOperations, callers, filed, channel, toPeer>>

PeerCompletes ==
  /\ link = "up" /\ serving # 0
  /\ serving' = 0
  /\ PeerReports(sentOperations[serving], serving)
  /\ UNCHANGED link

\* STATUS ERROR is the last thing the worker says.
PeerFails ==
  /\ "error" \in Faults
  /\ link = "up"
  /\ link' = "closed"
  /\ PeerReports("ERROR", 0)
  /\ UNCHANGED serving

PeerHangsUp ==
  /\ "hangup" \in Faults
  /\ link = "up"
  /\ link' = "closed"
  /\ UNCHANGED <<sequence, sentOperations, callers, filed, channel, toPeer, fromPeer, serving,
                 peerStatus>>

PeerMisbehaves ==
  /\ "protocol" \in Faults
  /\ link = "up"
  /\ \E m \in {Garbled, Status(peerStatus, "ERROR", 0)}
               \cup {Ack(s, o, ok) : s \in Sequences, o \in Operations, ok \in BOOLEAN} :
       fromPeer' = Append(fromPeer, m)
  /\ link' = "broken"
  /\ UNCHANGED <<sequence, sentOperations, callers, filed, channel, toPeer, serving,
                 peerStatus>>

-----------------------------------------------------------------------------
Init ==
  /\ sequence = 0 /\ socket = "none" /\ stop = FALSE /\ disconnected = FALSE
  /\ ordinaryLock = "free"
  /\ sentOperations = [s \in Sequences |-> "none"]
  /\ acks = [s \in Sequences |-> "none"] /\ statuses = <<>>
  /\ reported = 0 /\ protocolError = FALSE
  /\ pc = [t \in Threads |-> IF t = "receiver" THEN "off" ELSE "idle"]
  /\ request = [t \in Callers |-> 0]
  /\ operation = [t \in Callers |-> FailStop]
  /\ after = [t \in Callers |-> 0] /\ answered = [t \in Callers |-> 0]
  /\ first = [t \in Threads |-> FALSE]
  /\ toPeer = <<>> /\ fromPeer = <<>> /\ link = "up" /\ serving = 0 /\ peerStatus = 0

Progress(t) ==
  Allocate(t) \/ Register(t) \/ Transmit(t) \/ MarkRead(t) \/ MarkSet(t)

Wait(t) == WaitForAck(t) \/ WaitForStatus(t)

ReceiverStep ==
  Receive \/ EndOfFile \/ ReceiverRaised \/ MarkRead("receiver") \/ MarkSet("receiver")

PeerStep == (\E ok \in BOOLEAN : PeerAcknowledge(ok)) \/ PeerCompletes

Next ==
  \/ Connect \/ ReceiverStep \/ Close
  \/ \E t \in Transactors : Wait(t) \/ \E o \in Operations : Begin(t, o)
  \/ \E t \in Senders : BeginSend(t)
  \/ \E t \in Callers : Progress(t)
  \/ PeerStep \/ PeerFails \/ PeerHangsUp \/ PeerMisbehaves

Spec == Init /\ [][Next]_vars

(***************************************************************************)
(* Python schedules every thread that can run.  The worker may hang in an  *)
(* operation for ever, unless a property presumes that it answers.         *)
(***************************************************************************)
ClientFairness ==
  /\ WF_vars(ReceiverStep)
  /\ \A t \in Callers : WF_vars(Progress(t))
  /\ \A t \in Transactors : WF_vars(Wait(t))

FairSpec == Spec /\ ClientFairness

PeerAnswers == WF_vars(PeerStep)

-----------------------------------------------------------------------------
Names == Operations \cup {"ERROR"}
Responses ==
  [kind : {"ack"}, seq : Nat, name : Operations \cup {FailStop}, ok : BOOLEAN]
    \cup [kind : {"status"}, seq : Nat, name : Names, for : 0..MaxSequence]
    \cup {Garbled}

\* Every variable has its type.
TypeOK ==
  /\ sequence \in 0..MaxSequence
  /\ socket \in {"none", "open"}
  /\ stop \in BOOLEAN /\ disconnected \in BOOLEAN /\ protocolError \in BOOLEAN
  /\ ordinaryLock \in Transactors \cup {"free"}
  /\ sentOperations \in [Sequences -> Operations \cup {FailStop, "none"}]
  /\ acks \in [Sequences -> {"none", "accepted", "rejected"}]
  /\ statuses \in Seq(Responses) /\ fromPeer \in Seq(Responses)
  /\ reported \in Nat
  /\ pc \in [Threads -> {"off", "idle", "allocate", "register", "transmit", "ack", "status",
                         "mark", "mark_set", "recv", "raised", "ended"}]
  /\ request \in [Callers -> 0..MaxSequence]
  /\ operation \in [Callers -> Operations \cup {FailStop}]
  /\ after \in [Callers -> Nat]
  /\ answered \in [Callers -> 0..MaxSequence]
  /\ first \in [Threads -> BOOLEAN]
  /\ toPeer \in Seq(Sequences \X (Operations \cup {FailStop}))
  /\ link \in {"up", "closed", "broken"} /\ serving \in 0..MaxSequence /\ peerStatus \in Nat

\* A worker that keeps the protocol is never accused of breaking it, however the sending
\* threads interleave with the receiver: every ACK finds its request registered.
NoFalseProtocolError == protocolError => link = "broken"

\* A transaction that returns a completion returns its own: a status of an earlier
\* transaction, or of another thread's, never completes it.
CompletionIsOwn == \A t \in Transactors : answered[t] # 0 => answered[t] = request[t]

\* A worker that answers, or hangs up, leaves no transaction waiting, unless the controller
\* closes the client, which wakes nobody.
TransactReturns ==
  PeerAnswers =>
    \A t \in Transactors : pc[t] \in {"ack", "status"} ~> pc[t] = "idle" \/ stop

\* A lost worker is reported to the controller, whichever thread notices first, unless the
\* controller itself is closing the client.
LossIsReported == link # "up" /\ socket = "open" ~> reported > 0 \/ stop

\* A thread that only sends gets its packet out, or an error, while another thread's
\* transaction waits on a worker that may never answer.
SendNeverWaits == \A t \in Senders : pc[t] # "idle" ~> pc[t] = "idle"

\* close(): "Close the client and wake every waiter."
CloseReleasesWaiters ==
  \A t \in Transactors : stop /\ pc[t] \in {"ack", "status"} ~> pc[t] = "idle"

=============================================================================
