----------------------- MODULE ControlledClientProofs -----------------------
(***************************************************************************)
(* Theorems about ControlledClient, for every set of threads, every set of *)
(* operations and every bound on the sequence numbers: a worker that keeps *)
(* the protocol is never accused of breaking it, and a transaction never   *)
(* returns the completion of another.                                      *)
(*                                                                         *)
(* Both follow from what may be under way at a time: a request is on one   *)
(* of the wires, or served, or answered, and is registered all the while   *)
(* (Registered); and while the connection lasts there is nothing ordinary  *)
(* under way but the request of the transaction that waits (OwnOnly,       *)
(* OnlyOnce, Quiescent).                                                   *)
(***************************************************************************)
EXTENDS ControlledClient, FiniteSetTheorems, SequenceTheorems, TLAPS

\* What is on a wire, and what holds of any two of its elements in their order.
In(queue) == {queue[i] : i \in 1..Len(queue)}

Pairwise(queue, R) == \A i, j \in 1..Len(queue) : i < j => <<queue[i], queue[j]>> \in R

Requests == Sequences \X (Operations \cup {FailStop})

Completes(m) == m.kind = "status" /\ m.name # "ERROR"

Distinct == {p \in Requests \X Requests : p[1][1] # p[2][1]}

Ordered ==
  {p \in Responses \X Responses :
     /\ p[1].kind = "ack" /\ p[2].kind = "ack" => p[1].seq # p[2].seq
     /\ p[1].kind = "status" /\ p[2].kind = "status" => p[1].seq < p[2].seq}

Single == {p \in Responses \X Responses : ~Completes(p[1]) \/ ~Completes(p[2])}

\* What was appended after the first n.
Since(queue, n) == {queue[i] : i \in (n + 1)..Len(queue)}

\* Neither the worker nor the controller has ended the connection.
Alive == link = "up" /\ ~stop

\* What each thread may be doing, and the lock that only one transaction holds.
Roles ==
  /\ \A t \in Transactors :
       /\ pc[t] \in {"idle", "allocate", "register", "transmit", "ack", "status", "mark",
                     "mark_set"}
       /\ ordinaryLock = t <=> pc[t] # "idle"
       /\ pc[t] # "idle" => operation[t] \in Operations /\ answered[t] = 0
  /\ \A t \in Senders :
       /\ pc[t] \in {"idle", "allocate", "register", "transmit", "mark", "mark_set"}
       /\ operation[t] = FailStop
  /\ pc["receiver"] \in {"off", "recv", "raised", "mark", "mark_set", "ended"}

\* Whoever is about to allocate finds a sequence number.
Allocated == sequence + Cardinality({t \in Callers : pc[t] = "allocate"}) <= MaxSequence

\* A loss of the connection is noticed only when there is one; only statuses are filed as such.
Noticed ==
  /\ socket = "open" <=> ~stop /\ pc["receiver"] # "off"
  /\ disconnected => ~Alive
  /\ \A x \in Threads : pc[x] \in {"mark", "mark_set", "raised"} => ~Alive
  /\ \A t \in Callers : pc[t] \in {"register", "transmit"} => pc["receiver"] # "off"
  /\ \A m \in In(statuses) : m.kind = "status" /\ (m.name = "ERROR" => link # "up")
  /\ \A m \in In(fromPeer) : m.kind = "status" /\ m.name = "ERROR" => link # "up"

\* While the worker keeps the protocol, a request is registered from before it is sent until its
\* ACK is filed, and it is in one place.
RequestsOut ==
  /\ Pairwise(toPeer, Distinct)
  /\ \A r \in In(toPeer) :
       sentOperations[r[1]] = r[2] /\ acks[r[1]] = "none" /\ r[1] <= sequence

AcksBack ==
  \A m \in In(fromPeer) :
    /\ m.kind \in {"ack", "status"}
    /\ m.kind = "ack" =>
         /\ m.seq \in 1..sequence
         /\ sentOperations[m.seq] = m.name
         /\ acks[m.seq] = "none"
         /\ \A r \in In(toPeer) : r[1] # m.seq

Sending(t) == pc[t] \in {"register", "transmit"}
Waits(t)   == pc[t] \in {"ack", "status"}

Unsent ==
  \A t \in Callers : Sending(t) =>
    /\ request[t] \in 1..sequence /\ acks[request[t]] = "none" /\ request[t] # serving
    /\ \A r \in In(toPeer) : r[1] # request[t]
    /\ \A m \in In(fromPeer) : m.kind = "ack" => m.seq # request[t]
    /\ pc[t] = "transmit" => sentOperations[request[t]] = operation[t]
    /\ \A u \in Callers : Sending(u) /\ request[u] = request[t] => u = t

\* A transaction that waits is registered under its own operation.
Known ==
  \A t \in Transactors : Waits(t) =>
    /\ request[t] \in 1..sequence /\ sentOperations[request[t]] = operation[t]
    /\ \A u \in Callers : Sending(u) => request[u] # request[t]

Served ==
  /\ \A s \in Sequences : acks[s] # "none" => s <= sequence
  /\ serving # 0 => sentOperations[serving] \in Operations /\ serving <= sequence

\* Statuses are numbered upwards, filed ones first.
Numbered ==
  /\ Pairwise(fromPeer, Ordered)
  /\ \A m \in In(statuses) : m.seq <= peerStatus
  /\ \A m \in In(fromPeer) : m.kind = "status" =>
       m.seq <= peerStatus /\ \A n \in In(statuses) : n.seq < m.seq

Registered ==
  link # "broken" => RequestsOut /\ AcksBack /\ Unsent /\ Known /\ Served /\ Numbered

NoRequest    == \A r \in In(toPeer) : r[2] = FailStop
NoCompletion == \A m \in In(fromPeer) : ~Completes(m)
NoneSince(t) == \A m \in Since(statuses, after[t]) : m.name = "ERROR"
Quiet        == NoRequest /\ serving = 0 /\ NoCompletion

\* Nothing ordinary is under way but the request of the transaction that waits, even when the
\* connection is lost.
OwnOnly ==
  \A t \in Transactors : Waits(t) =>
    /\ \A r \in In(toPeer) : r[2] # FailStop => r[1] = request[t]
    /\ serving \in {0, request[t]}
    /\ \A m \in In(fromPeer) : Completes(m) => m.for = request[t]
    /\ \A m \in Since(statuses, after[t]) : m.name # "ERROR" => m.for = request[t]

Rejected(t) ==
  \/ acks[request[t]] = "rejected"
  \/ \E m \in In(fromPeer) : m.kind = "ack" /\ m.seq = request[t] /\ ~m.ok

\* While the connection lasts, that request is in one stage, and nothing follows a rejection or
\* a completion.
InOneStage(t) ==
  /\ NoRequest \/ (serving = 0 /\ NoCompletion /\ NoneSince(t))
  /\ serving = 0 \/ (NoCompletion /\ NoneSince(t))
  /\ NoCompletion \/ NoneSince(t)
  /\ Pairwise(fromPeer, Single)
  /\ Rejected(t) => Quiet /\ NoneSince(t)

OnlyOnce == Alive => \A t \in Transactors : Waits(t) => InOneStage(t)

\* While the connection lasts and no transaction waits, nothing ordinary is under way.
Quiescent ==
  Alive =>
    /\ (\A t \in Transactors : ~Waits(t)) => Quiet
    /\ \A t \in Transactors : pc[t] \in {"allocate", "register", "transmit"} => NoneSince(t)

\* The inductive invariant.
IInv ==
  /\ TypeOK /\ Roles /\ Allocated /\ Noticed /\ Registered
  /\ OwnOnly /\ OnlyOnce /\ Quiescent
  /\ NoFalseProtocolError /\ CompletionIsOwn

-----------------------------------------------------------------------------
(***************************************************************************)
(* The wires.                                                              *)
(***************************************************************************)
\* Taking the first element: what remains was there, and followed what is taken.
LEMMA Taken ==
  ASSUME NEW S, NEW queue \in Seq(S), queue # <<>>
  PROVE  /\ Head(queue) \in S /\ Head(queue) \in In(queue) /\ Tail(queue) \in Seq(S)
         /\ \A x \in In(Tail(queue)) : x \in In(queue)
         /\ \A R : Pairwise(queue, R) =>
              Pairwise(Tail(queue), R) /\ \A x \in In(Tail(queue)) : <<Head(queue), x>> \in R
<1>1. /\ Len(queue) \in Nat \ {0} /\ Head(queue) = queue[1] /\ queue[1] \in S
      /\ Tail(queue) \in Seq(S) /\ Len(Tail(queue)) = Len(queue) - 1
      /\ \A i \in 1..Len(Tail(queue)) : Tail(queue)[i] = queue[i + 1]
  BY HeadTailProperties
<1>2. \A i \in 1..Len(Tail(queue)) : i + 1 \in 1..Len(queue) /\ i \in Nat /\ 1 < i + 1
  BY <1>1
<1>3. Head(queue) \in In(queue)
  BY <1>1 DEF In
<1>4. \A x \in In(Tail(queue)) : x \in In(queue)
  BY <1>1, <1>2 DEF In
<1>5. ASSUME NEW R, Pairwise(queue, R)
      PROVE  Pairwise(Tail(queue), R) /\ \A x \in In(Tail(queue)) : <<Head(queue), x>> \in R
  <2>1. ASSUME NEW i \in 1..Len(Tail(queue)), NEW j \in 1..Len(Tail(queue)), i < j
        PROVE  <<Tail(queue)[i], Tail(queue)[j]>> \in R
    <3>1. i + 1 \in 1..Len(queue) /\ j + 1 \in 1..Len(queue) /\ i + 1 < j + 1
      BY <1>2, <2>1
    <3> QED
      BY <1>1, <1>5, <3>1 DEF Pairwise
  <2>2. ASSUME NEW i \in 1..Len(Tail(queue))
        PROVE  <<Head(queue), Tail(queue)[i]>> \in R
    <3>1. 1 \in 1..Len(queue) /\ i + 1 \in 1..Len(queue) /\ 1 < i + 1
      BY <1>1, <1>2
    <3> QED
      BY <1>1, <1>5, <3>1 DEF Pairwise
  <2> QED
    BY <2>1, <2>2 DEF Pairwise, In
<1> QED
  BY <1>1, <1>3, <1>4, <1>5

\* Appending an element: what was there precedes it.
LEMMA Added ==
  ASSUME NEW S, NEW queue \in Seq(S), NEW e \in S
  PROVE  /\ Append(queue, e) \in Seq(S)
         /\ In(Append(queue, e)) = In(queue) \cup {e}
         /\ \A R : Pairwise(queue, R) /\ (\A x \in In(queue) : <<x, e>> \in R) =>
              Pairwise(Append(queue, e), R)
<1>1. /\ Append(queue, e) \in Seq(S) /\ Len(queue) \in Nat
      /\ Len(Append(queue, e)) = Len(queue) + 1
      /\ \A i \in 1..Len(queue) : Append(queue, e)[i] = queue[i]
      /\ Append(queue, e)[Len(queue) + 1] = e
  BY AppendProperties
<1>2. 1..(Len(queue) + 1) = 1..Len(queue) \cup {Len(queue) + 1}
  BY <1>1
<1>3. In(Append(queue, e)) = In(queue) \cup {e}
  BY <1>1, <1>2 DEF In
<1>4. ASSUME NEW R, Pairwise(queue, R), \A x \in In(queue) : <<x, e>> \in R
      PROVE  Pairwise(Append(queue, e), R)
  <2> SUFFICES ASSUME NEW i \in 1..(Len(queue) + 1), NEW j \in 1..(Len(queue) + 1), i < j
               PROVE  <<Append(queue, e)[i], Append(queue, e)[j]>> \in R
    BY <1>1 DEF Pairwise
  <2>1. i \in 1..Len(queue)
    BY <1>1
  <2>2. CASE j \in 1..Len(queue)
    BY <1>1, <1>4, <2>1, <2>2 DEF Pairwise
  <2>3. CASE j = Len(queue) + 1
    BY <1>1, <1>4, <2>1, <2>3 DEF In
  <2> QED
    BY <1>2, <2>2, <2>3
<1> QED
  BY <1>1, <1>3, <1>4

\* What follows the first n, when an element is appended, and when there is nothing more.
LEMMA SinceAdded ==
  ASSUME NEW S, NEW queue \in Seq(S), NEW e \in S, NEW n \in Nat
  PROVE  \A x \in Since(Append(queue, e), n) : x \in Since(queue, n) \/ x = e
<1>1. /\ Len(queue) \in Nat /\ Len(Append(queue, e)) = Len(queue) + 1
      /\ \A i \in 1..Len(queue) : Append(queue, e)[i] = queue[i]
      /\ Append(queue, e)[Len(queue) + 1] = e
  BY AppendProperties
<1> SUFFICES ASSUME NEW i \in (n + 1)..(Len(queue) + 1)
             PROVE  Append(queue, e)[i] \in Since(queue, n) \/ Append(queue, e)[i] = e
  BY <1>1 DEF Since
<1>2. i = Len(queue) + 1 \/ (i \in 1..Len(queue) /\ i \in (n + 1)..Len(queue))
  BY <1>1
<1> QED
  BY <1>1, <1>2 DEF Since

\* Nothing follows the whole of a queue.
LEMMA SinceNow ==
  ASSUME NEW S, NEW queue \in Seq(S)
  PROVE  Since(queue, Len(queue)) = {}
<1>1. Len(queue) \in Nat
  OBVIOUS
<1> QED
  BY <1>1 DEF Since

-----------------------------------------------------------------------------
(***************************************************************************)
(* What the actions put on the wires and take from them.                   *)
(***************************************************************************)
\* What comes from the worker is a response.
LEMMA InResponses ==
  ASSUME TypeOK, NEW x \in In(fromPeer)
  PROVE  x \in Responses
  BY DEF TypeOK, In

\* Without a completion on the wire there are no two.
LEMMA QuietSingle ==
  ASSUME TypeOK, NoCompletion
  PROVE  Pairwise(fromPeer, Single)
<1>1. fromPeer \in Seq(Responses)
  BY DEF TypeOK
<1>2. \A i \in 1..Len(fromPeer) : fromPeer[i] \in Responses /\ ~Completes(fromPeer[i])
  BY <1>1 DEF NoCompletion, In
<1> QED
  BY <1>2 DEF Pairwise, Single

\* The receiver takes a response.
LEMMA ReceiveTakes ==
  ASSUME TypeOK, Receive
  PROVE  /\ Head(fromPeer) \in Responses /\ Head(fromPeer) \in In(fromPeer)
         /\ fromPeer' \in Seq(Responses)
         /\ \A x \in In(fromPeer') : x \in In(fromPeer)
         /\ Pairwise(fromPeer, Ordered) =>
              Pairwise(fromPeer', Ordered) /\ \A x \in In(fromPeer') : <<Head(fromPeer),
                  x>> \in Ordered
         /\ Pairwise(fromPeer, Single) =>
              Pairwise(fromPeer', Single) /\ \A x \in In(fromPeer') : <<Head(fromPeer),
                  x>> \in Single
<1>1. fromPeer # <<>> /\ fromPeer \in Seq(Responses) /\ fromPeer' = Tail(fromPeer)
  BY DEF TypeOK, Receive
<1> QED
  BY <1>1, Taken

\* It files an ACK or a status, or refuses what it took.
FilesAck ==
  /\ Head(fromPeer).kind = "ack" /\ Head(fromPeer).seq \in Sequences
  /\ sentOperations[Head(fromPeer).seq] = Head(fromPeer).name
  /\ acks[Head(fromPeer).seq] = "none"
  /\ acks' = [acks EXCEPT ![Head(fromPeer).seq] =
                IF Head(fromPeer).ok THEN "accepted" ELSE "rejected"]
  /\ UNCHANGED <<statuses, protocolError, pc>>

FilesStatus ==
  /\ Head(fromPeer).kind = "status"
  /\ statuses' = Append(statuses, Head(fromPeer)) /\ statuses' \in Seq(Responses)
  /\ In(statuses') = In(statuses) \cup {Head(fromPeer)}
  /\ \A n \in Nat : \A x \in Since(statuses', n) : x \in Since(statuses, n) \/ x = Head(fromPeer)
  /\ UNCHANGED <<acks, protocolError, pc>>

Refuses ==
  /\ ~Acceptable(Head(fromPeer))
  /\ protocolError' = TRUE /\ pc' = [pc EXCEPT !["receiver"] = "raised"]
  /\ UNCHANGED <<acks, statuses>>

\* There is no other outcome.
LEMMA ReceiveCases ==
  ASSUME TypeOK, Receive
  PROVE  FilesAck \/ FilesStatus \/ Refuses
<1>1. Head(fromPeer) \in Responses /\ statuses \in Seq(Responses)
  BY ReceiveTakes DEF TypeOK
<1>2. ASSUME statuses' = Append(statuses, Head(fromPeer))
      PROVE  /\ statuses' \in Seq(Responses)
             /\ In(statuses') = In(statuses) \cup {Head(fromPeer)}
             /\ \A n \in Nat : \A x \in Since(statuses', n) :
                  x \in Since(statuses, n) \/ x = Head(fromPeer)
  BY <1>1, <1>2, Added, SinceAdded
<1> QED
  BY <1>2 DEF Receive, Goto, filed, Refuses, FilesAck, FilesStatus, Acceptable

\* The statuses filed are those of In(statuses), by their index.
LEMMA AcceptableStatus ==
  ASSUME TypeOK, NEW m, m.kind = "status", \A n \in In(statuses) : n.seq < m.seq
  PROVE  Acceptable(m)
<1>1. DOMAIN statuses = 1..Len(statuses)
  BY DEF TypeOK
<1> QED
  BY <1>1 DEF In, Acceptable

\* Only the response of a worker that breaks the protocol is refused.
LEMMA RefusesOnlyBroken ==
  ASSUME IInv, Receive, Refuses
  PROVE  link = "broken"
<1> DEFINE m == Head(fromPeer)
<1> SUFFICES ASSUME link # "broken"
             PROVE  Acceptable(m)
  BY DEF Refuses
<1>1. TypeOK /\ m \in In(fromPeer) /\ AcksBack /\ Numbered /\ sequence \in 0..MaxSequence
  BY ReceiveTakes DEF IInv, TypeOK, Registered
<1>2. m.kind \in {"ack", "status"}
  BY <1>1 DEF AcksBack
<1>3. CASE m.kind = "ack"
  BY <1>1, <1>3, ClientAssumption DEF AcksBack, Acceptable, Sequences
<1>4. CASE m.kind = "status"
  BY <1>1, <1>4, AcceptableStatus DEF Numbered
<1> QED
  BY <1>2, <1>3, <1>4

\* A request is sent, or the connection is found lost.
Sends(t) ==
  /\ link = "up" /\ socket = "open"
  /\ toPeer' \in Seq(Requests)
  /\ In(toPeer') = In(toPeer) \cup {<<request[t], operation[t]>>}
  /\ Pairwise(toPeer, Distinct)
     /\ (\A r \in In(toPeer) : <<r, <<request[t], operation[t]>>>> \in Distinct) =>
       Pairwise(toPeer', Distinct)
  /\ <<request[t], operation[t]>> \in Requests
  /\ pc' = [pc EXCEPT ![t] = IF t \in Transactors THEN "ack" ELSE "idle"]
  /\ UNCHANGED sentOperations

Withdraws(t) ==
  /\ link # "up" \/ socket # "open"
  /\ sentOperations' = [sentOperations EXCEPT ![request[t]] = "none"]
  /\ pc' = [pc EXCEPT ![t] = "mark"]
  /\ UNCHANGED toPeer

\* There is no other outcome.
LEMMA TransmitCases ==
  ASSUME IInv, NEW t \in Callers, Transmit(t)
  PROVE  Sends(t) \/ Withdraws(t)
<1>1. t \in Transactors <=> t \notin Senders
  BY ClientAssumption DEF Callers
<1>2. CASE link = "up" /\ socket = "open"
  <2>1. toPeer' = Append(toPeer, <<request[t], operation[t]>>) /\ toPeer \in Seq(Requests)
    BY <1>2 DEF Transmit, IInv, TypeOK, Requests
  <2>2. <<request[t], operation[t]>> \in Requests
    BY <1>2 DEF Transmit, IInv, TypeOK, Requests, Registered, Unsent, Sending, Sequences
  <2>3. /\ toPeer' \in Seq(Requests) /\ In(toPeer') = In(toPeer) \cup {<<request[t], operation[t]>>}
        /\ Pairwise(toPeer, Distinct)
           /\ (\A r \in In(toPeer) : <<r, <<request[t], operation[t]>>>> \in Distinct) =>
             Pairwise(toPeer', Distinct)
    BY <2>1, <2>2, Added
  <2>4. pc' = [pc EXCEPT ![t] = IF t \in Transactors THEN "ack" ELSE "idle"]
    BY <1>1, <1>2 DEF Transmit, Goto
  <2> QED
    BY <1>2, <2>2, <2>3, <2>4 DEF Transmit, Sends
<1> QED
  BY <1>2 DEF Transmit, Withdraws, Goto

\* The worker puts a response on the wire.
Puts(m) ==
  /\ m \in Responses /\ fromPeer' \in Seq(Responses)
  /\ \A x \in In(fromPeer') : x \in In(fromPeer) \/ x = m
  /\ Pairwise(fromPeer, Ordered) /\ (\A x \in In(fromPeer) : <<x, m>> \in Ordered) =>
       Pairwise(fromPeer', Ordered)
  /\ Pairwise(fromPeer, Single) /\ (\A x \in In(fromPeer) : <<x, m>> \in Single) =>
       Pairwise(fromPeer', Single)

\* Appending to the wire is putting.
LEMMA PutAppends ==
  ASSUME TypeOK, NEW m \in Responses, fromPeer' = Append(fromPeer, m)
  PROVE  Puts(m)
<1>1. fromPeer \in Seq(Responses)
  BY DEF TypeOK
<1> QED
  BY <1>1, Added DEF Puts

\* It takes a request and acknowledges it.
LEMMA AcknowledgeTakes ==
  ASSUME TypeOK, NEW ok \in BOOLEAN, PeerAcknowledge(ok)
  PROVE  /\ Head(toPeer) \in Requests /\ Head(toPeer) \in In(toPeer)
         /\ toPeer' \in Seq(Requests)
         /\ \A r \in In(toPeer') : r \in In(toPeer)
         /\ Pairwise(toPeer, Distinct) =>
              Pairwise(toPeer', Distinct) /\ \A r \in In(toPeer') : <<Head(toPeer), r>> \in Distinct
<1>1. toPeer \in Seq(Requests) /\ toPeer # <<>>
  BY DEF TypeOK, Requests, PeerAcknowledge
<1> QED
  BY <1>1, Taken DEF PeerAcknowledge

\* Its ACK names the request it took.
LEMMA AcknowledgePuts ==
  ASSUME TypeOK, NEW ok \in BOOLEAN, PeerAcknowledge(ok)
  PROVE  \E m : /\ Puts(m) /\ m.kind = "ack" /\ m.seq = Head(toPeer)[1]
                /\ m.name = Head(toPeer)[2] /\ m.ok = ok
<1> DEFINE m == Ack(Head(toPeer)[1], Head(toPeer)[2], ok)
<1>1. m \in Responses
  BY AcknowledgeTakes, ClientAssumption DEF Ack, Responses, Requests, Sequences
<1>2. Puts(m)
  BY <1>1, PutAppends DEF PeerAcknowledge
<1> QED
  BY <1>2 DEF Ack

\* It reports a status.
LEMMA ReportPuts ==
  ASSUME TypeOK, NEW name \in Names, NEW for \in 0..MaxSequence, PeerReports(name, for)
  PROVE  \E m : /\ Puts(m) /\ m.kind = "status" /\ m.seq = peerStatus + 1
                /\ m.name = name /\ m.for = for
<1> DEFINE m == Status(peerStatus + 1, name, for)
<1>1. m \in Responses
  BY DEF TypeOK, Status, Responses
<1>2. Puts(m)
  BY <1>1, PutAppends DEF PeerReports
<1> QED
  BY <1>2 DEF Status

\* A completion names the request served, under its operation.
LEMMA CompletionPuts ==
  ASSUME IInv, PeerCompletes
  PROVE  \E m : /\ Puts(m) /\ m.kind = "status" /\ m.seq = peerStatus + 1
                /\ m.name \in Operations /\ m.name # "ERROR" /\ m.for = serving
<1>1. TypeOK /\ sentOperations[serving] \in Operations /\ serving \in 0..MaxSequence
  BY DEF IInv, TypeOK, Registered, Served, PeerCompletes
<1>2. sentOperations[serving] \in Names /\ sentOperations[serving] # "ERROR"
  BY <1>1, ClientAssumption DEF Names
<1> QED
  BY <1>1, <1>2, ReportPuts DEF PeerCompletes

\* STATUS ERROR completes nothing.
LEMMA ErrorPuts ==
  ASSUME TypeOK, PeerFails
  PROVE  \E m : Puts(m) /\ m.kind = "status" /\ m.seq = peerStatus + 1 /\ m.name = "ERROR"
<1>1. 0 \in 0..MaxSequence /\ "ERROR" \in Names
  BY ClientAssumption DEF Names
<1> QED
  BY <1>1, ReportPuts DEF PeerFails

\* Whatever it sends when it breaks the protocol completes nothing.
LEMMA MisbehaviourPuts ==
  ASSUME TypeOK, PeerMisbehaves
  PROVE  \E m : Puts(m) /\ ~Completes(m)
<1>1. PICK m \in {Garbled, Status(peerStatus, "ERROR", 0)}
                  \cup {Ack(s, o, ok) : s \in Sequences, o \in Operations, ok \in BOOLEAN} :
           fromPeer' = Append(fromPeer, m)
  BY DEF PeerMisbehaves
<1>2. peerStatus \in Nat
  BY DEF TypeOK
<1>3. m \in Responses /\ ~Completes(m)
  <2>1. CASE m = Garbled
    BY <2>1 DEF Garbled, Responses, Completes
  <2>2. CASE m = Status(peerStatus, "ERROR", 0)
    BY <1>2, <2>2, ClientAssumption DEF Status, Responses, Names, Completes
  <2>3. ASSUME NEW s \in Sequences, NEW o \in Operations, NEW ok \in BOOLEAN, m = Ack(s, o, ok)
        PROVE  m \in Responses /\ ~Completes(m)
    BY <2>3, ClientAssumption DEF Ack, Responses, Sequences, Completes
  <2> QED
    BY <1>1, <2>1, <2>2, <2>3
<1> QED
  BY <1>1, <1>3, PutAppends

-----------------------------------------------------------------------------
(***************************************************************************)
(* The steps, conjunct by conjunct of the invariant.                       *)
(***************************************************************************)
\* A loss is still noticed only when there is one.
LEMMA NoticedStep ==
  ASSUME IInv, [Next]_vars
  PROVE  Noticed'
<1>1. TypeOK /\ Noticed /\ Roles
  BY DEF IInv
<1>2. /\ pc = [t \in Threads |-> pc[t]]
      /\ socket \in {"none", "open"}
  BY ClientAssumption DEF IInv, TypeOK, Callers, Threads, Sequences
<1> USE <1>1, <1>2, ClientAssumption DEF Noticed, Roles, Alive, Callers, Threads, Goto, callers,
    filed, channel, peer
<1>3. CASE Connect
  BY <1>3 DEF Connect
<1>4. CASE Receive
  <2>1. CASE FilesAck
    BY <1>4, <2>1, ReceiveTakes DEF Receive, FilesAck
  <2>2. CASE FilesStatus
    BY <1>4, <2>2, ReceiveTakes DEF Receive, FilesStatus
  <2>3. CASE Refuses
    BY <1>4, <2>3, ReceiveTakes, RefusesOnlyBroken DEF Receive, Refuses
  <2> QED
    BY <2>1, <2>2, <2>3, <1>4, ReceiveCases
<1>5. CASE EndOfFile
  BY <1>5 DEF EndOfFile
<1>6. CASE ReceiverRaised
  BY <1>6 DEF ReceiverRaised
<1>7. ASSUME NEW t \in Threads, MarkRead(t) PROVE Noticed'
  BY <1>7 DEF MarkRead
<1>8. ASSUME NEW t \in Threads, MarkSet(t) PROVE Noticed'
  BY <1>8 DEF MarkSet, Leave
<1>9. CASE Close
  BY <1>9 DEF Close
<1>10. ASSUME NEW t \in Transactors, WaitForAck(t) PROVE Noticed'
  BY <1>10 DEF WaitForAck, Leave
<1>11. ASSUME NEW t \in Transactors, WaitForStatus(t) PROVE Noticed'
  BY <1>11 DEF WaitForStatus, Leave, Decisive
<1>12. ASSUME NEW t \in Transactors, NEW o \in Operations, Begin(t, o) PROVE Noticed'
  BY <1>12 DEF Begin, Allocatable
<1>13. ASSUME NEW t \in Senders, BeginSend(t) PROVE Noticed'
  BY <1>13 DEF BeginSend, Allocatable
<1>14. ASSUME NEW t \in Callers, Allocate(t) PROVE Noticed'
  BY <1>14 DEF Allocate, Leave
<1>15. ASSUME NEW t \in Callers, Register(t) PROVE Noticed'
  BY <1>15 DEF Register
<1>16. ASSUME NEW t \in Callers, Transmit(t) PROVE Noticed'
  BY <1>16, TransmitCases DEF Transmit, Sends, Withdraws
<1>17. ASSUME NEW ok \in BOOLEAN, PeerAcknowledge(ok) PROVE Noticed'
  <2>1. PICK m : /\ Puts(m) /\ m.kind = "ack" /\ m.seq = Head(toPeer)[1]
                /\ m.name = Head(toPeer)[2] /\ m.ok = ok
    BY <1>17, AcknowledgePuts
  <2> QED
    BY <1>17, <2>1, AcknowledgeTakes DEF Puts, PeerAcknowledge
<1>18. CASE PeerCompletes
  <2>1. PICK m : /\ Puts(m) /\ m.kind = "status" /\ m.seq = peerStatus + 1
                /\ m.name \in Operations /\ m.name # "ERROR" /\ m.for = serving
    BY <1>18, CompletionPuts
  <2> QED
    BY <1>18, <2>1 DEF Puts, PeerCompletes, PeerReports
<1>19. CASE PeerFails
  <2>1. PICK m : Puts(m) /\ m.kind = "status" /\ m.seq = peerStatus + 1 /\ m.name = "ERROR"
    BY <1>19, ErrorPuts
  <2> QED
    BY <1>19, <2>1 DEF Puts, PeerFails, PeerReports
<1>20. CASE PeerHangsUp
  BY <1>20 DEF PeerHangsUp
<1>21. CASE PeerMisbehaves
  <2>1. PICK m : Puts(m) /\ ~Completes(m)
    BY <1>21, MisbehaviourPuts
  <2> QED
    BY <1>21, <2>1 DEF Puts, PeerMisbehaves
<1>22. CASE UNCHANGED vars
  BY <1>22 DEF vars
<1> QED
  BY <1>3, <1>4, <1>5, <1>6, <1>7, <1>8, <1>9, <1>10, <1>11, <1>12, <1>13, <1>14, <1>15, <1>16,
     <1>17, <1>18, <1>19, <1>20, <1>21, <1>22
     DEF Next, ReceiverStep, Wait, Progress, PeerStep, Threads, Callers

\* A thread that sends or returns leaves no trace of its request to another that waits.
LEMMA OwnOnlyStep ==
  ASSUME IInv, [Next]_vars
  PROVE  OwnOnly'
<1>1. TypeOK /\ OwnOnly /\ Quiescent /\ Roles /\ Noticed
  BY DEF IInv
<1>2. /\ pc = [t \in Threads |-> pc[t]]
      /\ after \in [Callers -> Nat]
      /\ request = [t \in Callers |-> request[t]]
  BY ClientAssumption DEF IInv, TypeOK, Callers, Threads, Sequences
<1> USE <1>1, <1>2, ClientAssumption DEF OwnOnly, Quiescent, Roles, Noticed, Alive, NoRequest,
    NoCompletion, NoneSince, Quiet, Waits, Completes, Callers, Threads, Goto, callers, filed,
    channel, peer
<1>3. CASE Connect
  BY <1>3 DEF Connect
<1>4. CASE Receive
  <2>1. \A u \in Transactors : Waits(u)' => Waits(u)
    <3>1. CASE Refuses
      BY <3>1 DEF Refuses
    <3> QED
      BY <3>1, <1>4, ReceiveCases DEF FilesAck, FilesStatus
  <2>2. UNCHANGED <<toPeer, serving, after, request>>
    BY <1>4 DEF Receive
  <2>3. ASSUME NEW u \in Transactors, Waits(u)
        PROVE  \A m \in In(fromPeer') : Completes(m) => m.for = request[u]
    BY <1>4, <2>3, ReceiveTakes
  <2>4. ASSUME NEW u \in Transactors, Waits(u)
        PROVE  \A m \in Since(statuses', after[u]) : m.name # "ERROR" => m.for = request[u]
    <3>1. CASE FilesStatus
      <4>1. Head(fromPeer) \in In(fromPeer) /\ Head(fromPeer).kind = "status"
        BY <1>4, <3>1, ReceiveTakes DEF FilesStatus
      <4>2. \A m \in Since(statuses', after[u]) : m \in Since(statuses,
          after[u]) \/ m = Head(fromPeer)
        BY <3>1 DEF FilesStatus
      <4> QED
        BY <2>4, <4>1, <4>2
    <3>2. CASE statuses' = statuses
      BY <2>4, <3>2
    <3> QED
      BY <3>1, <3>2, <1>4, ReceiveCases DEF FilesAck, Refuses
  <2> QED
    BY <2>1, <2>2, <2>3, <2>4
<1>5. CASE EndOfFile
  BY <1>5 DEF EndOfFile
<1>6. CASE ReceiverRaised
  BY <1>6 DEF ReceiverRaised
<1>7. ASSUME NEW t \in Threads, MarkRead(t) PROVE OwnOnly'
  BY <1>7 DEF MarkRead
<1>8. ASSUME NEW t \in Threads, MarkSet(t) PROVE OwnOnly'
  <2>1. \A u \in Transactors : Waits(u)' => Waits(u)
    BY <1>8 DEF MarkSet, Leave
  <2>2. UNCHANGED <<toPeer, fromPeer, statuses, serving, after, request>>
    BY <1>8 DEF MarkSet
  <2> QED
    BY <2>1, <2>2
<1>9. CASE Close
  BY <1>9 DEF Close
<1>10. ASSUME NEW t \in Transactors, WaitForAck(t) PROVE OwnOnly'
  <2>1. \A u \in Transactors : Waits(u)' => Waits(u)
    BY <1>10 DEF WaitForAck, Leave
  <2>2. UNCHANGED <<toPeer, fromPeer, statuses, serving, after, request>>
    BY <1>10 DEF WaitForAck
  <2> QED
    BY <2>1, <2>2
<1>11. ASSUME NEW t \in Transactors, WaitForStatus(t) PROVE OwnOnly'
  BY <1>11 DEF WaitForStatus, Leave, Decisive
<1>12. ASSUME NEW t \in Transactors, NEW o \in Operations, Begin(t, o) PROVE OwnOnly'
  BY <1>12, SinceNow DEF Begin, Allocatable
<1>13. ASSUME NEW t \in Senders, BeginSend(t) PROVE OwnOnly'
  BY <1>13 DEF BeginSend, Allocatable
<1>14. ASSUME NEW t \in Callers, Allocate(t) PROVE OwnOnly'
  <2>1. \A u \in Transactors : Waits(u)' => Waits(u) /\ u # t
    BY <1>14 DEF Allocate, Leave
  <2>2. UNCHANGED <<toPeer, fromPeer, statuses, serving, after>>
    BY <1>14 DEF Allocate
  <2>3. \A u \in Transactors : Waits(u)' => request'[u] = request[u]
    BY <1>14, <2>1 DEF Allocate
  <2>4. \A u \in Transactors : Waits(u)' =>
          /\ \A r \in In(toPeer) : r[2] # FailStop => r[1] = request'[u]
          /\ serving \in {0, request'[u]}
          /\ \A m \in In(fromPeer) : Completes(m) => m.for = request'[u]
          /\ \A m \in Since(statuses, after[u]) : m.name # "ERROR" => m.for = request'[u]
    BY <2>1, <2>3
  <2> QED
    BY <2>2, <2>4
<1>15. ASSUME NEW t \in Callers, Register(t) PROVE OwnOnly'
  BY <1>15 DEF Register
<1>16. ASSUME NEW t \in Callers, Transmit(t) PROVE OwnOnly'
  <2>1. UNCHANGED <<fromPeer, statuses, serving, after, request>>
    BY <1>16 DEF Transmit
  <2>2. CASE Withdraws(t)
    BY <1>16, <2>1, <2>2 DEF Withdraws
  <2>3. CASE Sends(t) /\ t \in Senders
    <3>1. operation[t] = FailStop /\ t \notin Transactors
      BY <2>3
    <3>2. \A u \in Transactors : Waits(u)' => Waits(u)
      BY <2>3, <3>1 DEF Sends
    <3>3. \A r \in In(toPeer') : r[2] # FailStop => r \in In(toPeer)
      BY <2>3, <3>1 DEF Sends
    <3> QED
      BY <2>1, <3>2, <3>3
  <2>4. CASE Sends(t) /\ t \in Transactors
    <3>1. Alive /\ \A u \in Transactors : pc[u] # "idle" => u = t
      BY <1>16, <2>4 DEF Sends, Transmit
    <3>2. Quiet /\ NoneSince(t)
      BY <1>16, <2>4, <3>1 DEF Transmit
    <3>3. \A u \in Transactors : Waits(u)' => u = t
      BY <2>4, <3>1 DEF Sends
    <3>4. \A r \in In(toPeer') : r[2] # FailStop => r[1] = request[t]
      BY <2>4, <3>2 DEF Sends
    <3> QED
      BY <2>1, <3>2, <3>3, <3>4
  <2> QED
    BY <1>16, <2>2, <2>3, <2>4, TransmitCases
<1>17. ASSUME NEW ok \in BOOLEAN, PeerAcknowledge(ok) PROVE OwnOnly'
  <2>1. PICK m : /\ Puts(m) /\ m.kind = "ack" /\ m.seq = Head(toPeer)[1]
                /\ m.name = Head(toPeer)[2] /\ m.ok = ok
    BY <1>17, AcknowledgePuts
  <2> QED
    BY <1>17, <2>1, AcknowledgeTakes DEF Puts, PeerAcknowledge
<1>18. CASE PeerCompletes
  <2>1. PICK m : /\ Puts(m) /\ m.kind = "status" /\ m.seq = peerStatus + 1
                /\ m.name \in Operations /\ m.name # "ERROR" /\ m.for = serving
    BY <1>18, CompletionPuts
  <2> QED
    BY <1>18, <2>1 DEF Puts, PeerCompletes, PeerReports
<1>19. CASE PeerFails
  <2>1. PICK m : Puts(m) /\ m.kind = "status" /\ m.seq = peerStatus + 1 /\ m.name = "ERROR"
    BY <1>19, ErrorPuts
  <2> QED
    BY <1>19, <2>1 DEF Puts, PeerFails, PeerReports
<1>20. CASE PeerHangsUp
  BY <1>20 DEF PeerHangsUp
<1>21. CASE PeerMisbehaves
  <2>1. PICK m : Puts(m) /\ ~Completes(m)
    BY <1>21, MisbehaviourPuts
  <2> QED
    BY <1>21, <2>1 DEF Puts, PeerMisbehaves
<1>22. CASE UNCHANGED vars
  BY <1>22 DEF vars
<1> QED
  BY <1>3, <1>4, <1>5, <1>6, <1>7, <1>8, <1>9, <1>10, <1>11, <1>12, <1>13, <1>14, <1>15, <1>16,
     <1>17, <1>18, <1>19, <1>20, <1>21, <1>22
     DEF Next, ReceiverStep, Wait, Progress, PeerStep, Threads, Callers

\* Every step keeps threads to their roles, and the lock to one transaction.
LEMMA RolesStep ==
  ASSUME IInv, [Next]_vars
  PROVE  Roles'
<1>1. TypeOK /\ Roles
  BY DEF IInv
<1>2. /\ pc = [t \in Threads |-> pc[t]]
      /\ operation = [t \in Callers |-> operation[t]] /\ answered = [t \in Callers |-> answered[t]]
  BY ClientAssumption DEF IInv, TypeOK, Callers, Threads, Sequences
<1> USE <1>1, <1>2, ClientAssumption DEF Roles, Callers, Threads, Goto, callers, filed, channel,
    peer
<1>3. CASE Connect
  BY <1>3 DEF Connect
<1>4. CASE Receive
  <2>1. CASE FilesAck
    BY <1>4, <2>1, ReceiveTakes DEF Receive, FilesAck
  <2>2. CASE FilesStatus
    BY <1>4, <2>2, ReceiveTakes DEF Receive, FilesStatus
  <2>3. CASE Refuses
    BY <1>4, <2>3, ReceiveTakes, RefusesOnlyBroken DEF Receive, Refuses
  <2> QED
    BY <2>1, <2>2, <2>3, <1>4, ReceiveCases
<1>5. CASE EndOfFile
  BY <1>5 DEF EndOfFile
<1>6. CASE ReceiverRaised
  BY <1>6 DEF ReceiverRaised
<1>7. ASSUME NEW t \in Threads, MarkRead(t) PROVE Roles'
  BY <1>7 DEF MarkRead
<1>8. ASSUME NEW t \in Threads, MarkSet(t) PROVE Roles'
  <2>1. CASE t = "receiver"
    BY <1>8, <2>1 DEF MarkSet, Leave
  <2>2. CASE t \in Transactors
    <3>1. pc[t] # "idle" /\ t # "receiver" /\ UNCHANGED <<operation, answered>>
      BY <1>8, <2>2 DEF MarkSet, Leave
    <3>2. pc' = [pc EXCEPT ![t] = "idle"] /\ ordinaryLock' = "free"
      BY <1>8, <2>2, <3>1 DEF MarkSet, Leave
    <3> QED
      BY <2>2, <3>1, <3>2
  <2>3. CASE t \in Senders
    <3>1. t \notin Transactors /\ t # "receiver" /\ UNCHANGED <<operation, answered>>
      BY <1>8, <2>3 DEF MarkSet, Leave
    <3>2. pc' = [pc EXCEPT ![t] = "idle"] /\ ordinaryLock' = ordinaryLock
      BY <1>8, <2>3, <3>1 DEF MarkSet, Leave
    <3> QED
      BY <2>3, <3>1, <3>2
  <2> QED
    BY <2>1, <2>2, <2>3
<1>9. CASE Close
  BY <1>9 DEF Close
<1>10. ASSUME NEW t \in Transactors, WaitForAck(t) PROVE Roles'
  BY <1>10 DEF WaitForAck, Leave
<1>11. ASSUME NEW t \in Transactors, WaitForStatus(t) PROVE Roles'
  BY <1>11 DEF WaitForStatus, Leave, Decisive
<1>12. ASSUME NEW t \in Transactors, NEW o \in Operations, Begin(t, o) PROVE Roles'
  BY <1>12 DEF Begin, Allocatable
<1>13. ASSUME NEW t \in Senders, BeginSend(t) PROVE Roles'
  BY <1>13 DEF BeginSend, Allocatable
<1>14. ASSUME NEW t \in Callers, Allocate(t) PROVE Roles'
  <2>1. UNCHANGED <<operation, answered>>
    BY <1>14 DEF Allocate, Leave
  <2>2. CASE t \in Transactors
    <3>1. \/ pc' = [pc EXCEPT ![t] = "register"] /\ ordinaryLock' = ordinaryLock
          \/ pc' = [pc EXCEPT ![t] = "idle"] /\ ordinaryLock' = "free"
      BY <1>14, <2>2 DEF Allocate, Leave
    <3>2. pc[t] # "idle" /\ t # "receiver"
      BY <1>14, <2>2 DEF Allocate, Leave
    <3>3. CASE pc' = [pc EXCEPT ![t] = "register"] /\ ordinaryLock' = ordinaryLock
      BY <2>1, <2>2, <3>2, <3>3
    <3>4. CASE pc' = [pc EXCEPT ![t] = "idle"] /\ ordinaryLock' = "free"
      BY <2>1, <2>2, <3>2, <3>4
    <3> QED
      BY <3>1, <3>3, <3>4
  <2>3. CASE t \in Senders
    <3>1. t \notin Transactors /\ t # "receiver"
      BY <2>3
    <3>2. \E l \in {"register", "idle"} : pc' = [pc EXCEPT ![t] = l] /\ ordinaryLock' = ordinaryLock
      BY <1>14, <2>3, <3>1 DEF Allocate, Leave
    <3> QED
      BY <2>1, <2>3, <3>1, <3>2
  <2> QED
    BY <2>2, <2>3
<1>15. ASSUME NEW t \in Callers, Register(t) PROVE Roles'
  BY <1>15 DEF Register
<1>16. ASSUME NEW t \in Callers, Transmit(t) PROVE Roles'
  <2>1. UNCHANGED <<operation, answered, ordinaryLock>> /\ pc[t] = "transmit"
    BY <1>16 DEF Transmit, Sends, Withdraws
  <2>2. CASE t \in Transactors
    <3>1. \E l \in {"ack", "mark"} : pc' = [pc EXCEPT ![t] = l]
      BY <1>16, <2>2 DEF Transmit, Sends, Withdraws
    <3> QED
      BY <2>1, <2>2, <3>1
  <2>3. CASE t \in Senders
    <3>1. t \notin Transactors /\ t # "receiver"
      BY <2>3
    <3>2. \E l \in {"mark", "idle"} : pc' = [pc EXCEPT ![t] = l]
      BY <1>16, <2>3, <3>1 DEF Transmit, Sends, Withdraws
    <3> QED
      BY <2>1, <2>3, <3>1, <3>2
  <2> QED
    BY <2>2, <2>3
<1>17. ASSUME NEW ok \in BOOLEAN, PeerAcknowledge(ok) PROVE Roles'
  BY <1>17 DEF PeerAcknowledge
<1>18. CASE PeerCompletes
  BY <1>18 DEF PeerCompletes, PeerReports
<1>19. CASE PeerFails
  BY <1>19 DEF PeerFails, PeerReports
<1>20. CASE PeerHangsUp
  BY <1>20 DEF PeerHangsUp
<1>21. CASE PeerMisbehaves
  BY <1>21 DEF PeerMisbehaves
<1>22. CASE UNCHANGED vars
  BY <1>22 DEF vars
<1> QED
  BY <1>3, <1>4, <1>5, <1>6, <1>7, <1>8, <1>9, <1>10, <1>11, <1>12, <1>13, <1>14, <1>15, <1>16,
     <1>17, <1>18, <1>19, <1>20, <1>21, <1>22
     DEF Next, ReceiverStep, Wait, Progress, PeerStep, Threads, Callers

\* A step takes the request from one stage to the next.
LEMMA OnlyOnceStep ==
  ASSUME IInv, [Next]_vars
  PROVE  OnlyOnce'
<1>1. TypeOK /\ OnlyOnce /\ OwnOnly /\ Quiescent /\ Registered /\ Roles /\ Noticed
  BY DEF IInv
<1>2. /\ pc = [t \in Threads |-> pc[t]]
      /\ after \in [Callers -> Nat]
      /\ request = [t \in Callers |-> request[t]]
      /\ acks = [s \in Sequences |-> acks[s]]
  BY ClientAssumption DEF IInv, TypeOK, Callers, Threads, Sequences
<1> USE <1>1, <1>2, ClientAssumption DEF OnlyOnce, InOneStage, Rejected, Roles, Alive, NoRequest,
    NoCompletion, NoneSince, Quiet, Waits, Callers, Threads, Goto, callers, filed, channel, peer
<1>3. CASE Connect
  BY <1>3 DEF Connect
<1>4. CASE Receive
  <2> SUFFICES ASSUME Alive'
               PROVE  OnlyOnce'
    BY DEF OnlyOnce
  <2>1. Alive /\ ~Refuses /\ UNCHANGED <<toPeer, serving, after, request, pc>>
    BY <1>4, RefusesOnlyBroken, ReceiveCases DEF Receive, FilesAck, FilesStatus
  <2>2. NoCompletion => NoCompletion'
    BY <1>4, ReceiveTakes
  <2>3. ASSUME NEW u \in Transactors, Waits(u), Rejected(u)'
        PROVE  Rejected(u)
    <3>1. CASE FilesAck
      <4>1. acks'[request[u]] = "rejected" =>
              \/ acks[request[u]] = "rejected"
              \/ Head(fromPeer).seq = request[u] /\ ~Head(fromPeer).ok
        BY <3>1 DEF FilesAck
      <4>2. Head(fromPeer).kind = "ack" /\ Head(fromPeer) \in In(fromPeer)
        BY <1>4, <3>1, ReceiveTakes DEF FilesAck
      <4> QED
        BY <1>4, <2>1, <2>3, <4>1, <4>2, ReceiveTakes
    <3>2. CASE FilesStatus
      BY <1>4, <2>1, <2>3, <3>2, ReceiveTakes DEF FilesStatus
    <3> QED
      BY <1>4, <2>1, <3>1, <3>2, ReceiveCases
  <2>4. Pairwise(fromPeer, Single) => Pairwise(fromPeer', Single)
    BY <1>4, ReceiveTakes
  <2>5. CASE FilesAck
    BY <2>1, <2>2, <2>3, <2>4, <2>5 DEF FilesAck
  <2>6. CASE FilesStatus
    <3>1. Completes(Head(fromPeer)) /\ Head(fromPeer) \in In(fromPeer)
      BY <1>4, <2>1, <2>6, ReceiveTakes DEF FilesStatus, Completes, Noticed
    <3>2. ~NoCompletion
      BY <3>1
    <3>3. ASSUME Pairwise(fromPeer, Single)
          PROVE  NoCompletion'
      BY <1>4, <3>1, <3>3, ReceiveTakes DEF Single
    <3> QED
      BY <2>1, <2>3, <2>4, <3>2, <3>3
  <2> QED
    BY <1>4, <2>1, <2>5, <2>6, ReceiveCases
<1>5. CASE EndOfFile
  BY <1>5 DEF EndOfFile
<1>6. CASE ReceiverRaised
  BY <1>6 DEF ReceiverRaised
<1>7. ASSUME NEW t \in Threads, MarkRead(t) PROVE OnlyOnce'
  BY <1>7 DEF MarkRead
<1>8. ASSUME NEW t \in Threads, MarkSet(t) PROVE OnlyOnce'
  BY <1>8 DEF MarkSet, Leave
<1>9. CASE Close
  BY <1>9 DEF Close
<1>10. ASSUME NEW t \in Transactors, WaitForAck(t) PROVE OnlyOnce'
  BY <1>10 DEF WaitForAck, Leave
<1>11. ASSUME NEW t \in Transactors, WaitForStatus(t) PROVE OnlyOnce'
  BY <1>11 DEF WaitForStatus, Leave, Decisive
<1>12. ASSUME NEW t \in Transactors, NEW o \in Operations, Begin(t, o) PROVE OnlyOnce'
  BY <1>12 DEF Begin, Allocatable
<1>13. ASSUME NEW t \in Senders, BeginSend(t) PROVE OnlyOnce'
  BY <1>13 DEF BeginSend, Allocatable
<1>14. ASSUME NEW t \in Callers, Allocate(t) PROVE OnlyOnce'
  BY <1>14 DEF Allocate, Leave
<1>15. ASSUME NEW t \in Callers, Register(t) PROVE OnlyOnce'
  BY <1>15 DEF Register
<1>16. ASSUME NEW t \in Callers, Transmit(t) PROVE OnlyOnce'
  <2>1. UNCHANGED <<fromPeer, statuses, serving, after, request, acks, link, stop>>
    BY <1>16 DEF Transmit
  <2>2. CASE Withdraws(t)
    BY <1>16, <2>1, <2>2 DEF Withdraws
  <2>3. CASE Sends(t) /\ t \in Senders
    <3>1. operation[t] = FailStop /\ t \notin Transactors
      BY <2>3
    <3>2. \A u \in Transactors : Waits(u)' => Waits(u)
      BY <2>3, <3>1 DEF Sends
    <3>3. NoRequest => NoRequest'
      BY <2>3, <3>1 DEF Sends
    <3> QED
      BY <2>1, <3>2, <3>3
  <2>4. CASE Sends(t) /\ t \in Transactors
    <3>1. Alive /\ \A u \in Transactors : pc[u] # "idle" => u = t
      BY <1>16, <2>4 DEF Sends, Transmit, Noticed
    <3>2. Quiet /\ NoneSince(t)
      BY <1>16, <2>4, <3>1 DEF Transmit, Quiescent
    <3>3. \A u \in Transactors : Waits(u)' => u = t
      BY <2>4, <3>1 DEF Sends
    <3>4. ~Rejected(t)
      <4>1. Unsent /\ Sending(t)
        BY <1>16, <3>1 DEF Transmit, Registered, Sending
      <4> QED
        BY <4>1 DEF Unsent
    <3>5. Pairwise(fromPeer, Single)
      BY <3>2, QuietSingle
    <3> QED
      BY <2>1, <3>2, <3>3, <3>4, <3>5
  <2> QED
    BY <1>16, <2>2, <2>3, <2>4, TransmitCases
<1>17. ASSUME NEW ok \in BOOLEAN, PeerAcknowledge(ok) PROVE OnlyOnce'
  <2>1. PICK m : /\ Puts(m) /\ m.kind = "ack" /\ m.seq = Head(toPeer)[1]
                /\ m.name = Head(toPeer)[2] /\ m.ok = ok
    BY <1>17, AcknowledgePuts
  <2>2. /\ UNCHANGED <<pc, statuses, after, request, acks, link, stop>> /\ serving = 0
        /\ serving' = IF ok /\ Head(toPeer)[2] # FailStop THEN Head(toPeer)[1] ELSE 0
        /\ link = "up"
    BY <1>17 DEF PeerAcknowledge
  <2>3. NoCompletion => NoCompletion'
    BY <2>1 DEF Puts, Completes
  <2>4. Pairwise(fromPeer, Single) => Pairwise(fromPeer', Single)
    <3>1. ASSUME NEW x \in In(fromPeer) PROVE x \in Responses
      BY InResponses
    <3>2. \A x \in In(fromPeer) : <<x, m>> \in Single
      BY <2>1, <3>1 DEF Puts, Single, Completes
    <3> QED
      BY <2>1, <3>2 DEF Puts
  <2>5. NoRequest => NoRequest' /\ serving' = 0
    BY <1>17, <2>2, AcknowledgeTakes
  <2>6. ASSUME Alive, NEW u \in Transactors, Waits(u), Head(toPeer)[2] # FailStop
        PROVE  /\ ~NoRequest /\ NoRequest' /\ Head(toPeer)[1] = request[u]
    <3>1. Head(toPeer) \in In(toPeer) /\ Pairwise(toPeer, Distinct)
      BY <1>17, AcknowledgeTakes, <2>2 DEF Registered, RequestsOut
    <3>2. ~NoRequest /\ Head(toPeer)[1] = request[u]
      BY <2>6, <3>1 DEF OwnOnly
    <3>3. ASSUME NEW r \in In(toPeer') PROVE r[2] = FailStop
      <4>1. r \in In(toPeer) /\ <<Head(toPeer), r>> \in Distinct
        BY <1>17, <3>1, AcknowledgeTakes
      <4>2. r[1] # Head(toPeer)[1]
        BY <4>1 DEF Distinct
      <4> QED
        BY <2>6, <3>2, <4>1, <4>2 DEF OwnOnly
    <3> QED
      BY <3>2, <3>3
  <2>7. ASSUME Alive, NEW u \in Transactors, Waits(u), Head(toPeer)[2] = FailStop
        PROVE  m.seq # request[u] /\ serving' = 0
    <3>1. sentOperations[Head(toPeer)[1]] = FailStop /\ sentOperations[request[u]] = operation[u]
      BY <1>17, <2>2, <2>7, AcknowledgeTakes DEF Registered, RequestsOut, Known
    <3>2. operation[u] # FailStop
      BY <2>7 DEF FailStop
    <3> QED
      BY <2>1, <2>2, <2>7, <3>1, <3>2
  <2>8. ASSUME Alive, NEW u \in Transactors, Waits(u), Head(toPeer)[2] = FailStop
        PROVE  Rejected(u)' => Rejected(u)
    BY <2>1, <2>2, <2>7, <2>8 DEF Puts
  <2>9. ASSUME Alive, NEW u \in Transactors, Waits(u), Head(toPeer)[2] # FailStop, Rejected(u)'
        PROVE  serving' = 0
    <3>1. ~Rejected(u)
      BY <2>6, <2>9
    <3>2. CASE ok
      BY <2>1, <2>2, <2>9, <3>1, <3>2 DEF Puts
    <3> QED
      BY <2>2, <3>2
  <2>10. ASSUME Alive, NEW u \in Transactors, Waits(u)
         PROVE  (NoCompletion /\ NoneSince(u)) \/ (NoRequest /\ Head(toPeer)[2] = FailStop)
    BY <1>17, <2>10, AcknowledgeTakes
  <2>11. ASSUME Alive', NEW u \in Transactors, Waits(u)'
         PROVE  InOneStage(u)'
    <3>1. Alive /\ Waits(u) /\ InOneStage(u)
      BY <2>2, <2>11 DEF OnlyOnce
    <3>2. CASE Head(toPeer)[2] # FailStop
      BY <2>2, <2>3, <2>4, <2>6, <2>9, <2>10, <3>1, <3>2
    <3>3. CASE Head(toPeer)[2] = FailStop
      BY <2>2, <2>3, <2>4, <2>5, <2>7, <2>8, <3>1, <3>3
    <3> QED
      BY <3>2, <3>3
  <2> QED
    BY <2>11
<1>18. CASE PeerCompletes
  <2>1. PICK m : /\ Puts(m) /\ m.kind = "status" /\ m.seq = peerStatus + 1
                 /\ m.name \in Operations /\ m.name # "ERROR" /\ m.for = serving
    BY <1>18, CompletionPuts
  <2>2. UNCHANGED <<pc, statuses, after, request, acks, link, stop,
                    toPeer>> /\ serving # 0 /\ serving' = 0
    BY <1>18 DEF PeerCompletes, PeerReports
  <2>3. NoCompletion => Pairwise(fromPeer', Single)
    <3>1. ASSUME NoCompletion, NEW x \in In(fromPeer) PROVE <<x, m>> \in Single
      BY <2>1, <3>1, InResponses DEF Puts, Single
    <3> QED
      BY <2>1, <3>1, QuietSingle DEF Puts
  <2>4. ASSUME NEW u \in Transactors, Rejected(u)'
        PROVE  Rejected(u)
    BY <2>1, <2>2, <2>4 DEF Puts
  <2> QED
    BY <2>2, <2>3, <2>4
<1>19. CASE PeerFails
  BY <1>19 DEF PeerFails, PeerReports
<1>20. CASE PeerHangsUp
  BY <1>20 DEF PeerHangsUp
<1>21. CASE PeerMisbehaves
  BY <1>21 DEF PeerMisbehaves
<1>22. CASE UNCHANGED vars
  BY <1>22 DEF vars
<1> QED
  BY <1>3, <1>4, <1>5, <1>6, <1>7, <1>8, <1>9, <1>10, <1>11, <1>12, <1>13, <1>14, <1>15, <1>16,
     <1>17, <1>18, <1>19, <1>20, <1>21, <1>22
     DEF Next, ReceiverStep, Wait, Progress, PeerStep, Threads, Callers

\* Only a response that breaks the protocol is refused.
LEMMA NoFalseStep ==
  ASSUME IInv, [Next]_vars
  PROVE  NoFalseProtocolError'
<1>1. TypeOK /\ NoFalseProtocolError
  BY DEF IInv
<1> USE <1>1, ClientAssumption DEF NoFalseProtocolError, Goto, callers, filed, channel, peer
<1>2. CASE Connect
  BY <1>2 DEF Connect
<1>3. CASE Receive
  <2>1. link' = link
    BY <1>3 DEF Receive
  <2>2. CASE Refuses
    BY <1>3, <2>1, <2>2, RefusesOnlyBroken
  <2>3. CASE ~Refuses
    BY <1>3, <2>1, <2>3, ReceiveCases DEF FilesAck, FilesStatus
  <2> QED
    BY <2>2, <2>3
<1>4. CASE EndOfFile
  BY <1>4 DEF EndOfFile
<1>5. CASE ReceiverRaised
  BY <1>5 DEF ReceiverRaised
<1>6. ASSUME NEW t \in Threads, MarkRead(t) PROVE NoFalseProtocolError'
  BY <1>6 DEF MarkRead
<1>7. ASSUME NEW t \in Threads, MarkSet(t) PROVE NoFalseProtocolError'
  BY <1>7 DEF MarkSet, Leave
<1>8. CASE Close
  BY <1>8 DEF Close
<1>9. ASSUME NEW t \in Transactors, WaitForAck(t) PROVE NoFalseProtocolError'
  BY <1>9 DEF WaitForAck, Leave
<1>10. ASSUME NEW t \in Transactors, WaitForStatus(t) PROVE NoFalseProtocolError'
  BY <1>10 DEF WaitForStatus, Leave, Decisive
<1>11. ASSUME NEW t \in Transactors, NEW o \in Operations, Begin(t, o) PROVE NoFalseProtocolError'
  BY <1>11 DEF Begin, Allocatable
<1>12. ASSUME NEW t \in Senders, BeginSend(t) PROVE NoFalseProtocolError'
  BY <1>12 DEF BeginSend, Allocatable
<1>13. ASSUME NEW t \in Callers, Allocate(t) PROVE NoFalseProtocolError'
  BY <1>13 DEF Allocate, Leave
<1>14. ASSUME NEW t \in Callers, Register(t) PROVE NoFalseProtocolError'
  BY <1>14 DEF Register
<1>15. ASSUME NEW t \in Callers, Transmit(t) PROVE NoFalseProtocolError'
  BY <1>15 DEF Transmit, Sends, Withdraws
<1>16. ASSUME NEW ok \in BOOLEAN, PeerAcknowledge(ok) PROVE NoFalseProtocolError'
  BY <1>16 DEF PeerAcknowledge
<1>17. CASE PeerCompletes
  BY <1>17 DEF PeerCompletes, PeerReports
<1>18. CASE PeerFails
  BY <1>18 DEF PeerFails, PeerReports
<1>19. CASE PeerHangsUp
  BY <1>19 DEF PeerHangsUp
<1>20. CASE PeerMisbehaves
  BY <1>20 DEF PeerMisbehaves
<1>21. CASE UNCHANGED vars
  BY <1>21 DEF vars
<1> QED
  BY <1>2, <1>3, <1>4, <1>5, <1>6, <1>7, <1>8, <1>9, <1>10, <1>11, <1>12, <1>13, <1>14, <1>15,
     <1>16, <1>17, <1>18, <1>19, <1>20, <1>21
     DEF Next, ReceiverStep, Wait, Progress, PeerStep, Threads, Callers

\* The status that ends the wait is that of the request.
LEMMA OwnStep ==
  ASSUME IInv, [Next]_vars
  PROVE  CompletionIsOwn'
<1>1. TypeOK /\ CompletionIsOwn /\ Roles /\ OwnOnly
  BY DEF IInv
<1>2. /\ request = [t \in Callers |-> request[t]] /\ answered = [t \in Callers |-> answered[t]]
      /\ after \in [Callers -> Nat] /\ Len(statuses) \in Nat
  BY ClientAssumption DEF IInv, TypeOK, Callers, Threads, Sequences
<1> USE <1>1, <1>2, ClientAssumption DEF CompletionIsOwn, Roles, OwnOnly, Waits, Callers, Goto,
    callers, filed, channel, peer
<1>3. CASE Connect
  BY <1>3 DEF Connect
<1>4. CASE Receive
  BY <1>4 DEF Receive, Acceptable
<1>5. CASE EndOfFile
  BY <1>5 DEF EndOfFile
<1>6. CASE ReceiverRaised
  BY <1>6 DEF ReceiverRaised
<1>7. ASSUME NEW t \in Threads, MarkRead(t) PROVE CompletionIsOwn'
  BY <1>7 DEF MarkRead
<1>8. ASSUME NEW t \in Threads, MarkSet(t) PROVE CompletionIsOwn'
  BY <1>8 DEF MarkSet, Leave
<1>9. CASE Close
  BY <1>9 DEF Close
<1>10. ASSUME NEW t \in Transactors, WaitForAck(t) PROVE CompletionIsOwn'
  BY <1>10 DEF WaitForAck, Leave
<1>11. ASSUME NEW t \in Transactors, WaitForStatus(t) PROVE CompletionIsOwn'
  <2>1. pc[t] = "status" /\ request' = request
    BY <1>11 DEF WaitForStatus
  <2>2. CASE answered' = answered
    BY <2>1, <2>2
  <2>3. CASE answered' # answered
    <3>1. PICK i \in Decisive(t) :
             answered' = [answered EXCEPT
                            ![t] = IF statuses[i].name = "ERROR" THEN 0 ELSE statuses[i].for]
      BY <1>11, <2>3 DEF WaitForStatus
    <3>2. statuses[i] \in Since(statuses, after[t])
      BY <3>1 DEF Decisive, Since
    <3>3. answered'[t] # 0 => answered'[t] = request[t]
      BY <2>1, <3>1, <3>2
    <3> QED
      BY <2>1, <3>1, <3>3
  <2> QED
    BY <2>2, <2>3
<1>12. ASSUME NEW t \in Transactors, NEW o \in Operations, Begin(t, o) PROVE CompletionIsOwn'
  BY <1>12 DEF Begin, Allocatable
<1>13. ASSUME NEW t \in Senders, BeginSend(t) PROVE CompletionIsOwn'
  BY <1>13 DEF BeginSend, Allocatable
<1>14. ASSUME NEW t \in Callers, Allocate(t) PROVE CompletionIsOwn'
  BY <1>14 DEF Allocate, Leave
<1>15. ASSUME NEW t \in Callers, Register(t) PROVE CompletionIsOwn'
  BY <1>15 DEF Register
<1>16. ASSUME NEW t \in Callers, Transmit(t) PROVE CompletionIsOwn'
  BY <1>16 DEF Transmit, Sends, Withdraws
<1>17. ASSUME NEW ok \in BOOLEAN, PeerAcknowledge(ok) PROVE CompletionIsOwn'
  BY <1>17 DEF PeerAcknowledge
<1>18. CASE PeerCompletes
  BY <1>18 DEF PeerCompletes, PeerReports
<1>19. CASE PeerFails
  BY <1>19 DEF PeerFails, PeerReports
<1>20. CASE PeerHangsUp
  BY <1>20 DEF PeerHangsUp
<1>21. CASE PeerMisbehaves
  BY <1>21 DEF PeerMisbehaves
<1>22. CASE UNCHANGED vars
  BY <1>22 DEF vars
<1> QED
  BY <1>3, <1>4, <1>5, <1>6, <1>7, <1>8, <1>9, <1>10, <1>11, <1>12, <1>13, <1>14, <1>15, <1>16,
     <1>17, <1>18, <1>19, <1>20, <1>21, <1>22
     DEF Next, ReceiverStep, Wait, Progress, PeerStep, Threads, Callers

\* What ends a transaction while the connection lasts leaves nothing under way.
LEMMA QuiescentStep ==
  ASSUME IInv, [Next]_vars
  PROVE  Quiescent'
<1>1. TypeOK /\ OnlyOnce /\ Quiescent /\ Registered /\ Roles /\ Noticed
  BY DEF IInv
<1>2. /\ pc = [t \in Threads |-> pc[t]]
      /\ after \in [Callers -> Nat] /\ Len(statuses) \in Nat
  BY ClientAssumption DEF IInv, TypeOK, Callers, Threads, Sequences
<1> USE <1>1, <1>2, ClientAssumption DEF Quiescent, Roles, Alive, NoRequest, NoCompletion,
    NoneSince, Quiet, Waits, Callers, Threads, Goto, callers, filed, channel, peer
<1>3. CASE Connect
  BY <1>3 DEF Connect
<1>4. CASE Receive
  <2> SUFFICES ASSUME Alive'
               PROVE  Quiescent'
    OBVIOUS
  <2>1. Alive /\ ~Refuses /\ UNCHANGED <<toPeer, serving, after, pc>>
    BY <1>4, RefusesOnlyBroken, ReceiveCases DEF Receive, FilesAck, FilesStatus
  <2>2. NoCompletion => NoCompletion'
    BY <1>4, ReceiveTakes
  <2>3. ASSUME NEW u \in Transactors, pc[u] \in {"allocate", "register", "transmit"}
        PROVE  NoneSince(u)'
    <3>1. NoCompletion /\ NoneSince(u)
      BY <2>1, <2>3
    <3>2. CASE FilesStatus
      <4>1. Head(fromPeer).name = "ERROR"
        BY <1>4, <3>1, <3>2, ReceiveTakes DEF FilesStatus, Completes
      <4>2. \A x \in Since(statuses', after[u]) : x \in Since(statuses,
          after[u]) \/ x = Head(fromPeer)
        BY <3>2 DEF FilesStatus
      <4> QED
        BY <2>1, <3>1, <4>1, <4>2
    <3>3. CASE FilesAck
      BY <2>1, <3>1, <3>3 DEF FilesAck
    <3> QED
      BY <1>4, <2>1, <3>2, <3>3, ReceiveCases
  <2> QED
    BY <2>1, <2>2, <2>3
<1>5. CASE EndOfFile
  BY <1>5 DEF EndOfFile
<1>6. CASE ReceiverRaised
  BY <1>6 DEF ReceiverRaised
<1>7. ASSUME NEW t \in Threads, MarkRead(t) PROVE Quiescent'
  BY <1>7 DEF MarkRead
<1>8. ASSUME NEW t \in Threads, MarkSet(t) PROVE Quiescent'
  BY <1>8 DEF MarkSet, Leave
<1>9. CASE Close
  BY <1>9 DEF Close
<1>10. ASSUME NEW t \in Transactors, WaitForAck(t) PROVE Quiescent'
  <2>1. UNCHANGED <<toPeer, fromPeer, serving, statuses, after, link, stop>> /\ pc[t] = "ack"
    BY <1>10 DEF WaitForAck
  <2>2. \A u \in Transactors : u # t => pc[u] = "idle" /\ pc'[u] = "idle"
    BY <1>10, <2>1 DEF WaitForAck, Leave
  <2>3. CASE acks[request[t]] = "accepted"
    BY <1>10, <2>1, <2>2, <2>3 DEF WaitForAck
  <2>4. CASE acks[request[t]] = "rejected"
    <3>1. Alive => Quiet
      BY <2>1, <2>4 DEF OnlyOnce, InOneStage, Rejected
    <3>2. pc' = [pc EXCEPT ![t] = "idle"]
      BY <1>10, <2>4 DEF WaitForAck, Leave
    <3> QED
      BY <2>1, <2>2, <3>1, <3>2
  <2>5. CASE disconnected
    BY <2>1, <2>5 DEF Noticed
  <2> QED
    BY <1>10, <2>3, <2>4, <2>5 DEF WaitForAck
<1>11. ASSUME NEW t \in Transactors, WaitForStatus(t) PROVE Quiescent'
  <2>1. UNCHANGED <<toPeer, fromPeer, serving, statuses, after, link, stop>> /\ pc[t] = "status"
    BY <1>11 DEF WaitForStatus
  <2>2. pc' = [pc EXCEPT ![t] = "idle"]
    BY <1>11 DEF WaitForStatus, Leave
  <2>3. \A u \in Transactors : pc'[u] = "idle"
    BY <2>1, <2>2
  <2>4. ASSUME Alive, NEW i \in Decisive(t)
        PROVE  Quiet
    <3>1. statuses[i] \in Since(statuses, after[t]) /\ statuses[i] \in In(statuses)
      BY <2>4 DEF Decisive, Since, In
    <3>2. statuses[i].name # "ERROR"
      BY <2>4, <3>1 DEF Noticed
    <3>3. ~NoneSince(t)
      BY <3>1, <3>2
    <3> QED
      BY <2>1, <2>4, <3>3 DEF OnlyOnce, InOneStage
  <2>5. Alive => Quiet
    BY <1>11, <2>4 DEF WaitForStatus, Noticed
  <2> QED
    BY <2>1, <2>3, <2>5
<1>12. ASSUME NEW t \in Transactors, NEW o \in Operations, Begin(t, o) PROVE Quiescent'
  <2>1. /\ UNCHANGED <<toPeer, fromPeer, serving, statuses, link, stop>>
        /\ pc' = [pc EXCEPT ![t] = "allocate"] /\ after' = [after EXCEPT ![t] = Len(statuses)]
    BY <1>12 DEF Begin
  <2>2. \A u \in Transactors : pc[u] = "idle"
    BY <1>12 DEF Begin
  <2>3. Since(statuses, Len(statuses)) = {}
    BY SinceNow DEF TypeOK
  <2> QED
    BY <2>1, <2>2, <2>3
<1>13. ASSUME NEW t \in Senders, BeginSend(t) PROVE Quiescent'
  BY <1>13 DEF BeginSend, Allocatable
<1>14. ASSUME NEW t \in Callers, Allocate(t) PROVE Quiescent'
  BY <1>14 DEF Allocate, Leave
<1>15. ASSUME NEW t \in Callers, Register(t) PROVE Quiescent'
  BY <1>15 DEF Register
<1>16. ASSUME NEW t \in Callers, Transmit(t) PROVE Quiescent'
  <2>1. UNCHANGED <<fromPeer, statuses, serving, after, link, stop>> /\ pc[t] = "transmit"
    BY <1>16 DEF Transmit
  <2>2. CASE Withdraws(t)
    BY <1>16, <2>1, <2>2 DEF Withdraws
  <2>3. CASE Sends(t) /\ t \in Senders
    <3>1. operation[t] = FailStop /\ t \notin Transactors
      BY <2>3
    <3>2. \A u \in Transactors : pc'[u] = pc[u]
      BY <2>3, <3>1 DEF Sends
    <3>3. NoRequest => NoRequest'
      BY <2>3, <3>1 DEF Sends
    <3> QED
      BY <2>1, <3>2, <3>3
  <2>4. CASE Sends(t) /\ t \in Transactors
    <3>1. pc'[t] = "ack" /\ \A u \in Transactors : u # t => pc'[u] = "idle"
      BY <2>1, <2>4 DEF Sends
    <3> QED
      BY <2>4, <3>1
  <2> QED
    BY <1>16, <2>2, <2>3, <2>4, TransmitCases
<1>17. ASSUME NEW ok \in BOOLEAN, PeerAcknowledge(ok) PROVE Quiescent'
  <2>1. UNCHANGED <<pc, statuses, after, link, stop>>
    BY <1>17 DEF PeerAcknowledge
  <2>2. NoCompletion => NoCompletion'
    BY <1>17, AcknowledgePuts DEF Puts, Completes
  <2>3. NoRequest => NoRequest' /\ serving' = 0
    BY <1>17, AcknowledgeTakes DEF PeerAcknowledge
  <2> QED
    BY <2>1, <2>2, <2>3
<1>18. CASE PeerCompletes
  <2>1. PICK m : /\ Puts(m) /\ m.kind = "status" /\ m.seq = peerStatus + 1
                /\ m.name \in Operations /\ m.name # "ERROR" /\ m.for = serving
    BY <1>18, CompletionPuts
  <2> QED
    BY <1>18, <2>1 DEF Puts, PeerCompletes, PeerReports
<1>19. CASE PeerFails
  <2>1. PICK m : Puts(m) /\ m.kind = "status" /\ m.seq = peerStatus + 1 /\ m.name = "ERROR"
    BY <1>19, ErrorPuts
  <2> QED
    BY <1>19, <2>1 DEF Puts, PeerFails, PeerReports
<1>20. CASE PeerHangsUp
  BY <1>20 DEF PeerHangsUp
<1>21. CASE PeerMisbehaves
  <2>1. PICK m : Puts(m) /\ ~Completes(m)
    BY <1>21, MisbehaviourPuts
  <2> QED
    BY <1>21, <2>1 DEF Puts, PeerMisbehaves
<1>22. CASE UNCHANGED vars
  BY <1>22 DEF vars
<1> QED
  BY <1>3, <1>4, <1>5, <1>6, <1>7, <1>8, <1>9, <1>10, <1>11, <1>12, <1>13, <1>14, <1>15, <1>16,
     <1>17, <1>18, <1>19, <1>20, <1>21, <1>22
     DEF Next, ReceiverStep, Wait, Progress, PeerStep, Threads, Callers

\* Requests on the wire are requests.
LEMMA InRequests ==
  ASSUME TypeOK, NEW r \in In(toPeer)
  PROVE  r \in Requests
  BY DEF TypeOK, In, Requests

\* A thread about to allocate gets a number within the bound.
LEMMA AllocateBound ==
  ASSUME TypeOK, Allocated, NEW t \in Callers, pc[t] = "allocate"
  PROVE  sequence + 1 \in Sequences
<1> DEFINE A == {u \in Callers : pc[u] = "allocate"}
<1>1. IsFiniteSet(A) /\ t \in A
  BY ClientAssumption, FS_Subset DEF Callers
<1>2. Cardinality(A) \in Nat /\ Cardinality(A) # 0
  BY <1>1, FS_CardinalityType, FS_EmptySet
<1> HIDE DEF A
<1>3. sequence + Cardinality(A) <= MaxSequence
  BY DEF Allocated, A
<1> QED
  BY <1>2, <1>3, ClientAssumption DEF TypeOK, Sequences

\* Steps that touch neither the wires nor the registrations.
LEMMA RegisteredFrame ==
  ASSUME Registered, link' # "broken" => link # "broken",
         UNCHANGED <<toPeer, fromPeer, acks, sentOperations, sequence, serving, statuses,
                     peerStatus>>,
         \A t \in Callers : Sending(t)' \/ Waits(t)' =>
           /\ request'[t] = request[t] /\ operation'[t] = operation[t]
           /\ Sending(t)' => Sending(t)
           /\ pc'[t] = "transmit" => pc[t] = "transmit"
           /\ Waits(t)' => Waits(t)
  PROVE  Registered'
<1> SUFFICES ASSUME link # "broken"
             PROVE  Registered'
  BY DEF Registered
<1>1. RequestsOut' /\ AcksBack'
  BY DEF Registered, RequestsOut, AcksBack
<1>2. Unsent'
  BY DEF Registered, Unsent
<1>3. Known'
  BY DEF Registered, Known, Callers
<1>4. Served' /\ Numbered'
  BY DEF Registered, Served, Numbered
<1> QED
  BY <1>1, <1>2, <1>3, <1>4 DEF Registered

\* A number just allocated is on no wire.
LEMMA RegisteredAllocate ==
  ASSUME IInv, NEW t \in Callers, Allocate(t)
  PROVE  Registered'
<1> SUFFICES ASSUME link # "broken"
             PROVE  Registered'
  BY DEF Registered, Allocate, peer
<1>1. TypeOK /\ RequestsOut /\ AcksBack /\ Unsent /\ Known /\ Served /\ Numbered /\ Roles
  BY DEF IInv, Registered
<1>2. /\ UNCHANGED <<toPeer, fromPeer, acks, sentOperations, serving, statuses, peerStatus,
                     operation>>
      /\ request' = [request EXCEPT ![t] = sequence + 1] /\ sequence' = sequence + 1
      /\ pc[t] = "allocate"
      /\ (pc' = [pc EXCEPT ![t] = "register"] \/ pc' = [pc EXCEPT ![t] = "idle"])
  BY DEF Allocate, Leave, Goto, filed, peer
<1>3. sequence + 1 \in Sequences /\ sequence \in Nat
  BY <1>1, <1>2, AllocateBound DEF IInv, TypeOK
<1>4. /\ request = [u \in Callers |-> request[u]] /\ pc = [u \in Threads |-> pc[u]]
  BY <1>1 DEF TypeOK
<1>5. RequestsOut'
  BY <1>1, <1>2, <1>3, InRequests DEF RequestsOut, Requests, Sequences
<1>6. AcksBack'
  BY <1>1, <1>2, <1>3 DEF AcksBack
<1>7. Served'
  BY <1>1, <1>2, <1>3, ClientAssumption DEF Served, Sequences, TypeOK
<1>8. Numbered'
  BY <1>1, <1>2 DEF Numbered
<1>9. \A u \in Callers \ {t} : request'[u] = request[u] /\ pc'[u] = pc[u]
  BY <1>2, <1>4 DEF Callers, Threads
<1>10. /\ request'[t] = sequence + 1 /\ acks[sequence + 1] = "none" /\ serving # sequence + 1
       /\ \A r \in In(toPeer) : r[1] # sequence + 1
       /\ \A m \in In(fromPeer) : m.kind = "ack" => m.seq # sequence + 1
       /\ pc'[t] \in {"register", "idle"}
  <2>1. request'[t] = sequence + 1 /\ pc'[t] \in {"register", "idle"}
    BY <1>2, <1>4 DEF Callers, Threads
  <2>2. acks[sequence + 1] = "none" /\ serving # sequence + 1
    BY <1>1, <1>3 DEF Served, TypeOK
  <2>3. ASSUME NEW r \in In(toPeer) PROVE r[1] # sequence + 1
    BY <1>1, <1>3, <2>3, InRequests DEF RequestsOut, Requests, Sequences
  <2>4. \A m \in In(fromPeer) : m.kind = "ack" => m.seq # sequence + 1
    BY <1>1, <1>3 DEF AcksBack
  <2> QED
    BY <2>1, <2>2, <2>3, <2>4
<1>11. \A u \in Callers : Sending(u) \/ (u \in Transactors /\ Waits(u)) =>
         request[u] \in 1..sequence /\ request[u] # sequence + 1
  BY <1>1, <1>3 DEF Unsent, Known
<1>12. Unsent'
  <2> SUFFICES ASSUME NEW u \in Callers, Sending(u)'
               PROVE  /\ request'[u] \in 1..sequence' /\ request'[u] # serving
                      /\ acks[request'[u]] = "none"
                      /\ \A r \in In(toPeer) : r[1] # request'[u]
                      /\ \A m \in In(fromPeer) : m.kind = "ack" => m.seq # request'[u]
                      /\ pc'[u] = "transmit" => sentOperations[request'[u]] = operation[u]
                      /\ \A v \in Callers : Sending(v)' /\ request'[v] = request'[u] => v = u
    BY <1>2 DEF Unsent
  <2>1. CASE u = t
    BY <1>2, <1>3, <1>9, <1>10, <1>11, <2>1 DEF Sending
  <2>2. CASE u # t
    BY <1>1, <1>2, <1>3, <1>9, <1>10, <1>11, <2>2 DEF Unsent, Sending
  <2> QED
    BY <2>1, <2>2
<1>13. Known'
  BY <1>1, <1>2, <1>3, <1>9, <1>10, <1>11 DEF Known, Waits, Sending, Callers
<1> QED
  BY <1>5, <1>6, <1>7, <1>8, <1>12, <1>13 DEF Registered

\* Registering one request does not touch another that is on the wire.
LEMMA RegisteredRegister ==
  ASSUME IInv, NEW t \in Callers, Register(t)
  PROVE  Registered'
<1> SUFFICES ASSUME link # "broken"
             PROVE  Registered'
  BY DEF Registered, Register, peer
<1>1. TypeOK /\ RequestsOut /\ AcksBack /\ Unsent /\ Known /\ Served /\ Numbered
  BY DEF IInv, Registered
<1>2. /\ UNCHANGED <<toPeer, fromPeer, acks, serving, statuses, peerStatus, sequence, request,
                     operation>>
      /\ sentOperations' = [sentOperations EXCEPT ![request[t]] = operation[t]]
      /\ Sending(t) /\ pc' = [pc EXCEPT ![t] = "transmit"]
  BY DEF Register, Goto, filed, peer, Sending
<1>3. /\ request[t] \in Sequences
      /\ \A s : s # request[t] => sentOperations'[s] = sentOperations[s]
      /\ sentOperations'[request[t]] = operation[t]
  BY <1>1, <1>2 DEF Unsent, TypeOK, Sequences
<1>4. pc'[t] = "transmit" /\ \A u \in Callers \ {t} : pc'[u] = pc[u]
  BY <1>1, <1>2 DEF TypeOK, Threads, Callers
<1>5. RequestsOut'
  BY <1>1, <1>2, <1>3 DEF RequestsOut, Unsent
<1>6. AcksBack'
  BY <1>1, <1>2, <1>3 DEF AcksBack, Unsent
<1>7. Unsent'
  BY <1>1, <1>2, <1>3, <1>4 DEF Unsent, Sending
<1>8. Known'
  BY <1>1, <1>2, <1>3, <1>4 DEF Known, Sending, Waits, Callers
<1>9. Served'
  BY <1>1, <1>2, <1>3 DEF Served, Unsent
<1>10. Numbered'
  BY <1>1, <1>2 DEF Numbered
<1> QED
  BY <1>5, <1>6, <1>7, <1>8, <1>9, <1>10 DEF Registered

\* A request is sent as it was registered, or withdrawn unsent.
LEMMA RegisteredTransmit ==
  ASSUME IInv, NEW t \in Callers, Transmit(t)
  PROVE  Registered'
<1> SUFFICES ASSUME link # "broken"
             PROVE  Registered'
  BY DEF Registered, Transmit
<1>1. TypeOK /\ RequestsOut /\ AcksBack /\ Unsent /\ Known /\ Served /\ Numbered /\ Roles
  BY DEF IInv, Registered
<1>2. /\ UNCHANGED <<fromPeer, acks, serving, statuses, peerStatus, sequence, request, operation>>
      /\ Sending(t) /\ pc[t] = "transmit"
  BY DEF Transmit, filed, Sending
<1>3. request[t] \in Sequences /\ sentOperations[request[t]] = operation[t]
  BY <1>1, <1>2 DEF Unsent, TypeOK, Sequences
<1>4. Numbered'
  BY <1>1, <1>2 DEF Numbered
<1>5. CASE Withdraws(t)
  <2>1. /\ \A s : s # request[t] => sentOperations'[s] = sentOperations[s]
        /\ toPeer' = toPeer
    BY <1>1, <1>3, <1>5 DEF Withdraws, TypeOK
  <2>2. pc'[t] = "mark" /\ \A u \in Callers \ {t} : pc'[u] = pc[u]
    BY <1>1, <1>5 DEF Withdraws, TypeOK, Threads, Callers
  <2>3. RequestsOut' /\ AcksBack'
    BY <1>1, <1>2, <2>1 DEF RequestsOut, AcksBack, Unsent
  <2>4. Unsent'
    BY <1>1, <1>2, <2>1, <2>2 DEF Unsent, Sending
  <2>5. Known'
    BY <1>1, <1>2, <2>1, <2>2 DEF Known, Sending, Waits, Callers
  <2>6. Served'
    BY <1>1, <1>2, <2>1 DEF Served, Unsent
  <2> QED
    BY <1>4, <2>3, <2>4, <2>5, <2>6 DEF Registered
<1>6. CASE Sends(t)
  <2> DEFINE r == <<request[t], operation[t]>>
  <2>1. /\ sentOperations' = sentOperations /\ \A x \in In(toPeer') : x \in In(toPeer) \/ x = r
        /\ r[1] = request[t] /\ r[2] = operation[t]
    BY <1>6 DEF Sends
  <2>2. /\ pc'[t] \in {"ack", "idle"} /\ (t \in Transactors <=> pc'[t] = "ack")
        /\ \A u \in Callers \ {t} : pc'[u] = pc[u]
    BY <1>1, <1>6 DEF Sends, TypeOK, Threads, Callers
  <2>3. Pairwise(toPeer', Distinct)
    <3>1. ASSUME NEW x \in In(toPeer) PROVE <<x, r>> \in Distinct
      <4>1. x \in Requests /\ r \in Requests
        BY <1>1, <1>6, InRequests DEF Sends
      <4>2. x[1] # r[1]
        BY <1>1, <1>2, <2>1 DEF Unsent
      <4> QED
        BY <4>1, <4>2 DEF Distinct
    <3> QED
      BY <1>1, <1>6, <3>1 DEF Sends, RequestsOut
  <2>4. RequestsOut'
    BY <1>1, <1>2, <1>3, <2>1, <2>3 DEF RequestsOut, Unsent
  <2>5. AcksBack'
    BY <1>1, <1>2, <2>1 DEF AcksBack, Unsent
  <2>6. Unsent'
    BY <1>1, <1>2, <2>1, <2>2 DEF Unsent, Sending
  <2>7. Known'
    <3> SUFFICES ASSUME NEW u \in Transactors, Waits(u)'
                 PROVE  /\ request[u] \in 1..sequence /\ sentOperations[request[u]] = operation[u]
                        /\ \A v \in Callers : Sending(v)' => request[v] # request[u]
      BY <1>2, <2>1 DEF Known
    <3>1. \A v \in Callers : Sending(v)' => Sending(v) /\ v # t
      BY <2>2 DEF Sending
    <3>2. CASE u = t
      BY <1>1, <1>2, <1>3, <3>1, <3>2 DEF Unsent
    <3>3. CASE u # t
      BY <1>1, <2>2, <3>1, <3>3 DEF Known, Waits, Callers
    <3> QED
      BY <3>2, <3>3
  <2>8. Served'
    BY <1>1, <1>2, <2>1 DEF Served
  <2> QED
    BY <1>4, <2>4, <2>5, <2>6, <2>7, <2>8 DEF Registered
<1> QED
  BY <1>5, <1>6, TransmitCases

\* An ACK is filed once, and a status after those with lower numbers.
LEMMA RegisteredReceive ==
  ASSUME IInv, Receive
  PROVE  Registered'
<1> SUFFICES ASSUME link # "broken"
             PROVE  Registered'
  BY DEF Registered, Receive
<1>1. TypeOK /\ RequestsOut /\ AcksBack /\ Unsent /\ Known /\ Served /\ Numbered
  BY DEF IInv, Registered
<1>2. /\ UNCHANGED <<toPeer, serving, peerStatus, sequence, sentOperations, request, operation>>
      /\ ~Refuses
  BY RefusesOnlyBroken DEF Receive
<1>3. pc' = pc
  BY <1>1, <1>2, ReceiveCases DEF FilesAck, FilesStatus
<1>4. /\ \A x \in In(fromPeer') : x \in In(fromPeer) /\ <<Head(fromPeer), x>> \in Ordered
      /\ Pairwise(fromPeer', Ordered) /\ Head(fromPeer) \in In(fromPeer)
  BY <1>1, ReceiveTakes DEF Numbered
<1>5. Known'
  BY <1>1, <1>2, <1>3 DEF Known, Waits, Sending
<1>6. CASE FilesAck
  <2> DEFINE q == Head(fromPeer).seq
  <2>1. /\ q \in Sequences /\ q \in 1..sequence /\ Head(fromPeer).kind = "ack"
        /\ \A s : s # q => acks'[s] = acks[s]
        /\ statuses' = statuses
    BY <1>1, <1>4, <1>6 DEF FilesAck, AcksBack, TypeOK
  <2>2. \A x \in In(fromPeer') : x.kind = "ack" => x.seq # q
    BY <1>4, <2>1 DEF Ordered
  <2>3. \A r \in In(toPeer) : r[1] # q
    BY <1>1, <1>4, <2>1 DEF AcksBack
  <2>4. \A t \in Callers : Sending(t) => request[t] # q
    BY <1>1, <1>4, <2>1 DEF Unsent
  <2> HIDE DEF q
  <2>5. RequestsOut'
    BY <1>1, <1>2, <2>1, <2>3 DEF RequestsOut
  <2>6. AcksBack'
    BY <1>1, <1>2, <1>4, <2>1, <2>2 DEF AcksBack
  <2>7. Unsent'
    BY <1>1, <1>2, <1>3, <1>4, <2>1, <2>4 DEF Unsent, Sending
  <2>8. Served'
    BY <1>1, <1>2, <2>1 DEF Served
  <2>9. Numbered'
    BY <1>1, <1>2, <1>4, <2>1 DEF Numbered
  <2> QED
    BY <1>5, <2>5, <2>6, <2>7, <2>8, <2>9 DEF Registered
<1>7. CASE FilesStatus
  <2>1. /\ acks' = acks /\ Head(fromPeer).kind = "status"
        /\ \A x \in In(statuses') : x \in In(statuses) \/ x = Head(fromPeer)
    BY <1>7 DEF FilesStatus
  <2>2. RequestsOut' /\ AcksBack'
    BY <1>1, <1>2, <1>4, <2>1 DEF RequestsOut, AcksBack
  <2>3. Unsent'
    BY <1>1, <1>2, <1>3, <1>4, <2>1 DEF Unsent, Sending
  <2>4. Served'
    BY <1>1, <1>2, <2>1 DEF Served
  <2>5. Numbered'
    <3>1. \A m \in In(statuses') : m.seq <= peerStatus
      BY <1>1, <1>4, <2>1 DEF Numbered
    <3>2. ASSUME NEW m \in In(fromPeer'), m.kind = "status", NEW n \in In(statuses')
          PROVE  n.seq < m.seq
      BY <1>1, <1>4, <2>1, <3>2 DEF Numbered, Ordered
    <3> QED
      BY <1>1, <1>2, <1>4, <3>1, <3>2 DEF Numbered
  <2> QED
    BY <1>5, <2>2, <2>3, <2>4, <2>5 DEF Registered
<1> QED
  BY <1>1, <1>2, <1>6, <1>7, ReceiveCases

\* The worker takes a request off one wire and puts its ACK on the other.
LEMMA RegisteredAcknowledge ==
  ASSUME IInv, NEW ok \in BOOLEAN, PeerAcknowledge(ok)
  PROVE  Registered'
<1> DEFINE r == Head(toPeer)
<1>1. link = "up" /\ TypeOK /\ RequestsOut /\ AcksBack /\ Unsent /\ Known /\ Served /\ Numbered
  BY DEF IInv, Registered, PeerAcknowledge
<1>2. /\ UNCHANGED <<statuses, acks, peerStatus, sequence, sentOperations, request, operation, pc>>
      /\ serving = 0 /\ serving' = IF ok /\ r[2] # FailStop THEN r[1] ELSE 0
  BY DEF PeerAcknowledge, callers, filed
<1>3. PICK m : Puts(m) /\ m.kind = "ack" /\ m.seq = r[1] /\ m.name = r[2] /\ m.ok = ok
  BY <1>1, AcknowledgePuts
<1>4. /\ r \in Requests /\ r \in In(toPeer) /\ Pairwise(toPeer', Distinct)
      /\ \A x \in In(toPeer') : x \in In(toPeer) /\ <<r, x>> \in Distinct
  BY <1>1, AcknowledgeTakes DEF RequestsOut
<1>5. \A x \in In(toPeer') : x[1] # r[1]
  BY <1>4 DEF Distinct
<1>6. r[1] \in 1..sequence /\ sentOperations[r[1]] = r[2] /\ acks[r[1]] = "none"
  BY <1>1, <1>4 DEF RequestsOut, Requests, Sequences
<1>7. \A x \in In(fromPeer') : x \in In(fromPeer) \/ x = m
  BY <1>3 DEF Puts
<1>8. RequestsOut'
  BY <1>1, <1>2, <1>4 DEF RequestsOut
<1>9. AcksBack'
  <2> SUFFICES ASSUME NEW x \in In(fromPeer')
               PROVE  /\ x.kind \in {"ack", "status"}
                      /\ x.kind = "ack" =>
                           /\ x.seq \in 1..sequence
                           /\ sentOperations[x.seq] = x.name
                           /\ acks[x.seq] = "none"
                           /\ \A y \in In(toPeer') : y[1] # x.seq
    BY <1>2 DEF AcksBack
  <2>1. CASE x \in In(fromPeer)
    BY <1>1, <1>4, <2>1 DEF AcksBack
  <2>2. CASE x = m
    BY <1>3, <1>5, <1>6, <2>2
  <2> QED
    BY <1>7, <2>1, <2>2
<1>10. Unsent'
  <2>1. \A t \in Callers : Sending(t) => request[t] # r[1] /\ request[t] # 0
    BY <1>1, <1>4 DEF Unsent
  <2>2. \A t \in Callers : Sending(t) => request[t] # serving'
    BY <1>2, <2>1
  <2>3. \A t \in Callers : Sending(t) =>
          \A x \in In(fromPeer') : x.kind = "ack" => x.seq # request[t]
    BY <1>1, <1>3, <1>7, <2>1 DEF Unsent
  <2>4. \A t \in Callers : Sending(t) => \A x \in In(toPeer') : x[1] # request[t]
    BY <1>1, <1>4 DEF Unsent
  <2> QED
    BY <1>1, <1>2, <2>2, <2>3, <2>4 DEF Unsent, Sending
<1>11. Known'
  BY <1>1, <1>2 DEF Known, Waits, Sending
<1>12. Served'
  <2>1. r[2] # FailStop => r[2] \in Operations
    BY <1>4 DEF Requests
  <2> QED
    BY <1>1, <1>2, <1>6, <2>1 DEF Served
<1>13. Numbered'
  <2>1. ASSUME NEW x \in In(fromPeer) PROVE <<x, m>> \in Ordered
    <3>1. x \in Responses /\ m \in Responses
      BY <1>1, <1>3, InResponses DEF Puts
    <3>2. x.kind = "ack" => x.seq # m.seq
      BY <1>1, <1>3, <1>4 DEF AcksBack
    <3> QED
      BY <1>3, <3>1, <3>2 DEF Ordered
  <2> QED
    BY <1>1, <1>2, <1>3, <1>7, <2>1 DEF Numbered, Puts
<1> QED
  BY <1>8, <1>9, <1>10, <1>11, <1>12, <1>13 DEF Registered

\* A status that has the next number.
LEMMA RegisteredReport ==
  ASSUME IInv, link # "broken", NEW m, Puts(m), m.kind = "status", m.seq = peerStatus + 1,
         peerStatus' = peerStatus + 1, serving' \in {0, serving},
         UNCHANGED <<toPeer, statuses, acks, sequence, sentOperations, request, operation, pc>>
  PROVE  Registered'
<1>1. TypeOK /\ RequestsOut /\ AcksBack /\ Unsent /\ Known /\ Served /\ Numbered
  BY DEF IInv, Registered
<1>2. (\A x \in In(fromPeer') : x \in In(fromPeer) \/ x = m) /\ peerStatus \in Nat
  BY <1>1 DEF Puts, TypeOK
<1>3. RequestsOut' /\ AcksBack'
  BY <1>1, <1>2 DEF RequestsOut, AcksBack
<1>4. Unsent'
  <2>1. \A t \in Callers : Sending(t) => request[t] # serving'
    BY <1>1 DEF Unsent
  <2>2. \A t \in Callers : Sending(t) =>
          \A x \in In(fromPeer') : x.kind = "ack" => x.seq # request[t]
    BY <1>1, <1>2 DEF Unsent
  <2> QED
    BY <1>1, <2>1, <2>2 DEF Unsent, Sending
<1>5. Known'
  BY <1>1 DEF Known, Waits, Sending
<1>6. Served'
  BY <1>1 DEF Served
<1>7. Numbered'
  <2>1. ASSUME NEW x \in In(fromPeer) PROVE <<x, m>> \in Ordered
    <3>1. x \in Responses /\ m \in Responses
      BY <1>1, InResponses DEF Puts
    <3>2. x.kind = "status" => x.seq < m.seq
      <4>1. x.kind = "status" => x.seq \in Nat /\ x.seq <= peerStatus
        BY <1>1, <3>1 DEF Numbered, Responses, Garbled
      <4> QED
        BY <1>2, <4>1
    <3> QED
      BY <3>1, <3>2 DEF Ordered
  <2>2. Pairwise(fromPeer', Ordered)
    BY <1>1, <2>1 DEF Numbered, Puts
  <2>3. ASSUME NEW n \in In(statuses)
        PROVE  n.kind = "status" /\ n.seq <= peerStatus + 1 /\ n.seq < m.seq
    <3>1. n.kind = "status" /\ n.seq <= peerStatus /\ n \in Responses
      BY <1>1 DEF IInv, Noticed, Numbered, In, TypeOK
    <3>2. n.seq \in Nat
      BY <3>1 DEF Responses, Garbled
    <3> QED
      BY <1>2, <3>1, <3>2
  <2>4. ASSUME NEW x \in In(fromPeer'), x.kind = "status"
        PROVE  x.seq <= peerStatus + 1 /\ \A n \in In(statuses) : n.seq < x.seq
    <3>1. CASE x = m
      BY <1>2, <2>3, <3>1
    <3>2. CASE x \in In(fromPeer)
      <4>1. x.seq <= peerStatus /\ x \in Responses /\ \A n \in In(statuses) : n.seq < x.seq
        BY <1>1, <2>4, <3>2, InResponses DEF Numbered
      <4>2. x.seq \in Nat
        BY <2>4, <4>1 DEF Responses, Garbled
      <4> QED
        BY <1>2, <4>1, <4>2
    <3> QED
      BY <1>2, <2>4, <3>1, <3>2
  <2> QED
    BY <1>1, <1>2, <2>2, <2>3, <2>4 DEF Numbered
<1> QED
  BY <1>3, <1>4, <1>5, <1>6, <1>7 DEF Registered

\* Every step keeps requests registered and in one place.
LEMMA RegisteredStep ==
  ASSUME IInv, [Next]_vars
  PROVE  Registered'
<1>1. IInv /\ Registered /\ TypeOK
  BY DEF IInv
<1>2. /\ pc = [t \in Threads |-> pc[t]]
      /\ operation = [t \in Callers |-> operation[t]]
  BY ClientAssumption DEF IInv, TypeOK, Callers, Threads, Sequences
<1> USE <1>1, <1>2, ClientAssumption DEF Callers, Threads, Goto, callers, filed, channel, peer
<1>3. CASE Connect
  BY <1>3, RegisteredFrame DEF Sending, Waits, Connect
<1>4. CASE Receive
  BY <1>4, RegisteredReceive
<1>5. CASE EndOfFile
  BY <1>5, RegisteredFrame DEF Sending, Waits, EndOfFile
<1>6. CASE ReceiverRaised
  BY <1>6, RegisteredFrame DEF Sending, Waits, ReceiverRaised
<1>7. ASSUME NEW t \in Threads, MarkRead(t) PROVE Registered'
  BY <1>7, RegisteredFrame DEF Sending, Waits, MarkRead
<1>8. ASSUME NEW t \in Threads, MarkSet(t) PROVE Registered'
  BY <1>8, RegisteredFrame DEF Sending, Waits, MarkSet, Leave
<1>9. CASE Close
  BY <1>9, RegisteredFrame DEF Sending, Waits, Close
<1>10. ASSUME NEW t \in Transactors, WaitForAck(t) PROVE Registered'
  BY <1>10, RegisteredFrame DEF Sending, Waits, WaitForAck, Leave
<1>11. ASSUME NEW t \in Transactors, WaitForStatus(t) PROVE Registered'
  BY <1>11, RegisteredFrame DEF Sending, Waits, WaitForStatus, Leave, Decisive
<1>12. ASSUME NEW t \in Transactors, NEW o \in Operations, Begin(t, o) PROVE Registered'
  BY <1>12, RegisteredFrame DEF Sending, Waits, Begin, Allocatable
<1>13. ASSUME NEW t \in Senders, BeginSend(t) PROVE Registered'
  BY <1>13, RegisteredFrame DEF Sending, Waits, BeginSend, Allocatable
<1>14. ASSUME NEW t \in Callers, Allocate(t) PROVE Registered'
  BY <1>14, RegisteredAllocate
<1>15. ASSUME NEW t \in Callers, Register(t) PROVE Registered'
  BY <1>15, RegisteredRegister
<1>16. ASSUME NEW t \in Callers, Transmit(t) PROVE Registered'
  BY <1>16, RegisteredTransmit
<1>17. ASSUME NEW ok \in BOOLEAN, PeerAcknowledge(ok) PROVE Registered'
  BY <1>17, RegisteredAcknowledge
<1>18. CASE PeerCompletes
  <2>1. PICK m : /\ Puts(m) /\ m.kind = "status" /\ m.seq = peerStatus + 1
                /\ m.name \in Operations /\ m.name # "ERROR" /\ m.for = serving
    BY <1>18, CompletionPuts
  <2> QED
    BY <1>18, <2>1, RegisteredReport DEF PeerCompletes, PeerReports
<1>19. CASE PeerFails
  <2>1. PICK m : Puts(m) /\ m.kind = "status" /\ m.seq = peerStatus + 1 /\ m.name = "ERROR"
    BY <1>19, ErrorPuts DEF IInv
  <2> QED
    BY <1>19, <2>1, RegisteredReport DEF PeerFails, PeerReports
<1>20. CASE PeerHangsUp
  BY <1>20, RegisteredFrame DEF Sending, Waits, PeerHangsUp
<1>21. CASE PeerMisbehaves
  BY <1>21 DEF Registered, PeerMisbehaves
<1>22. CASE UNCHANGED vars
  BY <1>22, RegisteredFrame DEF vars, Sending, Waits
<1> QED
  BY <1>3, <1>4, <1>5, <1>6, <1>7, <1>8, <1>9, <1>10, <1>11, <1>12, <1>13, <1>14, <1>15, <1>16,
     <1>17, <1>18, <1>19, <1>20, <1>21, <1>22
     DEF Next, ReceiverStep, Wait, Progress, PeerStep, Threads, Callers

\* The threads about to allocate.
Requesting == {t \in Callers : pc[t] = "allocate"}

\* No number is taken and nobody begins.
LEMMA AllocatedFrame ==
  ASSUME TypeOK, Allocated, sequence' = sequence,
         \A t \in Callers : pc'[t] = "allocate" => pc[t] = "allocate"
  PROVE  Allocated'
<1>1. IsFiniteSet(Requesting) /\ Requesting' \subseteq Requesting
  BY ClientAssumption, FS_Subset DEF Callers, Requesting
<1>2. Cardinality(Requesting) \in Nat /\ Cardinality(Requesting') \in Nat
  BY <1>1, FS_Subset, FS_CardinalityType
<1>3. Cardinality(Requesting') <= Cardinality(Requesting)
  BY <1>1, FS_Subset
<1>4. sequence + Cardinality(Requesting) <= MaxSequence /\ sequence \in Nat
  BY DEF Allocated, Requesting, TypeOK
<1> QED
  BY <1>2, <1>3, <1>4, ClientAssumption DEF Allocated, Requesting

\* A thread begins only when a number is left for it.
LEMMA AllocatedBegins ==
  ASSUME TypeOK, Allocatable, sequence' = sequence, NEW t \in Callers,
         pc' = [pc EXCEPT ![t] = "allocate"]
  PROVE  Allocated'
<1>1. IsFiniteSet(Requesting) /\ Requesting' = Requesting \cup {t}
  BY ClientAssumption, FS_Subset DEF Callers, Threads, Requesting, TypeOK
<1>2. Cardinality(Requesting) \in Nat /\ Cardinality(Requesting') \in Nat
  BY <1>1, FS_AddElement, FS_CardinalityType
<1>3. Cardinality(Requesting') <= Cardinality(Requesting) + 1
  <2>1. Cardinality(Requesting \cup {t}) =
          IF t \in Requesting THEN Cardinality(Requesting) ELSE Cardinality(Requesting) + 1
    BY <1>1, FS_AddElement
  <2> QED
    BY <1>1, <1>2, <2>1
<1>4. sequence + Cardinality(Requesting) < MaxSequence /\ sequence \in Nat
  BY DEF Allocatable, Requesting, TypeOK
<1> QED
  BY <1>2, <1>3, <1>4, ClientAssumption DEF Allocated, Requesting

\* Every step leaves a number for each thread that is about to allocate.
LEMMA AllocatedStep ==
  ASSUME IInv, [Next]_vars
  PROVE  Allocated'
<1>1. IInv /\ Allocated /\ TypeOK
  BY DEF IInv
<1>2. /\ pc = [t \in Threads |-> pc[t]]
  BY ClientAssumption DEF IInv, TypeOK, Callers, Threads, Sequences
<1> USE <1>1, <1>2, ClientAssumption DEF Callers, Threads, Goto, callers, filed, channel, peer
<1>3. CASE Connect
  BY <1>3, AllocatedFrame DEF Connect
<1>4. CASE Receive
  BY <1>4, ReceiveCases, AllocatedFrame DEF FilesAck, FilesStatus, Refuses, Receive
<1>5. CASE EndOfFile
  BY <1>5, AllocatedFrame DEF EndOfFile
<1>6. CASE ReceiverRaised
  BY <1>6, AllocatedFrame DEF ReceiverRaised
<1>7. ASSUME NEW t \in Threads, MarkRead(t) PROVE Allocated'
  BY <1>7, AllocatedFrame DEF MarkRead
<1>8. ASSUME NEW t \in Threads, MarkSet(t) PROVE Allocated'
  BY <1>8, AllocatedFrame DEF MarkSet, Leave
<1>9. CASE Close
  BY <1>9, AllocatedFrame DEF Close
<1>10. ASSUME NEW t \in Transactors, WaitForAck(t) PROVE Allocated'
  BY <1>10, AllocatedFrame DEF WaitForAck, Leave
<1>11. ASSUME NEW t \in Transactors, WaitForStatus(t) PROVE Allocated'
  BY <1>11, AllocatedFrame DEF WaitForStatus, Leave, Decisive
<1>12. ASSUME NEW t \in Transactors, NEW o \in Operations, Begin(t, o) PROVE Allocated'
  BY <1>12, AllocatedBegins DEF Begin, Allocatable
<1>13. ASSUME NEW t \in Senders, BeginSend(t) PROVE Allocated'
  BY <1>13, AllocatedBegins DEF BeginSend, Allocatable
<1>14. ASSUME NEW t \in Callers, Allocate(t) PROVE Allocated'
  <2>1. Requesting' = Requesting \ {t} /\ t \in Requesting /\ sequence' = sequence + 1
    BY <1>14 DEF Requesting, Allocate, Leave
  <2>2. IsFiniteSet(Requesting) /\ Cardinality(Requesting) \in Nat
    BY FS_Subset, FS_CardinalityType DEF Requesting
  <2>3. Cardinality(Requesting') = Cardinality(Requesting) - 1
    BY <2>1, <2>2, FS_RemoveElement
  <2> QED
    BY <1>1, <2>1, <2>2, <2>3 DEF Allocated, Requesting, TypeOK
<1>15. ASSUME NEW t \in Callers, Register(t) PROVE Allocated'
  BY <1>15, AllocatedFrame DEF Register
<1>16. ASSUME NEW t \in Callers, Transmit(t) PROVE Allocated'
  BY <1>16, TransmitCases, AllocatedFrame DEF Sends, Withdraws, Transmit
<1>17. ASSUME NEW ok \in BOOLEAN, PeerAcknowledge(ok) PROVE Allocated'
  BY <1>17, AllocatedFrame DEF PeerAcknowledge, Ack
<1>18. CASE PeerCompletes
  BY <1>18, AllocatedFrame DEF PeerCompletes, PeerReports, Status
<1>19. CASE PeerFails
  BY <1>19, AllocatedFrame DEF PeerFails, PeerReports, Status
<1>20. CASE PeerHangsUp
  BY <1>20, AllocatedFrame DEF PeerHangsUp
<1>21. CASE PeerMisbehaves
  BY <1>21, AllocatedFrame DEF PeerMisbehaves, Garbled, Status, Ack
<1>22. CASE UNCHANGED vars
  BY <1>22, AllocatedFrame DEF vars, Sending, Waits
<1> QED
  BY <1>3, <1>4, <1>5, <1>6, <1>7, <1>8, <1>9, <1>10, <1>11, <1>12, <1>13, <1>14, <1>15, <1>16,
     <1>17, <1>18, <1>19, <1>20, <1>21, <1>22
     DEF Next, ReceiverStep, Wait, Progress, PeerStep, Threads, Callers

\* The types, by what they are about.
ChannelTyped ==
  /\ socket \in {"none", "open"}
  /\ stop \in BOOLEAN /\ disconnected \in BOOLEAN /\ protocolError \in BOOLEAN
  /\ reported \in Nat /\ link \in {"up", "closed", "broken"} /\ peerStatus \in Nat

\* Every step keeps the types of the connection.
LEMMA ChannelStep ==
  ASSUME IInv, [Next]_vars
  PROVE  ChannelTyped'
<1>1. IInv /\ TypeOK
  BY DEF IInv
<1>2. /\ socket \in {"none", "open"}
      /\ stop \in BOOLEAN /\ disconnected \in BOOLEAN /\ protocolError \in BOOLEAN
      /\ reported \in Nat /\ link \in {"up", "closed", "broken"} /\ peerStatus \in Nat
  BY ClientAssumption DEF IInv, TypeOK, Callers, Threads, Sequences
<1> USE <1>1, <1>2, ClientAssumption DEF ChannelTyped, Goto, callers, filed, channel, peer
<1>3. CASE Connect
  BY <1>3 DEF Connect
<1>4. CASE Receive
  BY <1>4 DEF Receive
<1>5. CASE EndOfFile
  BY <1>5 DEF EndOfFile
<1>6. CASE ReceiverRaised
  BY <1>6 DEF ReceiverRaised
<1>7. ASSUME NEW t \in Threads, MarkRead(t) PROVE ChannelTyped'
  BY <1>7 DEF MarkRead
<1>8. ASSUME NEW t \in Threads, MarkSet(t) PROVE ChannelTyped'
  BY <1>8 DEF MarkSet, Leave
<1>9. CASE Close
  BY <1>9 DEF Close
<1>10. ASSUME NEW t \in Transactors, WaitForAck(t) PROVE ChannelTyped'
  BY <1>10 DEF WaitForAck, Leave
<1>11. ASSUME NEW t \in Transactors, WaitForStatus(t) PROVE ChannelTyped'
  BY <1>11 DEF WaitForStatus, Leave, Decisive
<1>12. ASSUME NEW t \in Transactors, NEW o \in Operations, Begin(t, o) PROVE ChannelTyped'
  BY <1>12 DEF Begin, Allocatable
<1>13. ASSUME NEW t \in Senders, BeginSend(t) PROVE ChannelTyped'
  BY <1>13 DEF BeginSend, Allocatable
<1>14. ASSUME NEW t \in Callers, Allocate(t) PROVE ChannelTyped'
  BY <1>14 DEF Allocate, Leave
<1>15. ASSUME NEW t \in Callers, Register(t) PROVE ChannelTyped'
  BY <1>15 DEF Register
<1>16. ASSUME NEW t \in Callers, Transmit(t) PROVE ChannelTyped'
  BY <1>16 DEF Transmit
<1>17. ASSUME NEW ok \in BOOLEAN, PeerAcknowledge(ok) PROVE ChannelTyped'
  BY <1>17 DEF PeerAcknowledge
<1>18. CASE PeerCompletes
  BY <1>18 DEF PeerCompletes, PeerReports
<1>19. CASE PeerFails
  BY <1>19 DEF PeerFails, PeerReports
<1>20. CASE PeerHangsUp
  BY <1>20 DEF PeerHangsUp
<1>21. CASE PeerMisbehaves
  BY <1>21 DEF PeerMisbehaves
<1>22. CASE UNCHANGED vars
  BY <1>22 DEF vars
<1> QED
  BY <1>3, <1>4, <1>5, <1>6, <1>7, <1>8, <1>9, <1>10, <1>11, <1>12, <1>13, <1>14, <1>15, <1>16,
     <1>17, <1>18, <1>19, <1>20, <1>21, <1>22
     DEF Next, ReceiverStep, Wait, Progress, PeerStep, Threads, Callers

CallersTyped ==
  /\ ordinaryLock \in Transactors \cup {"free"}
  /\ pc \in [Threads -> {"off", "idle", "allocate", "register", "transmit", "ack", "status",
                       "mark", "mark_set", "recv", "raised", "ended"}]
  /\ first \in [Threads -> BOOLEAN]
  /\ operation \in [Callers -> Operations \cup {FailStop}] /\ after \in [Callers -> Nat]

\* Every step keeps the types of the threads.
LEMMA CallersStep ==
  ASSUME IInv, [Next]_vars
  PROVE  CallersTyped'
<1>1. IInv /\ TypeOK
  BY DEF IInv
<1>2. /\ ordinaryLock \in Transactors \cup {"free"}
      /\ pc \in [Threads -> {"off", "idle", "allocate", "register", "transmit", "ack", "status",
                       "mark", "mark_set", "recv", "raised", "ended"}]
      /\ first \in [Threads -> BOOLEAN]
      /\ operation \in [Callers -> Operations \cup {FailStop}] /\ after \in [Callers -> Nat]
  BY ClientAssumption DEF IInv, TypeOK, Callers, Threads, Sequences
<1> USE <1>1, <1>2, ClientAssumption DEF CallersTyped, Callers, Threads, Goto, callers, filed,
    channel, peer
<1>3. CASE Connect
  BY <1>3 DEF Connect
<1>4. CASE Receive
  BY <1>4, ReceiveCases DEF FilesAck, FilesStatus, Refuses, Receive
<1>5. CASE EndOfFile
  BY <1>5 DEF EndOfFile
<1>6. CASE ReceiverRaised
  BY <1>6 DEF ReceiverRaised
<1>7. ASSUME NEW t \in Threads, MarkRead(t) PROVE CallersTyped'
  BY <1>7 DEF MarkRead
<1>8. ASSUME NEW t \in Threads, MarkSet(t) PROVE CallersTyped'
  BY <1>8 DEF MarkSet, Leave
<1>9. CASE Close
  BY <1>9 DEF Close
<1>10. ASSUME NEW t \in Transactors, WaitForAck(t) PROVE CallersTyped'
  BY <1>10 DEF WaitForAck, Leave
<1>11. ASSUME NEW t \in Transactors, WaitForStatus(t) PROVE CallersTyped'
  BY <1>11 DEF WaitForStatus, Leave, Decisive
<1>12. ASSUME NEW t \in Transactors, NEW o \in Operations, Begin(t, o) PROVE CallersTyped'
  <2>1. Len(statuses) \in Nat
    BY DEF TypeOK
  <2> QED
    BY <1>12, <2>1 DEF Begin, Allocatable
<1>13. ASSUME NEW t \in Senders, BeginSend(t) PROVE CallersTyped'
  BY <1>13 DEF BeginSend, Allocatable
<1>14. ASSUME NEW t \in Callers, Allocate(t) PROVE CallersTyped'
  BY <1>14 DEF Allocate, Leave
<1>15. ASSUME NEW t \in Callers, Register(t) PROVE CallersTyped'
  BY <1>15 DEF Register
<1>16. ASSUME NEW t \in Callers, Transmit(t) PROVE CallersTyped'
  BY <1>16, TransmitCases DEF Sends, Withdraws, Transmit
<1>17. ASSUME NEW ok \in BOOLEAN, PeerAcknowledge(ok) PROVE CallersTyped'
  BY <1>17 DEF PeerAcknowledge
<1>18. CASE PeerCompletes
  BY <1>18 DEF PeerCompletes, PeerReports
<1>19. CASE PeerFails
  BY <1>19 DEF PeerFails, PeerReports
<1>20. CASE PeerHangsUp
  BY <1>20 DEF PeerHangsUp
<1>21. CASE PeerMisbehaves
  BY <1>21 DEF PeerMisbehaves
<1>22. CASE UNCHANGED vars
  BY <1>22 DEF vars
<1> QED
  BY <1>3, <1>4, <1>5, <1>6, <1>7, <1>8, <1>9, <1>10, <1>11, <1>12, <1>13, <1>14, <1>15, <1>16,
     <1>17, <1>18, <1>19, <1>20, <1>21, <1>22
     DEF Next, ReceiverStep, Wait, Progress, PeerStep, Threads, Callers

NumbersTyped ==
  /\ sequence \in 0..MaxSequence
  /\ request \in [Callers -> 0..MaxSequence]
  /\ serving \in 0..MaxSequence

\* Every step keeps the sequence numbers within their bound.
LEMMA NumbersStep ==
  ASSUME IInv, [Next]_vars
  PROVE  NumbersTyped'
<1>1. IInv /\ TypeOK
  BY DEF IInv
<1>2. /\ sequence \in 0..MaxSequence
      /\ request \in [Callers -> 0..MaxSequence]
      /\ serving \in 0..MaxSequence
  BY ClientAssumption DEF IInv, TypeOK, Callers, Threads, Sequences
<1> USE <1>1, <1>2, ClientAssumption DEF NumbersTyped, Goto, callers, filed, channel, peer
<1>3. CASE Connect
  BY <1>3 DEF Connect
<1>4. CASE Receive
  BY <1>4 DEF Receive
<1>5. CASE EndOfFile
  BY <1>5 DEF EndOfFile
<1>6. CASE ReceiverRaised
  BY <1>6 DEF ReceiverRaised
<1>7. ASSUME NEW t \in Threads, MarkRead(t) PROVE NumbersTyped'
  BY <1>7 DEF MarkRead
<1>8. ASSUME NEW t \in Threads, MarkSet(t) PROVE NumbersTyped'
  BY <1>8 DEF MarkSet, Leave
<1>9. CASE Close
  BY <1>9 DEF Close
<1>10. ASSUME NEW t \in Transactors, WaitForAck(t) PROVE NumbersTyped'
  BY <1>10 DEF WaitForAck, Leave
<1>11. ASSUME NEW t \in Transactors, WaitForStatus(t) PROVE NumbersTyped'
  BY <1>11 DEF WaitForStatus, Leave, Decisive
<1>12. ASSUME NEW t \in Transactors, NEW o \in Operations, Begin(t, o) PROVE NumbersTyped'
  BY <1>12 DEF Begin, Allocatable
<1>13. ASSUME NEW t \in Senders, BeginSend(t) PROVE NumbersTyped'
  BY <1>13 DEF BeginSend, Allocatable
<1>14. ASSUME NEW t \in Callers, Allocate(t) PROVE NumbersTyped'
  <2>1. sequence + 1 \in 1..MaxSequence
    BY <1>14, AllocateBound DEF IInv, Allocate, Sequences
  <2> QED
    BY <1>14, <2>1 DEF Allocate
<1>15. ASSUME NEW t \in Callers, Register(t) PROVE NumbersTyped'
  BY <1>15 DEF Register
<1>16. ASSUME NEW t \in Callers, Transmit(t) PROVE NumbersTyped'
  BY <1>16 DEF Transmit
<1>17. ASSUME NEW ok \in BOOLEAN, PeerAcknowledge(ok) PROVE NumbersTyped'
  <2>1. Head(toPeer)[1] \in 1..MaxSequence
    BY <1>17, AcknowledgeTakes DEF Requests, Sequences
  <2> QED
    BY <1>17, <2>1 DEF PeerAcknowledge
<1>18. CASE PeerCompletes
  BY <1>18 DEF PeerCompletes, PeerReports
<1>19. CASE PeerFails
  BY <1>19 DEF PeerFails, PeerReports
<1>20. CASE PeerHangsUp
  BY <1>20 DEF PeerHangsUp
<1>21. CASE PeerMisbehaves
  BY <1>21 DEF PeerMisbehaves
<1>22. CASE UNCHANGED vars
  BY <1>22 DEF vars
<1> QED
  BY <1>3, <1>4, <1>5, <1>6, <1>7, <1>8, <1>9, <1>10, <1>11, <1>12, <1>13, <1>14, <1>15, <1>16,
     <1>17, <1>18, <1>19, <1>20, <1>21, <1>22
     DEF Next, ReceiverStep, Wait, Progress, PeerStep, Threads, Callers

FiledTyped ==
  /\ sentOperations \in [Sequences -> Operations \cup {FailStop, "none"}]
  /\ acks \in [Sequences -> {"none", "accepted", "rejected"}]
  /\ statuses \in Seq(Responses)

\* Every step keeps the types of what is registered and filed.
LEMMA FiledStep ==
  ASSUME IInv, [Next]_vars
  PROVE  FiledTyped'
<1>1. IInv /\ TypeOK
  BY DEF IInv
<1>2. /\ sentOperations \in [Sequences -> Operations \cup {FailStop, "none"}]
      /\ acks \in [Sequences -> {"none", "accepted", "rejected"}]
      /\ statuses \in Seq(Responses)
  BY ClientAssumption DEF IInv, TypeOK, Callers, Threads, Sequences
<1> USE <1>1, <1>2, ClientAssumption DEF FiledTyped, Goto, callers, filed, channel, peer
<1>3. CASE Connect
  BY <1>3 DEF Connect
<1>4. CASE Receive
  BY <1>4, ReceiveCases DEF FilesAck, FilesStatus, Refuses, Receive
<1>5. CASE EndOfFile
  BY <1>5 DEF EndOfFile
<1>6. CASE ReceiverRaised
  BY <1>6 DEF ReceiverRaised
<1>7. ASSUME NEW t \in Threads, MarkRead(t) PROVE FiledTyped'
  BY <1>7 DEF MarkRead
<1>8. ASSUME NEW t \in Threads, MarkSet(t) PROVE FiledTyped'
  BY <1>8 DEF MarkSet, Leave
<1>9. CASE Close
  BY <1>9 DEF Close
<1>10. ASSUME NEW t \in Transactors, WaitForAck(t) PROVE FiledTyped'
  BY <1>10 DEF WaitForAck, Leave
<1>11. ASSUME NEW t \in Transactors, WaitForStatus(t) PROVE FiledTyped'
  BY <1>11 DEF WaitForStatus, Leave, Decisive
<1>12. ASSUME NEW t \in Transactors, NEW o \in Operations, Begin(t, o) PROVE FiledTyped'
  BY <1>12 DEF Begin, Allocatable
<1>13. ASSUME NEW t \in Senders, BeginSend(t) PROVE FiledTyped'
  BY <1>13 DEF BeginSend, Allocatable
<1>14. ASSUME NEW t \in Callers, Allocate(t) PROVE FiledTyped'
  BY <1>14 DEF Allocate, Leave
<1>15. ASSUME NEW t \in Callers, Register(t) PROVE FiledTyped'
  <2>1. operation[t] \in Operations \cup {FailStop}
    BY DEF TypeOK
  <2> QED
    BY <1>15, <2>1 DEF Register
<1>16. ASSUME NEW t \in Callers, Transmit(t) PROVE FiledTyped'
  BY <1>16, TransmitCases DEF Sends, Withdraws, Transmit
<1>17. ASSUME NEW ok \in BOOLEAN, PeerAcknowledge(ok) PROVE FiledTyped'
  BY <1>17 DEF PeerAcknowledge
<1>18. CASE PeerCompletes
  BY <1>18 DEF PeerCompletes, PeerReports
<1>19. CASE PeerFails
  BY <1>19 DEF PeerFails, PeerReports
<1>20. CASE PeerHangsUp
  BY <1>20 DEF PeerHangsUp
<1>21. CASE PeerMisbehaves
  BY <1>21 DEF PeerMisbehaves
<1>22. CASE UNCHANGED vars
  BY <1>22 DEF vars
<1> QED
  BY <1>3, <1>4, <1>5, <1>6, <1>7, <1>8, <1>9, <1>10, <1>11, <1>12, <1>13, <1>14, <1>15, <1>16,
     <1>17, <1>18, <1>19, <1>20, <1>21, <1>22
     DEF Next, ReceiverStep, Wait, Progress, PeerStep, Threads, Callers

WiresTyped ==
  /\ fromPeer \in Seq(Responses)
  /\ toPeer \in Seq(Requests)

\* Every step keeps the types of the wires.
LEMMA WiresStep ==
  ASSUME IInv, [Next]_vars
  PROVE  WiresTyped'
<1>1. IInv /\ TypeOK
  BY DEF IInv
<1>2. /\ fromPeer \in Seq(Responses)
      /\ toPeer \in Seq(Requests)
  BY <1>1 DEF TypeOK, Requests
<1> USE <1>1, <1>2, ClientAssumption DEF WiresTyped, Goto, callers, filed, channel, peer
<1>3. CASE Connect
  BY <1>3 DEF Connect
<1>4. CASE Receive
  BY <1>4, ReceiveCases, ReceiveTakes DEF Receive
<1>5. CASE EndOfFile
  BY <1>5 DEF EndOfFile
<1>6. CASE ReceiverRaised
  BY <1>6 DEF ReceiverRaised
<1>7. ASSUME NEW t \in Threads, MarkRead(t) PROVE WiresTyped'
  BY <1>7 DEF MarkRead
<1>8. ASSUME NEW t \in Threads, MarkSet(t) PROVE WiresTyped'
  BY <1>8 DEF MarkSet, Leave
<1>9. CASE Close
  BY <1>9 DEF Close
<1>10. ASSUME NEW t \in Transactors, WaitForAck(t) PROVE WiresTyped'
  BY <1>10 DEF WaitForAck, Leave
<1>11. ASSUME NEW t \in Transactors, WaitForStatus(t) PROVE WiresTyped'
  BY <1>11 DEF WaitForStatus, Leave, Decisive
<1>12. ASSUME NEW t \in Transactors, NEW o \in Operations, Begin(t, o) PROVE WiresTyped'
  BY <1>12 DEF Begin, Allocatable
<1>13. ASSUME NEW t \in Senders, BeginSend(t) PROVE WiresTyped'
  BY <1>13 DEF BeginSend, Allocatable
<1>14. ASSUME NEW t \in Callers, Allocate(t) PROVE WiresTyped'
  BY <1>14 DEF Allocate, Leave
<1>15. ASSUME NEW t \in Callers, Register(t) PROVE WiresTyped'
  BY <1>15 DEF Register
<1>16. ASSUME NEW t \in Callers, Transmit(t) PROVE WiresTyped'
  BY <1>16, TransmitCases DEF Sends, Withdraws, Transmit
<1>17. ASSUME NEW ok \in BOOLEAN, PeerAcknowledge(ok) PROVE WiresTyped'
  BY <1>17, AcknowledgePuts, AcknowledgeTakes DEF Puts
<1>18. CASE PeerCompletes
  BY <1>18, CompletionPuts DEF Puts, PeerCompletes, PeerReports
<1>19. CASE PeerFails
  BY <1>19, ErrorPuts DEF Puts, PeerFails, PeerReports
<1>20. CASE PeerHangsUp
  BY <1>20 DEF PeerHangsUp
<1>21. CASE PeerMisbehaves
  BY <1>21, MisbehaviourPuts DEF Puts, PeerMisbehaves
<1>22. CASE UNCHANGED vars
  BY <1>22 DEF vars
<1> QED
  BY <1>3, <1>4, <1>5, <1>6, <1>7, <1>8, <1>9, <1>10, <1>11, <1>12, <1>13, <1>14, <1>15, <1>16,
     <1>17, <1>18, <1>19, <1>20, <1>21, <1>22
     DEF Next, ReceiverStep, Wait, Progress, PeerStep, Threads, Callers

\* What a transaction returns names a request: only statuses are filed as such.
LEMMA AnsweredStep ==
  ASSUME IInv, [Next]_vars
  PROVE  (answered \in [Callers -> 0..MaxSequence])'
<1>1. IInv /\ TypeOK
  BY DEF IInv
<1>2. /\ answered \in [Callers -> 0..MaxSequence]
  BY ClientAssumption DEF IInv, TypeOK, Callers, Threads, Sequences
<1> USE <1>1, <1>2, ClientAssumption DEF Goto, callers, filed, channel, peer
<1>3. CASE Connect
  BY <1>3 DEF Connect
<1>4. CASE Receive
  BY <1>4 DEF Receive
<1>5. CASE EndOfFile
  BY <1>5 DEF EndOfFile
<1>6. CASE ReceiverRaised
  BY <1>6 DEF ReceiverRaised
<1>7. ASSUME NEW t \in Threads, MarkRead(t) PROVE (answered \in [Callers -> 0..MaxSequence])'
  BY <1>7 DEF MarkRead
<1>8. ASSUME NEW t \in Threads, MarkSet(t) PROVE (answered \in [Callers -> 0..MaxSequence])'
  BY <1>8 DEF MarkSet, Leave
<1>9. CASE Close
  BY <1>9 DEF Close
<1>10. ASSUME NEW t \in Transactors, WaitForAck(t) PROVE (answered \in [Callers -> 0..MaxSequence])'
  BY <1>10 DEF WaitForAck, Leave
<1>11. ASSUME NEW t \in Transactors,
    WaitForStatus(t) PROVE (answered \in [Callers -> 0..MaxSequence])'
  <2>1. CASE answered' = answered
    BY <2>1
  <2>2. CASE \E i \in Decisive(t) :
               answered' = [answered EXCEPT
                              ![t] = IF statuses[i].name = "ERROR" THEN 0 ELSE statuses[i].for]
    <3>1. PICK i \in Decisive(t) :
                 answered' = [answered EXCEPT
                                ![t] = IF statuses[i].name = "ERROR" THEN 0 ELSE statuses[i].for]
      BY <2>2
    <3>2. statuses \in Seq(Responses) /\ i \in 1..Len(statuses)
      BY <3>1 DEF TypeOK, Decisive, Callers
    <3>3. statuses[i] \in Responses /\ statuses[i].kind = "status"
      BY <3>2 DEF IInv, Noticed, In
    <3>4. statuses[i].for \in 0..MaxSequence
      BY <3>3 DEF Responses, Garbled
    <3>5. (IF statuses[i].name = "ERROR" THEN 0 ELSE statuses[i].for) \in 0..MaxSequence
      BY <3>4, ClientAssumption
    <3> QED
      BY <3>1, <3>5
  <2> QED
    BY <1>11, <2>1, <2>2 DEF WaitForStatus
<1>12. ASSUME NEW t \in Transactors, NEW o \in Operations, Begin(t,
    o) PROVE (answered \in [Callers -> 0..MaxSequence])'
  <2>1. 0 \in 0..MaxSequence
    OBVIOUS
  <2>2. answered' = [answered EXCEPT ![t] = 0]
    BY <1>12 DEF Begin
  <2> QED
    BY <2>1, <2>2
<1>13. ASSUME NEW t \in Senders, BeginSend(t) PROVE (answered \in [Callers -> 0..MaxSequence])'
  BY <1>13 DEF BeginSend, Allocatable
<1>14. ASSUME NEW t \in Callers, Allocate(t) PROVE (answered \in [Callers -> 0..MaxSequence])'
  BY <1>14 DEF Allocate, Leave
<1>15. ASSUME NEW t \in Callers, Register(t) PROVE (answered \in [Callers -> 0..MaxSequence])'
  BY <1>15 DEF Register
<1>16. ASSUME NEW t \in Callers, Transmit(t) PROVE (answered \in [Callers -> 0..MaxSequence])'
  BY <1>16 DEF Transmit
<1>17. ASSUME NEW ok \in BOOLEAN,
    PeerAcknowledge(ok) PROVE (answered \in [Callers -> 0..MaxSequence])'
  BY <1>17 DEF PeerAcknowledge
<1>18. CASE PeerCompletes
  BY <1>18 DEF PeerCompletes, PeerReports
<1>19. CASE PeerFails
  BY <1>19 DEF PeerFails, PeerReports
<1>20. CASE PeerHangsUp
  BY <1>20 DEF PeerHangsUp
<1>21. CASE PeerMisbehaves
  BY <1>21 DEF PeerMisbehaves
<1>22. CASE UNCHANGED vars
  BY <1>22 DEF vars
<1> QED
  BY <1>3, <1>4, <1>5, <1>6, <1>7, <1>8, <1>9, <1>10, <1>11, <1>12, <1>13, <1>14, <1>15, <1>16,
     <1>17, <1>18, <1>19, <1>20, <1>21, <1>22
     DEF Next, ReceiverStep, Wait, Progress, PeerStep, Threads, Callers

\* Every step keeps the types.
LEMMA TypeStep ==
  ASSUME IInv, [Next]_vars
  PROVE  TypeOK'
BY ChannelStep, CallersStep, NumbersStep, FiledStep, WiresStep, AnsweredStep
   DEF TypeOK, ChannelTyped, CallersTyped, NumbersTyped, FiledTyped, WiresTyped, Requests

\* The invariant holds initially.
LEMMA InitInvariant == Init => IInv
<1> SUFFICES ASSUME Init
             PROVE  IInv
  OBVIOUS
<1>1. In(<<>>) = {} /\ (\A R : Pairwise(<<>>, R)) /\ \A n \in Nat : Since(<<>>, n) = {}
  BY DEF In, Pairwise, Since
<1>2. TypeOK
  <2>1. 0 \in 0..MaxSequence /\ "FAIL_STOP" \in Operations \cup {FailStop}
    BY ClientAssumption DEF FailStop
  <2>2. ChannelTyped /\ CallersTyped /\ FiledTyped
    <3>1. ChannelTyped
      BY DEF Init, ChannelTyped
    <3>2. CallersTyped
      BY DEF Init, CallersTyped
    <3>3. FiledTyped
      BY DEF Init, FiledTyped
    <3> QED
      BY <3>1, <3>2, <3>3
  <2>3. NumbersTyped /\ WiresTyped /\ answered \in [Callers -> 0..MaxSequence]
    BY <2>1 DEF Init, NumbersTyped, WiresTyped
  <2> QED
    BY <2>2, <2>3
       DEF TypeOK, ChannelTyped, CallersTyped, NumbersTyped, FiledTyped, WiresTyped, Requests
<1>3. Roles
  BY ClientAssumption DEF Init, Roles, Callers, Threads
<1>4. Allocated
  <2>1. {t \in Callers : pc[t] = "allocate"} = {}
    BY ClientAssumption DEF Init, Callers, Threads
  <2>2. sequence = 0
    BY DEF Init
  <2> QED
    BY <2>1, <2>2, FS_EmptySet, ClientAssumption DEF Allocated
<1>5. Noticed
  BY <1>1, ClientAssumption DEF Init, Noticed, Alive, Callers, Threads
<1>6. \A t \in Callers : ~Sending(t) /\ ~Waits(t)
  BY ClientAssumption DEF Init, Sending, Waits, Callers, Threads
<1>7. Registered
  <2>1. RequestsOut /\ AcksBack /\ Numbered
    BY <1>1 DEF Init, RequestsOut, AcksBack, Numbered
  <2>2. Unsent /\ Known
    BY <1>6 DEF Unsent, Known, Callers
  <2>3. Served
    BY DEF Init, Served
  <2> QED
    BY <2>1, <2>2, <2>3 DEF Registered
<1>8. OwnOnly /\ OnlyOnce
  BY <1>6 DEF OwnOnly, OnlyOnce, Callers
<1>9. Quiescent
  <2>1. Quiet
    BY <1>1 DEF Init, Quiet, NoRequest, NoCompletion
  <2>2. \A t \in Transactors : pc[t] = "idle"
    BY ClientAssumption DEF Init, Callers, Threads
  <2> QED
    BY <2>1, <2>2 DEF Quiescent
<1>10. NoFalseProtocolError /\ CompletionIsOwn
  BY DEF Init, NoFalseProtocolError, CompletionIsOwn, Callers
<1> QED
  BY <1>2, <1>3, <1>4, <1>5, <1>7, <1>8, <1>9, <1>10 DEF IInv

\* Every step keeps the invariant.
LEMMA NextInvariant == IInv /\ [Next]_vars => IInv'
<1> SUFFICES ASSUME IInv, [Next]_vars
             PROVE  IInv'
  OBVIOUS
<1>1. TypeOK' /\ Roles' /\ Allocated' /\ Noticed' /\ Registered'
  BY TypeStep, RolesStep, AllocatedStep, NoticedStep, RegisteredStep
<1>2. OwnOnly' /\ OnlyOnce' /\ Quiescent' /\ NoFalseProtocolError' /\ CompletionIsOwn'
  BY OwnOnlyStep, OnlyOnceStep, QuiescentStep, NoFalseStep, OwnStep
<1> QED
  BY <1>1, <1>2 DEF IInv

-----------------------------------------------------------------------------
\* The inductive invariant holds in every state: Init establishes it and no step of a caller, of
\* the receiver or of the worker breaks it.
THEOREM InvariantHolds == Spec => []IInv
  BY InitInvariant, NextInvariant, PTL DEF Spec

\* Every variable of the client has its type, the sequence numbers of transact() and send()
\* within their bound and the filed responses well formed, whatever the worker sends.
THEOREM TypeCorrect == Spec => []TypeOK
<1>1. IInv => TypeOK
  BY DEF IInv
<1> QED
  BY <1>1, InvariantHolds, PTL

\* The receiver never raises ControlledClientProtocolError against a worker that keeps the
\* protocol, for any number of threads that send, although registration, sendall and the filing of
\* the answer are separate critical sections.
THEOREM ProtocolErrorIsTrue == Spec => []NoFalseProtocolError
<1>1. IInv => NoFalseProtocolError
  BY DEF IInv
<1> QED
  BY <1>1, InvariantHolds, PTL

\* transact() returns the completion of its own request: the status it takes after after_index was
\* not meant for an earlier transaction or for another thread's.
THEOREM TransactReturnsItsOwn == Spec => []CompletionIsOwn
<1>1. IInv => CompletionIsOwn
  BY DEF IInv
<1> QED
  BY <1>1, InvariantHolds, PTL

=============================================================================
