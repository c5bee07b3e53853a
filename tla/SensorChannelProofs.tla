------------------------- MODULE SensorChannelProofs -------------------------
(***************************************************************************)
(* Theorems about SensorChannel, for every bound, every set of faults and  *)
(* with or without unlimited commands: a command that succeeds returns its *)
(* own answer (AnswerIsOwn), and a frame goes into the demo it was         *)
(* captured in (FrameOfThisDemo).                                          *)
(*                                                                         *)
(* The code matches answers to commands by name, so neither is inductive.  *)
(* The argument follows the numbers of the attempts instead:               *)
(*   - InSequence: the commands, their answers and the answer the receive  *)
(*     thread works on pass in the order in which they were sent;          *)
(*   - Residues: the handlers leave nothing under way that the next one    *)
(*     could take for its own, except the answer of a START_REQ that went  *)
(*     without it (Forgotten);                                             *)
(*   - Answering: so the payload a command finds is its own, or a late     *)
(*     answer to such a START_REQ;                                         *)
(*   - Quieted: while every command is answered, the sensor is silent      *)
(*     before a START_REQ and after the answer to the command that ends    *)
(*     the demo has been read, with no frame left on the way;              *)
(*   - Framed: so the frames on the way are of the demo that is stored.    *)
(* A lemma named ...Cases says which of a few things a step can be, with   *)
(* one leaf per action; a lemma named ...Step says that a step keeps a     *)
(* part of the invariant, and rests on the Cases.                          *)
(***************************************************************************)
EXTENDS SensorChannel, SequenceTheorems, TLAPS

\* What the commander writes, and what the sensor does: an ACK answers an attempt.
Requests == {m \in Messages : \/ m.kind = "none"
                              \/ m.kind = "command" /\ m.name \in Commands /\ m.n # 0}
Events   == {m \in Messages : /\ m.kind \in {"ack", "error", "ready", "frame", "garbage"}
                              /\ m.kind = "ack" => m.name \in Commands /\ m.n # 0}

\* The type invariant, in the parts that the actions disturb one at a time.
FlagType == /\ stop \in BOOLEAN /\ sock \in BOOLEAN /\ connected \in BOOLEAN
            /\ initReady \in BOOLEAN /\ ok \in BOOLEAN /\ reported \in BOOLEAN
            /\ capturing \in BOOLEAN /\ lost \in BOOLEAN /\ first \in [Threads -> BOOLEAN]

AckType == /\ pending \in SUBSET Commands /\ events \in SUBSET Commands
           /\ errors \in SUBSET Commands /\ payloads \in [Commands -> Nat]

PlaceType == /\ pc \in [Threads -> CommanderLabels \cup ReceiverLabels \cup MarkLabels]
             /\ pc["commander"] \in CommanderLabels \cup MarkLabels
             /\ pc["receiver"] \in ReceiverLabels \cup MarkLabels

CountType == /\ answer \in Nat /\ store \in Nat /\ demos \in Nat
             /\ conn \in Nat /\ frames \in Nat /\ faults \in Nat

WireType == /\ toSensor \in Seq(Requests) /\ fromSensor \in Seq(Events)
            /\ held \in Messages /\ peer \in {"open", "closed"}

\* What the receive thread holds fits its place.
HeldType ==
  /\ pc["receiver"] = "handle" => held \in Events /\ held.kind # "garbage"
  /\ pc["receiver"] = "set_event" => held \in Events /\ held.kind = "ack"
  /\ pc["receiver"] \in {"test_store", "append"} => held.kind = "frame"

RunType == /\ handler \in DOMAIN Request
           /\ state \in {"STARTING_SERVICES", "WAIT_START", "COLLECTING", "PAUSED", "FINALIZING",
                         "DISCARDING", "ERROR", "STOPPING"}
           /\ sent \in Seq(Commands) /\ unconfirmed \in SUBSET Nat

\* TypeOK, and what the handling of a message needs besides.
Typed == FlagType /\ AckType /\ PlaceType /\ CountType /\ WireType /\ HeldType /\ RunType

\* The command is registered: from Register to its result.
Starting   == state = "STARTING_SERVICES"
Registered == \/ pc["commander"] \in {"send", "send_failed", "wait"}
              \/ pc["commander"] \in MarkLabels /\ ~Starting

\* A handler has its command under way.
Busy == Registered \/ pc["commander"] \in {"clear", "register", "returned"}

\* The commander is stopping the client.
StopLabels == {"stop_set", "stop_close", "stop_join", "end"}

\* The states in which a handler's command is under way.
StatesOf(h) ==
  CASE h = "start"    -> {"WAIT_START"}
    [] h = "resume"   -> {"PAUSED"}
    [] h = "pause"    -> {"PAUSED"}
    [] h = "rollback" -> {"WAIT_START", "PAUSED"}
    [] h = "finish"   -> {"FINALIZING"}
    [] h = "discard"  -> {"DISCARDING"}
    [] h = "abort"    -> {"COLLECTING", "PAUSED", "ERROR"}
    [] h = "stop"     -> {"STOPPING"}

\* What the commander's place says of the controller's state.
Placed ==
  /\ Starting => sent = <<>> /\ pc["commander"] \in {"boot", "init_send",
      "init_wait"} \cup MarkLabels
  /\ pc["commander"] \in {"boot", "init_send", "init_wait"} => Starting
  /\ pc["commander"] = "loop" => state \in {"WAIT_START", "COLLECTING", "PAUSED"}
  /\ pc["commander"] \in StopLabels => state = "STOPPING"
  /\ stop => pc["commander"] \in StopLabels

\* A handler works for a demo, in its states, and its command is the last one sent.
Handled ==
  /\ Busy => sent # <<>> /\ sent[attempt] = cmd
  /\ Busy => state \in StatesOf(handler)
  /\ Busy /\ handler # "stop" => store # 0
  /\ Starting => store = 0
  /\ pc["commander"] = "loop" => (store # 0 <=> state # "WAIT_START")
  /\ store \in {0, demos}

\* Only the registered command is pending.
Pended ==
  /\ pending = IF Registered THEN {cmd} ELSE {}
  /\ unconfirmed \subseteq 1..attempt

-----------------------------------------------------------------------------
(***************************************************************************)
(* Messages carry the number of the attempt they send or answer.           *)
(***************************************************************************)
Numbered(m) == m.kind \in {"command", "ack", "error"} /\ m.n # 0

\* The attempts on a queue, and that they are there in order, under their names.
Numbers(q)    == {q[i].n : i \in {j \in 1..Len(q) : Numbered(q[j])}}
Ascending(q)  == \A i, j \in 1..Len(q) :
                   i < j /\ Numbered(q[i]) /\ Numbered(q[j]) => q[i].n < q[j].n
NamedBy(q, s) == \A i \in 1..Len(q) :
                   Numbered(q[i]) => q[i].n \in 1..Len(s) /\ q[i].name = s[q[i].n]

\* The attempt of the event the receive thread has read.
Filing  == IF pc["receiver"] = "handle" /\ Numbered(held) THEN {held.n} ELSE {}
Setting == IF pc["receiver"] = "set_event" THEN {held.n} ELSE {}
Unread  == Numbers(fromSensor) \cup Numbers(toSensor)
\* The attempts whose answer is not filed yet, and those whose event is not set yet either.
Unfiled  == Unread \cup Filing
UnderWay == Unfiled \cup Setting

\* The queues hold the attempts in order, the answers before the commands still to answer.
Sorted ==
  /\ NamedBy(toSensor, sent) /\ NamedBy(fromSensor, sent)
  /\ Ascending(toSensor) /\ Ascending(fromSensor)
  /\ \A m \in Numbers(fromSensor), n \in Numbers(toSensor) : m < n

\* What the receive thread has read comes before what is on the queues.
Fronted ==
  /\ \A m \in Filing \cup Setting, n \in Unread : m < n
  /\ Filing \cup Setting # {} => held.n \in 1..attempt /\ held.name = sent[held.n]

\* The command under way is on the queues only once it is sent.
Fresh == pc["commander"] \in {"clear", "register", "send"} => attempt \notin UnderWay

\* All of it.
InSequence == Sorted /\ Fronted /\ Fresh

-----------------------------------------------------------------------------
\* A START_REQ that went without its answer: only its ACK may be taken for another's.
Forgotten(n) == sent[n] = "START_REQ" /\ n \in unconfirmed

\* The commands that may be under way besides a handler's own.
Before(h) ==
  CASE h = "start"  -> {"DEMO_DONE_REQ", "DEMO_DISCARD_REQ"}
    [] h = "resume" -> {"PAUSE_REQ"}
    [] h = "pause"  -> {"START_REQ"}
    [] h \in {"rollback", "finish", "discard", "abort"} -> {"START_REQ", "PAUSE_REQ"}
    [] h = "stop"   -> Commands \ {"STOP_REQ"}

\* The commands that may be under way between two, in the states in which a handler can begin.
After(s) ==
  CASE s = "WAIT_START" -> {"DEMO_DONE_REQ", "DEMO_DISCARD_REQ"}
    [] s = "COLLECTING" -> {"START_REQ"}
    [] s = "PAUSED"     -> {"PAUSE_REQ"}

\* The command is registered and its event set by an ACK; or it has been, or will be taken so.
Acked == \/ Registered /\ cmd \in events \ errors
         \/ pc["commander"] = "register" /\ cmd \in events
         \/ pc["commander"] = "returned" /\ ok

\* It failed, or its own ACK is filed.
Failed == \/ Registered /\ cmd \in errors
          \/ pc["commander"] = "returned" /\ ~ok
Filed  == \/ Registered /\ payloads[cmd] = attempt
          \/ pc["commander"] = "returned" /\ answer = attempt

\* What is still under way between two commands.
LoopResidue ==
  pc["commander"] = "loop" =>
    /\ \A n \in UnderWay : Forgotten(n) \/ sent[n] \in After(state)
    /\ state # "COLLECTING" => \A n \in Unfiled : Forgotten(n)

\* What is still under way besides the command of a handler.
BusyResidue ==
  Busy =>
    /\ \A n \in UnderWay : n = attempt \/ Forgotten(n) \/ sent[n] \in Before(handler)
    /\ handler \in {"start", "resume"} => \A n \in Unfiled : n = attempt \/ Forgotten(n)

\* What is still under way once the command has been answered.
AckedResidue  == Acked => \A n \in UnderWay : n = attempt \/ Forgotten(n)
FiledResidue  == Filed => Unfiled = {} /\ pc["commander"] # "send"
FailedResidue == Failed => \/ attempt \in unconfirmed
                           \/ UnderWay = {} /\ pc["commander"] # "send"

Residues == LoopResidue /\ BusyResidue /\ AckedResidue /\ FiledResidue /\ FailedResidue

\* An ACK that may be taken for that of the command.
Late(n) == Forgotten(n) /\ cmd = "START_REQ"

\* Whose ACK the command takes: its own, or a late one.
SeenAnswer == pc["commander"] = "register" /\ cmd \in events => \E late \in unconfirmed : Late(late)
FileAnswer == Registered => \/ payloads[cmd] \in {0, attempt}
                            \/ \E late \in unconfirmed : Late(late) /\ payloads[cmd] = late
SetAnswer  == Registered /\ pc["receiver"] = "set_event" /\ held.n = attempt =>
                payloads[cmd] = attempt
TakeAnswer == Registered /\ Acked =>
                payloads[cmd] = attempt \/ \E late \in unconfirmed : Late(late)
OwnAnswer  == pc["commander"] = "returned" /\ ok =>
                answer = attempt \/ \E late \in unconfirmed : Late(late) /\ answer \in {late, 0}

Answering == SeenAnswer /\ FileAnswer /\ SetAnswer /\ TakeAnswer /\ OwnAnswer

-----------------------------------------------------------------------------
\* Every command was answered, and no connection was lost.
Calm == unconfirmed = {} /\ ~lost

\* Frames, on the wire and with the receive thread.
IsFrame(m) == m.kind = "frame"
HoldsFrame == pc["receiver"] \in {"handle", "test_store", "append"} /\ IsFrame(held)
NoFrames(q) == \A i \in 1..Len(q) : ~IsFrame(q[i])
FramesOf(q, d) == \A i \in 1..Len(q) : IsFrame(q[i]) => q[i].n = d
Silent == ~capturing /\ ~HoldsFrame /\ NoFrames(fromSensor)

\* The ACK and the ERROR that answer an attempt, on a queue.
AckOf(q, n)   == \E i \in 1..Len(q) : q[i].kind = "ack" /\ q[i].n = n
ErrorOf(q, n) == \E i \in 1..Len(q) : q[i].kind = "error" /\ q[i].n = n
\* No frame follows the ACK of an attempt.
AckLast(q, n) == \A i, j \in 1..Len(q) : q[i].kind = "ack" /\ q[i].n = n /\ i < j => ~IsFrame(q[j])

\* The frames under way are of this demo, and the receive thread is never about to append one to a
\* demo that is gone, unless the sensor has refused to stop in an abort.
Framed ==
  Calm =>
    /\ FramesOf(fromSensor, demos)
    /\ HoldsFrame => held.n = demos
    /\ pc["receiver"] \in {"test_store", "append"} =>
         store # 0 \/ (handler = "abort" /\ ~ok /\ pc["commander"] \in StopLabels)

\* Before a demo the sensor is silent.
QuietIdle == Calm /\ (Starting \/ (pc["commander"] = "loop" /\ state = "WAIT_START")) => Silent

\* It stays so until it has taken the START_REQ, and if it refuses it.
StartsSilent == \/ pc["commander"] \in {"clear", "register", "send"}
                \/ attempt \in Numbers(toSensor)
                \/ ErrorOf(fromSensor, attempt)
                \/ held.kind = "error" /\ attempt \in Filing
                \/ Failed

\* The start of a demo.
QuietStart == Calm /\ Busy /\ handler = "start" /\ StartsSilent => Silent

\* The command that ends a demo has silenced the sensor when its ACK is read.
Ending == Busy /\ handler \in {"rollback", "finish", "discard", "abort"}

\* The ACK has been read.
EndsSilent == Filed \/ (held.kind = "ack" /\ attempt \in Filing \cup Setting)

\* The end of a demo; a frame about to be appended does not outlive a command that fails.
QuietEnd ==
  Calm /\ Ending =>
    /\ AckOf(fromSensor, attempt) => ~capturing /\ AckLast(fromSensor, attempt)
    /\ EndsSilent => Silent
    /\ Failed /\ handler # "abort" => pc["receiver"] \notin {"test_store", "append"}

\* The three together.
Quieted == QuietIdle /\ QuietStart /\ QuietEnd

\* The inductive invariant.
IInv == /\ Typed /\ Placed /\ Handled /\ Pended
        /\ InSequence /\ Residues /\ Answering
        /\ Framed /\ Quieted

-----------------------------------------------------------------------------
(***************************************************************************)
(* What the queue operators say of a queue that grows or shrinks.          *)
(***************************************************************************)
\* An empty queue.
LEMMA EmptyQueue ==
  ASSUME NEW n, NEW s, NEW d
  PROVE  /\ Numbers(<<>>) = {} /\ Ascending(<<>>) /\ NamedBy(<<>>, s)
         /\ NoFrames(<<>>) /\ FramesOf(<<>>, d)
         /\ ~AckOf(<<>>, n) /\ ~ErrorOf(<<>>, n) /\ AckLast(<<>>, n)
  BY DEF Numbers, Ascending, NamedBy, NoFrames, FramesOf, AckOf, ErrorOf, AckLast

\* A message is appended.
LEMMA AppendNumbers ==
  ASSUME NEW q \in Seq(Messages), NEW m \in Messages, NEW s
  PROVE  /\ Numbers(Append(q, m)) = Numbers(q) \cup (IF Numbered(m) THEN {m.n} ELSE {})
         /\ NamedBy(q, s) /\ (Numbered(m) => m.n \in 1..Len(s) /\ m.name = s[m.n])
              => NamedBy(Append(q, m), s)
         /\ Ascending(q) /\ (Numbered(m) => \A k \in Numbers(q) : k < m.n)
              => Ascending(Append(q, m))
<1> DEFINE r == Append(q, m)
<1>1. /\ Len(r) = Len(q) + 1 /\ Len(q) \in Nat
      /\ \A i \in 1..Len(q) : r[i] = q[i]
      /\ r[Len(q) + 1] = m
  BY AppendProperties, LenProperties
<1> HIDE DEF r
<1>2. Numbers(r) = Numbers(q) \cup (IF Numbered(m) THEN {m.n} ELSE {})
  <2>1. ASSUME NEW n \in Numbers(r) PROVE n \in Numbers(q) \/ (Numbered(m) /\ n = m.n)
    <3>1. PICK i \in 1..Len(r) : Numbered(r[i]) /\ n = r[i].n
      BY DEF Numbers
    <3>2. CASE i = Len(q) + 1
      BY <1>1, <3>1, <3>2
    <3>3. CASE i # Len(q) + 1
      BY <1>1, <3>1, <3>3 DEF Numbers
    <3> QED
      BY <3>2, <3>3
  <2>2. ASSUME NEW n \in Numbers(q) PROVE n \in Numbers(r)
    BY <1>1 DEF Numbers
  <2>3. Numbered(m) => m.n \in Numbers(r)
    BY <1>1 DEF Numbers
  <2> QED
    BY <2>1, <2>2, <2>3
<1>3. ASSUME NamedBy(q, s), Numbered(m) => m.n \in 1..Len(s) /\ m.name = s[m.n]
      PROVE  NamedBy(r, s)
  <2> SUFFICES ASSUME NEW i \in 1..Len(r), Numbered(r[i])
               PROVE  r[i].n \in 1..Len(s) /\ r[i].name = s[r[i].n]
    BY DEF NamedBy
  <2>1. CASE i = Len(q) + 1
    BY <1>1, <1>3, <2>1
  <2>2. CASE i # Len(q) + 1
    BY <1>1, <1>3, <2>2 DEF NamedBy
  <2> QED
    BY <2>1, <2>2
<1>4. ASSUME Ascending(q), Numbered(m) => \A k \in Numbers(q) : k < m.n
      PROVE  Ascending(r)
  <2> SUFFICES ASSUME NEW i \in 1..Len(r), NEW j \in 1..Len(r), i < j,
                      Numbered(r[i]), Numbered(r[j])
               PROVE  r[i].n < r[j].n
    BY DEF Ascending
  <2>1. CASE j = Len(q) + 1
    BY <1>1, <1>4, <2>1 DEF Numbers
  <2>2. CASE j # Len(q) + 1
    BY <1>1, <1>4, <2>2 DEF Ascending
  <2> QED
    BY <2>1, <2>2
<1> QED
  BY <1>2, <1>3, <1>4 DEF r

\* What is appended adds a frame, or an answer, only if it is one.
LEMMA AppendFrames ==
  ASSUME NEW q \in Seq(Messages), NEW m \in Messages, NEW d, NEW n
  PROVE  /\ NoFrames(q) /\ ~IsFrame(m) => NoFrames(Append(q, m))
         /\ FramesOf(q, d) /\ (IsFrame(m) => m.n = d) => FramesOf(Append(q, m), d)
         /\ AckOf(Append(q, m), n) <=> AckOf(q, n) \/ (m.kind = "ack" /\ m.n = n)
         /\ ErrorOf(Append(q, m), n) <=> ErrorOf(q, n) \/ (m.kind = "error" /\ m.n = n)
         /\ AckLast(q, n) /\ (IsFrame(m) => ~AckOf(q, n)) => AckLast(Append(q, m), n)
<1> DEFINE r == Append(q, m)
<1>1. /\ Len(r) = Len(q) + 1 /\ Len(q) \in Nat
      /\ \A i \in 1..Len(q) : r[i] = q[i]
      /\ r[Len(q) + 1] = m
  BY AppendProperties, LenProperties
<1> HIDE DEF r
<1>a. \A i \in 1..Len(r) : i \in 1..Len(q) \/ i = Len(q) + 1
  BY <1>1
<1>b. 1..Len(q) \subseteq 1..Len(r) /\ Len(q) + 1 \in 1..Len(r)
  BY <1>1
<1>2. NoFrames(q) /\ ~IsFrame(m) => NoFrames(r)
  BY <1>1, <1>a DEF NoFrames
<1>3. FramesOf(q, d) /\ (IsFrame(m) => m.n = d) => FramesOf(r, d)
  BY <1>1, <1>a DEF FramesOf
<1>4. AckOf(r, n) <=> AckOf(q, n) \/ (m.kind = "ack" /\ m.n = n)
  BY <1>1, <1>a, <1>b DEF AckOf
<1>5. ErrorOf(r, n) <=> ErrorOf(q, n) \/ (m.kind = "error" /\ m.n = n)
  BY <1>1, <1>a, <1>b DEF ErrorOf
<1>6. ASSUME AckLast(q, n), IsFrame(m) => ~AckOf(q, n)
      PROVE  AckLast(r, n)
  <2> SUFFICES ASSUME NEW i \in 1..Len(r), NEW j \in 1..Len(r), i < j,
                      r[i].kind = "ack", r[i].n = n
               PROVE  ~IsFrame(r[j])
    BY DEF AckLast
  <2>1. i \in 1..Len(q) /\ r[i] = q[i]
    BY <1>1
  <2>2. CASE j = Len(q) + 1
    BY <1>1, <1>6, <2>1, <2>2 DEF AckOf
  <2>3. CASE j # Len(q) + 1
    BY <1>1, <1>6, <2>1, <2>3 DEF AckLast
  <2> QED
    BY <2>2, <2>3
<1> QED
  BY <1>2, <1>3, <1>4, <1>5, <1>6 DEF r

\* The first message is taken.
LEMMA TailNumbers ==
  ASSUME NEW q \in Seq(Messages), q # <<>>, NEW s
  PROVE  /\ Numbers(q) = Numbers(Tail(q)) \cup (IF Numbered(Head(q)) THEN {Head(q).n} ELSE {})
         /\ NamedBy(q, s) => NamedBy(Tail(q), s)
         /\ NamedBy(q, s) /\ Numbered(Head(q))
              => Head(q).n \in 1..Len(s) /\ Head(q).name = s[Head(q).n]
         /\ Ascending(q) => Ascending(Tail(q))
         /\ Ascending(q) /\ Numbered(Head(q)) => \A k \in Numbers(Tail(q)) : Head(q).n < k
<1> DEFINE r == Tail(q)
<1>1. /\ Len(r) = Len(q) - 1 /\ Len(q) \in Nat \ {0} /\ Head(q) = q[1]
      /\ \A i \in 1..Len(r) : r[i] = q[i + 1]
  BY HeadTailProperties, LenProperties, EmptySeq
<1> HIDE DEF r
<1>2. Numbers(q) = Numbers(r) \cup (IF Numbered(Head(q)) THEN {Head(q).n} ELSE {})
  <2>1. ASSUME NEW n \in Numbers(q) PROVE n \in Numbers(r) \/ (Numbered(q[1]) /\ n = q[1].n)
    <3>1. PICK i \in 1..Len(q) : Numbered(q[i]) /\ n = q[i].n
      BY DEF Numbers
    <3>2. CASE i = 1
      BY <3>1, <3>2
    <3>3. CASE i # 1
      <4>1. i - 1 \in 1..Len(r) /\ r[i - 1] = q[i]
        BY <1>1, <3>3
      <4> QED
        BY <3>1, <4>1 DEF Numbers
    <3> QED
      BY <3>2, <3>3
  <2>2. ASSUME NEW n \in Numbers(r) PROVE n \in Numbers(q)
    <3>1. PICK i \in 1..Len(r) : Numbered(r[i]) /\ n = r[i].n
      BY DEF Numbers
    <3>2. i + 1 \in 1..Len(q) /\ q[i + 1] = r[i]
      BY <1>1
    <3> QED
      BY <3>1, <3>2 DEF Numbers
  <2>3. Numbered(q[1]) => q[1].n \in Numbers(q)
    BY <1>1 DEF Numbers
  <2> QED
    BY <1>1, <2>1, <2>2, <2>3
<1>3. NamedBy(q, s) => NamedBy(r, s)
  BY <1>1 DEF NamedBy
<1>4. NamedBy(q, s) /\ Numbered(Head(q)) => Head(q).n \in 1..Len(s) /\ Head(q).name = s[Head(q).n]
  BY <1>1 DEF NamedBy
<1>5. Ascending(q) => Ascending(r)
  BY <1>1 DEF Ascending
<1>6. ASSUME Ascending(q), Numbered(q[1]), NEW k \in Numbers(r) PROVE q[1].n < k
  <2>1. PICK i \in 1..Len(r) : Numbered(r[i]) /\ k = r[i].n
    BY DEF Numbers
  <2>2. i + 1 \in 1..Len(q) /\ q[i + 1] = r[i] /\ 1 \in 1..Len(q) /\ 1 < i + 1
    BY <1>1
  <2> QED
    BY <1>6, <2>1, <2>2 DEF Ascending
<1> QED
  BY <1>1, <1>2, <1>3, <1>4, <1>5, <1>6 DEF r

\* What is left holds the frames and the answers that were behind the first message.
LEMMA TailFrames ==
  ASSUME NEW q \in Seq(Messages), q # <<>>, NEW d, NEW n
  PROVE  /\ NoFrames(q) => NoFrames(Tail(q)) /\ ~IsFrame(Head(q))
         /\ FramesOf(q, d) => FramesOf(Tail(q), d) /\ (IsFrame(Head(q)) => Head(q).n = d)
         /\ AckOf(Tail(q), n) => AckOf(q, n)
         /\ Head(q).kind = "ack" /\ Head(q).n = n => AckOf(q, n)
         /\ ErrorOf(Tail(q), n) => ErrorOf(q, n)
         /\ Head(q).kind = "error" /\ Head(q).n = n => ErrorOf(q, n)
         /\ AckLast(q, n) => AckLast(Tail(q), n)
         /\ AckLast(q, n) /\ Head(q).kind = "ack" /\ Head(q).n = n => NoFrames(Tail(q))
<1> DEFINE r == Tail(q)
<1>1. /\ Len(r) = Len(q) - 1 /\ Len(q) \in Nat \ {0} /\ Head(q) = q[1]
      /\ \A i \in 1..Len(r) : r[i] = q[i + 1] /\ i + 1 \in 1..Len(q) /\ 1 < i + 1
      /\ 1 \in 1..Len(q)
  BY HeadTailProperties, LenProperties, EmptySeq
<1> HIDE DEF r
<1>2. NoFrames(q) => NoFrames(r) /\ ~IsFrame(Head(q))
  BY <1>1 DEF NoFrames
<1>3. FramesOf(q, d) => FramesOf(r, d) /\ (IsFrame(Head(q)) => Head(q).n = d)
  BY <1>1 DEF FramesOf
<1>4. (AckOf(r, n) => AckOf(q, n)) /\ (ErrorOf(r, n) => ErrorOf(q, n))
  BY <1>1 DEF AckOf, ErrorOf
<1>5. /\ Head(q).kind = "ack" /\ Head(q).n = n => AckOf(q, n)
      /\ Head(q).kind = "error" /\ Head(q).n = n => ErrorOf(q, n)
  BY <1>1 DEF AckOf, ErrorOf
<1>6. AckLast(q, n) => AckLast(r, n)
  BY <1>1 DEF AckLast
<1>7. AckLast(q, n) /\ Head(q).kind = "ack" /\ Head(q).n = n => NoFrames(r)
  BY <1>1 DEF AckLast, NoFrames
<1> QED
  BY <1>2, <1>3, <1>4, <1>5, <1>6, <1>7 DEF r

\* A queue without frames, or without the attempt.
LEMMA NoFramesLast ==
  ASSUME NEW q \in Seq(Messages), NEW d, NEW n, n # 0
  PROVE  /\ NoFrames(q) => FramesOf(q, d) /\ AckLast(q, n)
         /\ AckOf(q, n) \/ ErrorOf(q, n) => n \in Numbers(q)
         /\ ~AckOf(q, n) => AckLast(q, n)
  BY DEF NoFrames, FramesOf, AckLast, AckOf, ErrorOf, Numbers, Numbered

\* A queue is still named by the attempts when there is one more.
LEMMA NamedByMore ==
  ASSUME NEW q \in Seq(Messages), NEW s \in Seq(Commands), NEW c \in Commands, NamedBy(q, s)
  PROVE  NamedBy(q, Append(s, c)) /\ Numbers(q) \subseteq 1..Len(s)
<1>1. /\ Len(Append(s, c)) = Len(s) + 1 /\ Len(s) \in Nat
      /\ \A i \in 1..Len(s) : Append(s, c)[i] = s[i]
  BY AppendProperties, LenProperties
<1> QED
  BY <1>1 DEF NamedBy, Numbers

-----------------------------------------------------------------------------
(***************************************************************************)
(* Types.                                                                  *)
(***************************************************************************)
\* The parts say what TypeOK says.
LEMMA TypedOK == Typed => TypeOK
<1> SUFFICES ASSUME Typed PROVE TypeOK
  OBVIOUS
<1>1. toSensor \in Seq(Messages) /\ fromSensor \in Seq(Messages)
  <2>1. Requests \subseteq Messages /\ Events \subseteq Messages
    BY DEF Requests, Events
  <2> QED
    BY <2>1, SeqMonotonic DEF Typed, WireType
<1> QED
  BY <1>1 DEF Typed, TypeOK, FlagType, AckType, PlaceType, CountType, WireType, RunType

\* A command is one of the five, and the attempt counts those sent.
LEMMA CommandType ==
  ASSUME RunType
  PROVE  cmd \in Commands /\ attempt \in Nat
<1>1. \A h \in DOMAIN Request : Request[h] \in Commands
  BY DEF Request, Commands
<1> QED
  BY <1>1, LenProperties DEF RunType, cmd, attempt

\* Appending a command to those sent.
LEMMA SentMore ==
  ASSUME RunType, NEW c \in Commands
  PROVE  /\ Append(sent, c) \in Seq(Commands) /\ Append(sent, c) # <<>>
         /\ Len(Append(sent, c)) = attempt + 1 /\ attempt \in Nat
         /\ \A n \in 1..attempt : Append(sent, c)[n] = sent[n]
         /\ Append(sent, c)[attempt + 1] = c
  BY AppendProperties, LenProperties DEF RunType, attempt

\* Queues of one kind of message.
LEMMA SingleQueue == \A m : <<m>> = Append(<<>>, m)
  OBVIOUS

\* Queues of one kind of message, longer or shorter by one.
LEMMA QueueType ==
  ASSUME NEW S, NEW q \in Seq(S), NEW m \in S
  PROVE  /\ Append(q, m) \in Seq(S) /\ <<>> \in Seq(S) /\ <<m>> \in Seq(S)
         /\ q # <<>> => Head(q) \in S /\ Tail(q) \in Seq(S)
         /\ <<m>> = Append(<<>>, m)
<1>1. <<>> \in Seq(S)
  BY EmptySeq
<1>2. <<m>> = Append(<<>>, m)
  OBVIOUS
<1> QED
  BY <1>1, <1>2, AppendProperties, HeadTailProperties

\* The messages that are written.
LEMMA MessageType ==
  ASSUME NEW n \in Nat
  PROVE  /\ None \in Requests
         /\ \A c \in Commands : n # 0 => /\ Message("command", c, n) \in Requests
                                       /\ Message("ack", c, n) \in Events
         /\ \A c \in Commands \cup {"none"} : Message("error", c, n) \in Events
         /\ \A k \in {"ready", "frame", "garbage"} : Message(k, "none", n) \in Events
  BY DEF None, Message, Messages, Requests, Events

\* Every handler sends one of the commands.
LEMMA RequestType ==
  /\ DOMAIN Request =
       {"start", "resume", "rollback", "pause", "finish", "discard", "abort", "stop"}
  /\ \A h \in DOMAIN Request : Request[h] \in Commands
  BY DEF Request, Commands

\* A handler sends its command.
LEMMA BeginType ==
  ASSUME RunType, NEW h \in DOMAIN Request, Begin(h)
  PROVE  handler' \in DOMAIN Request /\ sent' \in Seq(Commands)
  BY RequestType, SentMore DEF Begin

\* What the commander sends in a handler is not the message of a startup.
LEMMA CommandIsNotNone == \A c, n : Message("command", c, n) # None
  BY DEF Message, None

\* The attempt under way is one of those sent.
LEMMA AttemptSent ==
  ASSUME RunType, Handled, Busy
  PROVE  attempt \in 1..attempt
  BY EmptySeq, LenProperties DEF RunType, Handled, attempt

\* The flags stay Booleans.
LEMMA FlagTypeStep ==
  ASSUME FlagType, AckType, PlaceType, RunType, ChannelAssumption, [Next]_vars
  PROVE  FlagType'
<1> USE DEF FlagType, Threads, acks, link, work, controller, wires, sensor, client, thread,
            outside, history, vars
<1>1. CASE ClearEvent
  BY <1>1, CommandType DEF ClearEvent, Goto
<1>2. CASE Register
  BY <1>2, CommandType DEF Register, Goto
<1>3. CASE SendCommand
  BY <1>3, CommandType DEF SendCommand, SendMsg, BeginMark, Goto
<1>4. CASE SendFailed
  BY <1>4, CommandType DEF SendFailed, Fail, Goto
<1>5. CASE AckTimeout
  BY <1>5, CommandType DEF AckTimeout, Fail, Goto
<1>6. CASE Answered
  BY <1>6, CommandType DEF Answered, Goto
<1>7. CASE Startup
  BY <1>7, CommandType DEF Startup, SendMsg, BeginMark, BeginStop, Begin, Goto
<1>8. CASE Outcome
  BY <1>8, CommandType DEF Outcome, Started, Back, Begin, BeginStop, Goto
<1>9. CASE StopClient
  BY <1>9, CommandType DEF StopClient, CloseSocket, Goto
<1>10. CASE Operate
  BY <1>10, CommandType DEF Operate, Begin, Goto
<1>11. CASE EndOfRun
  BY <1>11, CommandType DEF EndOfRun, Begin, BeginStop, Goto
<1>12. ASSUME NEW t \in Threads, MarkClear(t) PROVE FlagType'
  BY <1>12, CommandType DEF MarkClear, Goto
<1>13. ASSUME NEW t \in Threads, MarkPending(t) PROVE FlagType'
  BY <1>13, CommandType DEF MarkPending, Goto
<1>14. ASSUME NEW t \in Threads, MarkClose(t) PROVE FlagType'
  BY <1>14, CommandType DEF MarkClose, CloseSocket, Goto
<1>15. ASSUME NEW t \in Threads, MarkReport(t) PROVE FlagType'
  BY <1>15, CommandType DEF MarkReport, Resume, Goto
<1>16. CASE Connect
  BY <1>16, CommandType DEF Connect, Goto
<1>17. CASE Loop
  BY <1>17, CommandType DEF Loop, Goto
<1>18. CASE Receive
  BY <1>18, CommandType DEF Receive, BeginMark, Goto
<1>19. CASE HandleAck
  BY <1>19, CommandType DEF HandleAck, Goto
<1>20. CASE SetEvent
  BY <1>20, CommandType DEF SetEvent, Goto
<1>21. CASE HandleError
  BY <1>21, CommandType DEF HandleError, Goto
<1>22. CASE HandleInitReady
  BY <1>22, CommandType DEF HandleInitReady, Goto
<1>23. CASE FrameCallback
  BY <1>23, CommandType DEF FrameCallback, Goto
<1>24. CASE AppendRow
  BY <1>24, CommandType DEF AppendRow, BeginMark, Goto
<1>25. CASE SensorHandles
  BY <1>25, CommandType DEF SensorHandles, Answer
<1>26. CASE SensorFrame
  BY <1>26, CommandType DEF SensorFrame
<1>27. CASE SensorFaults
  BY <1>27, CommandType DEF SensorFaults
<1>28. CASE UNCHANGED vars
  BY <1>28, CommandType
<1> QED
  BY <1>1, <1>2, <1>3, <1>4, <1>5, <1>6, <1>7, <1>8, <1>9, <1>10, <1>11, <1>12, <1>13, <1>14,
     <1>15, <1>16, <1>17, <1>18, <1>19, <1>20, <1>21, <1>22, <1>23, <1>24, <1>25, <1>26, <1>27,
     <1>28
     DEF Next, Commander, Receiver, MarkDisconnected, Terminated

\* The ACK state stays keyed by the commands.
LEMMA AckTypeStep ==
  ASSUME AckType, HeldType, RunType, WireType, PlaceType, ChannelAssumption, [Next]_vars
  PROVE  AckType'
<1> USE DEF AckType, acks, link, work, controller, wires, sensor, client, thread, outside, history,
            vars
<1>1. CASE ClearEvent
  BY <1>1, CommandType DEF ClearEvent, Goto
<1>2. CASE Register
  BY <1>2, CommandType DEF Register, Goto
<1>3. CASE SendCommand
  BY <1>3, CommandType DEF SendCommand, SendMsg, BeginMark, Goto
<1>4. CASE SendFailed
  BY <1>4, CommandType DEF SendFailed, Fail, Goto
<1>5. CASE AckTimeout
  BY <1>5, CommandType DEF AckTimeout, Fail, Goto
<1>6. CASE Answered
  BY <1>6, CommandType DEF Answered, Goto
<1>7. CASE Startup
  BY <1>7, CommandType DEF Startup, SendMsg, BeginMark, BeginStop, Begin, Goto
<1>8. CASE Outcome
  BY <1>8, CommandType DEF Outcome, Started, Back, Begin, BeginStop, Goto
<1>9. CASE StopClient
  BY <1>9, CommandType DEF StopClient, CloseSocket, Goto
<1>10. CASE Operate
  BY <1>10, CommandType DEF Operate, Begin, Goto
<1>11. CASE EndOfRun
  BY <1>11, CommandType DEF EndOfRun, Begin, BeginStop, Goto
<1>12. ASSUME NEW t \in Threads, MarkClear(t) PROVE AckType'
  BY <1>12, CommandType DEF MarkClear, Goto
<1>13. ASSUME NEW t \in Threads, MarkPending(t) PROVE AckType'
  BY <1>13, CommandType DEF MarkPending, Goto
<1>14. ASSUME NEW t \in Threads, MarkClose(t) PROVE AckType'
  BY <1>14, CommandType DEF MarkClose, CloseSocket, Goto
<1>15. ASSUME NEW t \in Threads, MarkReport(t) PROVE AckType'
  BY <1>15, CommandType DEF MarkReport, Resume, Goto
<1>16. CASE Connect
  BY <1>16, CommandType DEF Connect, Goto
<1>17. CASE Loop
  BY <1>17, CommandType DEF Loop, Goto
<1>18. CASE Receive
  BY <1>18, CommandType DEF Receive, BeginMark, Goto
<1>19. CASE HandleAck
  BY <1>19 DEF HandleAck, Goto, HeldType, Events, Messages
<1>20. CASE SetEvent
  BY <1>20 DEF SetEvent, Goto, HeldType, Events, Messages
<1>21. CASE HandleError
  BY <1>21, CommandType DEF HandleError, Goto
<1>22. CASE HandleInitReady
  BY <1>22, CommandType DEF HandleInitReady, Goto
<1>23. CASE FrameCallback
  BY <1>23, CommandType DEF FrameCallback, Goto
<1>24. CASE AppendRow
  BY <1>24, CommandType DEF AppendRow, BeginMark, Goto
<1>25. CASE SensorHandles
  BY <1>25, CommandType DEF SensorHandles, Answer
<1>26. CASE SensorFrame
  BY <1>26, CommandType DEF SensorFrame
<1>27. CASE SensorFaults
  BY <1>27, CommandType DEF SensorFaults
<1>28. CASE UNCHANGED vars
  BY <1>28, CommandType
<1> QED
  BY <1>1, <1>2, <1>3, <1>4, <1>5, <1>6, <1>7, <1>8, <1>9, <1>10, <1>11, <1>12, <1>13, <1>14,
     <1>15, <1>16, <1>17, <1>18, <1>19, <1>20, <1>21, <1>22, <1>23, <1>24, <1>25, <1>26, <1>27,
     <1>28
     DEF Next, Commander, Receiver, MarkDisconnected, Terminated, Threads

\* Each thread stays on its own labels.
LEMMA PlaceTypeStep ==
  ASSUME PlaceType, RunType, ChannelAssumption, [Next]_vars
  PROVE  PlaceType'
<1> USE DEF PlaceType, Threads, CommanderLabels, ReceiverLabels, MarkLabels, acks, link, work,
            controller, wires, sensor, client, thread, outside, history, vars
<1>1. CASE ClearEvent
  BY <1>1 DEF ClearEvent, Goto
<1>2. CASE Register
  BY <1>2 DEF Register, Goto
<1>3. CASE SendCommand
  BY <1>3, CommandType DEF SendCommand, SendMsg, BeginMark, Goto
<1>4. CASE SendFailed
  BY <1>4, CommandType DEF SendFailed, Fail, Goto
<1>5. CASE AckTimeout
  BY <1>5, CommandType DEF AckTimeout, Fail, Goto
<1>6. CASE Answered
  BY <1>6, CommandType DEF Answered, Goto
<1>7. CASE Startup
  BY <1>7, CommandType DEF Startup, SendMsg, BeginMark, BeginStop, Begin, Goto
<1>8. CASE Outcome
  BY <1>8, CommandType DEF Outcome, Started, Back, Begin, BeginStop, Goto
<1>9. CASE StopClient
  BY <1>9, CommandType DEF StopClient, CloseSocket, Goto
<1>10. CASE Operate
  BY <1>10, CommandType DEF Operate, Begin, Goto
<1>11. CASE EndOfRun
  BY <1>11, CommandType DEF EndOfRun, Begin, BeginStop, Goto
<1>12. ASSUME NEW t \in Threads, MarkClear(t) PROVE PlaceType'
  BY <1>12, CommandType DEF MarkClear, Goto
<1>13. ASSUME NEW t \in Threads, MarkPending(t) PROVE PlaceType'
  BY <1>13, CommandType DEF MarkPending, Goto
<1>14. ASSUME NEW t \in Threads, MarkClose(t) PROVE PlaceType'
  BY <1>14, CommandType DEF MarkClose, CloseSocket, Goto
<1>15. ASSUME NEW t \in Threads, MarkReport(t) PROVE PlaceType'
  BY <1>15, CommandType DEF MarkReport, Resume, Goto
<1>16. CASE Connect
  BY <1>16, CommandType DEF Connect, Goto
<1>17. CASE Loop
  BY <1>17, CommandType DEF Loop, Goto
<1>18. CASE Receive
  BY <1>18, CommandType DEF Receive, BeginMark, Goto
<1>19. CASE HandleAck
  BY <1>19, CommandType DEF HandleAck, Goto
<1>20. CASE SetEvent
  BY <1>20, CommandType DEF SetEvent, Goto
<1>21. CASE HandleError
  BY <1>21, CommandType DEF HandleError, Goto
<1>22. CASE HandleInitReady
  BY <1>22, CommandType DEF HandleInitReady, Goto
<1>23. CASE FrameCallback
  BY <1>23, CommandType DEF FrameCallback, Goto
<1>24. CASE AppendRow
  BY <1>24, CommandType DEF AppendRow, BeginMark, Goto
<1>25. CASE SensorHandles
  BY <1>25, CommandType DEF SensorHandles, Answer
<1>26. CASE SensorFrame
  BY <1>26, CommandType DEF SensorFrame
<1>27. CASE SensorFaults
  BY <1>27, CommandType DEF SensorFaults
<1>28. CASE UNCHANGED vars
  BY <1>28, CommandType
<1> QED
  BY <1>1, <1>2, <1>3, <1>4, <1>5, <1>6, <1>7, <1>8, <1>9, <1>10, <1>11, <1>12, <1>13, <1>14,
     <1>15, <1>16, <1>17, <1>18, <1>19, <1>20, <1>21, <1>22, <1>23, <1>24, <1>25, <1>26, <1>27,
     <1>28
     DEF Next, Commander, Receiver, MarkDisconnected, Terminated

\* The counters and the numbers of demos stay natural.
LEMMA CountTypeStep ==
  ASSUME CountType, AckType, RunType, ChannelAssumption, [Next]_vars
  PROVE  CountType'
<1> USE DEF CountType, acks, link, work, controller, wires, sensor, client, thread, outside,
            history, vars
<1>1. CASE ClearEvent
  BY <1>1, CommandType DEF ClearEvent, Goto
<1>2. CASE Register
  BY <1>2, CommandType DEF Register, Goto
<1>3. CASE SendCommand
  BY <1>3, CommandType DEF SendCommand, SendMsg, BeginMark, Goto
<1>4. CASE SendFailed
  BY <1>4, CommandType DEF SendFailed, Fail, Goto
<1>5. CASE AckTimeout
  BY <1>5, CommandType DEF AckTimeout, Fail, Goto
<1>6. CASE Answered
  BY <1>6, CommandType DEF Answered, Goto, AckType
<1>7. CASE Startup
  BY <1>7, CommandType DEF Startup, SendMsg, BeginMark, BeginStop, Begin, Goto
<1>8. CASE Outcome
  BY <1>8, CommandType DEF Outcome, Started, Back, Begin, BeginStop, Goto
<1>9. CASE StopClient
  BY <1>9, CommandType DEF StopClient, CloseSocket, Goto
<1>10. CASE Operate
  BY <1>10, CommandType DEF Operate, Begin, Goto
<1>11. CASE EndOfRun
  BY <1>11, CommandType DEF EndOfRun, Begin, BeginStop, Goto
<1>12. ASSUME NEW t \in Threads, MarkClear(t) PROVE CountType'
  BY <1>12, CommandType DEF MarkClear, Goto
<1>13. ASSUME NEW t \in Threads, MarkPending(t) PROVE CountType'
  BY <1>13, CommandType DEF MarkPending, Goto
<1>14. ASSUME NEW t \in Threads, MarkClose(t) PROVE CountType'
  BY <1>14, CommandType DEF MarkClose, CloseSocket, Goto
<1>15. ASSUME NEW t \in Threads, MarkReport(t) PROVE CountType'
  BY <1>15, CommandType DEF MarkReport, Resume, Goto
<1>16. CASE Connect
  BY <1>16, CommandType DEF Connect, Goto
<1>17. CASE Loop
  BY <1>17, CommandType DEF Loop, Goto
<1>18. CASE Receive
  BY <1>18, CommandType DEF Receive, BeginMark, Goto
<1>19. CASE HandleAck
  BY <1>19, CommandType DEF HandleAck, Goto
<1>20. CASE SetEvent
  BY <1>20, CommandType DEF SetEvent, Goto
<1>21. CASE HandleError
  BY <1>21, CommandType DEF HandleError, Goto
<1>22. CASE HandleInitReady
  BY <1>22, CommandType DEF HandleInitReady, Goto
<1>23. CASE FrameCallback
  BY <1>23, CommandType DEF FrameCallback, Goto
<1>24. CASE AppendRow
  BY <1>24, CommandType DEF AppendRow, BeginMark, Goto
<1>25. CASE SensorHandles
  BY <1>25, CommandType DEF SensorHandles, Answer
<1>26. CASE SensorFrame
  BY <1>26, CommandType DEF SensorFrame
<1>27. CASE SensorFaults
  BY <1>27, CommandType DEF SensorFaults
<1>28. CASE UNCHANGED vars
  BY <1>28, CommandType
<1> QED
  BY <1>1, <1>2, <1>3, <1>4, <1>5, <1>6, <1>7, <1>8, <1>9, <1>10, <1>11, <1>12, <1>13, <1>14,
     <1>15, <1>16, <1>17, <1>18, <1>19, <1>20, <1>21, <1>22, <1>23, <1>24, <1>25, <1>26, <1>27,
     <1>28
     DEF Next, Commander, Receiver, MarkDisconnected, Terminated, Threads

\* Commands go one way, and events the other.
LEMMA WireTypeStep ==
  ASSUME WireType, PlaceType, HeldType, RunType, CountType, Handled, ChannelAssumption, [Next]_vars
  PROVE  WireType'
<1> USE DEF WireType, acks, link, work, controller, wires, sensor, client, thread, outside,
            history, vars
<1>1. CASE ClearEvent
  BY <1>1, CommandType DEF ClearEvent, Goto
<1>2. CASE Register
  BY <1>2, CommandType DEF Register, Goto
<1>3. CASE SendCommand
  <2>1. Message("command", cmd, attempt) \in Requests
    BY <1>3, CommandType, MessageType DEF SendCommand, Handled, Busy, Registered, attempt
  <2> QED
    BY <1>3, <2>1, QueueType, CommandType DEF SendCommand, SendMsg, BeginMark, Goto
<1>4. CASE SendFailed
  BY <1>4, CommandType DEF SendFailed, Fail, Goto
<1>5. CASE AckTimeout
  BY <1>5, CommandType DEF AckTimeout, Fail, Goto
<1>6. CASE Answered
  BY <1>6, CommandType DEF Answered, Goto
<1>7. CASE Startup
  <2>1. None \in Requests
    BY MessageType
  <2> QED
    BY <1>7, <2>1, QueueType DEF Startup, SendMsg, BeginMark, BeginStop, Begin, Goto
<1>8. CASE Outcome
  BY <1>8, CommandType DEF Outcome, Started, Back, Begin, BeginStop, Goto
<1>9. CASE StopClient
  <2>1. <<>> \in Seq(Requests) /\ <<>> \in Seq(Events)
    BY EmptySeq
  <2> QED
    BY <1>9, <2>1 DEF StopClient, CloseSocket, Goto
<1>10. CASE Operate
  BY <1>10, CommandType DEF Operate, Begin, Goto
<1>11. CASE EndOfRun
  BY <1>11, CommandType DEF EndOfRun, Begin, BeginStop, Goto
<1>12. ASSUME NEW t \in Threads, MarkClear(t) PROVE WireType'
  BY <1>12, CommandType DEF MarkClear, Goto
<1>13. ASSUME NEW t \in Threads, MarkPending(t) PROVE WireType'
  BY <1>13, CommandType DEF MarkPending, Goto
<1>14. ASSUME NEW t \in Threads, MarkClose(t) PROVE WireType'
  <2>1. <<>> \in Seq(Requests) /\ <<>> \in Seq(Events)
    BY EmptySeq
  <2> QED
    BY <1>14, <2>1 DEF MarkClose, CloseSocket, Goto
<1>15. ASSUME NEW t \in Threads, MarkReport(t) PROVE WireType'
  BY <1>15, CommandType DEF MarkReport, Resume, Goto
<1>16. CASE Connect
  BY <1>16, CommandType DEF Connect, Goto
<1>17. CASE Loop
  BY <1>17, CommandType DEF Loop, Goto
<1>18. CASE Receive
  <2>1. fromSensor # <<>> =>
          Head(fromSensor) \in Messages /\ Tail(fromSensor) \in Seq(Events)
    BY HeadTailProperties DEF Events
  <2> QED
    BY <1>18, <2>1 DEF Receive, BeginMark, Goto
<1>19. CASE HandleAck
  BY <1>19, CommandType DEF HandleAck, Goto
<1>20. CASE SetEvent
  BY <1>20, CommandType DEF SetEvent, Goto
<1>21. CASE HandleError
  BY <1>21, CommandType DEF HandleError, Goto
<1>22. CASE HandleInitReady
  BY <1>22, CommandType DEF HandleInitReady, Goto
<1>23. CASE FrameCallback
  BY <1>23, CommandType DEF FrameCallback, Goto
<1>24. CASE AppendRow
  BY <1>24, CommandType DEF AppendRow, BeginMark, Goto
<1>25. CASE SensorHandles
  <2> DEFINE c == Head(toSensor)
  <2>1. c \in Requests /\ Tail(toSensor) \in Seq(Requests)
    BY <1>25, HeadTailProperties DEF SensorHandles
  <2>2. \A m \in Answer(c) : m \in Events
    <3>1. CASE c.kind = "command"
      BY <2>1, <3>1, MessageType DEF Answer, Requests, Messages
    <3>2. CASE c.kind # "command"
      BY <3>2, MessageType DEF Answer
    <3> QED
      BY <3>1, <3>2
  <2>3. PICK m \in Answer(c) : fromSensor' = Append(fromSensor, m)
    BY <1>25 DEF SensorHandles
  <2>4. fromSensor' \in Seq(Events)
    BY <2>2, <2>3, QueueType
  <2> QED
    BY <1>25, <2>1, <2>4 DEF SensorHandles
<1>26. CASE SensorFrame
  <2>1. Message("frame", "none", demos) \in Events
    BY MessageType DEF CountType
  <2> QED
    BY <1>26, <2>1, QueueType DEF SensorFrame
<1>27. CASE SensorFaults
  <2>1. /\ <<Message("error", "none", 0)>> \in Seq(Events)
        /\ <<Message("garbage", "none", 0)>> \in Seq(Events)
    BY MessageType, QueueType, EmptySeq
  <2> QED
    BY <1>27, <2>1 DEF SensorFaults
<1>28. CASE UNCHANGED vars
  BY <1>28, CommandType
<1> QED
  BY <1>1, <1>2, <1>3, <1>4, <1>5, <1>6, <1>7, <1>8, <1>9, <1>10, <1>11, <1>12, <1>13, <1>14,
     <1>15, <1>16, <1>17, <1>18, <1>19, <1>20, <1>21, <1>22, <1>23, <1>24, <1>25, <1>26, <1>27,
     <1>28
     DEF Next, Commander, Receiver, MarkDisconnected, Terminated, Threads

\* The receive thread handles an event by its kind.
LEMMA HeldTypeStep ==
  ASSUME PlaceType, HeldType, WireType, ChannelAssumption, [Next]_vars
  PROVE  HeldType'
<1> USE DEF HeldType, PlaceType, Threads, acks, link, work, controller, wires, sensor, client,
            thread, outside, history, vars
<1>1. CASE ClearEvent
  BY <1>1, CommandType DEF ClearEvent, Goto, MarkLabels
<1>2. CASE Register
  BY <1>2, CommandType DEF Register, Goto, MarkLabels
<1>3. CASE SendCommand
  BY <1>3, CommandType DEF SendCommand, SendMsg, BeginMark, Goto, MarkLabels
<1>4. CASE SendFailed
  BY <1>4, CommandType DEF SendFailed, Fail, Goto, MarkLabels
<1>5. CASE AckTimeout
  BY <1>5, CommandType DEF AckTimeout, Fail, Goto, MarkLabels
<1>6. CASE Answered
  BY <1>6, CommandType DEF Answered, Goto, MarkLabels
<1>7. CASE Startup
  BY <1>7, CommandType DEF Startup, SendMsg, BeginMark, BeginStop, Begin, Goto, MarkLabels
<1>8. CASE Outcome
  BY <1>8, CommandType DEF Outcome, Started, Back, Begin, BeginStop, Goto, MarkLabels
<1>9. CASE StopClient
  BY <1>9, CommandType DEF StopClient, CloseSocket, Goto, MarkLabels
<1>10. CASE Operate
  BY <1>10, CommandType DEF Operate, Begin, Goto, MarkLabels
<1>11. CASE EndOfRun
  BY <1>11, CommandType DEF EndOfRun, Begin, BeginStop, Goto, MarkLabels
<1>12. ASSUME NEW t \in Threads, MarkClear(t) PROVE HeldType'
  BY <1>12, CommandType DEF MarkClear, Goto, MarkLabels
<1>13. ASSUME NEW t \in Threads, MarkPending(t) PROVE HeldType'
  BY <1>13, CommandType DEF MarkPending, Goto, MarkLabels
<1>14. ASSUME NEW t \in Threads, MarkClose(t) PROVE HeldType'
  BY <1>14, CommandType DEF MarkClose, CloseSocket, Goto, MarkLabels
<1>15. ASSUME NEW t \in Threads, MarkReport(t) PROVE HeldType'
  BY <1>15, CommandType DEF MarkReport, Resume, Goto, MarkLabels
<1>16. CASE Connect
  BY <1>16, CommandType DEF Connect, Goto, MarkLabels
<1>17. CASE Loop
  BY <1>17, CommandType DEF Loop, Goto, MarkLabels
<1>18. CASE Receive
  <2>1. fromSensor # <<>> => Head(fromSensor) \in Events
    BY HeadTailProperties DEF WireType
  <2> QED
    BY <1>18, <2>1 DEF Receive, BeginMark, Goto
<1>19. CASE HandleAck
  BY <1>19, CommandType DEF HandleAck, Goto, MarkLabels
<1>20. CASE SetEvent
  BY <1>20, CommandType DEF SetEvent, Goto, MarkLabels
<1>21. CASE HandleError
  BY <1>21, CommandType DEF HandleError, Goto, MarkLabels
<1>22. CASE HandleInitReady
  BY <1>22, CommandType DEF HandleInitReady, Goto, MarkLabels
<1>23. CASE FrameCallback
  BY <1>23, CommandType DEF FrameCallback, Goto, MarkLabels
<1>24. CASE AppendRow
  BY <1>24, CommandType DEF AppendRow, BeginMark, Goto, MarkLabels
<1>25. CASE SensorHandles
  BY <1>25, CommandType DEF SensorHandles, Answer, MarkLabels
<1>26. CASE SensorFrame
  BY <1>26, CommandType DEF SensorFrame, MarkLabels
<1>27. CASE SensorFaults
  BY <1>27, CommandType DEF SensorFaults, MarkLabels
<1>28. CASE UNCHANGED vars
  BY <1>28, CommandType DEF MarkLabels
<1> QED
  BY <1>1, <1>2, <1>3, <1>4, <1>5, <1>6, <1>7, <1>8, <1>9, <1>10, <1>11, <1>12, <1>13, <1>14,
     <1>15, <1>16, <1>17, <1>18, <1>19, <1>20, <1>21, <1>22, <1>23, <1>24, <1>25, <1>26, <1>27,
     <1>28
     DEF Next, Commander, Receiver, MarkDisconnected, Terminated

\* The controller's state, its handler and the history keep their types.
LEMMA RunTypeStep ==
  ASSUME RunType, PlaceType, ChannelAssumption, [Next]_vars
  PROVE  RunType'
<1> USE DEF RunType, acks, link, work, controller, wires, sensor, client, thread, outside, history,
            vars
<1>1. CASE ClearEvent
  BY <1>1, CommandType DEF ClearEvent, Goto
<1>2. CASE Register
  BY <1>2, CommandType DEF Register, Goto
<1>3. CASE SendCommand
  BY <1>3, CommandType DEF SendCommand, SendMsg, BeginMark, Goto
<1>4. CASE SendFailed
  BY <1>4, CommandType DEF SendFailed, Fail, Goto
<1>5. CASE AckTimeout
  BY <1>5, CommandType DEF AckTimeout, Fail, Goto
<1>6. CASE Answered
  BY <1>6, CommandType DEF Answered, Goto
<1>7. CASE Startup
  <2>1. ASSUME NEW h \in DOMAIN Request, Begin(h)
        PROVE  handler' \in DOMAIN Request /\ sent' \in Seq(Commands)
    BY <2>1, BeginType
  <2> QED
    BY <1>7, <2>1, RequestType DEF Startup, SendMsg, BeginMark, BeginStop, PlaceType
<1>8. CASE Outcome
  <2>1. ASSUME NEW h \in DOMAIN Request, Begin(h)
        PROVE  handler' \in DOMAIN Request /\ sent' \in Seq(Commands)
    BY <2>1, BeginType
  <2> QED
    BY <1>8, <2>1, RequestType, CommandType DEF Outcome, Started, Back, BeginStop, PlaceType
<1>9. CASE StopClient
  BY <1>9, CommandType DEF StopClient, CloseSocket, Goto
<1>10. CASE Operate
  <2>1. ASSUME NEW h \in DOMAIN Request, Begin(h)
        PROVE  handler' \in DOMAIN Request /\ sent' \in Seq(Commands)
    BY <2>1, BeginType
  <2> QED
    BY <1>10, <2>1, RequestType DEF Operate, PlaceType
<1>11. CASE EndOfRun
  <2>1. ASSUME NEW h \in DOMAIN Request, Begin(h)
        PROVE  handler' \in DOMAIN Request /\ sent' \in Seq(Commands)
    BY <2>1, BeginType
  <2> QED
    BY <1>11, <2>1, RequestType DEF EndOfRun, BeginStop, PlaceType
<1>12. ASSUME NEW t \in Threads, MarkClear(t) PROVE RunType'
  BY <1>12, CommandType DEF MarkClear, Goto
<1>13. ASSUME NEW t \in Threads, MarkPending(t) PROVE RunType'
  BY <1>13, CommandType DEF MarkPending, Goto
<1>14. ASSUME NEW t \in Threads, MarkClose(t) PROVE RunType'
  BY <1>14, CommandType DEF MarkClose, CloseSocket, Goto
<1>15. ASSUME NEW t \in Threads, MarkReport(t) PROVE RunType'
  BY <1>15, CommandType DEF MarkReport, Resume, Goto
<1>16. CASE Connect
  BY <1>16, CommandType DEF Connect, Goto
<1>17. CASE Loop
  BY <1>17, CommandType DEF Loop, Goto
<1>18. CASE Receive
  BY <1>18, CommandType DEF Receive, BeginMark, Goto
<1>19. CASE HandleAck
  BY <1>19, CommandType DEF HandleAck, Goto
<1>20. CASE SetEvent
  BY <1>20, CommandType DEF SetEvent, Goto
<1>21. CASE HandleError
  BY <1>21, CommandType DEF HandleError, Goto
<1>22. CASE HandleInitReady
  BY <1>22, CommandType DEF HandleInitReady, Goto
<1>23. CASE FrameCallback
  BY <1>23, CommandType DEF FrameCallback, Goto
<1>24. CASE AppendRow
  BY <1>24, CommandType DEF AppendRow, BeginMark, Goto
<1>25. CASE SensorHandles
  BY <1>25, CommandType DEF SensorHandles, Answer
<1>26. CASE SensorFrame
  BY <1>26, CommandType DEF SensorFrame
<1>27. CASE SensorFaults
  BY <1>27, CommandType DEF SensorFaults
<1>28. CASE UNCHANGED vars
  BY <1>28, CommandType
<1> QED
  BY <1>1, <1>2, <1>3, <1>4, <1>5, <1>6, <1>7, <1>8, <1>9, <1>10, <1>11, <1>12, <1>13, <1>14,
     <1>15, <1>16, <1>17, <1>18, <1>19, <1>20, <1>21, <1>22, <1>23, <1>24, <1>25, <1>26, <1>27,
     <1>28
     DEF Next, Commander, Receiver, MarkDisconnected, Terminated, Threads

\* The main thread's place goes with the controller's state.
LEMMA PlacedStep ==
  ASSUME Typed, Placed, Handled, [Next]_vars
  PROVE  Placed'
<1> USE DEF Placed, Starting, StopLabels, MarkLabels, Threads, PlaceType, Typed, acks, link, work,
            controller, wires, sensor, client, thread, outside, history, vars
<1>1. CASE ClearEvent
  BY <1>1 DEF ClearEvent, Goto
<1>2. CASE Register
  BY <1>2 DEF Register, Goto
<1>3. CASE SendCommand
  BY <1>3, CommandIsNotNone DEF SendCommand, SendMsg, BeginMark, Goto
<1>4. CASE SendFailed
  BY <1>4 DEF SendFailed, Fail, Goto
<1>5. CASE AckTimeout
  BY <1>5 DEF AckTimeout, Fail, Goto
<1>6. CASE Answered
  BY <1>6 DEF Answered, Goto
<1>7. CASE Startup
  BY <1>7 DEF Startup, SendMsg, BeginMark, BeginStop, Begin, Goto
<1>8. CASE Outcome
  BY <1>8 DEF Outcome, Started, Back, Begin, BeginStop, Goto
<1>9. CASE StopClient
  BY <1>9 DEF StopClient, CloseSocket, Goto
<1>10. CASE Operate
  BY <1>10 DEF Operate, Begin, Goto
<1>11. CASE EndOfRun
  BY <1>11 DEF EndOfRun, Begin, BeginStop, Goto
<1>12. ASSUME NEW t \in Threads, MarkClear(t) PROVE Placed'
  BY <1>12 DEF MarkClear, Goto
<1>13. ASSUME NEW t \in Threads, MarkPending(t) PROVE Placed'
  BY <1>13 DEF MarkPending, Goto
<1>14. ASSUME NEW t \in Threads, MarkClose(t) PROVE Placed'
  BY <1>14 DEF MarkClose, CloseSocket, Goto
<1>15. ASSUME NEW t \in Threads, MarkReport(t) PROVE Placed'
  BY <1>15 DEF MarkReport, Resume, Goto
<1>16. CASE Connect
  BY <1>16 DEF Connect, Goto
<1>17. CASE Loop
  BY <1>17 DEF Loop, Goto
<1>18. CASE Receive
  BY <1>18 DEF Receive, BeginMark, Goto
<1>19. CASE HandleAck
  BY <1>19 DEF HandleAck, Goto
<1>20. CASE SetEvent
  BY <1>20 DEF SetEvent, Goto
<1>21. CASE HandleError
  BY <1>21 DEF HandleError, Goto
<1>22. CASE HandleInitReady
  BY <1>22 DEF HandleInitReady, Goto
<1>23. CASE FrameCallback
  BY <1>23 DEF FrameCallback, Goto
<1>24. CASE AppendRow
  BY <1>24 DEF AppendRow, BeginMark, Goto
<1>25. CASE SensorHandles
  BY <1>25 DEF SensorHandles, Answer
<1>26. CASE SensorFrame
  BY <1>26 DEF SensorFrame
<1>27. CASE SensorFaults
  BY <1>27 DEF SensorFaults
<1>28. CASE UNCHANGED vars
  BY <1>28
<1> QED
  BY <1>1, <1>2, <1>3, <1>4, <1>5, <1>6, <1>7, <1>8, <1>9, <1>10, <1>11, <1>12, <1>13, <1>14,
     <1>15, <1>16, <1>17, <1>18, <1>19, <1>20, <1>21, <1>22, <1>23, <1>24, <1>25, <1>26, <1>27,
     <1>28
     DEF Next, Commander, Receiver, MarkDisconnected, Terminated

\* A handler keeps its demo, its states and its command until it is done.
LEMMA HandledStep ==
  ASSUME Typed, Placed, Handled, [Next]_vars
  PROVE  Handled'
<1> USE DEF Handled, Placed, PlaceType, Typed, Starting, Registered, Busy, StopLabels, MarkLabels,
            Threads, StatesOf, cmd, attempt, acks, link, work, controller, wires, sensor, client,
            thread, outside, history, vars
<1>1. CASE ClearEvent
  BY <1>1 DEF ClearEvent, Goto
<1>2. CASE Register
  BY <1>2 DEF Register, Goto
<1>3. CASE SendCommand
  BY <1>3 DEF SendCommand, SendMsg, BeginMark, Goto
<1>4. CASE SendFailed
  BY <1>4 DEF SendFailed, Fail, Goto
<1>5. CASE AckTimeout
  BY <1>5 DEF AckTimeout, Fail, Goto
<1>6. CASE Answered
  BY <1>6 DEF Answered, Goto
<1>7. CASE Startup
  BY <1>7 DEF Startup, SendMsg, BeginMark, BeginStop, Begin, Goto
<1>8. CASE Outcome
  BY <1>8 DEF Outcome, Started, Back, Begin, BeginStop, Goto
<1>9. CASE StopClient
  BY <1>9 DEF StopClient, CloseSocket, Goto
<1>10. CASE Operate
  <2>1. demos + 1 # 0 /\ attempt + 1 \in Nat
    BY CommandType DEF CountType
  <2> QED
    BY <1>10, <2>1, SentMore, RequestType DEF Operate, Begin, Goto, RunType
<1>11. CASE EndOfRun
  BY <1>11 DEF EndOfRun, Begin, BeginStop, Goto
<1>12. ASSUME NEW t \in Threads, MarkClear(t) PROVE Handled'
  BY <1>12 DEF MarkClear, Goto
<1>13. ASSUME NEW t \in Threads, MarkPending(t) PROVE Handled'
  BY <1>13 DEF MarkPending, Goto
<1>14. ASSUME NEW t \in Threads, MarkClose(t) PROVE Handled'
  BY <1>14 DEF MarkClose, CloseSocket, Goto
<1>15. ASSUME NEW t \in Threads, MarkReport(t) PROVE Handled'
  BY <1>15 DEF MarkReport, Resume, Goto
<1>16. CASE Connect
  BY <1>16 DEF Connect, Goto
<1>17. CASE Loop
  BY <1>17 DEF Loop, Goto
<1>18. CASE Receive
  BY <1>18 DEF Receive, BeginMark, Goto
<1>19. CASE HandleAck
  BY <1>19 DEF HandleAck, Goto
<1>20. CASE SetEvent
  BY <1>20 DEF SetEvent, Goto
<1>21. CASE HandleError
  BY <1>21 DEF HandleError, Goto
<1>22. CASE HandleInitReady
  BY <1>22 DEF HandleInitReady, Goto
<1>23. CASE FrameCallback
  BY <1>23 DEF FrameCallback, Goto
<1>24. CASE AppendRow
  BY <1>24 DEF AppendRow, BeginMark, Goto
<1>25. CASE SensorHandles
  BY <1>25 DEF SensorHandles, Answer
<1>26. CASE SensorFrame
  BY <1>26 DEF SensorFrame
<1>27. CASE SensorFaults
  BY <1>27 DEF SensorFaults
<1>28. CASE UNCHANGED vars
  BY <1>28
<1> QED
  BY <1>1, <1>2, <1>3, <1>4, <1>5, <1>6, <1>7, <1>8, <1>9, <1>10, <1>11, <1>12, <1>13, <1>14,
     <1>15, <1>16, <1>17, <1>18, <1>19, <1>20, <1>21, <1>22, <1>23, <1>24, <1>25, <1>26, <1>27,
     <1>28
     DEF Next, Commander, Receiver, MarkDisconnected, Terminated

\* A command is registered and unregistered by the thread that sends it.
LEMMA PendedStep ==
  ASSUME Typed, Placed, Handled, Pended, [Next]_vars
  PROVE  Pended'
<1> USE DEF Pended, Placed, PlaceType, Typed, Starting, Registered, Busy, StopLabels, MarkLabels,
            Threads, cmd, attempt, acks, link, work, controller, wires, sensor, client, thread,
            outside, history, vars
<1>1. CASE ClearEvent
  BY <1>1 DEF ClearEvent, Goto
<1>2. CASE Register
  BY <1>2 DEF Register, Goto
<1>3. CASE SendCommand
  <2>1. Busy
    BY <1>3 DEF SendCommand
  <2>2. attempt \in 1..attempt
    BY <2>1, AttemptSent
  <2> QED
    BY <1>3, <2>2, CommandIsNotNone DEF SendCommand, SendMsg, BeginMark, Goto
<1>4. CASE SendFailed
  <2>1. Busy
    BY <1>4 DEF SendFailed
  <2>2. attempt \in 1..attempt
    BY <2>1, AttemptSent
  <2> QED
    BY <1>4, <2>2 DEF SendFailed, Fail, Goto
<1>5. CASE AckTimeout
  <2>1. Busy
    BY <1>5 DEF AckTimeout
  <2>2. attempt \in 1..attempt
    BY <2>1, AttemptSent
  <2> QED
    BY <1>5, <2>2 DEF AckTimeout, Fail, Goto
<1>6. CASE Answered
  BY <1>6 DEF Answered, Goto
<1>7. CASE Startup
  BY <1>7 DEF Startup, SendMsg, BeginMark, BeginStop, Begin, Goto
<1>8. CASE Outcome
  <2>1. Busy
    BY <1>8 DEF Outcome
  <2>2. attempt \in 1..attempt
    BY <2>1, AttemptSent
  <2>3. 1..attempt \subseteq 1..attempt'
    BY <1>8 DEF Outcome, Started, Back, Begin, BeginStop, RunType
  <2>4. unconfirmed' \subseteq 1..attempt'
    BY <1>8, <2>2, <2>3 DEF Outcome
  <2>5. pending = {} /\ pending' = {} /\ ~Registered'
    BY <1>8 DEF Outcome, Started, Back, Begin, BeginStop, Goto
  <2> QED
    BY <2>4, <2>5
<1>9. CASE StopClient
  BY <1>9 DEF StopClient, CloseSocket, Goto
<1>10. CASE Operate
  BY <1>10 DEF Operate, Begin, Goto
<1>11. CASE EndOfRun
  BY <1>11 DEF EndOfRun, Begin, BeginStop, Goto
<1>12. ASSUME NEW t \in Threads, MarkClear(t) PROVE Pended'
  BY <1>12 DEF MarkClear, Goto
<1>13. ASSUME NEW t \in Threads, MarkPending(t) PROVE Pended'
  <2>1. pending # {} => attempt \in 1..attempt
    BY AttemptSent
  <2> QED
    BY <1>13, <2>1 DEF MarkPending, Goto
<1>14. ASSUME NEW t \in Threads, MarkClose(t) PROVE Pended'
  BY <1>14 DEF MarkClose, CloseSocket, Goto
<1>15. ASSUME NEW t \in Threads, MarkReport(t) PROVE Pended'
  BY <1>15 DEF MarkReport, Resume, Goto
<1>16. CASE Connect
  BY <1>16 DEF Connect, Goto
<1>17. CASE Loop
  BY <1>17 DEF Loop, Goto
<1>18. CASE Receive
  BY <1>18 DEF Receive, BeginMark, Goto
<1>19. CASE HandleAck
  BY <1>19 DEF HandleAck, Goto
<1>20. CASE SetEvent
  BY <1>20 DEF SetEvent, Goto
<1>21. CASE HandleError
  <2>1. pending # {} => attempt \in 1..attempt
    BY AttemptSent
  <2>2. unconfirmed' \subseteq unconfirmed \cup IF pending = {} THEN {} ELSE {attempt}
    BY <1>21 DEF HandleError
  <2> QED
    BY <1>21, <2>1, <2>2 DEF HandleError, Goto
<1>22. CASE HandleInitReady
  BY <1>22 DEF HandleInitReady, Goto
<1>23. CASE FrameCallback
  BY <1>23 DEF FrameCallback, Goto
<1>24. CASE AppendRow
  BY <1>24 DEF AppendRow, BeginMark, Goto
<1>25. CASE SensorHandles
  BY <1>25 DEF SensorHandles, Answer
<1>26. CASE SensorFrame
  BY <1>26 DEF SensorFrame
<1>27. CASE SensorFaults
  BY <1>27 DEF SensorFaults
<1>28. CASE UNCHANGED vars
  BY <1>28
<1> QED
  BY <1>1, <1>2, <1>3, <1>4, <1>5, <1>6, <1>7, <1>8, <1>9, <1>10, <1>11, <1>12, <1>13, <1>14,
     <1>15, <1>16, <1>17, <1>18, <1>19, <1>20, <1>21, <1>22, <1>23, <1>24, <1>25, <1>26, <1>27,
     <1>28
     DEF Next, Commander, Receiver, MarkDisconnected, Terminated

-----------------------------------------------------------------------------
(***************************************************************************)
(* What a step does to the messages.                                       *)
(***************************************************************************)
\* The queues are left alone, or emptied with the connection.
Kept   == UNCHANGED <<toSensor, fromSensor>>
Closed == toSensor' = <<>> /\ fromSensor' = <<>>
\* The commander writes a message.
Written(m) == toSensor' = Append(toSensor, m) /\ UNCHANGED fromSensor
\* The sensor takes one, and answers it; it writes of itself.
Served == /\ toSensor # <<>> /\ toSensor' = Tail(toSensor)
          /\ \E m \in Answer(Head(toSensor)) :
               /\ fromSensor' = Append(fromSensor, m)
               /\ capturing' = IF m.kind = "ack" THEN m.name = "START_REQ" ELSE capturing
Uttered(m) == /\ fromSensor' = Append(fromSensor, m) /\ UNCHANGED toSensor
              /\ ~Numbered(m)
              /\ IsFrame(m) => capturing /\ m.n = demos

\* The receive thread takes one.
Read == /\ pc["receiver"] = "recv" /\ fromSensor # <<>>
        /\ fromSensor' = Tail(fromSensor) /\ UNCHANGED toSensor
        /\ \/ pc'["receiver"] = "handle" /\ held' = Head(fromSensor)
           \/ pc'["receiver"] = "mark_clear"

\* What the receive thread held it still holds, has filed, or is done with.
Released == /\ Filing' \subseteq Filing /\ Setting' \subseteq Filing \cup Setting
            /\ Filing' \cup Setting' # {} => held' = held

\* A step reads a message, or does one of the others and leaves what is held where it is or later.
LEMMA WireCases ==
  ASSUME Typed, Handled, [Next]_vars
  PROVE  \/ Read
         \/ /\ Released
            /\ \/ Kept \/ Closed \/ Written(None) \/ Served
               \/ /\ Written(Message("command", cmd, attempt))
                  /\ pc["commander"] = "send" /\ pc'["commander"] = "wait"
               \/ \E m \in Events : Uttered(m)
<1> USE DEF Released, Filing, Setting, Kept, Closed, PlaceType, Typed, Threads, MarkLabels, acks,
            link, work, controller, wires, sensor, client, thread, outside, history, vars
<1>1. ASSUME ClearEvent PROVE Released /\ Kept
  BY <1>1 DEF ClearEvent, Goto
<1>2. ASSUME Register PROVE Released /\ Kept
  BY <1>2 DEF Register, Goto
<1>3. ASSUME SendCommand PROVE /\ Released
                    /\ \/ Kept
                       \/ /\ Written(Message("command", cmd, attempt))
                          /\ pc["commander"] = "send" /\ pc'["commander"] = "wait"
  BY <1>3, CommandIsNotNone DEF SendCommand, SendMsg, BeginMark, Goto, Written
<1>4. ASSUME SendFailed PROVE Released /\ Kept
  BY <1>4 DEF SendFailed, Fail, Goto
<1>5. ASSUME AckTimeout PROVE Released /\ Kept
  BY <1>5 DEF AckTimeout, Fail, Goto
<1>6. ASSUME Answered PROVE Released /\ Kept
  BY <1>6 DEF Answered, Goto
<1>7. ASSUME Startup PROVE Released /\ (Kept \/ Written(None))
  BY <1>7 DEF Startup, SendMsg, BeginMark, BeginStop, Begin, Goto, Written
<1>8. ASSUME Outcome PROVE Released /\ Kept
  BY <1>8 DEF Outcome, Started, Back, Begin, BeginStop, Goto
<1>9. ASSUME StopClient PROVE Released /\ (Kept \/ Closed)
  BY <1>9 DEF StopClient, CloseSocket, Goto
<1>10. ASSUME Operate PROVE Released /\ Kept
  BY <1>10 DEF Operate, Begin, Goto
<1>11. ASSUME EndOfRun PROVE Released /\ Kept
  BY <1>11 DEF EndOfRun, Begin, BeginStop, Goto
<1>12. ASSUME NEW t \in Threads, MarkClear(t) PROVE Released /\ Kept
  BY <1>12 DEF MarkClear, Goto
<1>13. ASSUME NEW t \in Threads, MarkPending(t) PROVE Released /\ Kept
  BY <1>13 DEF MarkPending, Goto
<1>14. ASSUME NEW t \in Threads, MarkClose(t) PROVE Released /\ (Kept \/ Closed)
  BY <1>14 DEF MarkClose, CloseSocket, Goto
<1>15. ASSUME NEW t \in Threads, MarkReport(t) PROVE Released /\ Kept
  BY <1>15 DEF MarkReport, Resume, Goto
<1>16. ASSUME Connect PROVE Released /\ (Kept \/ Closed)
  BY <1>16 DEF Connect, Goto
<1>17. ASSUME Loop PROVE Released /\ Kept
  BY <1>17 DEF Loop, Goto
<1>18. ASSUME Receive PROVE Read \/ (Released /\ Kept)
  BY <1>18 DEF Receive, BeginMark, Goto, HeldType, Numbered, Read
<1>19. ASSUME HandleAck PROVE Released /\ Kept
  <2>1. Numbered(held)
    BY <1>19 DEF HandleAck, HeldType, Events, Numbered
  <2>2. pc'["receiver"] = "set_event" /\ pc["receiver"] = "handle"
    BY <1>19 DEF HandleAck, Goto
  <2> QED
    BY <1>19, <2>1, <2>2 DEF HandleAck
<1>20. ASSUME SetEvent PROVE Released /\ Kept
  BY <1>20 DEF SetEvent, Goto, HeldType, Numbered
<1>21. ASSUME HandleError PROVE Released /\ Kept
  BY <1>21 DEF HandleError, Goto
<1>22. ASSUME HandleInitReady PROVE Released /\ Kept
  BY <1>22 DEF HandleInitReady, Goto
<1>23. ASSUME FrameCallback PROVE Released /\ Kept
  BY <1>23 DEF FrameCallback, Goto
<1>24. ASSUME AppendRow PROVE Released /\ Kept
  BY <1>24 DEF AppendRow, BeginMark, Goto
<1>25. ASSUME SensorHandles PROVE Released /\ Served
  BY <1>25 DEF SensorHandles, Served
<1>26. ASSUME SensorFrame PROVE Released /\ \E m \in Events : Uttered(m)
  <2>1. Message("frame", "none", demos) \in Events
    BY MessageType DEF CountType
  <2>2. ~Numbered(Message("frame", "none", demos)) /\ Message("frame", "none", demos).n = demos
    BY DEF Numbered, Message
  <2> QED
    BY <1>26, <2>1, <2>2 DEF SensorFrame, Uttered
<1>27. ASSUME SensorFaults PROVE Released /\ (Kept \/ \E m \in Events : Uttered(m))
  <2>1. \A k \in {"error", "garbage"} :
          /\ Message(k, "none", 0) \in Events /\ ~Numbered(Message(k, "none", 0))
          /\ ~IsFrame(Message(k, "none", 0))
          /\ <<Message(k, "none", 0)>> = Append(<<>>, Message(k, "none", 0))
    BY MessageType, SingleQueue DEF Numbered, Message, IsFrame
  <2> QED
    BY <1>27, <2>1 DEF SensorFaults, Uttered
<1>28. ASSUME UNCHANGED vars PROVE Released /\ Kept
  BY <1>28
<1> QED
  BY <1>1, <1>2, <1>3, <1>4, <1>5, <1>6, <1>7, <1>8, <1>9, <1>10, <1>11, <1>12, <1>13, <1>14,
     <1>15, <1>16, <1>17, <1>18, <1>19, <1>20, <1>21, <1>22, <1>23, <1>24, <1>25, <1>26, <1>27,
     <1>28
     DEF Next, Commander, Receiver, MarkDisconnected, Terminated

\* A command goes on, or a handler begins another.
Continues == /\ sent' = sent
             /\ pc'["commander"] \in {"clear", "register", "send"}
                  => pc["commander"] \in {"clear", "register", "send"}
Begins == /\ \E c \in Commands : sent' = Append(sent, c)
          /\ UNCHANGED <<toSensor, fromSensor, held>>
          /\ pc'["receiver"] = pc["receiver"] /\ pc'["commander"] = "clear"

\* A step begins a new attempt only with the queues as they are.
LEMMA SentCases ==
  ASSUME Typed, [Next]_vars
  PROVE  Continues \/ Begins
<1> USE DEF Continues, Typed, PlaceType, Threads, acks, link, work, controller, wires, sensor,
            client, thread, outside, history, vars
<1>1. ASSUME ClearEvent PROVE Continues
  BY <1>1 DEF ClearEvent, Goto, MarkLabels
<1>2. ASSUME Register PROVE Continues
  BY <1>2 DEF Register, Goto, MarkLabels
<1>3. ASSUME SendCommand PROVE Continues
  BY <1>3 DEF SendCommand, SendMsg, BeginMark, Goto, MarkLabels
<1>4. ASSUME SendFailed PROVE Continues
  BY <1>4 DEF SendFailed, Fail, Goto, MarkLabels
<1>5. ASSUME AckTimeout PROVE Continues
  BY <1>5 DEF AckTimeout, Fail, Goto, MarkLabels
<1>6. ASSUME Answered PROVE Continues
  BY <1>6 DEF Answered, Goto, MarkLabels
<1>7. CASE Startup
  BY <1>7, RequestType DEF Startup, SendMsg, BeginMark, BeginStop, Begin, Goto, Begins, RunType
<1>8. CASE Outcome
  BY <1>8, RequestType DEF Outcome, Started, Back, Begin, BeginStop, Goto, Begins, RunType
<1>9. ASSUME StopClient PROVE Continues
  BY <1>9 DEF StopClient, CloseSocket, Goto, MarkLabels
<1>10. CASE Operate
  BY <1>10, RequestType DEF Operate, Begin, Goto, Begins, RunType
<1>11. CASE EndOfRun
  BY <1>11, RequestType DEF EndOfRun, Begin, BeginStop, Goto, Begins, RunType
<1>12. ASSUME NEW t \in Threads, MarkClear(t) PROVE Continues
  BY <1>12 DEF MarkClear, Goto, MarkLabels
<1>13. ASSUME NEW t \in Threads, MarkPending(t) PROVE Continues
  BY <1>13 DEF MarkPending, Goto, MarkLabels
<1>14. ASSUME NEW t \in Threads, MarkClose(t) PROVE Continues
  BY <1>14 DEF MarkClose, CloseSocket, Goto, MarkLabels
<1>15. ASSUME NEW t \in Threads, MarkReport(t) PROVE Continues
  BY <1>15 DEF MarkReport, Resume, Goto, MarkLabels
<1>16. ASSUME Connect PROVE Continues
  BY <1>16 DEF Connect, Goto, MarkLabels
<1>17. ASSUME Loop PROVE Continues
  BY <1>17 DEF Loop, Goto, MarkLabels
<1>18. ASSUME Receive PROVE Continues
  BY <1>18 DEF Receive, BeginMark, Goto, MarkLabels
<1>19. ASSUME HandleAck PROVE Continues
  BY <1>19 DEF HandleAck, Goto, MarkLabels
<1>20. ASSUME SetEvent PROVE Continues
  BY <1>20 DEF SetEvent, Goto, MarkLabels
<1>21. ASSUME HandleError PROVE Continues
  BY <1>21 DEF HandleError, Goto, MarkLabels
<1>22. ASSUME HandleInitReady PROVE Continues
  BY <1>22 DEF HandleInitReady, Goto, MarkLabels
<1>23. ASSUME FrameCallback PROVE Continues
  BY <1>23 DEF FrameCallback, Goto, MarkLabels
<1>24. ASSUME AppendRow PROVE Continues
  BY <1>24 DEF AppendRow, BeginMark, Goto, MarkLabels
<1>25. ASSUME SensorHandles PROVE Continues
  BY <1>25 DEF SensorHandles, Answer, MarkLabels
<1>26. ASSUME SensorFrame PROVE Continues
  BY <1>26 DEF SensorFrame, MarkLabels
<1>27. ASSUME SensorFaults PROVE Continues
  BY <1>27 DEF SensorFaults, MarkLabels
<1>28. ASSUME UNCHANGED vars PROVE Continues
  BY <1>28 DEF MarkLabels
<1> QED
  BY <1>1, <1>2, <1>3, <1>4, <1>5, <1>6, <1>7, <1>8, <1>9, <1>10, <1>11, <1>12, <1>13, <1>14,
     <1>15, <1>16, <1>17, <1>18, <1>19, <1>20, <1>21, <1>22, <1>23, <1>24, <1>25, <1>26, <1>27,
     <1>28
     DEF Next, Commander, Receiver, MarkDisconnected, Terminated

\* Both queues are queues of messages.
LEMMA QueueMessages ==
  ASSUME WireType
  PROVE  toSensor \in Seq(Messages) /\ fromSensor \in Seq(Messages)
<1>1. Requests \subseteq Messages /\ Events \subseteq Messages
  BY DEF Requests, Events
<1> QED
  BY <1>1, SeqMonotonic DEF WireType

\* The attempts on the queues are attempts.
LEMMA NumbersSent ==
  ASSUME Typed, Sorted, Fronted
  PROVE  Unread \subseteq 1..attempt /\ UnderWay \subseteq 1..attempt
<1>1. Numbers(toSensor) \subseteq 1..attempt /\ Numbers(fromSensor) \subseteq 1..attempt
  BY DEF Sorted, NamedBy, Numbers, attempt
<1> QED
  BY <1>1 DEF Unread, UnderWay, Unfiled, Fronted, Filing, Setting

\* The command at the head of the sensor's queue, and its answers.
LEMMA ServedAnswer ==
  ASSUME Typed, toSensor # <<>>, NEW m \in Answer(Head(toSensor))
  PROVE  /\ m \in Events
         /\ Numbered(Head(toSensor)) <=> Numbered(m)
         /\ Numbered(m) => m.n = Head(toSensor).n /\ m.name = Head(toSensor).name
         /\ ~Numbered(m) => m.kind = "ready"
         /\ m.kind # "frame"
<1>1. Head(toSensor) \in Requests
  BY HeadTailProperties DEF Typed, WireType
<1>2. CASE Head(toSensor).kind = "command"
  <2>1. /\ Head(toSensor).name \in Commands /\ Head(toSensor).n \in Nat \ {0}
    BY <1>1, <1>2 DEF Requests, Messages
  <2>2. m.kind \in {"ack", "error"} /\ m.name = Head(toSensor).name /\ m.n = Head(toSensor).n
    BY <1>2 DEF Answer, Message
  <2>3. m \in Events
    BY <1>2, <2>1, MessageType DEF Answer
  <2> QED
    BY <1>2, <2>1, <2>2, <2>3 DEF Numbered
<1>3. CASE Head(toSensor).kind # "command"
  <2>1. Head(toSensor).kind = "none"
    BY <1>1, <1>3 DEF Requests
  <2>2. m = Message("ready", "none", 0)
    BY <1>3 DEF Answer
  <2> QED
    BY <2>1, <2>2, MessageType DEF Numbered, Message
<1> QED
  BY <1>2, <1>3

\* What each change of the queues does to the attempts on them.
LEMMA NumbersCases ==
  ASSUME Typed, Sorted, Handled
  PROVE  /\ Kept => Numbers(toSensor') = Numbers(toSensor)
                    /\ Numbers(fromSensor') = Numbers(fromSensor)
         /\ Closed => Numbers(toSensor') = {} /\ Numbers(fromSensor') = {}
         /\ Written(None) => Numbers(toSensor') = Numbers(toSensor)
                             /\ Numbers(fromSensor') = Numbers(fromSensor)
         /\ Busy /\ Written(Message("command", cmd, attempt)) =>
              /\ Numbers(toSensor') = Numbers(toSensor) \cup {attempt}
              /\ Numbers(fromSensor') = Numbers(fromSensor)
         /\ Served => /\ Numbers(toSensor') \subseteq Numbers(toSensor)
                      /\ Numbers(toSensor') \cup Numbers(fromSensor')
                           = Numbers(toSensor) \cup Numbers(fromSensor)
         /\ Read => /\ Numbers(toSensor') = Numbers(toSensor)
                    /\ Numbers(fromSensor') \subseteq Numbers(fromSensor)
                    /\ Numbered(Head(fromSensor)) =>
                         /\ Head(fromSensor).n \in Numbers(fromSensor)
                         /\ \A k \in Numbers(fromSensor') : Head(fromSensor).n < k
         /\ \A m \in Events : Uttered(m) =>
              Numbers(toSensor') = Numbers(toSensor) /\ Numbers(fromSensor') = Numbers(fromSensor)
<1> USE QueueMessages DEF Typed
<1>1. Kept => Numbers(toSensor') = Numbers(toSensor) /\ Numbers(fromSensor') = Numbers(fromSensor)
  BY DEF Kept
<1>2. Closed => Numbers(toSensor') = {} /\ Numbers(fromSensor') = {}
  BY EmptyQueue DEF Closed
<1>3. Written(None) => Numbers(toSensor') = Numbers(toSensor)
                       /\ Numbers(fromSensor') = Numbers(fromSensor)
  <2>1. None \in Messages /\ ~Numbered(None)
    BY MessageType DEF Requests, None, Message, Numbered
  <2> QED
    BY <2>1, AppendNumbers DEF Written
<1>4. ASSUME Busy, Written(Message("command", cmd, attempt))
      PROVE  /\ Numbers(toSensor') = Numbers(toSensor) \cup {attempt}
             /\ Numbers(fromSensor') = Numbers(fromSensor)
  <2> DEFINE m == Message("command", cmd, attempt)
  <2>1. attempt # 0 /\ cmd \in Commands /\ attempt \in Nat
    BY <1>4, AttemptSent, CommandType
  <2>2. m \in Messages
    BY <2>1, MessageType DEF Requests
  <2>3. Numbered(m) /\ m.n = attempt
    BY <2>1 DEF Numbered, Message
  <2> QED
    BY <1>4, <2>2, <2>3, AppendNumbers DEF Written
<1>5. ASSUME Served
      PROVE  /\ Numbers(toSensor') \subseteq Numbers(toSensor)
             /\ Numbers(toSensor') \cup Numbers(fromSensor')
                  = Numbers(toSensor) \cup Numbers(fromSensor)
  <2>1. PICK m \in Answer(Head(toSensor)) : fromSensor' = Append(fromSensor, m)
    BY <1>5 DEF Served
  <2>2. /\ m \in Messages /\ (Numbered(Head(toSensor)) <=> Numbered(m))
        /\ Numbered(m) => m.n = Head(toSensor).n
    BY <1>5, ServedAnswer DEF Served, Events
  <2>3. Numbers(fromSensor') = Numbers(fromSensor) \cup (IF Numbered(m) THEN {m.n} ELSE {})
    BY <2>1, <2>2, AppendNumbers
  <2>4. Numbers(toSensor) = Numbers(toSensor')
                              \cup (IF Numbered(Head(toSensor)) THEN {Head(toSensor).n} ELSE {})
    BY <1>5, TailNumbers DEF Served
  <2> QED
    BY <2>2, <2>3, <2>4
<1>6. ASSUME Read
      PROVE  /\ Numbers(toSensor') = Numbers(toSensor)
             /\ Numbers(fromSensor') \subseteq Numbers(fromSensor)
             /\ Numbered(Head(fromSensor)) =>
                  /\ Head(fromSensor).n \in Numbers(fromSensor)
                  /\ \A k \in Numbers(fromSensor') : Head(fromSensor).n < k
  BY <1>6, TailNumbers DEF Read, Sorted
<1>7. ASSUME NEW m \in Events, Uttered(m)
      PROVE  Numbers(toSensor') = Numbers(toSensor) /\ Numbers(fromSensor') = Numbers(fromSensor)
  BY <1>7, AppendNumbers DEF Uttered, Events
<1> QED
  BY <1>1, <1>2, <1>3, <1>4, <1>5, <1>6, <1>7

\* The names of the attempts stay when a command is added.
LEMMA NamedStays ==
  ASSUME Typed, [Next]_vars
  PROVE  /\ \A q \in Seq(Messages) : NamedBy(q, sent) => NamedBy(q, sent')
         /\ attempt \in Nat /\ attempt' \in Nat /\ 1..attempt \subseteq 1..(attempt')
         /\ \A n \in 1..attempt : sent'[n] = sent[n]
<1>1. CASE sent' = sent
  BY <1>1, CommandType DEF Typed, attempt
<1>2. ASSUME NEW c \in Commands, sent' = Append(sent, c)
      PROVE  /\ \A q \in Seq(Messages) : NamedBy(q, sent) => NamedBy(q, sent')
             /\ attempt \in Nat /\ attempt' = attempt + 1
             /\ \A n \in 1..attempt : sent'[n] = sent[n]
  BY <1>2, NamedByMore, SentMore DEF Typed, RunType, attempt
<1> QED
  BY <1>1, <1>2, SentCases DEF Continues, Begins

\* The messages stay in order.
LEMMA SortedStep ==
  ASSUME Typed, Handled, Sorted, Fronted, Fresh, [Next]_vars
  PROVE  Sorted'
<1>1. /\ \A q \in Seq(Messages) : NamedBy(q, sent) => NamedBy(q, sent')
      /\ toSensor \in Seq(Messages) /\ fromSensor \in Seq(Messages)
  BY NamedStays, QueueMessages DEF Typed
<1>2. /\ NamedBy(toSensor, sent') /\ NamedBy(fromSensor, sent')
      /\ Ascending(toSensor) /\ Ascending(fromSensor)
      /\ \A m \in Numbers(fromSensor), n \in Numbers(toSensor) : m < n
  BY <1>1 DEF Sorted
<1>3. CASE Kept
  BY <1>2, <1>3 DEF Kept, Sorted
<1>4. CASE Closed
  BY <1>4, EmptyQueue DEF Closed, Sorted
<1>5. CASE Written(None)
  <2>1. None \in Messages /\ ~Numbered(None)
    BY MessageType DEF Requests, None, Message, Numbered
  <2>2. NamedBy(toSensor', sent') /\ Ascending(toSensor')
    BY <1>1, <1>2, <1>5, <2>1, AppendNumbers DEF Written
  <2> QED
    BY <1>2, <1>5, <2>2, NumbersCases DEF Written, Sorted
<1>6. CASE pc["commander"] = "send" /\ Written(Message("command", cmd, attempt))
  <2> DEFINE m == Message("command", cmd, attempt)
  <2>1. Busy
    BY <1>6 DEF Busy, Registered
  <2>2. /\ attempt \in 1..attempt /\ attempt \in Nat \ {0} /\ cmd \in Commands
        /\ sent[attempt] = cmd /\ attempt \notin UnderWay /\ Unread \subseteq 1..attempt
    BY <1>6, <2>1, AttemptSent, CommandType, NumbersSent DEF Typed, Handled, Fresh
  <2>3. m \in Messages /\ m.n = attempt /\ m.name = cmd
    BY <2>2, MessageType DEF Requests, Message
  <2>4. \A k \in Unread : k < attempt
    BY <2>2 DEF UnderWay, Unfiled
  <2>5. NamedBy(toSensor, sent) => NamedBy(toSensor', sent)
    BY <1>1, <1>6, <2>2, <2>3, AppendNumbers DEF Written, attempt
  <2>6. Ascending(toSensor')
    BY <1>1, <1>2, <1>6, <2>3, <2>4, AppendNumbers DEF Written, Unread
  <2>7. toSensor' \in Seq(Messages)
    BY <1>1, <1>6, <2>3, AppendProperties DEF Written
  <2>8. \A j \in Numbers(fromSensor'), n \in Numbers(toSensor') : j < n
    BY <1>2, <1>6, <2>1, <2>4, NumbersCases DEF Unread
  <2> QED
    BY <1>1, <1>2, <1>6, <2>5, <2>6, <2>7, <2>8 DEF Written, Sorted
<1>7. CASE Served
  <2>1. PICK m \in Answer(Head(toSensor)) : fromSensor' = Append(fromSensor, m)
    BY <1>7 DEF Served
  <2>2. /\ m \in Messages /\ (Numbered(Head(toSensor)) <=> Numbered(m))
        /\ Numbered(m) => m.n = Head(toSensor).n /\ m.name = Head(toSensor).name
    BY <1>7, ServedAnswer DEF Served, Events
  <2>3. /\ Numbers(toSensor) = Numbers(toSensor')
                                 \cup (IF Numbered(m) THEN {m.n} ELSE {})
        /\ NamedBy(toSensor', sent') /\ Ascending(toSensor')
        /\ Numbered(m) => m.n \in 1..Len(sent') /\ m.name = sent'[m.n]
        /\ Numbered(m) => \A k \in Numbers(toSensor') : m.n < k
    BY <1>1, <1>2, <1>7, <2>2, TailNumbers DEF Served
  <2>4. /\ Numbers(fromSensor') = Numbers(fromSensor) \cup (IF Numbered(m) THEN {m.n} ELSE {})
        /\ NamedBy(fromSensor', sent') /\ Ascending(fromSensor')
    BY <1>1, <1>2, <2>1, <2>2, <2>3, AppendNumbers
  <2>5. \A j \in Numbers(fromSensor'), n \in Numbers(toSensor') : j < n
    BY <1>2, <2>3, <2>4
  <2> QED
    BY <2>3, <2>4, <2>5 DEF Sorted
<1>8. CASE Read
  <2>1. NamedBy(fromSensor', sent') /\ Ascending(fromSensor')
    BY <1>1, <1>2, <1>8, TailNumbers DEF Read
  <2> QED
    BY <1>2, <1>8, <2>1, NumbersCases DEF Read, Sorted
<1>9. ASSUME NEW m \in Events, Uttered(m) PROVE Sorted'
  <2>1. NamedBy(fromSensor', sent') /\ Ascending(fromSensor')
    BY <1>1, <1>2, <1>9, AppendNumbers DEF Uttered, Events
  <2> QED
    BY <1>2, <1>9, <2>1, NumbersCases DEF Uttered, Sorted
<1> QED
  BY <1>3, <1>4, <1>5, <1>6, <1>7, <1>8, <1>9, WireCases

\* The command is sent.
Sends == /\ pc["commander"] = "send" /\ pc'["commander"] = "wait" /\ Busy
         /\ Written(Message("command", cmd, attempt))
         /\ Filing' \subseteq Filing /\ Setting' \subseteq Filing \cup Setting
         /\ Filing' \cup Setting' # {} => held' = held
         /\ Unread' = Unread \cup {attempt}

\* The receive thread takes the first answer.
Takes == /\ Read
         /\ Unfiled' \subseteq Unfiled /\ Unread' \subseteq Unread
         /\ Numbers(toSensor') \subseteq Numbers(toSensor)
         /\ Setting' = {} /\ Filing \cup Setting = {}
         /\ Filing' # {} => /\ Filing' = {held'.n} /\ held'.n \in Numbers(fromSensor)
                            /\ held'.name = sent[held'.n] /\ held'.n \in 1..attempt
                            /\ \A k \in Unread' : held'.n < k

\* There is no third way for the answers under way to change.
LEMMA UnderWayCases ==
  ASSUME Typed, Handled, Sorted, [Next]_vars
  PROVE  \/ Sends
         \/ Takes
         \/ /\ Released /\ Unread' \subseteq Unread
            /\ Numbers(toSensor') \subseteq Numbers(toSensor)
<1>1. CASE Read
  <2>1. Filing \cup Setting = {} /\ Setting' = {}
    BY <1>1 DEF Read, Filing, Setting
  <2>2. Unread' \subseteq Unread
    BY <1>1, NumbersCases DEF Unread
  <2>3. ASSUME Filing' # {}
        PROVE  /\ Filing' = {held'.n} /\ held'.n \in Numbers(fromSensor)
               /\ held'.name = sent[held'.n] /\ held'.n \in 1..attempt
               /\ \A k \in Unread' : held'.n < k
    <3>1. held' = Head(fromSensor) /\ Numbered(held') /\ Filing' = {held'.n}
      BY <1>1, <2>3 DEF Read, Filing
    <3>2. /\ held'.n \in Numbers(fromSensor)
          /\ \A k \in Numbers(fromSensor') : held'.n < k
      BY <1>1, <3>1, NumbersCases
    <3>3. \A k \in Numbers(toSensor') : held'.n < k
      BY <1>1, <3>2, NumbersCases DEF Sorted
    <3>4. held'.n \in 1..attempt /\ held'.name = sent[held'.n]
      BY <1>1, <3>1, TailNumbers, QueueMessages DEF Read, Sorted, Typed, attempt
    <3> QED
      BY <3>1, <3>2, <3>3, <3>4 DEF Unread
  <2> QED
    BY <1>1, <2>1, <2>2, <2>3, NumbersCases DEF Takes, Unfiled, Unread
<1>2. CASE Released /\ (Kept \/ Closed \/ Written(None) \/ Served
                          \/ \E m \in Events : Uttered(m))
  BY <1>2, NumbersCases DEF Unread
<1>3. CASE /\ Released /\ Written(Message("command", cmd, attempt))
           /\ pc["commander"] = "send" /\ pc'["commander"] = "wait"
  <2>1. Busy
    BY <1>3 DEF Busy, Registered
  <2> QED
    BY <1>3, <2>1, NumbersCases DEF Sends, Released, Unread
<1> QED
  BY <1>1, <1>2, <1>3, WireCases

\* What the receive thread holds stays in front.
LEMMA FrontedStep ==
  ASSUME Typed, Handled, Sorted, Fronted, Fresh, [Next]_vars
  PROVE  Fronted'
<1>1. /\ attempt \in Nat /\ attempt' \in Nat /\ 1..attempt \subseteq 1..(attempt')
      /\ \A n \in 1..attempt : sent'[n] = sent[n]
  BY NamedStays
<1>2. CASE Released /\ Unread' \subseteq Unread
  BY <1>1, <1>2 DEF Fronted, Released
<1>3. CASE Takes
  BY <1>1, <1>3 DEF Fronted, Takes
<1>4. CASE Sends
  <2>1. attempt \notin UnderWay /\ UnderWay \subseteq 1..attempt
    BY <1>4, NumbersSent DEF Sends, Fresh
  <2>2. \A m \in Filing \cup Setting : m < attempt
    BY <1>1, <2>1 DEF UnderWay, Unfiled
  <2> QED
    BY <1>1, <1>4, <2>2 DEF Fronted, Sends
<1> QED
  BY <1>2, <1>3, <1>4, UnderWayCases

\* The command under way is new.
LEMMA FreshStep ==
  ASSUME Typed, Handled, Sorted, Fronted, Fresh, [Next]_vars
  PROVE  Fresh'
<1> SUFFICES ASSUME pc'["commander"] \in {"clear", "register", "send"}
             PROVE  attempt' \notin UnderWay'
  BY DEF Fresh
<1>1. UnderWay' \subseteq UnderWay
  BY UnderWayCases DEF UnderWay, Unfiled, Released, Sends, Takes
<1>2. CASE Continues
  BY <1>1, <1>2 DEF Continues, Fresh, attempt
<1>3. CASE Begins
  <2>1. attempt' = attempt + 1 /\ attempt \in Nat
    BY <1>3, SentMore DEF Begins, Typed, attempt
  <2>2. UnderWay \subseteq 1..attempt
    BY NumbersSent
  <2> QED
    BY <1>1, <2>1, <2>2
<1> QED
  BY <1>2, <1>3, SentCases

-----------------------------------------------------------------------------
(***************************************************************************)
(* What a step does to the command under way.                              *)
(***************************************************************************)
\* The main thread decides what comes next.
Moves == Startup \/ Outcome \/ Operate \/ EndOfRun

\* Every other step goes on with the same handler and command.
Steady == /\ UNCHANGED <<state, handler, sent, store, demos>>
          /\ cmd' = cmd /\ attempt' = attempt
          /\ Busy' <=> Busy
          /\ pc'["commander"] = "loop" <=> pc["commander"] = "loop"

\* The steps are these two kinds.
LEMMA SteadyCases ==
  ASSUME Typed, Placed, [Next]_vars
  PROVE  Steady \/ Moves
<1> USE DEF Steady, Placed, cmd, attempt, Busy, Registered, Starting, Typed, PlaceType, Threads,
            MarkLabels, acks, link, work, controller, wires, sensor, client, thread, outside,
            history, vars
<1>1. ASSUME ClearEvent PROVE Steady
  BY <1>1 DEF ClearEvent, Goto
<1>2. ASSUME Register PROVE Steady
  BY <1>2 DEF Register, Goto
<1>3. ASSUME SendCommand PROVE Steady
  BY <1>3, CommandIsNotNone DEF SendCommand, SendMsg, BeginMark, Goto
<1>4. ASSUME SendFailed PROVE Steady
  BY <1>4 DEF SendFailed, Fail, Goto
<1>5. ASSUME AckTimeout PROVE Steady
  BY <1>5 DEF AckTimeout, Fail, Goto
<1>6. ASSUME Answered PROVE Steady
  BY <1>6 DEF Answered, Goto
<1>7. ASSUME StopClient PROVE Steady
  BY <1>7 DEF StopClient, CloseSocket, Goto
<1>8. ASSUME NEW t \in Threads, MarkClear(t) PROVE Steady
  BY <1>8 DEF MarkClear, Goto
<1>9. ASSUME NEW t \in Threads, MarkPending(t) PROVE Steady
  BY <1>9 DEF MarkPending, Goto
<1>10. ASSUME NEW t \in Threads, MarkClose(t) PROVE Steady
  BY <1>10 DEF MarkClose, CloseSocket, Goto
<1>11. ASSUME NEW t \in Threads, MarkReport(t) PROVE Steady
  BY <1>11 DEF MarkReport, Resume, Goto
<1>12. ASSUME Connect PROVE Steady
  BY <1>12 DEF Connect, Goto
<1>13. ASSUME Loop PROVE Steady
  BY <1>13 DEF Loop, Goto
<1>14. ASSUME Receive PROVE Steady
  BY <1>14 DEF Receive, BeginMark, Goto
<1>15. ASSUME HandleAck PROVE Steady
  BY <1>15 DEF HandleAck, Goto
<1>16. ASSUME SetEvent PROVE Steady
  BY <1>16 DEF SetEvent, Goto
<1>17. ASSUME HandleError PROVE Steady
  BY <1>17 DEF HandleError, Goto
<1>18. ASSUME HandleInitReady PROVE Steady
  BY <1>18 DEF HandleInitReady, Goto
<1>19. ASSUME FrameCallback PROVE Steady
  BY <1>19 DEF FrameCallback, Goto
<1>20. ASSUME AppendRow PROVE Steady
  BY <1>20 DEF AppendRow, BeginMark, Goto
<1>21. ASSUME SensorHandles PROVE Steady
  BY <1>21 DEF SensorHandles, Answer
<1>22. ASSUME SensorFrame PROVE Steady
  BY <1>22 DEF SensorFrame
<1>23. ASSUME SensorFaults PROVE Steady
  BY <1>23 DEF SensorFaults
<1>24. ASSUME UNCHANGED vars PROVE Steady
  BY <1>24
<1> QED
  BY <1>1, <1>2, <1>3, <1>4, <1>5, <1>6, <1>7, <1>8, <1>9, <1>10, <1>11, <1>12, <1>13, <1>14,
     <1>15, <1>16, <1>17, <1>18, <1>19, <1>20, <1>21, <1>22, <1>23, <1>24
     DEF Next, Commander, Receiver, MarkDisconnected, Terminated, Moves

\* The receive thread files the ACK of a command of this name, or sets its event.
Files == /\ pc["receiver"] = "handle" /\ held.kind = "ack" /\ held.name = cmd
         /\ payloads'[cmd] = held.n /\ Filing' = {}
Sets  == /\ pc["receiver"] = "set_event" /\ held.name = cmd /\ Setting' = {} /\ Filing' = {}

\* A command comes to be answered by an ACK of its name.
LEMMA AckedCases ==
  ASSUME Typed, Placed, Pended, [Next]_vars, ~Moves, Acked'
  PROVE  Acked \/ (Busy /\ (Files \/ Sets))
<1> USE DEF Busy, Registered, Starting, Typed, PlaceType, Threads, MarkLabels, Pended, cmd,
            attempt, AckType, FlagType, Acked, Files, Sets, Filing, Setting, acks, link, work,
            controller, wires, sensor, client, thread, outside, history, vars
<1>1. ASSUME ClearEvent PROVE Acked' => Acked
  BY <1>1 DEF ClearEvent, Goto
<1>2. ASSUME Register PROVE Acked' => Acked
  BY <1>2 DEF Register, Goto
<1>3. ASSUME SendCommand PROVE Acked' => Acked
  BY <1>3 DEF SendCommand, SendMsg, BeginMark, Goto
<1>4. ASSUME SendFailed PROVE Acked' => Acked
  BY <1>4 DEF SendFailed, Fail, Goto
<1>5. ASSUME AckTimeout PROVE Acked' => Acked
  BY <1>5 DEF AckTimeout, Fail, Goto
<1>6. ASSUME Answered PROVE Acked' => Acked
  BY <1>6 DEF Answered, Goto
<1>7. ASSUME StopClient PROVE Acked' => Acked
  BY <1>7 DEF StopClient, CloseSocket, Goto
<1>8. ASSUME NEW t \in Threads, MarkClear(t) PROVE Acked' => Acked
  BY <1>8 DEF MarkClear, Goto
<1>9. ASSUME NEW t \in Threads, MarkPending(t) PROVE Acked' => Acked
  BY <1>9 DEF MarkPending, Goto
<1>10. ASSUME NEW t \in Threads, MarkClose(t) PROVE Acked' => Acked
  BY <1>10 DEF MarkClose, CloseSocket, Goto
<1>11. ASSUME NEW t \in Threads, MarkReport(t) PROVE Acked' => Acked
  BY <1>11 DEF MarkReport, Resume, Goto
<1>12. ASSUME Connect PROVE Acked' => Acked
  BY <1>12 DEF Connect, Goto
<1>13. ASSUME Loop PROVE Acked' => Acked
  BY <1>13 DEF Loop, Goto
<1>14. ASSUME Receive PROVE Acked' => Acked
  BY <1>14 DEF Receive, BeginMark, Goto
<1>15. ASSUME HandleAck PROVE Acked' => Acked \/ (Busy /\ Files)
  BY <1>15 DEF HandleAck, Goto
<1>16. ASSUME SetEvent PROVE Acked' => Acked \/ (Busy /\ Sets)
  BY <1>16 DEF SetEvent, Goto
<1>17. ASSUME HandleError PROVE Acked' => Acked
  BY <1>17 DEF HandleError, Goto
<1>18. ASSUME HandleInitReady PROVE Acked' => Acked
  BY <1>18 DEF HandleInitReady, Goto
<1>19. ASSUME FrameCallback PROVE Acked' => Acked
  BY <1>19 DEF FrameCallback, Goto
<1>20. ASSUME AppendRow PROVE Acked' => Acked
  BY <1>20 DEF AppendRow, BeginMark, Goto
<1>21. ASSUME SensorHandles PROVE Acked' => Acked
  BY <1>21 DEF SensorHandles, Answer
<1>22. ASSUME SensorFrame PROVE Acked' => Acked
  BY <1>22 DEF SensorFrame
<1>23. ASSUME SensorFaults PROVE Acked' => Acked
  BY <1>23 DEF SensorFaults
<1>24. ASSUME UNCHANGED vars PROVE Acked' => Acked
  BY <1>24
<1> QED
  BY <1>1, <1>2, <1>3, <1>4, <1>5, <1>6, <1>7, <1>8, <1>9, <1>10, <1>11, <1>12, <1>13, <1>14,
     <1>15, <1>16, <1>17, <1>18, <1>19, <1>20, <1>21, <1>22, <1>23, <1>24
     DEF Next, Commander, Receiver, MarkDisconnected, Terminated, Moves

\* The own ACK is filed by the receive thread.
LEMMA FiledCases ==
  ASSUME Typed, Placed, Handled, [Next]_vars, ~Moves, Filed'
  PROVE  Filed \/ (Registered /\ Files /\ held.n = attempt)
<1> USE DEF Busy, Registered, Starting, Typed, PlaceType, Threads, MarkLabels, Pended, cmd,
            attempt, AckType, FlagType, Filed, acks, link, work, controller, wires, sensor, client,
            thread, outside, history, vars
<1>1. ASSUME ClearEvent PROVE Filed' => Filed
  BY <1>1 DEF ClearEvent, Goto, Files, Filing
<1>2. ASSUME Register PROVE Filed' => Filed
  <2>1. attempt # 0
    BY <1>2, AttemptSent DEF Register
  <2> QED
    BY <1>2, <2>1, CommandType DEF Register, Goto
<1>3. ASSUME SendCommand PROVE Filed' => Filed
  BY <1>3 DEF SendCommand, SendMsg, BeginMark, Goto, Files, Filing
<1>4. ASSUME SendFailed PROVE Filed' => Filed
  <2>1. attempt # 0
    BY <1>4, AttemptSent DEF SendFailed
  <2> QED
    BY <1>4, <2>1, CommandType DEF SendFailed, Fail, Goto
<1>5. ASSUME AckTimeout PROVE Filed' => Filed
  <2>1. attempt # 0
    BY <1>5, AttemptSent DEF AckTimeout
  <2> QED
    BY <1>5, <2>1, CommandType DEF AckTimeout, Fail, Goto
<1>6. ASSUME Answered PROVE Filed' => Filed
  BY <1>6 DEF Answered, Goto, Files, Filing
<1>7. ASSUME StopClient PROVE Filed' => Filed
  BY <1>7 DEF StopClient, CloseSocket, Goto, Files, Filing
<1>8. ASSUME NEW t \in Threads, MarkClear(t) PROVE Filed' => Filed
  BY <1>8 DEF MarkClear, Goto, Files, Filing
<1>9. ASSUME NEW t \in Threads, MarkPending(t) PROVE Filed' => Filed
  BY <1>9 DEF MarkPending, Goto, Files, Filing
<1>10. ASSUME NEW t \in Threads, MarkClose(t) PROVE Filed' => Filed
  BY <1>10 DEF MarkClose, CloseSocket, Goto, Files, Filing
<1>11. ASSUME NEW t \in Threads, MarkReport(t) PROVE Filed' => Filed
  BY <1>11 DEF MarkReport, Resume, Goto, Files, Filing
<1>12. ASSUME Connect PROVE Filed' => Filed
  BY <1>12 DEF Connect, Goto, Files, Filing
<1>13. ASSUME Loop PROVE Filed' => Filed
  BY <1>13 DEF Loop, Goto, Files, Filing
<1>14. ASSUME Receive PROVE Filed' => Filed
  BY <1>14 DEF Receive, BeginMark, Goto, Files, Filing
<1>15. ASSUME HandleAck PROVE Filed' => Filed \/ (Registered /\ Files /\ held.n = attempt)
  BY <1>15 DEF HandleAck, Goto, Files, Filing
<1>16. ASSUME SetEvent PROVE Filed' => Filed
  BY <1>16 DEF SetEvent, Goto, Files, Filing
<1>17. ASSUME HandleError PROVE Filed' => Filed
  BY <1>17 DEF HandleError, Goto, Files, Filing
<1>18. ASSUME HandleInitReady PROVE Filed' => Filed
  BY <1>18 DEF HandleInitReady, Goto, Files, Filing
<1>19. ASSUME FrameCallback PROVE Filed' => Filed
  BY <1>19 DEF FrameCallback, Goto, Files, Filing
<1>20. ASSUME AppendRow PROVE Filed' => Filed
  BY <1>20 DEF AppendRow, BeginMark, Goto, Files, Filing
<1>21. ASSUME SensorHandles PROVE Filed' => Filed
  BY <1>21 DEF SensorHandles, Answer, Files, Filing
<1>22. ASSUME SensorFrame PROVE Filed' => Filed
  BY <1>22 DEF SensorFrame, Files, Filing
<1>23. ASSUME SensorFaults PROVE Filed' => Filed
  BY <1>23 DEF SensorFaults, Files, Filing
<1>24. ASSUME UNCHANGED vars PROVE Filed' => Filed
  BY <1>24 DEF Files, Filing
<1> QED
  BY <1>1, <1>2, <1>3, <1>4, <1>5, <1>6, <1>7, <1>8, <1>9, <1>10, <1>11, <1>12, <1>13, <1>14,
     <1>15, <1>16, <1>17, <1>18, <1>19, <1>20, <1>21, <1>22, <1>23, <1>24
     DEF Next, Commander, Receiver, MarkDisconnected, Terminated, Moves

\* A command fails by an ERROR that answers it, or unconfirmed.
LEMMA FailedCases ==
  ASSUME Typed, Placed, Pended, [Next]_vars, ~Moves, Failed'
  PROVE  Failed \/ attempt \in unconfirmed' \/ (Registered /\ HandleError /\ held.n = attempt)
<1> USE DEF Busy, Registered, Starting, Typed, PlaceType, Threads, MarkLabels, Pended, cmd,
            attempt, AckType, FlagType, Failed, acks, link, work, controller, wires, sensor,
            client, thread, outside, history, vars
<1>1. ASSUME ClearEvent PROVE Failed' => Failed \/ attempt \in unconfirmed'
  BY <1>1 DEF ClearEvent, Goto
<1>2. ASSUME Register PROVE Failed' => Failed \/ attempt \in unconfirmed'
  BY <1>2 DEF Register, Goto
<1>3. ASSUME SendCommand PROVE Failed' => Failed \/ attempt \in unconfirmed'
  BY <1>3 DEF SendCommand, SendMsg, BeginMark, Goto
<1>4. ASSUME SendFailed PROVE Failed' => Failed \/ attempt \in unconfirmed'
  BY <1>4 DEF SendFailed, Fail, Goto
<1>5. ASSUME AckTimeout PROVE Failed' => Failed \/ attempt \in unconfirmed'
  BY <1>5 DEF AckTimeout, Fail, Goto
<1>6. ASSUME Answered PROVE Failed' => Failed \/ attempt \in unconfirmed'
  BY <1>6 DEF Answered, Goto
<1>7. ASSUME StopClient PROVE Failed' => Failed \/ attempt \in unconfirmed'
  BY <1>7 DEF StopClient, CloseSocket, Goto
<1>8. ASSUME NEW t \in Threads, MarkClear(t) PROVE Failed' => Failed \/ attempt \in unconfirmed'
  BY <1>8 DEF MarkClear, Goto
<1>9. ASSUME NEW t \in Threads, MarkPending(t) PROVE Failed' => Failed \/ attempt \in unconfirmed'
  BY <1>9 DEF MarkPending, Goto
<1>10. ASSUME NEW t \in Threads, MarkClose(t) PROVE Failed' => Failed \/ attempt \in unconfirmed'
  BY <1>10 DEF MarkClose, CloseSocket, Goto
<1>11. ASSUME NEW t \in Threads, MarkReport(t) PROVE Failed' => Failed \/ attempt \in unconfirmed'
  BY <1>11 DEF MarkReport, Resume, Goto
<1>12. ASSUME Connect PROVE Failed' => Failed \/ attempt \in unconfirmed'
  BY <1>12 DEF Connect, Goto
<1>13. ASSUME Loop PROVE Failed' => Failed \/ attempt \in unconfirmed'
  BY <1>13 DEF Loop, Goto
<1>14. ASSUME Receive PROVE Failed' => Failed \/ attempt \in unconfirmed'
  BY <1>14 DEF Receive, BeginMark, Goto
<1>15. ASSUME HandleAck PROVE Failed' => Failed \/ attempt \in unconfirmed'
  BY <1>15 DEF HandleAck, Goto
<1>16. ASSUME SetEvent PROVE Failed' => Failed \/ attempt \in unconfirmed'
  BY <1>16 DEF SetEvent, Goto
<1>17. ASSUME HandleError 
       PROVE  Failed' => \/ Failed \/ attempt \in unconfirmed'
                         \/ Registered /\ HandleError /\ held.n = attempt
  BY <1>17 DEF HandleError, Goto
<1>18. ASSUME HandleInitReady PROVE Failed' => Failed \/ attempt \in unconfirmed'
  BY <1>18 DEF HandleInitReady, Goto
<1>19. ASSUME FrameCallback PROVE Failed' => Failed \/ attempt \in unconfirmed'
  BY <1>19 DEF FrameCallback, Goto
<1>20. ASSUME AppendRow PROVE Failed' => Failed \/ attempt \in unconfirmed'
  BY <1>20 DEF AppendRow, BeginMark, Goto
<1>21. ASSUME SensorHandles PROVE Failed' => Failed \/ attempt \in unconfirmed'
  BY <1>21 DEF SensorHandles, Answer
<1>22. ASSUME SensorFrame PROVE Failed' => Failed \/ attempt \in unconfirmed'
  BY <1>22 DEF SensorFrame
<1>23. ASSUME SensorFaults PROVE Failed' => Failed \/ attempt \in unconfirmed'
  BY <1>23 DEF SensorFaults
<1>24. ASSUME UNCHANGED vars PROVE Failed' => Failed \/ attempt \in unconfirmed'
  BY <1>24
<1> QED
  BY <1>1, <1>2, <1>3, <1>4, <1>5, <1>6, <1>7, <1>8, <1>9, <1>10, <1>11, <1>12, <1>13, <1>14,
     <1>15, <1>16, <1>17, <1>18, <1>19, <1>20, <1>21, <1>22, <1>23, <1>24
     DEF Next, Commander, Receiver, MarkDisconnected, Terminated, Moves

\* An attempt stays unconfirmed.
LEMMA UnconfirmedGrows ==
  ASSUME Typed, [Next]_vars
  PROVE  unconfirmed \subseteq unconfirmed'
<1> USE DEF acks, link, work, controller, wires, sensor, client, thread, outside, history, vars
<1>1. CASE ClearEvent
  BY <1>1 DEF ClearEvent, Goto
<1>2. CASE Register
  BY <1>2 DEF Register, Goto
<1>3. CASE SendCommand
  BY <1>3 DEF SendCommand, SendMsg, BeginMark, Goto
<1>4. CASE SendFailed
  BY <1>4 DEF SendFailed, Fail, Goto
<1>5. CASE AckTimeout
  BY <1>5 DEF AckTimeout, Fail, Goto
<1>6. CASE Answered
  BY <1>6 DEF Answered, Goto
<1>7. CASE Startup
  BY <1>7 DEF Startup, SendMsg, BeginMark, BeginStop, Begin, Goto
<1>8. CASE Outcome
  BY <1>8 DEF Outcome, Started, Back, Begin, BeginStop, Goto
<1>9. CASE StopClient
  BY <1>9 DEF StopClient, CloseSocket, Goto
<1>10. CASE Operate
  BY <1>10 DEF Operate, Begin, Goto
<1>11. CASE EndOfRun
  BY <1>11 DEF EndOfRun, Begin, BeginStop, Goto
<1>12. ASSUME NEW t \in Threads, MarkClear(t) PROVE unconfirmed \subseteq unconfirmed'
  BY <1>12 DEF MarkClear, Goto
<1>13. ASSUME NEW t \in Threads, MarkPending(t) PROVE unconfirmed \subseteq unconfirmed'
  BY <1>13 DEF MarkPending, Goto
<1>14. ASSUME NEW t \in Threads, MarkClose(t) PROVE unconfirmed \subseteq unconfirmed'
  BY <1>14 DEF MarkClose, CloseSocket, Goto
<1>15. ASSUME NEW t \in Threads, MarkReport(t) PROVE unconfirmed \subseteq unconfirmed'
  BY <1>15 DEF MarkReport, Resume, Goto
<1>16. CASE Connect
  BY <1>16 DEF Connect, Goto
<1>17. CASE Loop
  BY <1>17 DEF Loop, Goto
<1>18. CASE Receive
  BY <1>18 DEF Receive, BeginMark, Goto
<1>19. CASE HandleAck
  BY <1>19 DEF HandleAck, Goto
<1>20. CASE SetEvent
  BY <1>20 DEF SetEvent, Goto
<1>21. CASE HandleError
  BY <1>21 DEF HandleError, Goto
<1>22. CASE HandleInitReady
  BY <1>22 DEF HandleInitReady, Goto
<1>23. CASE FrameCallback
  BY <1>23 DEF FrameCallback, Goto
<1>24. CASE AppendRow
  BY <1>24 DEF AppendRow, BeginMark, Goto
<1>25. CASE SensorHandles
  BY <1>25 DEF SensorHandles, Answer
<1>26. CASE SensorFrame
  BY <1>26 DEF SensorFrame
<1>27. CASE SensorFaults
  BY <1>27 DEF SensorFaults
<1>28. CASE UNCHANGED vars
  BY <1>28
<1> QED
  BY <1>1, <1>2, <1>3, <1>4, <1>5, <1>6, <1>7, <1>8, <1>9, <1>10, <1>11, <1>12, <1>13, <1>14,
     <1>15, <1>16, <1>17, <1>18, <1>19, <1>20, <1>21, <1>22, <1>23, <1>24, <1>25, <1>26, <1>27,
     <1>28
     DEF Next, Commander, Receiver, MarkDisconnected, Terminated, Threads, Moves

\* A command that is registered or answered is not about to be sent again.
LEMMA SendOnce ==
  ASSUME Typed, [Next]_vars, ~Moves, pc["commander"] # "send",
      Registered \/ pc["commander"] = "returned"
  PROVE  pc'["commander"] # "send"
<1> USE DEF Busy, Registered, Starting, Typed, PlaceType, Threads, MarkLabels, acks, link, work,
            controller, wires, sensor, client, thread, outside, history, vars
<1>1. CASE ClearEvent
  BY <1>1 DEF ClearEvent, Goto
<1>2. ASSUME Register PROVE FALSE
  BY <1>2 DEF Register, Goto
<1>3. CASE SendCommand
  BY <1>3 DEF SendCommand, SendMsg, BeginMark, Goto
<1>4. CASE SendFailed
  BY <1>4 DEF SendFailed, Fail, Goto
<1>5. CASE AckTimeout
  BY <1>5 DEF AckTimeout, Fail, Goto
<1>6. CASE Answered
  BY <1>6 DEF Answered, Goto
<1>7. CASE StopClient
  BY <1>7 DEF StopClient, CloseSocket, Goto
<1>8. ASSUME NEW t \in Threads, MarkClear(t) PROVE pc'["commander"] # "send"
  BY <1>8 DEF MarkClear, Goto
<1>9. ASSUME NEW t \in Threads, MarkPending(t) PROVE pc'["commander"] # "send"
  BY <1>9 DEF MarkPending, Goto
<1>10. ASSUME NEW t \in Threads, MarkClose(t) PROVE pc'["commander"] # "send"
  BY <1>10 DEF MarkClose, CloseSocket, Goto
<1>11. ASSUME NEW t \in Threads, MarkReport(t) PROVE pc'["commander"] # "send"
  BY <1>11 DEF MarkReport, Resume, Goto
<1>12. CASE Connect
  BY <1>12 DEF Connect, Goto
<1>13. CASE Loop
  BY <1>13 DEF Loop, Goto
<1>14. CASE Receive
  BY <1>14 DEF Receive, BeginMark, Goto
<1>15. CASE HandleAck
  BY <1>15 DEF HandleAck, Goto
<1>16. CASE SetEvent
  BY <1>16 DEF SetEvent, Goto
<1>17. CASE HandleError
  BY <1>17 DEF HandleError, Goto
<1>18. CASE HandleInitReady
  BY <1>18 DEF HandleInitReady, Goto
<1>19. CASE FrameCallback
  BY <1>19 DEF FrameCallback, Goto
<1>20. CASE AppendRow
  BY <1>20 DEF AppendRow, BeginMark, Goto
<1>21. CASE SensorHandles
  BY <1>21 DEF SensorHandles, Answer
<1>22. CASE SensorFrame
  BY <1>22 DEF SensorFrame
<1>23. CASE SensorFaults
  BY <1>23 DEF SensorFaults
<1>24. CASE UNCHANGED vars
  BY <1>24
<1> QED
  BY <1>1, <1>2, <1>3, <1>4, <1>5, <1>6, <1>7, <1>8, <1>9, <1>10, <1>11, <1>12, <1>13, <1>14,
     <1>15, <1>16, <1>17, <1>18, <1>19, <1>20, <1>21, <1>22, <1>23, <1>24
     DEF Next, Commander, Receiver, MarkDisconnected, Terminated, Moves

\* Attempts stay forgotten.
LEMMA ForgottenStays ==
  ASSUME Typed, [Next]_vars, NEW n \in 1..attempt, Forgotten(n)
  PROVE  Forgotten(n)'
  BY UnconfirmedGrows, NamedStays DEF Forgotten

\* Less is under way after a step, unless it sends the command.
LEMMA UnderWayShrinks ==
  ASSUME Typed, Handled, Sorted, [Next]_vars
  PROVE  \/ Unfiled' \subseteq Unfiled /\ UnderWay' \subseteq UnderWay
         \/ /\ Sends
            /\ Unfiled' \subseteq Unfiled \cup {attempt}
            /\ UnderWay' \subseteq UnderWay \cup {attempt}
  BY UnderWayCases DEF UnderWay, Unfiled, Released, Sends, Takes

\* An ACK of the command's name that the receive thread holds is the command's own, and the last
\* one, or that of a forgotten START_REQ.
LEMMA HeldAnswer ==
  ASSUME Typed, Handled, Sorted, Fronted, BusyResidue, Busy,
         held.n \in Filing \cup Setting, held.name = cmd
  PROVE  \/ held.n = attempt /\ Unread = {}
         \/ /\ Forgotten(held.n) /\ cmd = "START_REQ"
            /\ \A n \in Unfiled : n = attempt \/ Forgotten(n)
<1>1. held.n \in 1..attempt /\ sent[held.n] = cmd /\ held.n \in UnderWay
  BY DEF Fronted, UnderWay, Unfiled
<1>2. CASE held.n = attempt
  <2>1. \A n \in Unread : n \in 1..attempt /\ attempt < n
    BY <1>2, NumbersSent DEF Fronted
  <2>2. attempt \in Nat
    BY CommandType DEF Typed
  <2> QED
    BY <1>2, <2>1, <2>2
<1>3. CASE held.n # attempt
  <2>1. Forgotten(held.n) \/ cmd \in Before(handler)
    BY <1>1, <1>3 DEF BusyResidue
  <2>2. cmd \notin Before(handler)
    BY DEF Typed, RunType, cmd, Request, Before, Commands
  <2>3. Forgotten(held.n) /\ cmd = "START_REQ"
    BY <1>1, <2>1, <2>2 DEF Forgotten
  <2>4. handler \in {"start", "resume"}
    BY <2>3 DEF Typed, RunType, cmd, Request
  <2> QED
    BY <2>3, <2>4 DEF BusyResidue
<1> QED
  BY <1>2, <1>3

\* Between two commands nothing new comes under way.
LEMMA LoopSteady ==
  ASSUME Typed, Placed, Handled, Sorted, Fronted, LoopResidue, [Next]_vars, Steady
  PROVE  LoopResidue'
<1> SUFFICES ASSUME pc'["commander"] = "loop"
             PROVE  /\ \A n \in UnderWay' : Forgotten(n)' \/ sent'[n] \in After(state')
                    /\ state' # "COLLECTING" => \A n \in Unfiled' : Forgotten(n)'
  BY DEF LoopResidue
<1>1. pc["commander"] = "loop" /\ state' = state /\ sent' = sent
  BY DEF Steady
<1>2. Unfiled' \subseteq Unfiled /\ UnderWay' \subseteq UnderWay
  BY <1>1, UnderWayShrinks DEF Sends
<1>3. Unfiled \subseteq UnderWay /\ UnderWay \subseteq 1..attempt
  BY NumbersSent DEF UnderWay
<1> QED
  BY <1>1, <1>2, <1>3, ForgottenStays DEF LoopResidue

\* What is under way besides the command of a handler was so before.
LEMMA BusySteady ==
  ASSUME Typed, Placed, Handled, Sorted, Fronted, BusyResidue, [Next]_vars, Steady
  PROVE  BusyResidue'
<1> SUFFICES ASSUME Busy'
             PROVE  /\ \A n \in UnderWay' :
                         n = attempt' \/ Forgotten(n)' \/ sent'[n] \in Before(handler')
                    /\ handler' \in {"start", "resume"} =>
                         \A n \in Unfiled' : n = attempt' \/ Forgotten(n)'
  BY DEF BusyResidue
<1>1. Busy /\ handler' = handler /\ sent' = sent /\ attempt' = attempt
  BY DEF Steady
<1>2. Unfiled' \subseteq Unfiled \cup {attempt} /\ UnderWay' \subseteq UnderWay \cup {attempt}
  BY UnderWayShrinks
<1>3. Unfiled \subseteq UnderWay /\ UnderWay \subseteq 1..attempt
  BY NumbersSent DEF UnderWay
<1> QED
  BY <1>1, <1>2, <1>3, ForgottenStays DEF BusyResidue

\* Once a command is answered, nothing else is under way but what is forgotten.
LEMMA AckedSteady ==
  ASSUME Typed, Placed, Handled, Pended, InSequence, Residues, [Next]_vars, Steady, ~Moves
  PROVE  AckedResidue'
<1> SUFFICES ASSUME Acked', NEW n \in UnderWay', n # attempt'
             PROVE  Forgotten(n)'
  BY DEF AckedResidue
<1>1. attempt' = attempt
  BY DEF Steady
<1>2. UnderWay' \subseteq UnderWay \cup {attempt}
  BY UnderWayShrinks DEF InSequence
<1>3. n \in UnderWay /\ n \in 1..attempt
  BY <1>1, <1>2, NumbersSent DEF InSequence
<1>4. Acked \/ (Busy /\ (Files \/ Sets))
  BY AckedCases
<1>5. CASE Acked
  BY <1>1, <1>3, <1>5, ForgottenStays DEF Residues, AckedResidue
<1>6. CASE Busy /\ (Files \/ Sets)
  <2>1. held.n \in Filing \cup Setting /\ held.name = cmd
    BY <1>6 DEF Files, Sets, Filing, Setting, Numbered, Typed, HeldType, Events
  <2>2. n \in Unfiled \/ n = held.n
    BY <1>3 DEF UnderWay, Setting
  <2>3. CASE held.n = attempt /\ Unread = {}
    BY <1>1, <1>3, <2>2, <2>3 DEF Unfiled, Filing
  <2>4. CASE Forgotten(held.n) /\ \A k \in Unfiled : k = attempt \/ Forgotten(k)
    BY <1>1, <1>3, <2>2, <2>4, ForgottenStays
  <2> QED
    BY <1>6, <2>1, <2>3, <2>4, HeldAnswer DEF InSequence, Residues
<1> QED
  BY <1>4, <1>5, <1>6

\* Once its own ACK is filed, nothing is.
LEMMA FiledSteady ==
  ASSUME Typed, Placed, Handled, Pended, InSequence, Residues, [Next]_vars, Steady, ~Moves
  PROVE  FiledResidue'
<1> SUFFICES ASSUME Filed'
             PROVE  Unfiled' = {} /\ pc'["commander"] # "send"
  BY DEF FiledResidue
<1>1. CASE Filed
  <2>1. Unfiled = {} /\ pc["commander"] # "send"
    BY <1>1 DEF Residues, FiledResidue
  <2>2. Unfiled' = {}
    BY <2>1, UnderWayShrinks DEF Sends, InSequence
  <2> QED
    BY <1>1, <2>1, <2>2, SendOnce DEF Filed
<1>2. CASE Registered /\ Files /\ held.n = attempt
  <2>1. held.n \in Filing
    BY <1>2 DEF Files, Filing, Numbered, Typed, HeldType, Events
  <2>2. Busy /\ attempt \in UnderWay
    BY <1>2, <2>1 DEF Busy, UnderWay, Unfiled
  <2>3. pc["commander"] # "send"
    BY <2>2 DEF InSequence, Fresh
  <2>4. cmd \in Commands /\ held.name = cmd /\ attempt \in Nat
    BY <1>2, CommandType DEF Files, Typed
  <2>5. Unread = {}
    <3>1. \A k \in Unread : k \in 1..attempt /\ attempt < k
      BY <1>2, <2>1, NumbersSent DEF InSequence, Fronted
    <3> QED
      BY <2>4, <3>1
  <2>6. Unfiled' = {}
    <3>1. Filing' = {}
      BY <1>2 DEF Files
    <3>2. Unread' \subseteq Unread
      BY <2>3, UnderWayCases DEF Sends, Takes, InSequence
    <3> QED
      BY <2>5, <3>1, <3>2 DEF Unfiled
  <2> QED
    BY <1>2, <2>3, <2>6, SendOnce
<1> QED
  BY <1>1, <1>2, FiledCases

\* Once it has failed, it is unconfirmed or nothing is under way.
LEMMA FailedSteady ==
  ASSUME Typed, Placed, Handled, Pended, InSequence, Residues, [Next]_vars, Steady, ~Moves
  PROVE  FailedResidue'
<1> SUFFICES ASSUME Failed', attempt' \notin unconfirmed'
             PROVE  UnderWay' = {} /\ pc'["commander"] # "send"
  BY DEF FailedResidue
<1>1. attempt' = attempt /\ unconfirmed \subseteq unconfirmed'
  BY UnconfirmedGrows DEF Steady
<1>2. CASE Failed
  <2>1. UnderWay = {} /\ pc["commander"] # "send"
    BY <1>1, <1>2 DEF Residues, FailedResidue
  <2>2. UnderWay' = {}
    BY <2>1, UnderWayShrinks DEF Sends, InSequence
  <2> QED
    BY <1>2, <2>1, <2>2, SendOnce DEF Failed
<1>3. CASE Registered /\ HandleError /\ held.n = attempt
  <2>1. Busy /\ attempt \in 1..attempt /\ attempt \in Nat
    BY <1>3, AttemptSent, CommandType DEF Busy, Typed
  <2>2. attempt \in Filing
    BY <1>3, <2>1 DEF HandleError, Filing, Numbered
  <2>3. Unread = {}
    <3>1. \A k \in Unread : k \in 1..attempt /\ attempt < k
      BY <1>3, <2>2, NumbersSent DEF InSequence, Fronted
    <3> QED
      BY <2>1, <3>1
  <2>4. pc["commander"] # "send"
    BY <2>2 DEF InSequence, Fresh, UnderWay, Unfiled
  <2>5. UnderWay' = {}
    <3>1. Filing' = {} /\ Setting' = {}
      BY <1>3 DEF HandleError, Goto, Filing, Setting, Typed, PlaceType, Threads
    <3>2. Unread' \subseteq Unread
      BY <2>4, UnderWayCases DEF Sends, Takes, InSequence
    <3> QED
      BY <2>3, <3>1, <3>2 DEF UnderWay, Unfiled
  <2> QED
    BY <1>3, <2>4, <2>5, SendOnce
<1> QED
  BY <1>1, <1>2, <1>3, FailedCases

\* The main thread decides when no command is registered.
LEMMA MovesFrom ==
  ASSUME Typed, Placed, Handled, Sorted, [Next]_vars, Moves
  PROVE  /\ ~Acked' /\ ~Filed' /\ ~Failed' /\ ~Registered'
         /\ pc'["commander"] \notin {"register", "returned"}
         /\ Unfiled' \subseteq Unfiled /\ UnderWay' \subseteq UnderWay
<1>1. pc["commander"] # "send"
  BY DEF Moves, Startup, Outcome, Operate, EndOfRun
<1>2. Unfiled' \subseteq Unfiled /\ UnderWay' \subseteq UnderWay
  BY <1>1, UnderWayShrinks DEF Sends
<1>3. pc'["commander"] \notin {"register", "returned"} /\ ~Registered'
  <2>1. ASSUME Startup PROVE pc'["commander"] \notin {"register", "returned"} /\ ~Registered'
    BY <2>1 DEF Startup, SendMsg, BeginMark, BeginStop, Begin, Goto, Registered, Starting, Typed,
                PlaceType, Threads, MarkLabels, Placed
  <2>2. ASSUME Outcome PROVE pc'["commander"] \notin {"register", "returned"} /\ ~Registered'
    BY <2>2
       DEF Outcome, Started, Back, BeginStop, Begin, Goto, Registered, Typed, PlaceType, Threads,
           MarkLabels
  <2>3. ASSUME Operate PROVE pc'["commander"] \notin {"register", "returned"} /\ ~Registered'
    BY <2>3 DEF Operate, Begin, Goto, Registered, Typed, PlaceType, Threads, MarkLabels
  <2>4. ASSUME EndOfRun PROVE pc'["commander"] \notin {"register", "returned"} /\ ~Registered'
    BY <2>4 DEF EndOfRun, BeginStop, Begin, Goto, Registered, Typed, PlaceType, Threads, MarkLabels
  <2> QED
    BY <2>1, <2>2, <2>3, <2>4 DEF Moves
<1>4. ~Acked' /\ ~Filed' /\ ~Failed'
  BY <1>3 DEF Acked, Filed, Failed
<1> QED
  BY <1>2, <1>3, <1>4

\* What a result says of what is under way.
LEMMA ReturnedResidue ==
  ASSUME Typed, Handled, Residues, Answering, pc["commander"] = "returned"
  PROVE  /\ Busy /\ sent[attempt] = cmd
         /\ ok => \A n \in UnderWay : n = attempt \/ Forgotten(n)
         /\ ok /\ cmd # "START_REQ" => Unfiled = {} /\ answer = attempt
         /\ ~ok => attempt \in unconfirmed \/ UnderWay = {}
         /\ handler \in {"start", "resume"} => \A n \in Unfiled : n = attempt \/ Forgotten(n)
         /\ \A n \in UnderWay : n = attempt \/ Forgotten(n) \/ sent[n] \in Before(handler)
<1>1. Busy /\ sent[attempt] = cmd
  BY DEF Busy, Handled
<1>2. ok => \A n \in UnderWay : n = attempt \/ Forgotten(n)
  BY DEF Residues, AckedResidue, Acked
<1>3. ok /\ cmd # "START_REQ" => answer = attempt
  BY DEF Answering, OwnAnswer, Late
<1>4. answer = attempt => Unfiled = {}
  BY DEF Residues, FiledResidue, Filed
<1>5. ~ok => attempt \in unconfirmed \/ UnderWay = {}
  BY DEF Residues, FailedResidue, Failed
<1> QED
  BY <1>1, <1>2, <1>3, <1>4, <1>5 DEF Residues, BusyResidue

\* Before anything is sent, nothing is under way.
LEMMA NothingSent ==
  ASSUME Typed, Placed, Sorted, Fronted, Startup
  PROVE  UnderWay = {} /\ Unfiled = {} /\ attempt = 0
<1>1. sent = <<>>
  BY DEF Startup, Placed
<1>2. attempt = 0
  BY <1>1 DEF attempt
<1> QED
  BY <1>2, NumbersSent DEF UnderWay

\* What a handler leaves under way when it is done.
LEMMA LoopMoves ==
  ASSUME Typed, Placed, Handled, InSequence, Residues, Answering, [Next]_vars, Moves
  PROVE  LoopResidue'
<1> SUFFICES ASSUME pc'["commander"] = "loop"
             PROVE  /\ \A n \in UnderWay' : Forgotten(n)' \/ sent'[n] \in After(state')
                    /\ state' # "COLLECTING" => \A n \in Unfiled' : Forgotten(n)'
  BY DEF LoopResidue
<1>1. Unfiled' \subseteq Unfiled /\ UnderWay' \subseteq UnderWay
  BY MovesFrom DEF InSequence
<1>2. CASE Startup
  BY <1>1, <1>2, NothingSent DEF InSequence
<1>3. CASE Operate \/ EndOfRun
  BY <1>3 DEF Operate, EndOfRun, BeginStop, Begin, Goto, Typed, PlaceType, Threads
<1>4. CASE Outcome
  <2>1. pc["commander"] = "returned" /\ sent' = sent /\ unconfirmed \subseteq unconfirmed'
    BY <1>4 DEF Outcome, Started, Back, BeginStop, Begin, Goto, Typed, PlaceType, Threads
  <2>2. \/ handler \in {"start", "resume"} /\ ok /\ state' = "COLLECTING"
        \/ handler = "start" /\ ~ok /\ state' = "WAIT_START"
        \/ handler = "start" /\ ok /\ attempt \in unconfirmed' /\ state' = "WAIT_START"
        \/ handler = "pause" /\ ok /\ state' = "PAUSED"
        \/ handler \in {"rollback", "finish", "discard"} /\ ok /\ state' = "WAIT_START"
    BY <1>4 DEF Outcome, Started, Back, BeginStop, Begin, Goto, Typed, PlaceType, Threads
  <2>3. \A n : Forgotten(n) => Forgotten(n)'
    BY <2>1 DEF Forgotten
  <2>4. UnderWay = Unfiled \cup Setting
    BY DEF UnderWay
  <2>5. CASE handler \in {"start", "resume"} /\ ok /\ state' = "COLLECTING"
    <3>1. cmd = "START_REQ"
      BY <2>5 DEF cmd, Request
    <3> QED
      BY <1>1, <2>1, <2>3, <2>5, <3>1, ReturnedResidue DEF After
  <2>6. CASE handler = "start" /\ ~ok /\ state' = "WAIT_START"
    <3>1. cmd = "START_REQ" /\ Before(handler) = After(state')
      BY <2>6 DEF cmd, Request, Before, After
    <3>2. UnderWay = {} \/ Forgotten(attempt)
      BY <2>1, <2>6, <3>1, ReturnedResidue DEF Forgotten
    <3> QED
      BY <1>1, <2>1, <2>3, <2>4, <2>6, <3>1, <3>2, ReturnedResidue
  <2>7. CASE /\ ok
             /\ \/ handler = "pause" /\ state' = "PAUSED"
                \/ handler \in {"rollback", "finish", "discard"} /\ state' = "WAIT_START"
    <3>1. cmd # "START_REQ" /\ cmd \in After(state')
      BY <2>7 DEF cmd, Request, After
    <3> QED
      BY <1>1, <2>1, <2>3, <2>7, <3>1, ReturnedResidue
  <2>8. CASE handler = "start" /\ ok /\ attempt \in unconfirmed' /\ state' = "WAIT_START"
    <3>1. cmd = "START_REQ"
      BY <2>8 DEF cmd, Request
    <3>2. sent[attempt] = "START_REQ"
      BY <2>1, <3>1, ReturnedResidue
    <3>3. \A n : n = attempt => Forgotten(n)'
      BY <2>1, <2>8, <3>2 DEF Forgotten
    <3>4. \A n \in UnderWay : n = attempt \/ Forgotten(n)
      BY <2>1, <2>8, ReturnedResidue
    <3> QED
      BY <1>1, <2>3, <2>4, <3>3, <3>4
  <2> QED
    BY <2>2, <2>5, <2>6, <2>7, <2>8
<1> QED
  BY <1>2, <1>3, <1>4 DEF Moves

\* What may be under way when a handler sends its command.
LEMMA BusyMoves ==
  ASSUME Typed, Placed, Handled, InSequence, Residues, Answering, [Next]_vars, Moves
  PROVE  BusyResidue'
<1> SUFFICES ASSUME Busy'
             PROVE  /\ \A n \in UnderWay' :
                         n = attempt' \/ Forgotten(n)' \/ sent'[n] \in Before(handler')
                    /\ handler' \in {"start", "resume"} =>
                         \A n \in Unfiled' : n = attempt' \/ Forgotten(n)'
  BY DEF BusyResidue
<1>1. Unfiled' \subseteq Unfiled /\ UnderWay' \subseteq UnderWay /\ UnderWay \subseteq 1..attempt
      /\ UnderWay = Unfiled \cup Setting
  BY MovesFrom, NumbersSent DEF InSequence, UnderWay
<1>2. \A n \in 1..attempt : sent'[n] = sent[n] /\ (Forgotten(n) => Forgotten(n)')
  BY NamedStays, ForgottenStays
<1>3. CASE Startup
  BY <1>1, <1>3, NothingSent DEF InSequence
<1>4. CASE Operate
  <2>1. /\ pc["commander"] = "loop"
        /\ \/ state = "WAIT_START" /\ handler' = "start"
           \/ state = "PAUSED" /\ handler' \in {"resume", "rollback"}
           \/ state = "COLLECTING" /\ handler' = "pause"
           \/ state \in {"COLLECTING", "PAUSED"} /\ handler' \in {"finish", "discard"}
    BY <1>4 DEF Operate, Begin
  <2>2. After(state) \subseteq Before(handler')
    BY <2>1 DEF After, Before
  <2>3. handler' \in {"start", "resume"} => state # "COLLECTING"
    BY <2>1
  <2> QED
    BY <1>1, <1>2, <2>1, <2>2, <2>3 DEF Residues, LoopResidue
<1>5. CASE EndOfRun
  <2>1. /\ pc["commander"] = "loop"
        /\ \/ handler' = "abort" /\ state \in {"COLLECTING", "PAUSED"}
           \/ handler' = "stop" /\ state \in {"WAIT_START", "COLLECTING", "PAUSED"}
    BY <1>5 DEF EndOfRun, Begin, BeginStop, Handled, Placed
  <2>2. After(state) \subseteq Before(handler')
    BY <2>1 DEF After, Before, Commands
  <2> QED
    BY <1>1, <1>2, <2>1, <2>2 DEF Residues, LoopResidue
<1>6. CASE Outcome
  <2>1. /\ pc["commander"] = "returned"
        /\ \/ handler \in {"start", "resume"} /\ handler' = "rollback"
           \/ handler \notin {"abort", "stop"} /\ handler' = "stop"
    BY <1>6 DEF Outcome, Started, Back, BeginStop, Begin, Goto, Typed, RunType, Request, PlaceType,
                Threads, Busy, Registered, MarkLabels
  <2>2. cmd \in Before(handler')
    BY <2>1 DEF cmd, Request, Before, Commands, Typed, RunType
  <2>3. handler = "start" /\ handler' = "rollback" => ok
    BY <1>6 DEF Outcome, Started, Back, BeginStop, Begin, Goto, Typed, PlaceType, Threads
  <2>4. ok \/ Before(handler) \subseteq Before(handler')
    BY <2>1, <2>3 DEF Before, Commands, Typed, RunType, Request
  <2> QED
    BY <1>1, <1>2, <2>1, <2>2, <2>4, ReturnedResidue
<1> QED
  BY <1>3, <1>4, <1>5, <1>6 DEF Moves

\* Every step keeps what is under way in its bounds.
LEMMA ResiduesStep ==
  ASSUME Typed, Placed, Handled, Pended, InSequence, Residues, Answering, [Next]_vars
  PROVE  Residues'
<1>1. CASE Moves
  <2>1. AckedResidue' /\ FiledResidue' /\ FailedResidue'
    BY <1>1, MovesFrom DEF InSequence, AckedResidue, FiledResidue, FailedResidue
  <2> QED
    BY <1>1, <2>1, LoopMoves, BusyMoves DEF Residues
<1>2. CASE ~Moves
  <2>1. Steady
    BY <1>2, SteadyCases
  <2>2. LoopResidue' /\ BusyResidue'
    BY <2>1, LoopSteady, BusySteady DEF InSequence, Residues
  <2> QED
    BY <1>2, <2>1, <2>2, AckedSteady, FiledSteady, FailedSteady DEF Residues
<1> QED
  BY <1>1, <1>2

\* How the answer of the command moves while it goes on: the event is set before it is registered
\* only by a late ACK; the payload is reset, kept, or filed; the receive thread comes to set an
\* event by filing an ACK; and a command succeeds with the payload that is filed.
EventComes == pc'["commander"] = "register" /\ cmd' \in events' =>
                pc["commander"] = "register" /\ (cmd \in events \/ Sets)

PayloadComes == Registered' =>
                  \/ payloads'[cmd] = 0
                  \/ Registered /\ (Files \/ payloads'[cmd] = payloads[cmd])

SettingComes == Registered' /\ pc'["receiver"] = "set_event" =>
                  \/ Registered /\ HandleAck
                  \/ /\ pc["receiver"] = "set_event" /\ held' = held
                     /\ \/ pc["commander"] = "register"
                        \/ Registered /\ payloads'[cmd] = payloads[cmd]

AnswerComes == Registered' /\ Acked' =>
                 \/ Registered /\ (Acked \/ Sets) /\ payloads'[cmd] = payloads[cmd]
                 \/ Registered /\ Files
                 \/ pc["commander"] = "register" /\ cmd \in events

ResultComes == pc'["commander"] = "returned" /\ ok' =>
                 \/ pc["commander"] = "returned" /\ ok /\ answer' = answer
                 \/ Registered /\ Acked /\ answer' = payloads[cmd]

\* The event of the command before it is registered.
LEMMA SeenCases ==
  ASSUME Typed, Placed, Pended, [Next]_vars, ~Moves
  PROVE  EventComes
<1> USE DEF Busy, Registered, Starting, Typed, PlaceType, Threads, MarkLabels, Pended, cmd,
            attempt, AckType, FlagType, Acked, Files, Sets, Filing, Setting, EventComes, acks,
            link, work, controller, wires, sensor, client, thread, outside, history, vars
<1>1. CASE ClearEvent
  BY <1>1 DEF ClearEvent, Goto
<1>2. CASE Register
  BY <1>2 DEF Register, Goto
<1>3. CASE SendCommand
  BY <1>3 DEF SendCommand, SendMsg, BeginMark, Goto
<1>4. CASE SendFailed
  BY <1>4 DEF SendFailed, Fail, Goto
<1>5. CASE AckTimeout
  BY <1>5 DEF AckTimeout, Fail, Goto
<1>6. CASE Answered
  BY <1>6 DEF Answered, Goto
<1>7. CASE StopClient
  BY <1>7 DEF StopClient, CloseSocket, Goto
<1>8. ASSUME NEW t \in Threads, MarkClear(t) PROVE EventComes
  BY <1>8 DEF MarkClear, Goto
<1>9. ASSUME NEW t \in Threads, MarkPending(t) PROVE EventComes
  BY <1>9 DEF MarkPending, Goto
<1>10. ASSUME NEW t \in Threads, MarkClose(t) PROVE EventComes
  BY <1>10 DEF MarkClose, CloseSocket, Goto
<1>11. ASSUME NEW t \in Threads, MarkReport(t) PROVE EventComes
  BY <1>11 DEF MarkReport, Resume, Goto
<1>12. CASE Connect
  BY <1>12 DEF Connect, Goto
<1>13. CASE Loop
  BY <1>13 DEF Loop, Goto
<1>14. CASE Receive
  BY <1>14 DEF Receive, BeginMark, Goto
<1>15. CASE HandleAck
  BY <1>15 DEF HandleAck, Goto
<1>16. CASE SetEvent
  BY <1>16 DEF SetEvent, Goto
<1>17. CASE HandleError
  BY <1>17 DEF HandleError, Goto
<1>18. CASE HandleInitReady
  BY <1>18 DEF HandleInitReady, Goto
<1>19. CASE FrameCallback
  BY <1>19 DEF FrameCallback, Goto
<1>20. CASE AppendRow
  BY <1>20 DEF AppendRow, BeginMark, Goto
<1>21. CASE SensorHandles
  BY <1>21 DEF SensorHandles, Answer
<1>22. CASE SensorFrame
  BY <1>22 DEF SensorFrame
<1>23. CASE SensorFaults
  BY <1>23 DEF SensorFaults
<1>24. CASE UNCHANGED vars
  BY <1>24
<1> QED
  BY <1>1, <1>2, <1>3, <1>4, <1>5, <1>6, <1>7, <1>8, <1>9, <1>10, <1>11, <1>12, <1>13, <1>14,
     <1>15, <1>16, <1>17, <1>18, <1>19, <1>20, <1>21, <1>22, <1>23, <1>24
     DEF Next, Commander, Receiver, MarkDisconnected, Terminated, Moves

\* The payload of the registered command.
LEMMA FileCases ==
  ASSUME Typed, Placed, Pended, [Next]_vars, ~Moves
  PROVE  PayloadComes
<1> USE DEF Busy, Registered, Starting, Typed, PlaceType, Threads, MarkLabels, Pended, cmd,
            attempt, AckType, FlagType, Acked, Files, Sets, Filing, Setting, PayloadComes, acks,
            link, work, controller, wires, sensor, client, thread, outside, history, vars
<1>1. CASE ClearEvent
  BY <1>1 DEF ClearEvent, Goto
<1>2. CASE Register
  BY <1>2, CommandType DEF Register, Goto
<1>3. CASE SendCommand
  BY <1>3 DEF SendCommand, SendMsg, BeginMark, Goto
<1>4. CASE SendFailed
  BY <1>4 DEF SendFailed, Fail, Goto
<1>5. CASE AckTimeout
  BY <1>5 DEF AckTimeout, Fail, Goto
<1>6. CASE Answered
  BY <1>6 DEF Answered, Goto
<1>7. CASE StopClient
  BY <1>7 DEF StopClient, CloseSocket, Goto
<1>8. ASSUME NEW t \in Threads, MarkClear(t) PROVE PayloadComes
  BY <1>8 DEF MarkClear, Goto
<1>9. ASSUME NEW t \in Threads, MarkPending(t) PROVE PayloadComes
  BY <1>9 DEF MarkPending, Goto
<1>10. ASSUME NEW t \in Threads, MarkClose(t) PROVE PayloadComes
  BY <1>10 DEF MarkClose, CloseSocket, Goto
<1>11. ASSUME NEW t \in Threads, MarkReport(t) PROVE PayloadComes
  BY <1>11 DEF MarkReport, Resume, Goto
<1>12. CASE Connect
  BY <1>12 DEF Connect, Goto
<1>13. CASE Loop
  BY <1>13 DEF Loop, Goto
<1>14. CASE Receive
  BY <1>14 DEF Receive, BeginMark, Goto
<1>15. CASE HandleAck
  BY <1>15 DEF HandleAck, Goto
<1>16. CASE SetEvent
  BY <1>16 DEF SetEvent, Goto
<1>17. CASE HandleError
  BY <1>17 DEF HandleError, Goto
<1>18. CASE HandleInitReady
  BY <1>18 DEF HandleInitReady, Goto
<1>19. CASE FrameCallback
  BY <1>19 DEF FrameCallback, Goto
<1>20. CASE AppendRow
  BY <1>20 DEF AppendRow, BeginMark, Goto
<1>21. CASE SensorHandles
  BY <1>21 DEF SensorHandles, Answer
<1>22. CASE SensorFrame
  BY <1>22 DEF SensorFrame
<1>23. CASE SensorFaults
  BY <1>23 DEF SensorFaults
<1>24. CASE UNCHANGED vars
  BY <1>24
<1> QED
  BY <1>1, <1>2, <1>3, <1>4, <1>5, <1>6, <1>7, <1>8, <1>9, <1>10, <1>11, <1>12, <1>13, <1>14,
     <1>15, <1>16, <1>17, <1>18, <1>19, <1>20, <1>21, <1>22, <1>23, <1>24
     DEF Next, Commander, Receiver, MarkDisconnected, Terminated, Moves

\* The event that is about to be set.
LEMMA SetCases ==
  ASSUME Typed, Placed, Pended, [Next]_vars, ~Moves
  PROVE  SettingComes
<1> USE DEF Busy, Registered, Starting, Typed, PlaceType, Threads, MarkLabels, Pended, cmd,
            attempt, AckType, FlagType, Acked, Files, Sets, Filing, Setting, SettingComes, acks,
            link, work, controller, wires, sensor, client, thread, outside, history, vars
<1>1. CASE ClearEvent
  BY <1>1 DEF ClearEvent, Goto
<1>2. CASE Register
  BY <1>2 DEF Register, Goto
<1>3. CASE SendCommand
  BY <1>3 DEF SendCommand, SendMsg, BeginMark, Goto
<1>4. CASE SendFailed
  BY <1>4 DEF SendFailed, Fail, Goto
<1>5. CASE AckTimeout
  BY <1>5 DEF AckTimeout, Fail, Goto
<1>6. CASE Answered
  BY <1>6 DEF Answered, Goto
<1>7. CASE StopClient
  BY <1>7 DEF StopClient, CloseSocket, Goto
<1>8. ASSUME NEW t \in Threads, MarkClear(t) PROVE SettingComes
  BY <1>8 DEF MarkClear, Goto
<1>9. ASSUME NEW t \in Threads, MarkPending(t) PROVE SettingComes
  BY <1>9 DEF MarkPending, Goto
<1>10. ASSUME NEW t \in Threads, MarkClose(t) PROVE SettingComes
  BY <1>10 DEF MarkClose, CloseSocket, Goto
<1>11. ASSUME NEW t \in Threads, MarkReport(t) PROVE SettingComes
  BY <1>11 DEF MarkReport, Resume, Goto
<1>12. CASE Connect
  BY <1>12 DEF Connect, Goto
<1>13. CASE Loop
  BY <1>13 DEF Loop, Goto
<1>14. CASE Receive
  BY <1>14 DEF Receive, BeginMark, Goto
<1>15. CASE HandleAck
  BY <1>15 DEF HandleAck, Goto
<1>16. CASE SetEvent
  BY <1>16 DEF SetEvent, Goto
<1>17. CASE HandleError
  BY <1>17 DEF HandleError, Goto
<1>18. CASE HandleInitReady
  BY <1>18 DEF HandleInitReady, Goto
<1>19. CASE FrameCallback
  BY <1>19 DEF FrameCallback, Goto
<1>20. CASE AppendRow
  BY <1>20 DEF AppendRow, BeginMark, Goto
<1>21. CASE SensorHandles
  BY <1>21 DEF SensorHandles, Answer
<1>22. CASE SensorFrame
  BY <1>22 DEF SensorFrame
<1>23. CASE SensorFaults
  BY <1>23 DEF SensorFaults
<1>24. CASE UNCHANGED vars
  BY <1>24
<1> QED
  BY <1>1, <1>2, <1>3, <1>4, <1>5, <1>6, <1>7, <1>8, <1>9, <1>10, <1>11, <1>12, <1>13, <1>14,
     <1>15, <1>16, <1>17, <1>18, <1>19, <1>20, <1>21, <1>22, <1>23, <1>24
     DEF Next, Commander, Receiver, MarkDisconnected, Terminated, Moves

\* The event of the registered command.
LEMMA TakeCases ==
  ASSUME Typed, Placed, Pended, [Next]_vars, ~Moves
  PROVE  AnswerComes
<1> USE DEF Busy, Registered, Starting, Typed, PlaceType, Threads, MarkLabels, Pended, cmd,
            attempt, AckType, FlagType, Acked, Files, Sets, Filing, Setting, AnswerComes, acks,
            link, work, controller, wires, sensor, client, thread, outside, history, vars
<1>1. CASE ClearEvent
  BY <1>1 DEF ClearEvent, Goto
<1>2. CASE Register
  BY <1>2 DEF Register, Goto
<1>3. CASE SendCommand
  BY <1>3 DEF SendCommand, SendMsg, BeginMark, Goto
<1>4. CASE SendFailed
  BY <1>4 DEF SendFailed, Fail, Goto
<1>5. CASE AckTimeout
  BY <1>5 DEF AckTimeout, Fail, Goto
<1>6. CASE Answered
  BY <1>6 DEF Answered, Goto
<1>7. CASE StopClient
  BY <1>7 DEF StopClient, CloseSocket, Goto
<1>8. ASSUME NEW t \in Threads, MarkClear(t) PROVE AnswerComes
  BY <1>8 DEF MarkClear, Goto
<1>9. ASSUME NEW t \in Threads, MarkPending(t) PROVE AnswerComes
  BY <1>9 DEF MarkPending, Goto
<1>10. ASSUME NEW t \in Threads, MarkClose(t) PROVE AnswerComes
  BY <1>10 DEF MarkClose, CloseSocket, Goto
<1>11. ASSUME NEW t \in Threads, MarkReport(t) PROVE AnswerComes
  BY <1>11 DEF MarkReport, Resume, Goto
<1>12. CASE Connect
  BY <1>12 DEF Connect, Goto
<1>13. CASE Loop
  BY <1>13 DEF Loop, Goto
<1>14. CASE Receive
  BY <1>14 DEF Receive, BeginMark, Goto
<1>15. CASE HandleAck
  BY <1>15 DEF HandleAck, Goto
<1>16. CASE SetEvent
  BY <1>16 DEF SetEvent, Goto
<1>17. CASE HandleError
  BY <1>17 DEF HandleError, Goto
<1>18. CASE HandleInitReady
  BY <1>18 DEF HandleInitReady, Goto
<1>19. CASE FrameCallback
  BY <1>19 DEF FrameCallback, Goto
<1>20. CASE AppendRow
  BY <1>20 DEF AppendRow, BeginMark, Goto
<1>21. CASE SensorHandles
  BY <1>21 DEF SensorHandles, Answer
<1>22. CASE SensorFrame
  BY <1>22 DEF SensorFrame
<1>23. CASE SensorFaults
  BY <1>23 DEF SensorFaults
<1>24. CASE UNCHANGED vars
  BY <1>24
<1> QED
  BY <1>1, <1>2, <1>3, <1>4, <1>5, <1>6, <1>7, <1>8, <1>9, <1>10, <1>11, <1>12, <1>13, <1>14,
     <1>15, <1>16, <1>17, <1>18, <1>19, <1>20, <1>21, <1>22, <1>23, <1>24
     DEF Next, Commander, Receiver, MarkDisconnected, Terminated, Moves

\* The result of the command.
LEMMA OwnCases ==
  ASSUME Typed, Placed, Pended, [Next]_vars, ~Moves
  PROVE  ResultComes
<1> USE DEF Busy, Registered, Starting, Typed, PlaceType, Threads, MarkLabels, Pended, cmd,
            attempt, AckType, FlagType, Acked, Files, Sets, Filing, Setting, ResultComes, acks,
            link, work, controller, wires, sensor, client, thread, outside, history, vars
<1>1. CASE ClearEvent
  BY <1>1 DEF ClearEvent, Goto
<1>2. CASE Register
  BY <1>2 DEF Register, Goto
<1>3. CASE SendCommand
  BY <1>3 DEF SendCommand, SendMsg, BeginMark, Goto
<1>4. CASE SendFailed
  BY <1>4 DEF SendFailed, Fail, Goto
<1>5. CASE AckTimeout
  BY <1>5 DEF AckTimeout, Fail, Goto
<1>6. CASE Answered
  BY <1>6 DEF Answered, Goto
<1>7. CASE StopClient
  BY <1>7 DEF StopClient, CloseSocket, Goto
<1>8. ASSUME NEW t \in Threads, MarkClear(t) PROVE ResultComes
  BY <1>8 DEF MarkClear, Goto
<1>9. ASSUME NEW t \in Threads, MarkPending(t) PROVE ResultComes
  BY <1>9 DEF MarkPending, Goto
<1>10. ASSUME NEW t \in Threads, MarkClose(t) PROVE ResultComes
  BY <1>10 DEF MarkClose, CloseSocket, Goto
<1>11. ASSUME NEW t \in Threads, MarkReport(t) PROVE ResultComes
  BY <1>11 DEF MarkReport, Resume, Goto
<1>12. CASE Connect
  BY <1>12 DEF Connect, Goto
<1>13. CASE Loop
  BY <1>13 DEF Loop, Goto
<1>14. CASE Receive
  BY <1>14 DEF Receive, BeginMark, Goto
<1>15. CASE HandleAck
  BY <1>15 DEF HandleAck, Goto
<1>16. CASE SetEvent
  BY <1>16 DEF SetEvent, Goto
<1>17. CASE HandleError
  BY <1>17 DEF HandleError, Goto
<1>18. CASE HandleInitReady
  BY <1>18 DEF HandleInitReady, Goto
<1>19. CASE FrameCallback
  BY <1>19 DEF FrameCallback, Goto
<1>20. CASE AppendRow
  BY <1>20 DEF AppendRow, BeginMark, Goto
<1>21. CASE SensorHandles
  BY <1>21 DEF SensorHandles, Answer
<1>22. CASE SensorFrame
  BY <1>22 DEF SensorFrame
<1>23. CASE SensorFaults
  BY <1>23 DEF SensorFaults
<1>24. CASE UNCHANGED vars
  BY <1>24
<1> QED
  BY <1>1, <1>2, <1>3, <1>4, <1>5, <1>6, <1>7, <1>8, <1>9, <1>10, <1>11, <1>12, <1>13, <1>14,
     <1>15, <1>16, <1>17, <1>18, <1>19, <1>20, <1>21, <1>22, <1>23, <1>24
     DEF Next, Commander, Receiver, MarkDisconnected, Terminated, Moves

\* Every step keeps what a command's answer is.
LEMMA AnsweringStep ==
  ASSUME Typed, Placed, Handled, Pended, InSequence, Residues, Answering, [Next]_vars
  PROVE  Answering'
<1>1. CASE Moves
  <2>1. ~Registered' /\ pc'["commander"] \notin {"register", "returned"}
    BY <1>1, MovesFrom DEF InSequence
  <2> QED
    BY <2>1 DEF Answering, SeenAnswer, FileAnswer, SetAnswer, TakeAnswer, OwnAnswer
<1>2. CASE ~Moves
  <2>1. cmd' = cmd /\ attempt' = attempt
    BY <1>2, SteadyCases DEF Steady
  <2>2. \A n \in unconfirmed : n \in unconfirmed' /\ (Late(n) => Late(n)')
    BY <2>1, ForgottenStays, UnconfirmedGrows DEF Late, Pended
  <2>3. ASSUME Busy, Files \/ Sets
        PROVE  \/ held.n = attempt /\ attempt \in UnderWay
               \/ held.n \in unconfirmed /\ Late(held.n)
    <3>1. held.n \in Filing \cup Setting /\ held.name = cmd
      BY <2>3 DEF Files, Sets, Filing, Setting, Numbered, Typed, HeldType, Events
    <3> QED
      BY <2>3, <3>1, HeldAnswer DEF InSequence, Residues, Late, Forgotten, UnderWay, Unfiled
  <2>4. SeenAnswer'
    <3>1. pc["commander"] = "register" => Busy /\ attempt \notin UnderWay
      BY DEF Busy, InSequence, Fresh
    <3> QED
      BY <1>2, <2>1, <2>2, <2>3, <3>1, SeenCases DEF Answering, SeenAnswer, EventComes
  <2>5. Registered => Busy
    BY DEF Busy
  <2>6. FileAnswer'
    <3> SUFFICES ASSUME Registered'
                 PROVE  \/ payloads'[cmd] \in {0, attempt}
                        \/ \E late \in unconfirmed' : Late(late)' /\ payloads'[cmd] = late
      BY <2>1 DEF FileAnswer
    <3>1. CASE Registered /\ Files
      BY <2>2, <2>3, <2>5, <3>1 DEF Files
    <3>2. CASE Registered /\ payloads'[cmd] = payloads[cmd]
      BY <2>2, <3>2 DEF Answering, FileAnswer
    <3> QED
      BY <1>2, <3>1, <3>2, FileCases DEF PayloadComes
  <2>7. SetAnswer'
    <3> SUFFICES ASSUME Registered', pc'["receiver"] = "set_event", held'.n = attempt
                 PROVE  payloads'[cmd] = attempt
      BY <2>1 DEF SetAnswer
    <3>1. CASE pc["receiver"] = "set_event" /\ held' = held /\ pc["commander"] = "register"
      BY <3>1 DEF InSequence, Fresh, UnderWay, Setting
    <3>2. CASE pc["receiver"] = "set_event" /\ held' = held /\ Registered
                 /\ payloads'[cmd] = payloads[cmd]
      BY <3>2 DEF Answering, SetAnswer
    <3>3. CASE Registered /\ HandleAck
      <4>1. held' = held /\ held.n \in Filing
        BY <3>3 DEF HandleAck, thread, Filing, Numbered, Typed, HeldType, Events
      <4>2. held.name = cmd
        BY <2>5, <3>3, <4>1 DEF InSequence, Fronted, Handled
      <4>3. cmd \in Commands
        BY CommandType DEF Typed
      <4> QED
        BY <3>3, <4>1, <4>2, <4>3 DEF HandleAck, Typed, AckType
    <3> QED
      BY <1>2, <3>1, <3>2, <3>3, SetCases DEF SettingComes
  <2>8. TakeAnswer'
    <3> SUFFICES ASSUME Registered', Acked'
                 PROVE  payloads'[cmd] = attempt \/ \E late \in unconfirmed' : Late(late)'
      BY <2>1 DEF TakeAnswer
    <3>1. CASE Registered /\ Acked /\ payloads'[cmd] = payloads[cmd]
      BY <2>2, <3>1 DEF Answering, TakeAnswer
    <3>2. CASE Registered /\ Sets /\ payloads'[cmd] = payloads[cmd]
      BY <2>2, <2>3, <2>5, <3>2 DEF Answering, SetAnswer, Sets
    <3>3. CASE pc["commander"] = "register" /\ cmd \in events
      BY <2>2, <3>3 DEF Answering, SeenAnswer
    <3>4. CASE Registered /\ Files
      BY <2>2, <2>3, <2>5, <3>4 DEF Files
    <3> QED
      BY <1>2, <3>1, <3>2, <3>3, <3>4, TakeCases DEF AnswerComes
  <2>9. OwnAnswer'
    <3> SUFFICES ASSUME pc'["commander"] = "returned", ok'
                 PROVE  answer' = attempt
                          \/ \E late \in unconfirmed' : Late(late)' /\ answer' \in {late, 0}
      BY <2>1 DEF OwnAnswer
    <3>1. CASE pc["commander"] = "returned" /\ ok /\ answer' = answer
      BY <2>2, <3>1 DEF Answering, OwnAnswer
    <3>2. CASE Registered /\ Acked /\ answer' = payloads[cmd]
      BY <2>2, <3>2 DEF Answering, TakeAnswer, FileAnswer, Late, Forgotten
    <3> QED
      BY <1>2, <3>1, <3>2, OwnCases DEF ResultComes
  <2> QED
    BY <2>4, <2>6, <2>7, <2>8, <2>9 DEF Answering
<1> QED
  BY <1>1, <1>2

-----------------------------------------------------------------------------
(***************************************************************************)
(* Frames.                                                                 *)
(***************************************************************************)
\* Only an answer changes whether the sensor captures.
LEMMA CapturingCases ==
  ASSUME Typed, [Next]_vars
  PROVE  capturing' = capturing \/ Served
<1> USE DEF acks, link, work, controller, wires, sensor, client, thread, outside, history, vars
<1>1. CASE ClearEvent
  BY <1>1 DEF ClearEvent, Goto
<1>2. CASE Register
  BY <1>2 DEF Register, Goto
<1>3. CASE SendCommand
  BY <1>3 DEF SendCommand, SendMsg, BeginMark, Goto
<1>4. CASE SendFailed
  BY <1>4 DEF SendFailed, Fail, Goto
<1>5. CASE AckTimeout
  BY <1>5 DEF AckTimeout, Fail, Goto
<1>6. CASE Answered
  BY <1>6 DEF Answered, Goto
<1>7. CASE Startup
  BY <1>7 DEF Startup, SendMsg, BeginMark, BeginStop, Begin, Goto
<1>8. CASE Outcome
  BY <1>8 DEF Outcome, Started, Back, Begin, BeginStop, Goto
<1>9. CASE StopClient
  BY <1>9 DEF StopClient, CloseSocket, Goto
<1>10. CASE Operate
  BY <1>10 DEF Operate, Begin, Goto
<1>11. CASE EndOfRun
  BY <1>11 DEF EndOfRun, Begin, BeginStop, Goto
<1>12. ASSUME NEW t \in Threads, MarkClear(t) PROVE capturing' = capturing \/ Served
  BY <1>12 DEF MarkClear, Goto
<1>13. ASSUME NEW t \in Threads, MarkPending(t) PROVE capturing' = capturing \/ Served
  BY <1>13 DEF MarkPending, Goto
<1>14. ASSUME NEW t \in Threads, MarkClose(t) PROVE capturing' = capturing \/ Served
  BY <1>14 DEF MarkClose, CloseSocket, Goto
<1>15. ASSUME NEW t \in Threads, MarkReport(t) PROVE capturing' = capturing \/ Served
  BY <1>15 DEF MarkReport, Resume, Goto
<1>16. CASE Connect
  BY <1>16 DEF Connect, Goto
<1>17. CASE Loop
  BY <1>17 DEF Loop, Goto
<1>18. CASE Receive
  BY <1>18 DEF Receive, BeginMark, Goto
<1>19. CASE HandleAck
  BY <1>19 DEF HandleAck, Goto
<1>20. CASE SetEvent
  BY <1>20 DEF SetEvent, Goto
<1>21. CASE HandleError
  BY <1>21 DEF HandleError, Goto
<1>22. CASE HandleInitReady
  BY <1>22 DEF HandleInitReady, Goto
<1>23. CASE FrameCallback
  BY <1>23 DEF FrameCallback, Goto
<1>24. CASE AppendRow
  BY <1>24 DEF AppendRow, BeginMark, Goto
<1>25. CASE SensorHandles
  BY <1>25 DEF SensorHandles, Served
<1>26. CASE SensorFrame
  BY <1>26 DEF SensorFrame
<1>27. CASE SensorFaults
  BY <1>27 DEF SensorFaults
<1>28. CASE UNCHANGED vars
  BY <1>28
<1> QED
  BY <1>1, <1>2, <1>3, <1>4, <1>5, <1>6, <1>7, <1>8, <1>9, <1>10, <1>11, <1>12, <1>13, <1>14,
     <1>15, <1>16, <1>17, <1>18, <1>19, <1>20, <1>21, <1>22, <1>23, <1>24, <1>25, <1>26, <1>27,
     <1>28
     DEF Next, Commander, Receiver, MarkDisconnected, Terminated, Threads, Moves

\* The frame that the receive thread holds.
FrameKept == HoldsFrame /\ held' = held
FrameRead == Read /\ held' = Head(fromSensor) /\ IsFrame(held')

\* The receive thread comes to hold a frame by reading it.
LEMMA HeldFrameCases ==
  ASSUME Typed, [Next]_vars
  PROVE  HoldsFrame' => FrameKept \/ FrameRead
<1> USE DEF FrameKept, FrameRead, HoldsFrame, Typed, PlaceType, Threads, MarkLabels, HeldType,
            acks, link, work, controller, wires, sensor, client, thread, outside, history, vars
<1>1. CASE ClearEvent
  BY <1>1 DEF ClearEvent, Goto
<1>2. CASE Register
  BY <1>2 DEF Register, Goto
<1>3. CASE SendCommand
  BY <1>3 DEF SendCommand, SendMsg, BeginMark, Goto
<1>4. CASE SendFailed
  BY <1>4 DEF SendFailed, Fail, Goto
<1>5. CASE AckTimeout
  BY <1>5 DEF AckTimeout, Fail, Goto
<1>6. CASE Answered
  BY <1>6 DEF Answered, Goto
<1>7. CASE Startup
  BY <1>7 DEF Startup, SendMsg, BeginMark, BeginStop, Begin, Goto
<1>8. CASE Outcome
  BY <1>8 DEF Outcome, Started, Back, Begin, BeginStop, Goto
<1>9. CASE StopClient
  BY <1>9 DEF StopClient, CloseSocket, Goto
<1>10. CASE Operate
  BY <1>10 DEF Operate, Begin, Goto
<1>11. CASE EndOfRun
  BY <1>11 DEF EndOfRun, Begin, BeginStop, Goto
<1>12. ASSUME NEW t \in Threads, MarkClear(t) PROVE HoldsFrame' => FrameKept \/ FrameRead
  BY <1>12 DEF MarkClear, Goto
<1>13. ASSUME NEW t \in Threads, MarkPending(t) PROVE HoldsFrame' => FrameKept \/ FrameRead
  BY <1>13 DEF MarkPending, Goto
<1>14. ASSUME NEW t \in Threads, MarkClose(t) PROVE HoldsFrame' => FrameKept \/ FrameRead
  BY <1>14 DEF MarkClose, CloseSocket, Goto
<1>15. ASSUME NEW t \in Threads, MarkReport(t) PROVE HoldsFrame' => FrameKept \/ FrameRead
  BY <1>15 DEF MarkReport, Resume, Goto
<1>16. CASE Connect
  BY <1>16 DEF Connect, Goto
<1>17. CASE Loop
  BY <1>17 DEF Loop, Goto
<1>18. CASE Receive
  BY <1>18 DEF Receive, BeginMark, Goto, Read, IsFrame
<1>19. CASE HandleAck
  BY <1>19 DEF HandleAck, Goto
<1>20. CASE SetEvent
  BY <1>20 DEF SetEvent, Goto
<1>21. CASE HandleError
  BY <1>21 DEF HandleError, Goto
<1>22. CASE HandleInitReady
  BY <1>22 DEF HandleInitReady, Goto
<1>23. CASE FrameCallback
  BY <1>23 DEF FrameCallback, Goto
<1>24. CASE AppendRow
  BY <1>24 DEF AppendRow, BeginMark, Goto
<1>25. CASE SensorHandles
  BY <1>25 DEF SensorHandles, Answer
<1>26. CASE SensorFrame
  BY <1>26 DEF SensorFrame
<1>27. CASE SensorFaults
  BY <1>27 DEF SensorFaults
<1>28. CASE UNCHANGED vars
  BY <1>28
<1> QED
  BY <1>1, <1>2, <1>3, <1>4, <1>5, <1>6, <1>7, <1>8, <1>9, <1>10, <1>11, <1>12, <1>13, <1>14,
     <1>15, <1>16, <1>17, <1>18, <1>19, <1>20, <1>21, <1>22, <1>23, <1>24, <1>25, <1>26, <1>27,
     <1>28
     DEF Next, Commander, Receiver, MarkDisconnected, Terminated, Moves

\* Silence lasts as long as the sensor does not capture.
LEMMA SilentServed ==
  ASSUME Typed, Handled, [Next]_vars, Silent, ~capturing'
  PROVE  Silent'
<1> USE QueueMessages DEF Typed
<1>1. ~capturing /\ ~HoldsFrame /\ NoFrames(fromSensor)
  BY DEF Silent
<1>2. ~HoldsFrame'
  BY <1>1, TailFrames, HeldFrameCases DEF FrameKept, FrameRead, Read
<1>3. NoFrames(fromSensor')
  <2>1. CASE Kept \/ Closed
    BY <1>1, <2>1, EmptyQueue DEF Kept, Closed
  <2>2. CASE Written(None) \/ Written(Message("command", cmd, attempt))
    BY <1>1, <2>2 DEF Written
  <2>3. CASE Served
    <3>1. PICK m \in Answer(Head(toSensor)) : fromSensor' = Append(fromSensor, m)
      BY <2>3 DEF Served
    <3>2. m \in Messages /\ ~IsFrame(m)
      BY <2>3, ServedAnswer DEF Served, Events, IsFrame
    <3> QED
      BY <1>1, <3>1, <3>2, AppendFrames
  <2>4. ASSUME NEW m \in Events, Uttered(m) PROVE NoFrames(fromSensor')
    BY <1>1, <2>4, AppendFrames DEF Uttered, Events
  <2>5. CASE Read
    BY <1>1, <2>5, TailFrames DEF Read
  <2> QED
    BY <2>1, <2>2, <2>3, <2>4, <2>5, WireCases
<1> QED
  BY <1>2, <1>3 DEF Silent

\* A step that answers no command does not end it.
LEMMA SilentKept ==
  ASSUME Typed, Handled, [Next]_vars, Silent, ~(Served /\ Numbered(Head(toSensor)))
  PROVE  Silent'
<1>1. CASE Served
  <2>1. PICK m \in Answer(Head(toSensor)) :
          capturing' = IF m.kind = "ack" THEN m.name = "START_REQ" ELSE capturing
    BY <1>1 DEF Served
  <2>2. m.kind # "ack"
    BY <1>1, ServedAnswer DEF Served, Numbered
  <2>3. ~capturing'
    BY <2>1, <2>2 DEF Silent
  <2> QED
    BY <2>3, SilentServed
<1>2. CASE ~Served
  BY <1>2, CapturingCases, SilentServed DEF Silent
<1> QED
  BY <1>1, <1>2

\* Nor does one that answers another command than START_REQ.
LEMMA SilentStays ==
  ASSUME Typed, Handled, Sorted, [Next]_vars, Silent,
         \A n \in Numbers(toSensor) : sent[n] # "START_REQ"
  PROVE  Silent'
<1>1. CASE Served /\ Numbered(Head(toSensor))
  <2>1. PICK m \in Answer(Head(toSensor)) :
          capturing' = IF m.kind = "ack" THEN m.name = "START_REQ" ELSE capturing
    BY <1>1 DEF Served
  <2>2. m.kind = "ack" => m.name = Head(toSensor).name
    BY <1>1, ServedAnswer DEF Served, Numbered
  <2>3. /\ Head(toSensor).n \in Numbers(toSensor)
        /\ Head(toSensor).name = sent[Head(toSensor).n]
    BY <1>1, TailNumbers, QueueMessages DEF Served, Sorted, Typed
  <2>4. ~capturing'
    BY <2>1, <2>2, <2>3 DEF Silent
  <2> QED
    BY <2>4, SilentServed
<1>2. CASE ~(Served /\ Numbered(Head(toSensor)))
  BY <1>2, SilentKept
<1> QED
  BY <1>1, <1>2

\* An ERROR is written only in answer to its command.
LEMMA ErrorCases ==
  ASSUME Typed, Handled, [Next]_vars, attempt # 0,
         ErrorOf(fromSensor', attempt), ~ErrorOf(fromSensor, attempt)
  PROVE  Served /\ \E m \in Answer(Head(toSensor)) : m.kind = "error" /\ m.n = attempt
                                                     /\ capturing' = capturing
<1> USE QueueMessages DEF Typed
<1>1. CASE Kept \/ Closed
  BY <1>1, EmptyQueue DEF Kept, Closed
<1>2. CASE Written(None) \/ Written(Message("command", cmd, attempt))
  BY <1>2 DEF Written
<1>3. CASE Served
  <2>1. PICK m \in Answer(Head(toSensor)) :
          /\ fromSensor' = Append(fromSensor, m)
          /\ capturing' = IF m.kind = "ack" THEN m.name = "START_REQ" ELSE capturing
    BY <1>3 DEF Served
  <2>2. m \in Messages
    BY <1>3, ServedAnswer DEF Served, Events
  <2>3. m.kind = "error" /\ m.n = attempt
    BY <2>1, <2>2, AppendFrames
  <2> QED
    BY <1>3, <2>1, <2>3
<1>4. ASSUME NEW m \in Events, Uttered(m) PROVE FALSE
  <2>1. m.kind = "error" /\ m.n = attempt
    BY <1>4, AppendFrames DEF Uttered, Events
  <2> QED
    BY <1>4, <2>1 DEF Uttered, Numbered
<1>5. CASE Read
  BY <1>5, TailFrames DEF Read
<1> QED
  BY <1>1, <1>2, <1>3, <1>4, <1>5, WireCases

\* The demo changes only when one is begun, in silence.
LEMMA DemoCases ==
  ASSUME Typed, [Next]_vars
  PROVE  \/ demos' = demos
         \/ /\ Operate /\ pc["commander"] = "loop" /\ state = "WAIT_START"
            /\ UNCHANGED <<toSensor, fromSensor, held, capturing, pending, unconfirmed, lost>>
            /\ pc'["receiver"] = pc["receiver"]
            /\ demos' = demos + 1 /\ store' = demos'
<1> USE DEF acks, link, work, controller, wires, sensor, client, thread, outside, history, vars
<1>1. ASSUME ClearEvent PROVE demos' = demos
  BY <1>1 DEF ClearEvent, Goto
<1>2. ASSUME Register PROVE demos' = demos
  BY <1>2 DEF Register, Goto
<1>3. ASSUME SendCommand PROVE demos' = demos
  BY <1>3 DEF SendCommand, SendMsg, BeginMark, Goto
<1>4. ASSUME SendFailed PROVE demos' = demos
  BY <1>4 DEF SendFailed, Fail, Goto
<1>5. ASSUME AckTimeout PROVE demos' = demos
  BY <1>5 DEF AckTimeout, Fail, Goto
<1>6. ASSUME Answered PROVE demos' = demos
  BY <1>6 DEF Answered, Goto
<1>7. ASSUME Startup PROVE demos' = demos
  BY <1>7 DEF Startup, SendMsg, BeginMark, BeginStop, Begin, Goto
<1>8. ASSUME Outcome PROVE demos' = demos
  BY <1>8 DEF Outcome, Started, Back, Begin, BeginStop, Goto
<1>9. ASSUME StopClient PROVE demos' = demos
  BY <1>9 DEF StopClient, CloseSocket, Goto
<1>10. ASSUME Operate
      PROVE  \/ demos' = demos
             \/ /\ pc["commander"] = "loop" /\ state = "WAIT_START"
                /\ UNCHANGED <<toSensor, fromSensor, held, capturing, pending, unconfirmed, lost>>
                /\ pc'["receiver"] = pc["receiver"]
                /\ demos' = demos + 1 /\ store' = demos'
  BY <1>10 DEF Operate, Begin, Goto, Typed, PlaceType, Threads
<1>11. ASSUME EndOfRun PROVE demos' = demos
  BY <1>11 DEF EndOfRun, Begin, BeginStop, Goto
<1>12. ASSUME NEW t \in Threads, MarkClear(t) PROVE demos' = demos
  BY <1>12 DEF MarkClear, Goto
<1>13. ASSUME NEW t \in Threads, MarkPending(t) PROVE demos' = demos
  BY <1>13 DEF MarkPending, Goto
<1>14. ASSUME NEW t \in Threads, MarkClose(t) PROVE demos' = demos
  BY <1>14 DEF MarkClose, CloseSocket, Goto
<1>15. ASSUME NEW t \in Threads, MarkReport(t) PROVE demos' = demos
  BY <1>15 DEF MarkReport, Resume, Goto
<1>16. ASSUME Connect PROVE demos' = demos
  BY <1>16 DEF Connect, Goto
<1>17. ASSUME Loop PROVE demos' = demos
  BY <1>17 DEF Loop, Goto
<1>18. ASSUME Receive PROVE demos' = demos
  BY <1>18 DEF Receive, BeginMark, Goto
<1>19. ASSUME HandleAck PROVE demos' = demos
  BY <1>19 DEF HandleAck, Goto
<1>20. ASSUME SetEvent PROVE demos' = demos
  BY <1>20 DEF SetEvent, Goto
<1>21. ASSUME HandleError PROVE demos' = demos
  BY <1>21 DEF HandleError, Goto
<1>22. ASSUME HandleInitReady PROVE demos' = demos
  BY <1>22 DEF HandleInitReady, Goto
<1>23. ASSUME FrameCallback PROVE demos' = demos
  BY <1>23 DEF FrameCallback, Goto
<1>24. ASSUME AppendRow PROVE demos' = demos
  BY <1>24 DEF AppendRow, BeginMark, Goto
<1>25. ASSUME SensorHandles PROVE demos' = demos
  BY <1>25 DEF SensorHandles, Answer
<1>26. ASSUME SensorFrame PROVE demos' = demos
  BY <1>26 DEF SensorFrame
<1>27. ASSUME SensorFaults PROVE demos' = demos
  BY <1>27 DEF SensorFaults
<1>28. ASSUME UNCHANGED vars PROVE demos' = demos
  BY <1>28
<1> QED
  BY <1>1, <1>2, <1>3, <1>4, <1>5, <1>6, <1>7, <1>8, <1>9, <1>10, <1>11, <1>12, <1>13, <1>14,
     <1>15, <1>16, <1>17, <1>18, <1>19, <1>20, <1>21, <1>22, <1>23, <1>24, <1>25, <1>26, <1>27,
     <1>28
     DEF Next, Commander, Receiver, MarkDisconnected, Terminated, Threads

\* A connection that was lost stays lost.
LEMMA LostStays ==
  ASSUME Typed, [Next]_vars
  PROVE  lost => lost'
<1> USE DEF acks, link, work, controller, wires, sensor, client, thread, outside, history, vars
<1>1. CASE ClearEvent
  BY <1>1 DEF ClearEvent, Goto
<1>2. CASE Register
  BY <1>2 DEF Register, Goto
<1>3. CASE SendCommand
  BY <1>3 DEF SendCommand, SendMsg, BeginMark, Goto
<1>4. CASE SendFailed
  BY <1>4 DEF SendFailed, Fail, Goto
<1>5. CASE AckTimeout
  BY <1>5 DEF AckTimeout, Fail, Goto
<1>6. CASE Answered
  BY <1>6 DEF Answered, Goto
<1>7. CASE Startup
  BY <1>7 DEF Startup, SendMsg, BeginMark, BeginStop, Begin, Goto
<1>8. CASE Outcome
  BY <1>8 DEF Outcome, Started, Back, Begin, BeginStop, Goto
<1>9. CASE StopClient
  BY <1>9 DEF StopClient, CloseSocket, Goto
<1>10. CASE Operate
  BY <1>10 DEF Operate, Begin, Goto
<1>11. CASE EndOfRun
  BY <1>11 DEF EndOfRun, Begin, BeginStop, Goto
<1>12. ASSUME NEW t \in Threads, MarkClear(t) PROVE lost => lost'
  BY <1>12 DEF MarkClear, Goto
<1>13. ASSUME NEW t \in Threads, MarkPending(t) PROVE lost => lost'
  BY <1>13 DEF MarkPending, Goto
<1>14. ASSUME NEW t \in Threads, MarkClose(t) PROVE lost => lost'
  BY <1>14 DEF MarkClose, CloseSocket, Goto
<1>15. ASSUME NEW t \in Threads, MarkReport(t) PROVE lost => lost'
  BY <1>15 DEF MarkReport, Resume, Goto
<1>16. CASE Connect
  BY <1>16 DEF Connect, Goto
<1>17. CASE Loop
  BY <1>17 DEF Loop, Goto
<1>18. CASE Receive
  BY <1>18 DEF Receive, BeginMark, Goto
<1>19. CASE HandleAck
  BY <1>19 DEF HandleAck, Goto
<1>20. CASE SetEvent
  BY <1>20 DEF SetEvent, Goto
<1>21. CASE HandleError
  BY <1>21 DEF HandleError, Goto
<1>22. CASE HandleInitReady
  BY <1>22 DEF HandleInitReady, Goto
<1>23. CASE FrameCallback
  BY <1>23 DEF FrameCallback, Goto
<1>24. CASE AppendRow
  BY <1>24 DEF AppendRow, BeginMark, Goto
<1>25. CASE SensorHandles
  BY <1>25 DEF SensorHandles, Answer
<1>26. CASE SensorFrame
  BY <1>26 DEF SensorFrame
<1>27. CASE SensorFaults
  BY <1>27 DEF SensorFaults
<1>28. CASE UNCHANGED vars
  BY <1>28
<1> QED
  BY <1>1, <1>2, <1>3, <1>4, <1>5, <1>6, <1>7, <1>8, <1>9, <1>10, <1>11, <1>12, <1>13, <1>14,
     <1>15, <1>16, <1>17, <1>18, <1>19, <1>20, <1>21, <1>22, <1>23, <1>24, <1>25, <1>26, <1>27,
     <1>28
     DEF Next, Commander, Receiver, MarkDisconnected, Terminated, Threads, Moves

\* A stopping channel goes on to its end.
LEMMA StopStays ==
  ASSUME Typed, Placed, [Next]_vars, pc["commander"] \in StopLabels
  PROVE  pc'["commander"] \in StopLabels /\ UNCHANGED <<ok, handler, store>>
<1> USE DEF Typed, PlaceType, Threads, MarkLabels, StopLabels, Placed, Starting, acks, link, work,
            controller, wires, sensor, client, thread, outside, history, vars
<1>1. CASE ClearEvent
  BY <1>1 DEF ClearEvent, Goto
<1>2. CASE Register
  BY <1>2 DEF Register, Goto
<1>3. CASE SendCommand
  BY <1>3 DEF SendCommand, SendMsg, BeginMark, Goto
<1>4. CASE SendFailed
  BY <1>4 DEF SendFailed, Fail, Goto
<1>5. CASE AckTimeout
  BY <1>5 DEF AckTimeout, Fail, Goto
<1>6. CASE Answered
  BY <1>6 DEF Answered, Goto
<1>7. CASE Startup
  BY <1>7 DEF Startup, SendMsg, BeginMark, BeginStop, Begin, Goto
<1>8. CASE Outcome
  BY <1>8 DEF Outcome, Started, Back, Begin, BeginStop, Goto
<1>9. CASE StopClient
  BY <1>9 DEF StopClient, CloseSocket, Goto
<1>10. CASE Operate
  BY <1>10 DEF Operate, Begin, Goto
<1>11. CASE EndOfRun
  BY <1>11 DEF EndOfRun, Begin, BeginStop, Goto
<1>12. ASSUME NEW t \in Threads, MarkClear(t)
       PROVE  pc'["commander"] \in StopLabels /\ UNCHANGED <<ok, handler, store>>
  BY <1>12 DEF MarkClear, Goto
<1>13. ASSUME NEW t \in Threads, MarkPending(t)
       PROVE  pc'["commander"] \in StopLabels /\ UNCHANGED <<ok, handler, store>>
  BY <1>13 DEF MarkPending, Goto
<1>14. ASSUME NEW t \in Threads, MarkClose(t)
       PROVE  pc'["commander"] \in StopLabels /\ UNCHANGED <<ok, handler, store>>
  BY <1>14 DEF MarkClose, CloseSocket, Goto
<1>15. ASSUME NEW t \in Threads, MarkReport(t)
       PROVE  pc'["commander"] \in StopLabels /\ UNCHANGED <<ok, handler, store>>
  BY <1>15 DEF MarkReport, Resume, Goto
<1>16. CASE Connect
  BY <1>16 DEF Connect, Goto
<1>17. CASE Loop
  BY <1>17 DEF Loop, Goto
<1>18. CASE Receive
  BY <1>18 DEF Receive, BeginMark, Goto
<1>19. CASE HandleAck
  BY <1>19 DEF HandleAck, Goto
<1>20. CASE SetEvent
  BY <1>20 DEF SetEvent, Goto
<1>21. CASE HandleError
  BY <1>21 DEF HandleError, Goto
<1>22. CASE HandleInitReady
  BY <1>22 DEF HandleInitReady, Goto
<1>23. CASE FrameCallback
  BY <1>23 DEF FrameCallback, Goto
<1>24. CASE AppendRow
  BY <1>24 DEF AppendRow, BeginMark, Goto
<1>25. CASE SensorHandles
  BY <1>25 DEF SensorHandles, Answer
<1>26. CASE SensorFrame
  BY <1>26 DEF SensorFrame
<1>27. CASE SensorFaults
  BY <1>27 DEF SensorFaults
<1>28. CASE UNCHANGED vars
  BY <1>28
<1> QED
  BY <1>1, <1>2, <1>3, <1>4, <1>5, <1>6, <1>7, <1>8, <1>9, <1>10, <1>11, <1>12, <1>13, <1>14,
     <1>15, <1>16, <1>17, <1>18, <1>19, <1>20, <1>21, <1>22, <1>23, <1>24, <1>25, <1>26, <1>27,
     <1>28
     DEF Next, Commander, Receiver, MarkDisconnected, Terminated, Moves

\* The receive thread comes to append a frame while a demo is collected.
Collects == /\ pc["receiver"] = "handle" /\ held.kind = "frame" /\ state = "COLLECTING"
            /\ UNCHANGED <<store, state>>

\* It tests the store only for a frame that arrives in COLLECTING.
LEMMA AppendCases ==
  ASSUME Typed, [Next]_vars
  PROVE  pc'["receiver"] \in {"test_store", "append"} => pc["receiver"] \in {"test_store",
      "append"} \/ Collects
<1> USE DEF Typed, PlaceType, Threads, MarkLabels, Collects, acks, link, work, controller, wires,
            sensor, client, thread, outside, history, vars
<1>1. CASE ClearEvent
  BY <1>1 DEF ClearEvent, Goto
<1>2. CASE Register
  BY <1>2 DEF Register, Goto
<1>3. CASE SendCommand
  BY <1>3 DEF SendCommand, SendMsg, BeginMark, Goto
<1>4. CASE SendFailed
  BY <1>4 DEF SendFailed, Fail, Goto
<1>5. CASE AckTimeout
  BY <1>5 DEF AckTimeout, Fail, Goto
<1>6. CASE Answered
  BY <1>6 DEF Answered, Goto
<1>7. CASE Startup
  BY <1>7 DEF Startup, SendMsg, BeginMark, BeginStop, Begin, Goto
<1>8. CASE Outcome
  BY <1>8 DEF Outcome, Started, Back, Begin, BeginStop, Goto
<1>9. CASE StopClient
  BY <1>9 DEF StopClient, CloseSocket, Goto
<1>10. CASE Operate
  BY <1>10 DEF Operate, Begin, Goto
<1>11. CASE EndOfRun
  BY <1>11 DEF EndOfRun, Begin, BeginStop, Goto
<1>12. ASSUME NEW t \in Threads, MarkClear(t)
       PROVE  pc'["receiver"] \in {"test_store", "append"} => pc["receiver"] \in {"test_store",
           "append"} \/ Collects
  BY <1>12 DEF MarkClear, Goto
<1>13. ASSUME NEW t \in Threads, MarkPending(t)
       PROVE  pc'["receiver"] \in {"test_store", "append"} => pc["receiver"] \in {"test_store",
           "append"} \/ Collects
  BY <1>13 DEF MarkPending, Goto
<1>14. ASSUME NEW t \in Threads, MarkClose(t)
       PROVE  pc'["receiver"] \in {"test_store", "append"} => pc["receiver"] \in {"test_store",
           "append"} \/ Collects
  BY <1>14 DEF MarkClose, CloseSocket, Goto
<1>15. ASSUME NEW t \in Threads, MarkReport(t)
       PROVE  pc'["receiver"] \in {"test_store", "append"} => pc["receiver"] \in {"test_store",
           "append"} \/ Collects
  BY <1>15 DEF MarkReport, Resume, Goto
<1>16. CASE Connect
  BY <1>16 DEF Connect, Goto
<1>17. CASE Loop
  BY <1>17 DEF Loop, Goto
<1>18. CASE Receive
  BY <1>18 DEF Receive, BeginMark, Goto
<1>19. CASE HandleAck
  BY <1>19 DEF HandleAck, Goto
<1>20. CASE SetEvent
  BY <1>20 DEF SetEvent, Goto
<1>21. CASE HandleError
  BY <1>21 DEF HandleError, Goto
<1>22. CASE HandleInitReady
  BY <1>22 DEF HandleInitReady, Goto
<1>23. CASE FrameCallback
  BY <1>23 DEF FrameCallback, Goto
<1>24. CASE AppendRow
  BY <1>24 DEF AppendRow, BeginMark, Goto
<1>25. CASE SensorHandles
  BY <1>25 DEF SensorHandles, Answer
<1>26. CASE SensorFrame
  BY <1>26 DEF SensorFrame
<1>27. CASE SensorFaults
  BY <1>27 DEF SensorFaults
<1>28. CASE UNCHANGED vars
  BY <1>28
<1> QED
  BY <1>1, <1>2, <1>3, <1>4, <1>5, <1>6, <1>7, <1>8, <1>9, <1>10, <1>11, <1>12, <1>13, <1>14,
     <1>15, <1>16, <1>17, <1>18, <1>19, <1>20, <1>21, <1>22, <1>23, <1>24, <1>25, <1>26, <1>27,
     <1>28
     DEF Next, Commander, Receiver, MarkDisconnected, Terminated, Moves

\* The main thread does not move the receive thread.
LEMMA ReceiverStays ==
  ASSUME Typed, [Next]_vars, Moves
  PROVE  pc'["receiver"] = pc["receiver"] /\ UNCHANGED <<held, capturing, fromSensor>>
<1> USE DEF Begin, Goto, Typed, PlaceType, Threads, acks, link, work, controller, wires, sensor,
            client, thread, outside, history, vars
<1>1. CASE Startup
  BY <1>1 DEF Startup, SendMsg, BeginMark, BeginStop
<1>2. CASE Outcome
  BY <1>2 DEF Outcome, Started, Back, BeginStop
<1>3. CASE Operate
  BY <1>3 DEF Operate
<1>4. CASE EndOfRun
  BY <1>4 DEF EndOfRun, BeginStop
<1> QED
  BY <1>1, <1>2, <1>3, <1>4 DEF Next, Commander, Receiver, MarkDisconnected, Terminated, Moves

\* What is calm was calm.
LEMMA CalmBefore ==
  ASSUME Typed, [Next]_vars, Calm'
  PROVE  Calm /\ unconfirmed' = {}
  BY UnconfirmedGrows, LostStays DEF Calm

\* In a calm channel nothing is forgotten.
LEMMA CalmForgetsNothing == ASSUME Calm PROVE \A n : ~Forgotten(n)
  BY DEF Calm, Forgotten

\* In a calm channel an ACK is never taken with the empty payload.
LEMMA CalmStarts ==
  ASSUME Typed, Handled, Answering, Calm, pc["commander"] = "returned", ok
  PROVE  Started
<1>1. Busy /\ attempt \in 1..attempt
  BY AttemptSent DEF Busy, Typed
<1>2. answer = attempt
  BY DEF Answering, OwnAnswer, Calm
<1> QED
  BY <1>1, <1>2, CommandType DEF Started, Typed

\* While a demo is collected, or stopped in the middle, it is stored.
LEMMA CollectingStored ==
  ASSUME Typed, Placed, Handled, state = "COLLECTING"
  PROVE  store # 0
<1>1. pc["commander"] = "loop" \/ Busy
  BY DEF Typed, PlaceType, CommanderLabels, MarkLabels, Placed, StopLabels, Starting, Busy,
         Registered
<1>2. Busy => handler # "stop"
  BY DEF Handled, StatesOf
<1> QED
  BY <1>1, <1>2 DEF Handled

\* A demo is forgotten when the sensor is silent, or has refused to stop.
LEMMA OutcomeStored ==
  ASSUME Typed, Placed, Handled, Residues, Answering, Quieted, Outcome, Calm,
         pc["receiver"] \in {"test_store", "append"}, held.kind = "frame"
  PROVE  \/ store' = store /\ (handler = "abort" => handler' = "abort" /\ ok' = ok)
         \/ /\ handler = "abort" /\ ~ok /\ handler' = "abort" /\ ok' = ok
            /\ pc'["commander"] \in StopLabels
<1>1. pc["commander"] = "returned" /\ Busy
  BY DEF Outcome, Started, Busy
<1>2. ~Silent
  BY DEF Silent, HoldsFrame, IsFrame
<1>3. ~(handler = "start" /\ ~Started)
  BY <1>1, <1>2, CalmStarts DEF Quieted, QuietStart, StartsSilent, Failed
<1>4. ~(handler \in {"rollback", "finish", "discard"} /\ ~ok)
  BY <1>1 DEF Quieted, QuietEnd, Ending, Failed
<1>5. ~(handler \in {"rollback", "finish", "discard", "abort"} /\ ok)
  <2>1. handler \in {"rollback", "finish", "discard", "abort"} => cmd # "START_REQ"
    BY DEF cmd, Request
  <2> QED
    BY <1>1, <1>2, <2>1, ReturnedResidue DEF Quieted, QuietEnd, Ending, EndsSilent, Filed
<1> QED
  BY <1>3, <1>4, <1>5
     DEF Outcome, Started, Back, Begin, BeginStop, Goto, Typed, PlaceType, Threads, StopLabels

\* Every step keeps the frames of the demo apart.
LEMMA FramedStep ==
  ASSUME Typed, Placed, Handled, Pended, InSequence, Residues, Answering, Framed, Quieted,
         [Next]_vars
  PROVE  Framed'
<1> SUFFICES ASSUME Calm'
             PROVE  /\ FramesOf(fromSensor', demos')
                    /\ HoldsFrame' => held'.n = demos'
                    /\ pc'["receiver"] \in {"test_store", "append"} =>
                         \/ store' # 0
                         \/ handler' = "abort" /\ ~ok' /\ pc'["commander"] \in StopLabels
  BY DEF Framed
<1>1. Calm
  BY CalmBefore
<1>2. /\ FramesOf(fromSensor, demos)
      /\ HoldsFrame => held.n = demos
      /\ pc["receiver"] \in {"test_store", "append"} =>
           store # 0 \/ (handler = "abort" /\ ~ok /\ pc["commander"] \in StopLabels)
  BY <1>1 DEF Framed
<1>3. CASE /\ Operate /\ pc["commander"] = "loop" /\ state = "WAIT_START"
           /\ UNCHANGED <<toSensor, fromSensor, held, capturing, pending, unconfirmed, lost>>
           /\ pc'["receiver"] = pc["receiver"]
           /\ demos' = demos + 1 /\ store' = demos'
  <2>1. Silent
    BY <1>1, <1>3 DEF Quieted, QuietIdle
  <2>2. FramesOf(fromSensor', demos') /\ ~HoldsFrame'
    BY <1>3, <2>1 DEF Silent, NoFrames, FramesOf, HoldsFrame
  <2>3. store' # 0
    BY <1>3 DEF Typed, CountType
  <2> QED
    BY <2>2, <2>3
<1>4. CASE demos' = demos
  <2> USE QueueMessages DEF Typed
  <2>1. FramesOf(fromSensor', demos)
    <3>1. CASE Kept \/ Closed
      BY <1>2, <3>1, EmptyQueue DEF Kept, Closed
    <3>2. CASE Written(None) \/ Written(Message("command", cmd, attempt))
      BY <1>2, <3>2 DEF Written
    <3>3. CASE Served
      <4>1. PICK m \in Answer(Head(toSensor)) : fromSensor' = Append(fromSensor, m)
        BY <3>3 DEF Served
      <4>2. m \in Messages /\ ~IsFrame(m)
        BY <3>3, ServedAnswer DEF Served, Events, IsFrame
      <4> QED
        BY <1>2, <4>1, <4>2, AppendFrames
    <3>4. ASSUME NEW m \in Events, Uttered(m) PROVE FramesOf(fromSensor', demos)
      BY <1>2, <3>4, AppendFrames DEF Uttered, Events
    <3>5. CASE Read
      BY <1>2, <3>5, TailFrames DEF Read
    <3> QED
      BY <3>1, <3>2, <3>3, <3>4, <3>5, WireCases
  <2>2. HoldsFrame' => held'.n = demos
    BY <1>2, TailFrames, HeldFrameCases DEF FrameKept, FrameRead, Read
  <2>3. ASSUME pc'["receiver"] \in {"test_store", "append"}
        PROVE  store' # 0 \/ (handler' = "abort" /\ ~ok' /\ pc'["commander"] \in StopLabels)
    <3>1. CASE Collects
      BY <3>1, CollectingStored DEF Collects
    <3>2. CASE pc["receiver"] \in {"test_store", "append"} /\ pc["commander"] \in StopLabels
      BY <1>2, <3>2, StopStays
    <3>3. CASE /\ pc["receiver"] \in {"test_store", "append"} /\ pc["commander"] \notin StopLabels
               /\ ~Moves
      BY <1>2, <3>3, SteadyCases DEF Steady
    <3>4. CASE /\ pc["receiver"] \in {"test_store", "append"} /\ pc["commander"] \notin StopLabels
               /\ Outcome
      BY <1>1, <1>2, <3>4, OutcomeStored DEF HeldType
    <3>5. CASE /\ pc["receiver"] \in {"test_store", "append"} /\ pc["commander"] \notin StopLabels
               /\ (Startup \/ Operate \/ EndOfRun)
      <4>1. store' = store \/ store' = demos'
        BY <3>5 DEF Startup, Operate, EndOfRun
      <4>2. store # 0
        BY <1>2, <3>5
      <4>3. store = demos
        BY <4>2 DEF Handled
      <4> QED
        BY <1>4, <4>1, <4>2, <4>3
    <3> QED
      BY <2>3, <3>1, <3>2, <3>3, <3>4, <3>5, AppendCases DEF Moves
  <2> QED
    BY <1>4, <2>1, <2>2, <2>3
<1> QED
  BY <1>3, <1>4, DemoCases

\* Before a demo nothing disturbs the silence.
LEMMA QuietIdleStep ==
  ASSUME Typed, Placed, Handled, Pended, InSequence, Residues, Answering, Quieted, [Next]_vars
  PROVE  QuietIdle'
<1> SUFFICES ASSUME Calm', Starting' \/ (pc'["commander"] = "loop" /\ state' = "WAIT_START")
             PROVE  Silent'
  BY DEF QuietIdle
<1>1. Calm
  BY CalmBefore
<1>2. ASSUME Silent, Unread = {} PROVE Silent'
  BY <1>2, SilentStays DEF InSequence, Unread
<1>3. ASSUME Starting PROVE Silent'
  <2>1. Silent
    BY <1>1, <1>3 DEF Quieted, QuietIdle
  <2>2. attempt = 0
    BY <1>3 DEF Placed, attempt
  <2>3. Unread = {}
    BY <2>2, NumbersSent DEF InSequence
  <2> QED
    BY <1>2, <2>1, <2>3
<1>4. CASE ~Moves
  <2>1. \/ Starting
        \/ pc["commander"] = "loop" /\ state = "WAIT_START"
    BY <1>4, SteadyCases DEF Steady, Starting
  <2>2. ASSUME pc["commander"] = "loop", state = "WAIT_START" PROVE Silent'
    <3>1. Silent
      BY <1>1, <2>2 DEF Quieted, QuietIdle
    <3>2. Unfiled = {}
      BY <1>1, <2>2, CalmForgetsNothing DEF Residues, LoopResidue
    <3> QED
      BY <1>2, <3>1, <3>2 DEF Unfiled
  <2> QED
    BY <1>3, <2>1, <2>2
<1>5. CASE Startup
  BY <1>3, <1>5 DEF Startup, Placed
<1>6. CASE Operate \/ EndOfRun
  BY <1>6
     DEF Operate, EndOfRun, Begin, BeginStop, Goto, Typed, PlaceType, Threads, Placed, Starting,
              MarkLabels
<1>7. CASE Outcome
  <2>1. \/ handler = "start" /\ ~Started
        \/ handler \in {"rollback", "finish", "discard"} /\ ok
        \/ handler \in {"start", "resume"} /\ ok /\ state' = "COLLECTING"
        \/ handler = "pause" /\ ok /\ state' = "PAUSED"
    BY <1>7 DEF Outcome, Started, Back, BeginStop, Begin, Goto, Typed, PlaceType, Threads, Starting,
                Placed, MarkLabels
  <2>2. pc["commander"] = "returned" /\ Busy
    BY <1>7 DEF Outcome, Started, Busy
  <2>3. ~(state' = "COLLECTING") /\ ~(state' = "PAUSED")
    BY DEF Starting
  <2>4. Silent => Silent'
    BY <1>7, ReceiverStays DEF Moves, Silent, HoldsFrame
  <2>5. CASE handler = "start" /\ ~Started
    BY <1>1, <2>2, <2>4, <2>5, CalmStarts DEF Quieted, QuietStart, StartsSilent, Failed
  <2>6. CASE handler \in {"rollback", "finish", "discard"} /\ ok
    <3>1. cmd # "START_REQ"
      BY <2>6 DEF cmd, Request
    <3>2. answer = attempt
      BY <2>2, <2>6, <3>1, ReturnedResidue
    <3> QED
      BY <1>1, <2>2, <2>4, <2>6, <3>2 DEF Quieted, QuietEnd, Ending, EndsSilent, Filed
  <2> QED
    BY <2>1, <2>3, <2>5, <2>6
<1> QED
  BY <1>4, <1>5, <1>6, <1>7 DEF Moves

\* In a calm channel the start of a demo waits for nothing but its own START_REQ.
LEMMA StartAlone ==
  ASSUME Typed, Handled, InSequence, Residues, Calm, Busy, handler = "start"
  PROVE  /\ Unfiled \subseteq {attempt}
         /\ attempt \in Numbers(fromSensor) => Numbers(toSensor) = {}
         /\ attempt \in Filing => Unread = {}
<1>1. Unfiled \subseteq {attempt}
  BY CalmForgetsNothing DEF Residues, BusyResidue
<1>2. attempt \in Nat
  BY CommandType DEF Typed
<1>3. Numbers(fromSensor) \subseteq {attempt} /\ Numbers(toSensor) \subseteq {attempt}
      /\ Unread \subseteq {attempt}
  BY <1>1 DEF Unfiled, Unread
<1>4. ASSUME attempt \in Numbers(fromSensor) PROVE Numbers(toSensor) = {}
  BY <1>2, <1>3, <1>4 DEF InSequence, Sorted
<1>5. ASSUME attempt \in Filing PROVE Unread = {}
  BY <1>2, <1>3, <1>5 DEF InSequence, Fronted
<1> QED
  BY <1>1, <1>4, <1>5

\* The sensor stays silent until it accepts the start of a demo.
LEMMA QuietStartStep ==
  ASSUME Typed, Placed, Handled, Pended, InSequence, Residues, Answering, Quieted, [Next]_vars
  PROVE  QuietStart'
<1> SUFFICES ASSUME Calm', Busy', handler' = "start", StartsSilent'
             PROVE  Silent'
  BY DEF QuietStart
<1>1. Calm /\ unconfirmed' = {}
  BY CalmBefore
<1>2. ASSUME Silent, Numbers(toSensor) = {} PROVE Silent'
  BY <1>2, SilentStays DEF InSequence
<1>3. CASE Moves
  <2>1. Operate /\ pc["commander"] = "loop" /\ state = "WAIT_START"
    BY <1>3
       DEF Moves, Startup, Outcome, Operate, EndOfRun, Back, Begin, BeginStop, BeginMark, SendMsg,
                Goto, Typed, PlaceType, Threads, Busy, Registered, Starting, MarkLabels, Placed
  <2>2. Silent
    BY <1>1, <2>1 DEF Quieted, QuietIdle
  <2> QED
    BY <1>3, <2>2, ReceiverStays DEF Silent, HoldsFrame
<1>4. CASE ~Moves
  <2>1. Busy /\ handler = "start" /\ attempt' = attempt /\ sent' = sent
    BY <1>4, SteadyCases DEF Steady
  <2>2. /\ Unfiled \subseteq {attempt}
        /\ attempt \in Numbers(fromSensor) => Numbers(toSensor) = {}
        /\ attempt \in Filing => Unread = {}
    BY <1>1, <2>1, StartAlone
  <2>3. StartsSilent => Silent
    BY <1>1, <2>1 DEF Quieted, QuietStart
  <2>4. attempt # 0 /\ attempt \in 1..attempt
    BY <2>1, AttemptSent DEF Typed
  <2>5. CASE pc'["commander"] \in {"clear", "register", "send"}
    <3>1. pc["commander"] \in {"clear", "register", "send"}
      BY <2>1, <2>5, SentCases, SentMore DEF Continues, Begins, Typed, attempt
    <3>2. attempt \notin Numbers(toSensor)
      BY <3>1 DEF InSequence, Fresh, UnderWay, Unfiled, Unread
    <3> QED
      BY <1>2, <2>2, <2>3, <3>1, <3>2 DEF StartsSilent, Unfiled, Unread
  <2>6. CASE attempt \in Numbers(toSensor')
    <3>1. CASE Sends
      <4>1. Silent /\ Numbers(toSensor) = {}
        BY <2>2, <2>3, <3>1 DEF Sends, StartsSilent, InSequence, Fresh, UnderWay, Unfiled, Unread
      <4> QED
        BY <1>2, <4>1
    <3>2. CASE ~Sends
      <4>1. attempt \in Numbers(toSensor)
        BY <2>6, <3>2, UnderWayCases DEF InSequence, Takes
      <4>2. Silent
        BY <2>3, <4>1 DEF StartsSilent
      <4>3. CASE Served /\ Numbered(Head(toSensor))
        <5>1. /\ Head(toSensor).n \in Numbers(toSensor)
              /\ \A k \in Numbers(toSensor') : Head(toSensor).n < k
          BY <4>3, TailNumbers, QueueMessages DEF Served, InSequence, Sorted, Typed
        <5>2. Head(toSensor).n = attempt
          BY <2>2, <5>1 DEF Unfiled, Unread
        <5> QED
          BY <2>4, <2>6, <5>1, <5>2
      <4>4. CASE ~(Served /\ Numbered(Head(toSensor)))
        BY <4>2, <4>4, SilentKept
      <4> QED
        BY <4>3, <4>4
    <3> QED
      BY <3>1, <3>2
  <2>7. CASE ErrorOf(fromSensor', attempt)
    <3>1. CASE ErrorOf(fromSensor, attempt)
      <4>1. attempt \in Numbers(fromSensor)
        BY <2>4, <3>1, NoFramesLast, QueueMessages DEF Typed
      <4> QED
        BY <1>2, <2>2, <2>3, <3>1, <4>1 DEF StartsSilent
    <3>2. CASE ~ErrorOf(fromSensor, attempt)
      <4>1. /\ Served /\ capturing' = capturing
            /\ \E m \in Answer(Head(toSensor)) : m.kind = "error" /\ m.n = attempt
        BY <2>4, <2>7, <3>2, ErrorCases
      <4>2. attempt \in Numbers(toSensor)
        <5>1. Numbered(Head(toSensor)) /\ Head(toSensor).n = attempt
          BY <2>4, <4>1, ServedAnswer DEF Served, Numbered
        <5> QED
          BY <4>1, <5>1, TailNumbers, QueueMessages DEF Served, Typed
      <4>3. Silent
        BY <2>3, <4>2 DEF StartsSilent
      <4> QED
        BY <4>1, <4>3, SilentServed DEF Silent
    <3> QED
      BY <3>1, <3>2
  <2>8. CASE held'.kind = "error" /\ attempt \in Filing'
    <3>1. CASE Takes
      <4>1. /\ held' = Head(fromSensor) /\ fromSensor # <<>> /\ held'.n = attempt
        BY <2>8, <3>1 DEF Takes, Read, Filing
      <4>2. ErrorOf(fromSensor, attempt)
        BY <2>8, <4>1, TailFrames, QueueMessages DEF Typed
      <4>3. attempt \in Numbers(fromSensor)
        BY <2>4, <4>2, NoFramesLast, QueueMessages DEF Typed
      <4> QED
        BY <1>2, <2>2, <2>3, <4>2, <4>3 DEF StartsSilent
    <3>2. CASE ~Takes
      <4>1. held' = held /\ attempt \in Filing
        BY <2>8, <3>2, UnderWayCases DEF Sends, Released, InSequence
      <4> QED
        BY <1>2, <2>2, <2>3, <2>8, <4>1 DEF StartsSilent, Unread
    <3> QED
      BY <3>1, <3>2
  <2>9. CASE Failed'
    <3>1. Failed \/ (Registered /\ HandleError /\ held.n = attempt)
      BY <1>1, <1>4, <2>9, FailedCases
    <3>2. CASE Failed
      <4>1. UnderWay = {}
        BY <1>1, <3>2 DEF Residues, FailedResidue, Calm
      <4> QED
        BY <1>2, <2>3, <3>2, <4>1 DEF StartsSilent, UnderWay, Unfiled, Unread
    <3>3. CASE Registered /\ HandleError /\ held.n = attempt
      <4>1. held.kind = "error" /\ attempt \in Filing
        BY <2>4, <3>3 DEF HandleError, Filing, Numbered
      <4> QED
        BY <1>2, <2>2, <2>3, <4>1 DEF StartsSilent, Unread
    <3> QED
      BY <3>1, <3>2, <3>3
  <2> QED
    BY <2>1, <2>5, <2>6, <2>7, <2>8, <2>9 DEF StartsSilent
<1> QED
  BY <1>3, <1>4

\* The command that ends a demo is the last one under way.
LEMMA EndAlone ==
  ASSUME Typed, Handled, InSequence, Busy
  PROVE  /\ attempt \in 1..attempt
         /\ AckOf(fromSensor, attempt) => Numbers(toSensor) = {}
         /\ attempt \in Filing \cup Setting => Unread = {}
<1>1. attempt \in 1..attempt /\ attempt \in Nat
  BY AttemptSent, CommandType DEF Typed
<1>2. Unread \subseteq 1..attempt /\ Numbers(toSensor) \subseteq Unread
  BY NumbersSent DEF InSequence, Unread
<1>3. ASSUME AckOf(fromSensor, attempt) PROVE Numbers(toSensor) = {}
  <2>1. attempt \in Numbers(fromSensor)
    BY <1>1, <1>3, NoFramesLast, QueueMessages DEF Typed
  <2>2. \A n \in Numbers(toSensor) : attempt < n
    BY <2>1 DEF InSequence, Sorted
  <2>3. ASSUME NEW n \in Numbers(toSensor) PROVE FALSE
    <3>1. n \in 1..attempt /\ attempt < n
      BY <1>2, <2>2
    <3> QED
      BY <1>1, <3>1
  <2> QED
    BY <2>3
<1>4. ASSUME attempt \in Filing \cup Setting PROVE Unread = {}
  BY <1>1, <1>2, <1>4 DEF InSequence, Fronted
<1> QED
  BY <1>1, <1>3, <1>4

\* The ACK of such a command stops the sensor, and no frame follows it.
LEMMA AckCases ==
  ASSUME Typed, Handled, InSequence, [Next]_vars, Busy, cmd # "START_REQ",
         AckOf(fromSensor, attempt) => ~capturing /\ AckLast(fromSensor, attempt),
         AckOf(fromSensor', attempt)
  PROVE  ~capturing' /\ AckLast(fromSensor', attempt)
<1> USE QueueMessages DEF Typed
<1>1. /\ attempt \in 1..attempt /\ attempt # 0
      /\ AckOf(fromSensor, attempt) => Numbers(toSensor) = {}
  BY EndAlone
<1>2. CASE Served
  <2>1. PICK m \in Answer(Head(toSensor)) :
          /\ fromSensor' = Append(fromSensor, m)
          /\ capturing' = IF m.kind = "ack" THEN m.name = "START_REQ" ELSE capturing
    BY <1>2 DEF Served
  <2>2. m \in Messages /\ ~IsFrame(m)
    BY <1>2, ServedAnswer DEF Served, Events, IsFrame
  <2>3. AckLast(fromSensor, attempt)
    BY <1>1, NoFramesLast
  <2>4. AckLast(fromSensor', attempt)
    BY <2>1, <2>2, <2>3, AppendFrames
  <2>5. CASE AckOf(fromSensor, attempt)
    <3>1. ~Numbered(Head(toSensor))
      BY <1>1, <1>2, <2>5, TailNumbers DEF Served
    <3>2. m.kind = "ready"
      BY <1>2, <3>1, ServedAnswer DEF Served
    <3> QED
      BY <2>1, <2>4, <2>5, <3>2
  <2>6. CASE ~AckOf(fromSensor, attempt)
    <3>1. m.kind = "ack" /\ m.n = attempt
      BY <2>1, <2>2, <2>6, AppendFrames
    <3>2. Numbered(m) /\ Numbered(Head(toSensor))
      BY <1>1, <1>2, <3>1, ServedAnswer DEF Served, Numbered
    <3>3. m.name = Head(toSensor).name /\ Head(toSensor).n = attempt
      BY <1>2, <3>1, <3>2, ServedAnswer DEF Served
    <3>4. m.name = cmd
      BY <1>2, <3>2, <3>3, TailNumbers DEF Served, InSequence, Sorted, Handled
    <3> QED
      BY <2>1, <2>4, <3>1, <3>4
  <2> QED
    BY <2>5, <2>6
<1>3. CASE ~Served
  <2>1. capturing' = capturing
    BY <1>3, CapturingCases
  <2>2. CASE Kept \/ Closed
    BY <2>1, <2>2, EmptyQueue DEF Kept, Closed
  <2>3. CASE Written(None) \/ Written(Message("command", cmd, attempt))
    BY <2>1, <2>3 DEF Written
  <2>4. ASSUME NEW m \in Events, Uttered(m) PROVE ~capturing' /\ AckLast(fromSensor', attempt)
    <3>1. m \in Messages /\ ~(m.kind = "ack" /\ m.n = attempt)
      BY <1>1, <2>4 DEF Uttered, Numbered, Events
    <3>2. AckOf(fromSensor, attempt)
      BY <2>4, <3>1, AppendFrames DEF Uttered
    <3> QED
      BY <2>1, <2>4, <3>1, <3>2, AppendFrames DEF Uttered
  <2>5. CASE Read
    BY <2>1, <2>5, TailFrames DEF Read
  <2> QED
    BY <1>3, <2>2, <2>3, <2>4, <2>5, WireCases
<1> QED
  BY <1>2, <1>3

\* A command that ends a demo leaves the sensor silent, if it does not fail.
LEMMA QuietEndStep ==
  ASSUME Typed, Placed, Handled, Pended, InSequence, Residues, Answering, Quieted, Fresh',
         [Next]_vars
  PROVE  QuietEnd'
<1> SUFFICES ASSUME Calm', Ending'
             PROVE  /\ AckOf(fromSensor', attempt') => ~capturing' /\ AckLast(fromSensor', attempt')
                    /\ EndsSilent' => Silent'
                    /\ Failed' /\ handler' # "abort" => pc'["receiver"] \notin {"test_store",
                        "append"}
  BY DEF QuietEnd
<1>1. Calm
  BY CalmBefore
<1>2. CASE Moves
  <2>1. pc'["commander"] = "clear" /\ ~Filed' /\ ~Failed'
    BY <1>2, MovesFrom DEF InSequence, Ending, Busy
  <2>2. attempt' \notin UnderWay'
    BY <2>1 DEF Fresh
  <2>3. ~AckOf(fromSensor', attempt')
    <3>1. \A i \in 1..Len(fromSensor') : ~(Numbered(fromSensor'[i]) /\ fromSensor'[i].n = attempt')
      BY <2>2 DEF UnderWay, Unfiled, Unread, Numbers
    <3>2. attempt' = attempt + 1 /\ attempt \in Nat
      <4>1. pc["commander"] \notin {"clear", "register", "send"}
        BY <1>2 DEF Moves, Startup, Outcome, Operate, EndOfRun
      <4> QED
        BY <2>1, <4>1, SentCases, SentMore DEF Continues, Begins, Typed, attempt
    <3> QED
      BY <3>1, <3>2 DEF AckOf, Numbered
  <2> QED
    BY <2>1, <2>2, <2>3 DEF EndsSilent, UnderWay, Unfiled
<1>3. CASE ~Moves
  <2>1. /\ Busy /\ Ending /\ attempt' = attempt /\ sent' = sent
        /\ handler' = handler /\ cmd # "START_REQ"
    BY <1>3, SteadyCases DEF Steady, Ending, cmd, Request
  <2>2. /\ AckOf(fromSensor, attempt) => ~capturing /\ AckLast(fromSensor, attempt)
        /\ EndsSilent => Silent
        /\ Failed /\ handler # "abort" => pc["receiver"] \notin {"test_store", "append"}
    BY <1>1, <2>1 DEF Quieted, QuietEnd
  <2>3. AckOf(fromSensor', attempt') => ~capturing' /\ AckLast(fromSensor', attempt')
    BY <2>1, <2>2, AckCases
  <2>4. /\ attempt \in 1..attempt /\ attempt # 0
        /\ AckOf(fromSensor, attempt) => Numbers(toSensor) = {}
        /\ attempt \in Filing \cup Setting => Unread = {}
    BY <2>1, EndAlone
  <2>5. ASSUME Silent, Numbers(toSensor) = {} PROVE Silent'
    BY <2>5, SilentStays DEF InSequence
  <2>6. ASSUME held.kind = "ack", attempt \in Filing \cup Setting PROVE Silent'
    BY <2>2, <2>4, <2>5, <2>6 DEF EndsSilent, Unread
  <2>7. ASSUME held'.kind = "ack", attempt \in Filing' \cup Setting' PROVE Silent'
    <3>1. CASE Takes
      <4>1. /\ held' = Head(fromSensor) /\ fromSensor # <<>> /\ held'.n = attempt
            /\ pc'["receiver"] = "handle" /\ Read
        BY <2>7, <3>1 DEF Takes, Read, Filing
      <4>2. AckOf(fromSensor, attempt) /\ NoFrames(Tail(fromSensor))
        BY <2>2, <2>7, <4>1, TailFrames, QueueMessages DEF Typed
      <4>3. capturing' = capturing
        BY <4>1, CapturingCases, QueueMessages, HeadTailProperties DEF Served, Read, Typed
      <4> QED
        BY <2>2, <2>7, <4>1, <4>2, <4>3 DEF Silent, HoldsFrame, IsFrame, Read
    <3>2. CASE ~Takes
      <4>1. held' = held /\ attempt \in Filing \cup Setting
        BY <2>7, <3>2, UnderWayCases DEF Sends, Released, InSequence
      <4> QED
        BY <2>6, <2>7, <4>1
    <3> QED
      BY <3>1, <3>2
  <2>8. ASSUME Filed' PROVE Silent'
    <3>1. CASE Filed
      BY <2>2, <2>5, <3>1 DEF EndsSilent, Residues, FiledResidue, Unfiled, Unread
    <3>2. CASE Registered /\ Files /\ held.n = attempt
      BY <2>4, <2>6, <3>2 DEF Files, Filing, Numbered
    <3> QED
      BY <1>3, <2>8, <3>1, <3>2, FiledCases
  <2>9. EndsSilent' => Silent'
    BY <2>1, <2>7, <2>8 DEF EndsSilent
  <2>10. ASSUME Failed', handler # "abort" PROVE pc'["receiver"] \notin {"test_store", "append"}
    <3>1. state # "COLLECTING"
      BY <2>1, <2>10 DEF Ending, Handled, StatesOf
    <3>2. CASE Failed
      BY <2>2, <2>10, <3>1, <3>2, AppendCases DEF Collects
    <3>3. CASE HandleError
      BY <3>3 DEF HandleError, Goto, Typed, PlaceType, Threads
    <3> QED
      BY <1>1, <1>3, <2>10, <3>2, <3>3, FailedCases, CalmBefore
  <2> QED
    BY <2>1, <2>3, <2>9, <2>10
<1> QED
  BY <1>2, <1>3

-----------------------------------------------------------------------------
(***************************************************************************)
(* The invariant.                                                          *)
(***************************************************************************)
\* The initial states satisfy it.
LEMMA InitIInv == Init => IInv
<1> SUFFICES ASSUME Init PROVE IInv
  OBVIOUS
<1>1. Typed
  <2>1. <<>> \in Seq(Requests) /\ <<>> \in Seq(Events) /\ <<>> \in Seq(Commands)
    BY EmptySeq
  <2>2. FlagType /\ AckType /\ CountType
    BY DEF Init, FlagType, AckType, CountType, Threads
  <2>5. PlaceType
    BY DEF Init, PlaceType, Threads, CommanderLabels, ReceiverLabels
  <2>3. WireType /\ HeldType
    BY <2>1 DEF Init, WireType, HeldType, None, Message, Messages
  <2>4. RunType
    BY <2>1, RequestType DEF Init, RunType
  <2> QED
    BY <2>2, <2>3, <2>4, <2>5 DEF Typed
<1>2. Placed /\ Handled /\ Pended
  BY DEF Init, Placed, Handled, Pended, Starting, Busy, Registered, StopLabels, MarkLabels
<1>3. Unread = {} /\ Filing = {} /\ Setting = {} /\ Sorted
  BY EmptyQueue DEF Init, Unread, Filing, Setting, Sorted
<1>4. InSequence
  BY <1>3 DEF InSequence, Fronted, Fresh, UnderWay, Unfiled
<1>5. ~Busy /\ ~Registered /\ pc["commander"] = "boot" /\ pc["receiver"] = "run"
  BY DEF Init, Busy, Registered, Starting, MarkLabels
<1>6. Residues /\ Answering
  BY <1>5 DEF Residues, LoopResidue, BusyResidue, AckedResidue, FiledResidue, FailedResidue, Acked,
              Filed, Failed, Answering, SeenAnswer, FileAnswer, SetAnswer, TakeAnswer, OwnAnswer
<1>7. Silent
  BY EmptyQueue DEF Init, Silent, HoldsFrame
<1>8. Framed /\ Quieted
  BY <1>5, <1>7, EmptyQueue DEF Init, Framed, Quieted, QuietIdle, QuietStart, QuietEnd, Ending,
                                HoldsFrame
<1> QED
  BY <1>1, <1>2, <1>4, <1>6, <1>8 DEF IInv

\* Every step keeps it.
LEMMA IInvStep ==
  ASSUME IInv, [Next]_vars, ChannelAssumption
  PROVE  IInv'
<1> USE DEF IInv
<1>1. Typed'
  BY FlagTypeStep, AckTypeStep, PlaceTypeStep, CountTypeStep, WireTypeStep, HeldTypeStep,
     RunTypeStep
     DEF Typed
<1>2. Placed' /\ Handled' /\ Pended'
  BY PlacedStep, HandledStep, PendedStep
<1>3. InSequence'
  BY SortedStep, FrontedStep, FreshStep DEF InSequence
<1>4. Residues' /\ Answering'
  BY ResiduesStep, AnsweringStep
<1>5. Framed'
  BY FramedStep
<1>6. Quieted'
  BY <1>3, QuietIdleStep, QuietStartStep, QuietEndStep DEF Quieted, InSequence
<1> QED
  BY <1>1, <1>2, <1>3, <1>4, <1>5, <1>6

\* The invariant holds in every reachable state, for every instance of the constants.
THEOREM ChannelInvariance == Spec => []IInv
<1>1. Init => IInv
  BY InitIInv
<1>2. IInv /\ [Next]_vars => IInv'
  BY ChannelAssumption, IInvStep
<1> QED
  BY <1>1, <1>2, PTL DEF Spec

\* Every variable of the channel keeps its type.
THEOREM TypeInvariance == Spec => []TypeOK
<1>1. IInv => TypeOK
  BY TypedOK DEF IInv
<1> QED
  BY <1>1, ChannelInvariance, PTL

\* A command that succeeds (UdsClient.send_and_wait_ack returns a payload) was answered by the ACK
\* of its own attempt, unless one of the same name went without its answer before it.
THEOREM AnswerIsItsOwn == Spec => []AnswerIsOwn
<1>1. IInv => AnswerIsOwn
  BY DEF IInv, AnswerIsOwn, Answering, OwnAnswer, Late, Forgotten
<1> QED
  BY <1>1, ChannelInvariance, PTL

\* The frame callback appends a frame to the demo it was captured in, which is there (_on_uds_event
\* uses demo_store after it tested it), as long as every command is answered and no connection lost.
THEOREM FramesStayWithTheirDemo == Spec => []FrameOfThisDemo
<1>1. ASSUME IInv, pc["receiver"] = "append", InOrder PROVE store = held.n
  <2>1. Calm /\ HoldsFrame
    BY <1>1 DEF InOrder, Calm, HoldsFrame, IInv, Typed, HeldType, IsFrame
  <2>2. held.n = demos
    BY <1>1, <2>1 DEF IInv, Framed
  <2>3. store # 0
    BY <1>1, <2>1 DEF IInv, Framed, InOrder
  <2> QED
    BY <1>1, <2>2, <2>3 DEF IInv, Handled
<1>2. IInv => FrameOfThisDemo
  BY <1>1 DEF FrameOfThisDemo
<1> QED
  BY <1>2, ChannelInvariance, PTL

=============================================================================
