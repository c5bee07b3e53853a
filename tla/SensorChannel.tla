---------------------------- MODULE SensorChannel ----------------------------
(***************************************************************************)
(* One sensor's channel in the collection controller: UdsClient            *)
(* (main_controller/uds_client.py) with its receive thread, the frame      *)
(* callback that thread runs in MainController, and the main thread that   *)
(* drives a demo through the channel.  CollectionController takes a        *)
(* command for one step that succeeds or fails; here it is a request and   *)
(* an answer matched by the command's name.                                *)
(*                                                                         *)
(* Commands of one client are issued one after another: "commander" is the *)
(* main thread, or the pool thread it waits for.  The sensor service is    *)
(* external.                                                               *)
(***************************************************************************)
EXTENDS Integers, Sequences, FiniteSets, SequencesExt

CONSTANTS
  Unlimited,       \* commands sent without a timeout (sensor_flush_timeout_s = none)
  MaxDemos,        \* bound: demos begun
  MaxCommands,     \* bound: commands sent before the channel is stopped
  MaxFrames,       \* bound: frames captured
  MaxConnections,  \* bound: connections accepted by the sensor service
  MaxFaults,       \* bound: faults of the sensor
  Faults           \* what may happen in this instance

Commands == {"START_REQ", "PAUSE_REQ", "DEMO_DONE_REQ", "DEMO_DISCARD_REQ", "STOP_REQ"}

ASSUME ChannelAssumption ==
  /\ Unlimited \subseteq {"DEMO_DONE_REQ"}
  /\ {MaxDemos, MaxCommands, MaxFrames, MaxConnections, MaxFaults} \subseteq Nat
  /\ Faults \subseteq {"slow",     \* a wait ends by its timeout
                       "error",    \* the sensor answers ERROR, or sends one unasked
                       "others",   \* the other sensor or the recorder fails in the operation
                       "close",    \* the sensor service closes the connection
                       "garbage"}  \* bytes that do not decode, from a sensor that lives on

VARIABLES
  stop,       \* _stop
  sock,       \* _sock is not None
  connected,  \* _connected
  initReady,  \* init_ready
  pending,    \* _pending_ack_cmds
  events,     \* the commands whose ACK event is set
  payloads,   \* _ack_payloads: the attempt the ACK answers, 0 when there is none
  errors,     \* the commands that have an entry in _ack_errors
  pc,
  handler,    \* what the commander's command is for
  ok,         \* the command's result is not None
  answer,     \* the attempt whose ACK was returned, 0 for the empty payload
  held,       \* the event the receive thread works on
  first,      \* was_connected, per thread in _mark_disconnected
  state,      \* ControllerState
  store,      \* demo_store: the demo's number, 0 for None
  demos,
  reported,   \* uds_disconnect is in the controller's queue
  peer, conn, toSensor, fromSensor, capturing, frames, faults,  \* external: socket and sensor
  sent,        \* history: the commands sent, by attempt
  unconfirmed, \* history: attempts that failed otherwise than by the sensor's answer to them
  lost         \* history: a connection ended before stop()

acks       == <<pending, events, payloads, errors>>
link       == <<stop, sock, connected>>
work       == <<handler, ok, answer>>
controller == <<state, store, demos>>
wires      == <<peer, toSensor, fromSensor>>
sensor     == <<capturing, frames, faults>>
client     == <<acks, link, initReady>>
thread     == <<work, held, first>>
outside    == <<controller, reported, wires, conn, sensor>>
history    == <<sent, unconfirmed, lost>>
vars       == <<client, thread, pc, outside, history>>

Threads == {"commander", "receiver"}

Message(kind, name, n) == [kind |-> kind, name |-> name, n |-> n]
None == Message("none", "none", 0)

Request == [start |-> "START_REQ", resume |-> "START_REQ", rollback |-> "DEMO_DISCARD_REQ",
            pause |-> "PAUSE_REQ", finish |-> "DEMO_DONE_REQ", discard |-> "DEMO_DISCARD_REQ",
            abort |-> "STOP_REQ", stop |-> "STOP_REQ"]

\* The command the commander is sending, and its attempt.
cmd     == Request[handler]
attempt == Len(sent)

Goto(t, label) == pc' = [pc EXCEPT ![t] = label]

Init ==
  /\ stop = FALSE /\ sock = FALSE /\ connected = FALSE /\ initReady = FALSE
  /\ pending = {} /\ events = {} /\ payloads = [c \in Commands |-> 0] /\ errors = {}
  /\ pc = [commander |-> "boot", receiver |-> "run"]
  /\ handler = "stop" /\ ok = FALSE /\ answer = 0
  /\ held = None /\ first = [t \in Threads |-> FALSE]
  /\ state = "STARTING_SERVICES" /\ store = 0 /\ demos = 0 /\ reported = FALSE
  /\ peer = "closed" /\ conn = 0 /\ toSensor = <<>> /\ fromSensor = <<>>
  /\ capturing = FALSE /\ frames = 0 /\ faults = 0
  /\ sent = <<>> /\ unconfirmed = {} /\ lost = FALSE

-----------------------------------------------------------------------------
(***************************************************************************)
(* _mark_disconnected, on either thread: read the flag, clear it, wake the *)
(* pending commands, close whatever socket there is now, report.           *)
(***************************************************************************)
BeginMark(t) ==
  /\ first' = [first EXCEPT ![t] = connected]
  /\ lost' = (lost \/ ~stop)
  /\ Goto(t, "mark_clear")

MarkClear(t) ==
  /\ pc[t] = "mark_clear"
  /\ connected' = FALSE
  /\ Goto(t, "mark_pending")
  /\ UNCHANGED <<acks, stop, sock, initReady, thread, outside, history>>

\* Mutant: the pending commands get their error but are not woken.
MarkPendingSilent(t) ==
  /\ pc[t] = "mark_pending"
  /\ errors' = errors \cup pending
  /\ unconfirmed' = IF pending = {} THEN unconfirmed ELSE unconfirmed \cup {attempt}
  /\ Goto(t, "mark_close")
  /\ UNCHANGED <<pending, events, payloads, link, initReady, thread, outside, sent, lost>>

MarkPending(t) ==
  /\ pc[t] = "mark_pending"
  /\ errors' = errors \cup pending
  /\ events' = events \cup pending
  /\ unconfirmed' = IF pending = {} THEN unconfirmed ELSE unconfirmed \cup {attempt}
  /\ Goto(t, "mark_close")
  /\ UNCHANGED <<pending, payloads, link, initReady, thread, outside, sent, lost>>

\* _close_socket
CloseSocket ==
  /\ sock' = FALSE
  /\ IF sock THEN peer' = "closed" /\ toSensor' = <<>> /\ fromSensor' = <<>>
             ELSE UNCHANGED wires

MarkClose(t) ==
  /\ pc[t] = "mark_close"
  /\ CloseSocket
  /\ Goto(t, "mark_report")
  /\ UNCHANGED <<acks, stop, connected, initReady, thread, controller, reported, conn, sensor,
                 history>>

\* The sender resumes in send_msg, which returns False; the receiver in its loop.
Resume(t) == CASE t = "receiver"  -> "run"
               [] t = "commander" -> IF state = "STARTING_SERVICES" THEN "init_wait"
                                                                    ELSE "send_failed"

\* Mutant: the flag is read again after it was cleared.
MarkReportLate(t) ==
  /\ pc[t] = "mark_report"
  /\ reported' = (reported \/ (connected /\ ~stop))
  /\ Goto(t, Resume(t))
  /\ UNCHANGED <<client, thread, controller, wires, conn, sensor, history>>

MarkReport(t) ==
  /\ pc[t] = "mark_report"
  /\ reported' = (reported \/ (first[t] /\ ~stop))
  /\ Goto(t, Resume(t))
  /\ UNCHANGED <<client, thread, controller, wires, conn, sensor, history>>

MarkDisconnected(t) == MarkClear(t) \/ MarkPending(t) \/ MarkClose(t) \/ MarkReport(t)

-----------------------------------------------------------------------------
(***************************************************************************)
(* The receive thread: _run.                                               *)
(***************************************************************************)
\* _ensure_connected; a connection that is refused is tried again.
Connect ==
  /\ pc["receiver"] = "run" /\ ~stop /\ ~sock
  /\ conn < MaxConnections
  /\ conn' = conn + 1
  /\ peer' = "open" /\ toSensor' = <<>> /\ fromSensor' = <<>>
  /\ sock' = TRUE /\ connected' = TRUE
  /\ Goto("receiver", "recv")
  /\ UNCHANGED <<acks, stop, initReady, thread, controller, reported, sensor, history>>

Loop ==
  /\ pc["receiver"] = "run" /\ (stop \/ sock)
  /\ Goto("receiver", IF stop THEN "done" ELSE "recv")
  /\ UNCHANGED <<client, thread, outside, history>>

\* A whole event, or the exception of a closed socket or of bytes that do not decode.
Receive ==
  /\ pc["receiver"] = "recv"
  /\ \/ /\ sock /\ fromSensor # <<>>
        /\ fromSensor' = Tail(fromSensor)
        /\ IF Head(fromSensor).kind = "garbage"
           THEN BeginMark("receiver") /\ UNCHANGED held
           ELSE Goto("receiver", "handle") /\ held' = Head(fromSensor) /\ UNCHANGED <<first, lost>>
     \/ /\ ~sock \/ (fromSensor = <<>> /\ peer = "closed")
        /\ BeginMark("receiver")
        /\ UNCHANGED <<held, fromSensor>>
  /\ UNCHANGED <<client, work, controller, reported, peer, toSensor, conn, sensor, sent,
                 unconfirmed>>

\* _handle_event files an ACK; the event is set outside the lock.
HandleAck ==
  /\ pc["receiver"] = "handle" /\ held.kind = "ack"
  /\ payloads' = [payloads EXCEPT ![held.name] = held.n]
  /\ errors' = errors \ {held.name}
  /\ Goto("receiver", "set_event")
  /\ UNCHANGED <<pending, events, link, initReady, thread, outside, history>>

SetEvent ==
  /\ pc["receiver"] = "set_event"
  /\ events' = events \cup {held.name}
  /\ Goto("receiver", "run")
  /\ UNCHANGED <<pending, payloads, errors, link, initReady, thread, outside, history>>

\* _handle_error_event: an ERROR that names no pending command fails all of them.
HandleError ==
  /\ pc["receiver"] = "handle" /\ held.kind = "error"
  /\ LET failed == IF held.name \in pending THEN {held.name} ELSE pending IN
     /\ errors' = errors \cup failed
     /\ events' = events \cup failed
     /\ unconfirmed' = IF failed # {} /\ held.n # attempt THEN unconfirmed \cup {attempt}
                                                          ELSE unconfirmed
  /\ Goto("receiver", "run")
  /\ UNCHANGED <<pending, payloads, link, initReady, thread, outside, sent, lost>>

HandleInitReady ==
  /\ pc["receiver"] = "handle" /\ held.kind = "ready"
  /\ initReady' = TRUE
  /\ Goto("receiver", "run")
  /\ UNCHANGED <<acks, link, thread, outside, history>>

\* _on_uds_event: state and demo_store are tested one after the other, then demo_store is
\* used.  The drop monitors are left out.
FrameCallback ==
  /\ \/ /\ pc["receiver"] = "handle" /\ held.kind = "frame"
        /\ Goto("receiver", IF state = "COLLECTING" THEN "test_store" ELSE "run")
     \/ /\ pc["receiver"] = "test_store"
        /\ Goto("receiver", IF store # 0 THEN "append" ELSE "run")
  /\ UNCHANGED <<client, thread, outside, history>>

\* A row is appended; on None the AttributeError ends the connection.
AppendRow ==
  /\ pc["receiver"] = "append"
  /\ \/ store # 0 /\ Goto("receiver", "run") /\ UNCHANGED <<first, lost>>
     \/ store = 0 /\ BeginMark("receiver")
  /\ UNCHANGED <<client, work, held, outside, sent, unconfirmed>>

Receiver ==
  \/ Connect \/ Loop \/ Receive \/ HandleAck \/ SetEvent \/ HandleError \/ HandleInitReady
  \/ FrameCallback \/ AppendRow \/ MarkDisconnected("receiver")

-----------------------------------------------------------------------------
(***************************************************************************)
(* send_and_wait_ack, on the commander.                                    *)
(***************************************************************************)
Begin(h) ==
  /\ handler' = h
  /\ sent' = Append(sent, Request[h])
  /\ Goto("commander", "clear")

\* Mutant: the event is not cleared.
ClearEventForgotten ==
  /\ pc["commander"] = "clear"
  /\ Goto("commander", "register")
  /\ UNCHANGED <<client, thread, outside, history>>

ClearEvent ==
  /\ pc["commander"] = "clear"
  /\ events' = events \ {cmd}
  /\ Goto("commander", "register")
  /\ UNCHANGED <<pending, payloads, errors, link, initReady, thread, outside, history>>

Register ==
  /\ pc["commander"] = "register"
  /\ payloads' = [payloads EXCEPT ![cmd] = 0]
  /\ errors' = errors \ {cmd}
  /\ pending' = pending \cup {cmd}
  /\ Goto("commander", "send")
  /\ UNCHANGED <<events, link, initReady, thread, outside, history>>

\* send_msg: there may be no socket, and sendall may meet a closed peer, or a socket that the
\* receiver has closed since it was looked up.
SendMsg(m, failedLabel) ==
  \/ /\ ~sock
     /\ Goto("commander", failedLabel)
     /\ UNCHANGED <<toSensor, first, lost>>
  \/ /\ sock /\ peer = "open"
     /\ toSensor' = Append(toSensor, m)
     /\ Goto("commander", IF m = None THEN "init_wait" ELSE "wait")
     /\ UNCHANGED <<first, lost>>
  \/ /\ peer = "closed"
     /\ BeginMark("commander")
     /\ UNCHANGED toSensor

SendCommand ==
  /\ pc["commander"] = "send"
  /\ SendMsg(Message("command", cmd, attempt), "send_failed")
  /\ UNCHANGED <<client, work, held, controller, reported, peer, fromSensor, conn, sensor, sent,
                 unconfirmed>>

\* The result None.
Fail ==
  /\ errors' = errors \cup {cmd}
  /\ pending' = pending \ {cmd}
  /\ ok' = FALSE /\ answer' = 0
  /\ unconfirmed' = unconfirmed \cup {attempt}
  /\ Goto("commander", "returned")
  /\ UNCHANGED <<events, payloads, link, initReady, handler, held, first, outside, sent, lost>>

SendFailed == pc["commander"] = "send_failed" /\ Fail

AckTimeout ==
  /\ pc["commander"] = "wait" /\ "slow" \in Faults /\ cmd \notin Unlimited
  /\ Fail

Answered ==
  /\ pc["commander"] = "wait" /\ cmd \in events
  /\ ok' = (cmd \notin errors)
  /\ answer' = payloads[cmd]
  /\ pending' = pending \ {cmd}
  /\ Goto("commander", "returned")
  /\ UNCHANGED <<events, payloads, errors, link, initReady, handler, held, first, outside,
                 history>>

-----------------------------------------------------------------------------
(***************************************************************************)
(* The main thread of MainController, as far as this channel sees it.      *)
(***************************************************************************)
BeginStop == state' = "STOPPING" /\ Begin("stop")

\* wait_connected, wait_init_ready; the rest of startup does not use the channel.
Startup ==
  /\ \/ /\ pc["commander"] = "boot" /\ connected
        /\ Goto("commander", "init_send")
        /\ UNCHANGED <<state, handler, sent, first, lost, toSensor>>
     \/ /\ pc["commander"] = "init_send" /\ ~initReady
        /\ SendMsg(None, "init_wait")
        /\ UNCHANGED <<state, handler, sent>>
     \/ /\ pc["commander"] \in {"init_send", "init_wait"} /\ initReady
        /\ state' = "WAIT_START" /\ Goto("commander", "loop")
        /\ UNCHANGED <<handler, sent, first, lost, toSensor>>
     \/ /\ pc["commander"] \in {"boot", "init_wait"} /\ "slow" \in Faults
        /\ BeginStop
        /\ UNCHANGED <<first, lost, toSensor>>
  /\ UNCHANGED <<client, ok, answer, held, store, demos, reported, peer, fromSensor, conn,
                 sensor, unconfirmed>>

\* The other sensor or the recorder fails in the same operation.
Others == "others" \in Faults

\* The keys s, p, d and x; in a resume the other sensor may fail before this one is asked.
\* Bound: commands sent.
Operate ==
  /\ pc["commander"] = "loop" /\ attempt < MaxCommands
  /\ \/ /\ state = "WAIT_START" /\ demos < MaxDemos
        /\ demos' = demos + 1 /\ store' = demos'
        /\ Begin("start") /\ UNCHANGED state
     \/ /\ state = "PAUSED"
        /\ Begin("resume") \/ (Others /\ Begin("rollback"))
        /\ UNCHANGED <<state, store, demos>>
     \/ /\ state = "COLLECTING"
        /\ state' = "PAUSED" /\ Begin("pause") /\ UNCHANGED <<store, demos>>
     \/ /\ state \in {"COLLECTING", "PAUSED"}
        /\ \/ state' = "FINALIZING" /\ Begin("finish")
           \/ state' = "DISCARDING" /\ Begin("discard")
        /\ UNCHANGED <<store, demos>>
  /\ UNCHANGED <<client, ok, answer, held, first, reported, wires, conn, sensor, unconfirmed,
                 lost>>

\* Mutant: the demo is forgotten before the sensor has answered STOP_REQ.
EndOfRunForgetful ==
  /\ pc["commander"] = "loop"
  /\ \/ store # 0 /\ Begin("abort") /\ state' \in {state} \cup (IF reported THEN {"ERROR"} ELSE {})
     \/ store = 0 /\ BeginStop
  /\ store' = 0
  /\ UNCHANGED <<client, ok, answer, held, first, demos, reported, wires, conn, sensor,
                 unconfirmed, lost>>

\* The key q leaves the state as it is while an active demo is aborted; a uds_disconnect in
\* the queue makes it ERROR first.
EndOfRun ==
  /\ pc["commander"] = "loop"
  /\ \/ store # 0 /\ Begin("abort") /\ state' \in {state} \cup (IF reported THEN {"ERROR"} ELSE {})
     \/ store = 0 /\ BeginStop
  /\ UNCHANGED <<client, ok, answer, held, first, store, demos, reported, wires, conn, sensor,
                 unconfirmed, lost>>

Back(new) == state' = new /\ Goto("commander", "loop") /\ UNCHANGED <<handler, sent>>

\* A start tests the result by its truth, and the empty payload is false; the other handlers ask
\* whether it is None.
Started == ok /\ answer # 0

\* What a handler does with the result of its command.
Outcome ==
  /\ pc["commander"] = "returned"
  /\ \/ /\ handler \in {"start", "resume"} /\ Started
        /\ \/ Back("COLLECTING")
           \/ Others /\ Begin("rollback") /\ UNCHANGED state
        /\ UNCHANGED store
     \/ /\ handler = "start" /\ ~Started
        /\ store' = 0
        /\ \/ Back("WAIT_START")
           \/ Others /\ BeginStop
     \/ /\ handler = "resume" /\ ~Started
        /\ Begin("rollback") /\ UNCHANGED <<state, store>>
     \/ /\ handler = "pause"
        /\ \/ ok /\ Back("PAUSED")
           \/ (~ok \/ Others) /\ BeginStop
        /\ UNCHANGED store
     \/ /\ handler \in {"rollback", "finish", "discard"}
        /\ store' = 0
        /\ \/ ok /\ Back("WAIT_START")
           \/ (~ok \/ Others) /\ BeginStop
     \/ /\ handler \in {"abort", "stop"}
        /\ store' = IF handler = "abort" THEN 0 ELSE store
        /\ state' = "STOPPING"
        /\ Goto("commander", "stop_set")
        /\ UNCHANGED <<handler, sent>>
  /\ unconfirmed' = IF handler \in {"start", "resume"} /\ ok /\ ~Started
                    THEN unconfirmed \cup {attempt} ELSE unconfirmed
  /\ UNCHANGED <<client, ok, answer, held, first, demos, reported, wires, conn, sensor, lost>>

\* UdsClient.stop; its join is bounded by a timeout the receive thread always meets.
StopClient ==
  /\ \/ /\ pc["commander"] = "stop_set"
        /\ stop' = TRUE /\ Goto("commander", "stop_close") /\ UNCHANGED <<sock, wires>>
     \/ /\ pc["commander"] = "stop_close"
        /\ CloseSocket /\ Goto("commander", "stop_join") /\ UNCHANGED stop
     \/ /\ pc["commander"] = "stop_join" /\ pc["receiver"] = "done"
        /\ Goto("commander", "end") /\ UNCHANGED <<stop, sock, wires>>
  /\ UNCHANGED <<acks, connected, initReady, thread, controller, reported, conn, sensor,
                 history>>

\* What the commander does of itself; Operate and EndOfRun are the operator's.
Commander ==
  \/ ClearEvent \/ Register \/ SendCommand \/ SendFailed \/ AckTimeout \/ Answered
  \/ Startup \/ Outcome \/ StopClient \/ MarkDisconnected("commander")

-----------------------------------------------------------------------------
(***************************************************************************)
(* The sensor service (external): it answers commands in order.            *)
(***************************************************************************)
Answer(c) ==
  IF c.kind # "command" THEN {Message("ready", "none", 0)}
  ELSE {Message("ack", c.name, c.n)}
         \cup (IF "error" \in Faults /\ faults < MaxFaults THEN {Message("error", c.name, c.n)}
                                                       ELSE {})

SensorHandles ==
  /\ peer = "open" /\ toSensor # <<>>
  /\ toSensor' = Tail(toSensor)
  /\ \E m \in Answer(Head(toSensor)) :
       /\ fromSensor' = Append(fromSensor, m)
       /\ capturing' = IF m.kind = "ack" THEN m.name = "START_REQ" ELSE capturing
       /\ faults' = IF m.kind = "error" THEN faults + 1 ELSE faults
  /\ UNCHANGED <<client, pc, thread, controller, reported, peer, conn, frames, history>>

\* A frame is marked with the demo in which it was captured.
SensorFrame ==
  /\ peer = "open" /\ capturing /\ frames < MaxFrames
  /\ frames' = frames + 1
  /\ fromSensor' = Append(fromSensor, Message("frame", "none", demos))
  /\ UNCHANGED <<client, pc, thread, controller, reported, peer, toSensor, conn, capturing,
                 faults, history>>

\* An ERROR that answers no command, or bytes out of step (bound: when nothing is unread);
\* the end of the connection, after which what was written can still be read.
SensorFaults ==
  /\ peer = "open" /\ faults < MaxFaults
  /\ faults' = faults + 1
  /\ \/ /\ "error" \in Faults /\ fromSensor = <<>>
        /\ fromSensor' = <<Message("error", "none", 0)>> /\ UNCHANGED peer
     \/ /\ "garbage" \in Faults /\ fromSensor = <<>>
        /\ fromSensor' = <<Message("garbage", "none", 0)>> /\ UNCHANGED peer
     \/ "close" \in Faults /\ peer' = "closed" /\ UNCHANGED fromSensor
  /\ UNCHANGED <<client, pc, thread, controller, reported, toSensor, conn, capturing, frames,
                 history>>

Terminated == pc["commander"] = "end" /\ UNCHANGED vars

Next == \/ Commander \/ Operate \/ EndOfRun \/ Receiver
        \/ SensorHandles \/ SensorFrame \/ SensorFaults \/ Terminated

Spec == Init /\ [][Next]_vars

\* Both threads are scheduled, and a sensor that is up answers what it has read.
FairSpec == Spec /\ WF_vars(Commander) /\ WF_vars(Receiver) /\ WF_vars(SensorHandles)

-----------------------------------------------------------------------------
(***************************************************************************)
(* Properties.                                                             *)
(***************************************************************************)
Messages == [kind : {"none", "command", "ack", "error", "ready", "frame", "garbage"},
             name : Commands \cup {"none"}, n : Nat]

CommanderLabels == {"boot", "init_send", "init_wait", "loop", "clear", "register", "send",
                    "send_failed", "wait", "returned", "stop_set", "stop_close", "stop_join", "end"}
ReceiverLabels  == {"run", "recv", "handle", "set_event", "test_store", "append", "done"}
MarkLabels      == {"mark_clear", "mark_pending", "mark_close", "mark_report"}

\* Every variable has its type; ACK state is kept by command name.
TypeOK ==
  /\ {stop, sock, connected, initReady, ok, reported, capturing, lost} \subseteq BOOLEAN
  /\ {pending, events, errors} \subseteq SUBSET Commands
  /\ payloads \in [Commands -> Nat]
  /\ pc \in [Threads -> CommanderLabels \cup ReceiverLabels \cup MarkLabels]
  /\ handler \in DOMAIN Request
  /\ first \in [Threads -> BOOLEAN]
  /\ held \in Messages
  /\ state \in {"STARTING_SERVICES", "WAIT_START", "COLLECTING", "PAUSED", "FINALIZING",
                "DISCARDING", "ERROR", "STOPPING"}
  /\ {answer, store, demos, conn, frames, faults} \subseteq Nat
  /\ peer \in {"open", "closed"}
  /\ {toSensor, fromSensor} \subseteq Seq(Messages)
  /\ sent \in Seq(Commands)
  /\ unconfirmed \subseteq Nat

\* A command that succeeds was answered itself; only after a command of the same name went
\* without its answer can a late ACK be taken instead, with its payload or the empty one.
AnswerIsOwn ==
  pc["commander"] = "returned" /\ ok =>
    \/ answer = attempt
    \/ \E late \in unconfirmed : sent[late] = cmd /\ answer \in {late, 0}

\* A frame goes into the buffers of the demo in which it was captured, and finds them there:
\* the answer that lets the main thread forget a demo is read by the thread that runs the
\* callback.  A timeout, a lost connection, or a sensor that refuses to stop in an abort voids
\* the argument.
InOrder == unconfirmed = {} /\ ~lost /\ (handler = "abort" => ok)

FrameOfThisDemo == pc["receiver"] = "append" /\ InOrder => store = held.n

\* A connection that ends is reported to the controller, whichever of the two threads notices
\* first, unless the client is being stopped.
LossIsReported == lost ~> reported \/ stop

\* The command was registered after the receive thread, on bytes that do not decode, had woken the
\* pending ones, and was sent before it closed the socket: nobody will wake it.
Missed ==
  /\ cmd \notin errors \cup events
  /\ \A m \in ToSet(toSensor) \cup ToSet(fromSensor) \cup {held} : m.n # attempt

\* A command without a timeout ends too, with its answer, an ERROR or the disconnect
\* (README.md 139), unless the disconnect missed it.
CommandReturns == pc["commander"] = "wait" ~> pc["commander"] # "wait" \/ Missed

-----------------------------------------------------------------------------
(***************************************************************************)
(* What a document says and the code does not do.                          *)
(***************************************************************************)
\* A UDS disconnect wakes the wait for an ACK (README.md 136, 139): a command whose connection is
\* closed does not go on waiting.
DisconnectWakes == pc["commander"] = "wait" /\ ~sock ~> pc["commander"] # "wait"

=============================================================================
