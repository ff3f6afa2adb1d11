----------------------------- MODULE MqttClient -----------------------------
(***************************************************************************)
(* The MQTT client of the AWS IoT SDK: connection state machine, request   *)
(* operations (publish, subscribe, unsubscribe), yield with keep-alive and *)
(* automatic reconnect, and the delivery of messages to callbacks.         *)
(*                                                                         *)
(* The build runs the SDK on one thread.  What makes it hard is re-entry:  *)
(* a blocking request reads the socket until its acknowledgement arrives,  *)
(* every PUBLISH it meets on the way runs application callbacks, and a     *)
(* callback may call back into the client.  The C stack is therefore the   *)
(* variable "stack", one frame per SDK function that is waiting; an action *)
(* is the code between two reads, two callbacks or two returns.            *)
(*                                                                         *)
(* Timers are abstracted to "may expire now".  The broker and the network  *)
(* are external: ordered channels, a broker that answers in order, and a   *)
(* link that may break.  Packet identifiers are left out because the code  *)
(* never compares them (subscribe.c:252-257 is commented out, publish.c    *)
(* and unsubscribe.c have no comparison).  Topics match when equal, and all  *)
(* have one length, as strncmp over the received length compares them.      *)
(*                                                                         *)
(* Definitions named Faulty... seed a bug in the definition that follows.   *)
(***************************************************************************)
EXTENDS Naturals, Sequences, FiniteSets

CONSTANTS
  Topics,        \* topic names
  NULL,          \* the null topic pointer
  NumHandlers,   \* AWS_IOT_MQTT_NUM_SUBSCRIBE_HANDLERS
  MinWait,       \* AWS_IOT_MQTT_MIN_RECONNECT_WAIT_INTERVAL
  MaxWait,       \* AWS_IOT_MQTT_MAX_RECONNECT_WAIT_INTERVAL
  InitialWait,   \* contents of the uninitialised currentReconnectWaitInterval
  LinkCodes,     \* what networkStack.isConnected may answer
  AppOps,        \* calls the application makes outside of callbacks
  CallbackOps,   \* calls it makes from message callbacks
  HandlerOps,    \* calls it makes from the disconnect handler
  MaxDepth,      \* bound: a callback makes calls only on a smaller stack
  MaxInFlight    \* bound: packets in one direction of the connection

ASSUME ConstantsAssumption ==
  /\ NULL \notin Topics
  /\ NumHandlers \in Nat \ {0}
  /\ MinWait \in Nat /\ MaxWait \in Nat
  /\ InitialWait \subseteq Nat
  /\ "NETWORK_RECONNECTED" \notin LinkCodes
  /\ MaxInFlight \in Nat /\ MaxDepth \in Nat

VARIABLES
  clientState,             \* clientStatus.clientState
  isPingOutstanding,       \* clientStatus.isPingOutstanding
  isAutoReconnectEnabled,  \* clientStatus.isAutoReconnectEnabled
  waitInterval,            \* clientData.currentReconnectWaitInterval
  messageHandlers,         \* clientData.messageHandlers: topic of each slot
  readBuf,                 \* topic bytes that clientData.readBuf holds
  ssock,                   \* tlsDataParams.ssock: null, open, or freed by destroy
  stack,                   \* SDK calls in progress, the innermost last
  ret,                     \* result of the call that returned last
  link,                    \* external: the connection behind ssock is alive
  brokerUp,                \* external: the broker has accepted the session
  brokerSubs,              \* external: the broker's subscriptions
  toBroker, toClient       \* external: packets under way

client   == <<clientState, isPingOutstanding, isAutoReconnectEnabled,
              waitInterval, messageHandlers, readBuf, ssock>>
calls    == <<stack, ret>>
external == <<link, brokerUp, brokerSubs, toBroker, toClient>>
vars     == <<client, calls, external>>

----------------------------------------------------------------------------
(* Client states and frames *)

Busy == {"YIELD_IN_PROGRESS", "PUBLISH_IN_PROGRESS", "SUBSCRIBE_IN_PROGRESS",
         "UNSUBSCRIBE_IN_PROGRESS", "RESUBSCRIBE_IN_PROGRESS",
         "WAIT_FOR_CB_RETURN"}

ConnectedStates == Busy \cup {"IDLE"}

ConnectValid == {"INITIALIZED", "DISCONNECTED_ERROR", "DISCONNECTED_MANUALLY",
                 "PENDING_RECONNECT"}

ClientStates == ConnectedStates \cup ConnectValid \cup {"CONNECTING"}

IsConnected == clientState \in ConnectedStates

Slots == 0 .. NumHandlers - 1

FrameOps == {"connect", "reconnect", "resubscribe", "subscribe", "unsubscribe",
             "publish", "yield", "deliver"}

CallOps == (FrameOps \ {"deliver"}) \cup {"disconnect"}

Places == {"wait", "connect", "resubscribe", "send", "loop", "reconnect", "keepalive",
           "handler", "check", "deliver", "scan", "callback"}

Frames == [op    : FrameOps,
           pc    : Places,                 \* where the function waits
           saved : ClientStates,           \* state to restore on return
           topic : Topics \cup {NULL},
           slot  : Nat,                    \* handler slot or loop index
           limit : Nat,                    \* bound of resubscribe's loop
           qos   : {0, 1},
           live  : BOOLEAN]                \* history: its session still exists

Packets == [type  : {"CONNECT", "CONNACK", "PUBLISH", "PUBACK", "SUBSCRIBE",
                     "SUBACK", "UNSUBSCRIBE", "UNSUBACK", "PINGREQ", "PINGRESP"},
            topic : Topics \cup {NULL},
            arg   : {0, 1}]  \* QoS of a PUBLISH; CONNACK: 1 accepted, 0 refused

Packet(type, topic, arg) == [type |-> type, topic |-> topic, arg |-> arg]
Plain(type) == Packet(type, NULL, 0)

Frame(op, pc) == [op |-> op, pc |-> pc, saved |-> clientState, topic |-> NULL,
                  slot |-> 0, limit |-> 0, qos |-> 0, live |-> TRUE]

\* The state an operation holds the client in while it runs.
Holds(op) ==
  CASE op = "yield"       -> "YIELD_IN_PROGRESS"
    [] op = "publish"     -> "PUBLISH_IN_PROGRESS"
    [] op = "subscribe"   -> "SUBSCRIBE_IN_PROGRESS"
    [] op = "unsubscribe" -> "UNSUBSCRIBE_IN_PROGRESS"
    [] op = "resubscribe" -> "RESUBSCRIBE_IN_PROGRESS"
    [] op = "deliver"     -> "WAIT_FOR_CB_RETURN"
    [] OTHER              -> "CONNECTING"

\* The packet type wait_for_read is asked for.
Expected(op) ==
  CASE op = "connect"     -> "CONNACK"
    [] op = "publish"     -> "PUBACK"
    [] op = "unsubscribe" -> "UNSUBACK"
    [] OTHER              -> "SUBACK"

Top == stack[Len(stack)]
At(op, pc) == stack # <<>> /\ Top.op = op /\ Top.pc = pc
Waiting(op) == At(op, "wait")
Below == [i \in 1 .. Len(stack) - 1 |-> stack[i]]
Push(frame) == stack' = Append(stack, frame) /\ ret' = "none"
WithTop(frame) == [stack EXCEPT ![Len(stack)] = frame]
Goto(pc) == stack' = WithTop([Top EXCEPT !.pc = pc])
Return(rc) == stack' = Below /\ ret' = rc
Answer(rc) == ret' = rc /\ UNCHANGED stack
Orphaned(s) == [i \in 1 .. Len(s) |-> [s[i] EXCEPT !.live = FALSE]]

FaultySetClientState(expected, new) == clientState' = new  \* no comparison

\* aws_iot_mqtt_set_client_state: compare and set.
SetClientState(expected, new) ==
  clientState' = IF clientState = expected THEN new ELSE clientState

----------------------------------------------------------------------------
(* Calls and their validation *)

InMessageCallback == At("deliver", "callback")
InDisconnectHandler == At("yield", "handler")

AppCalls(op) ==
  \/ stack = <<>> /\ op \in AppOps
  \/ InMessageCallback /\ op \in CallbackOps /\ Len(stack) < MaxDepth
  \/ InDisconnectHandler /\ op \in HandlerOps /\ Len(stack) < MaxDepth

\* attempt_reconnect calls connect and resubscribe, yield calls attempt_reconnect.
SdkCalls(op) ==
  /\ ret = "none"
  /\ \/ op \in {"connect", "resubscribe"} /\ At("reconnect", op)
     \/ op = "reconnect" /\ At("yield", op)

\* What the outer function of each operation answers before it starts.
AdmissionIf(allowed) ==
  IF ~IsConnected THEN "NETWORK_DISCONNECTED_ERROR"
  ELSE IF clientState \in allowed THEN "SUCCESS" ELSE "MQTT_CLIENT_NOT_IDLE_ERROR"

FaultyYieldAdmission ==  \* the state of a callback is taken for idle
  CASE clientState = "DISCONNECTED_MANUALLY" -> "NETWORK_MANUALLY_DISCONNECTED"
    [] clientState = "PENDING_RECONNECT"     -> "SUCCESS"
    [] OTHER                                 -> AdmissionIf({"IDLE", "WAIT_FOR_CB_RETURN"})

YieldAdmission ==
  CASE clientState = "DISCONNECTED_MANUALLY" -> "NETWORK_MANUALLY_DISCONNECTED"
    [] clientState = "PENDING_RECONNECT"     -> "SUCCESS"
    [] OTHER                                 -> AdmissionIf({"IDLE"})

Admission(op) ==
  CASE op = "connect"     -> IF clientState \in ConnectValid THEN "SUCCESS"
                             ELSE "NETWORK_ALREADY_CONNECTED_ERROR"
    [] op = "reconnect"   -> IF IsConnected THEN "NETWORK_ALREADY_CONNECTED_ERROR"
                             ELSE "SUCCESS"
    [] op = "disconnect"  -> AdmissionIf(ConnectedStates)
    [] op = "resubscribe" -> AdmissionIf({"IDLE"})
    [] op = "yield"       -> YieldAdmission
    [] OTHER              -> AdmissionIf({"IDLE", "WAIT_FOR_CB_RETURN"})

Calls(op) == (AppCalls(op) \/ SdkCalls(op)) /\ Admission(op) = "SUCCESS"

Rejected(op) ==
  /\ AppCalls(op) \/ SdkCalls(op)
  /\ Admission(op) # "SUCCESS"
  /\ Answer(Admission(op))
  /\ UNCHANGED <<client, external>>

SetAutoReconnect(status) ==
  /\ AppCalls("autoreconnect")
  /\ isAutoReconnectEnabled' = status
  /\ Answer("SUCCESS")
  /\ UNCHANGED <<clientState, isPingOutstanding, waitInterval, messageHandlers,
                 readBuf, ssock, external>>

----------------------------------------------------------------------------
(* The network stack *)

\* send_packet succeeds when the socket takes the packet; a dead link loses it.
Send(p) ==
  /\ ssock = "open" /\ Len(toBroker) < MaxInFlight
  /\ toBroker' = IF link THEN Append(toBroker, p) ELSE toBroker
  /\ UNCHANGED <<link, brokerUp, brokerSubs, toClient>>

Read ==
  /\ toClient' = Tail(toClient)
  /\ UNCHANGED <<link, brokerUp, brokerSubs, toBroker>>

Incoming(type) == toClient # <<>> /\ Head(toClient).type = type

\* networkStack.disconnect and destroy; destroy does nothing on a null handle.
Destroy ==
  IF ssock = "null" THEN UNCHANGED <<ssock, external>>
  ELSE /\ ssock' = "freed" /\ link' = FALSE /\ brokerUp' = FALSE
       /\ brokerSubs' = {} /\ toBroker' = <<>> /\ toClient' = <<>>

----------------------------------------------------------------------------
(* connect, disconnect *)

Init ==
  /\ clientState = "INITIALIZED" /\ isPingOutstanding = FALSE
  /\ isAutoReconnectEnabled \in BOOLEAN
  /\ waitInterval \in InitialWait
  /\ messageHandlers = [i \in Slots |-> NULL] /\ readBuf = NULL
  /\ ssock = "null" /\ stack = <<>> /\ ret = "none"
  /\ link = FALSE /\ brokerUp = FALSE /\ brokerSubs = {}
  /\ toBroker = <<>> /\ toClient = <<>>

\* Both attempts of networkStack.connect fail.  Its clean-up leaves ssock null,
\* destroy then reports an error and connect returns without leaving CONNECTING.
ConnectFails ==
  /\ Calls("connect")
  /\ clientState' = "CONNECTING" /\ ssock' = "null"
  /\ link' = FALSE /\ brokerUp' = FALSE /\ brokerSubs' = {}
  /\ toBroker' = <<>> /\ toClient' = <<>>
  /\ stack' = Orphaned(stack) /\ ret' = "NETWORK_DISCONNECTED_ERROR"
  /\ UNCHANGED <<isPingOutstanding, isAutoReconnectEnabled, waitInterval,
                 messageHandlers, readBuf>>

\* The connection is up and CONNECT is sent; wait for CONNACK.
ConnectSent ==
  /\ Calls("connect")
  /\ clientState' = "CONNECTING" /\ ssock' = "open"
  /\ link' = TRUE /\ brokerUp' = FALSE /\ brokerSubs' = {}
  /\ toBroker' = <<Plain("CONNECT")>> /\ toClient' = <<>>
  /\ stack' = Append(Orphaned(stack), Frame("connect", "wait")) /\ ret' = "none"
  /\ UNCHANGED <<isPingOutstanding, isAutoReconnectEnabled, waitInterval,
                 messageHandlers, readBuf>>

\* The connection is up but CONNECT cannot be sent.
ConnectUnsent ==
  /\ Calls("connect")
  /\ clientState' = "DISCONNECTED_ERROR" /\ ssock' = "freed"
  /\ link' = FALSE /\ brokerUp' = FALSE /\ brokerSubs' = {}
  /\ toBroker' = <<>> /\ toClient' = <<>>
  /\ stack' = Orphaned(stack) /\ ret' = "FAILURE"
  /\ UNCHANGED <<isPingOutstanding, isAutoReconnectEnabled, waitInterval,
                 messageHandlers, readBuf>>

FaultyConnectAccepted ==  \* the ping of the last session stays outstanding
  /\ Waiting("connect") /\ Incoming("CONNACK") /\ Head(toClient).arg = 1
  /\ Read
  /\ SetClientState("CONNECTING", "IDLE")
  /\ Return("SUCCESS")
  /\ UNCHANGED <<isPingOutstanding, isAutoReconnectEnabled, waitInterval,
                 messageHandlers, readBuf, ssock>>

ConnectAccepted ==
  /\ Waiting("connect") /\ Incoming("CONNACK") /\ Head(toClient).arg = 1
  /\ Read
  /\ isPingOutstanding' = FALSE
  /\ SetClientState("CONNECTING", "IDLE")
  /\ Return("SUCCESS")
  /\ UNCHANGED <<isAutoReconnectEnabled, waitInterval, messageHandlers, readBuf, ssock>>

FaultyConnectAbandoned ==  \* the connection is not destroyed
  /\ Waiting("connect") /\ ret' = "MQTT_REQUEST_TIMEOUT_ERROR"
  /\ SetClientState("CONNECTING", "DISCONNECTED_ERROR")
  /\ stack' = Orphaned(Below)
  /\ UNCHANGED <<isPingOutstanding, isAutoReconnectEnabled, waitInterval,
                 messageHandlers, readBuf, ssock, external>>

\* CONNACK refuses the session or does not come in time.
ConnectAbandoned ==
  /\ Waiting("connect")
  /\ \E rc \in {"MQTT_REQUEST_TIMEOUT_ERROR", "MQTT_CONNACK_ERROR"} :
       /\ rc = "MQTT_CONNACK_ERROR" => Incoming("CONNACK") /\ Head(toClient).arg = 0
       /\ ret' = rc
  /\ Destroy
  /\ SetClientState("CONNECTING", "DISCONNECTED_ERROR")
  /\ stack' = Orphaned(Below)
  /\ UNCHANGED <<isPingOutstanding, isAutoReconnectEnabled, waitInterval,
                 messageHandlers, readBuf>>

FaultyDisconnect ==  \* the state stays a connected one
  /\ Calls("disconnect")
  /\ Destroy
  /\ stack' = Orphaned(stack) /\ ret' = "SUCCESS"
  /\ UNCHANGED <<clientState, isPingOutstanding, isAutoReconnectEnabled, waitInterval,
                 messageHandlers, readBuf>>

\* The DISCONNECT packet is sent without looking at the result.
Disconnect ==
  /\ Calls("disconnect")
  /\ Destroy
  /\ IF ssock = "null" THEN UNCHANGED <<clientState, stack>> /\ ret' = "FAILURE"
     ELSE /\ clientState' = "DISCONNECTED_MANUALLY"
          /\ stack' = Orphaned(stack) /\ ret' = "SUCCESS"
  /\ UNCHANGED <<isPingOutstanding, isAutoReconnectEnabled, waitInterval,
                 messageHandlers, readBuf>>

----------------------------------------------------------------------------
(* publish, subscribe, unsubscribe, resubscribe *)

SwappedFinish(rc) ==  \* the result is stored for the state
  SetClientState(Holds(Top.op), rc) /\ Return("SUCCESS")

\* End of an operation: restore the saved state unless it is no longer ours.
Finish(rc) ==
  /\ SetClientState(Holds(Top.op), Top.saved)
  /\ Return(IF rc = "SUCCESS" /\ clientState # Holds(Top.op)
            THEN "MQTT_UNEXPECTED_CLIENT_STATE_ERROR" ELSE rc)

FaultyIsFreeIndex(n) ==  \* the last slot is never looked at
  /\ n \in 0 .. NumHandlers - 1
  /\ n < NumHandlers - 1 => messageHandlers[n] = NULL
  /\ \A i \in 0 .. n - 1 : messageHandlers[i] # NULL

\* The index of the first free handler slot, NumHandlers when all are in use.
IsFreeIndex(n) ==
  /\ n \in 0 .. NumHandlers
  /\ n \in Slots => messageHandlers[n] = NULL
  /\ \A i \in 0 .. n - 1 : messageHandlers[i] # NULL

\* A request that stops before it waits: the table is full, the topic is not
\* registered, or the packet is not sent.  The state is set and restored at once.
RequestRefused(op, rc) ==
  /\ Calls(op) /\ Answer(rc)
  /\ UNCHANGED <<client, external>>

Subscribe(topic) ==
  \/ /\ IsFreeIndex(NumHandlers)
     /\ RequestRefused("subscribe", "MQTT_MAX_SUBSCRIPTIONS_REACHED_ERROR")
  \/ /\ ~IsFreeIndex(NumHandlers)
     /\ RequestRefused("subscribe", "FAILURE")
  \/ /\ Calls("subscribe")
     /\ \E free \in Slots :
          /\ IsFreeIndex(free)
          /\ Push([Frame("subscribe", "wait") EXCEPT !.topic = topic, !.slot = free])
     /\ Send(Packet("SUBSCRIBE", topic, 0))
     /\ clientState' = Holds("subscribe")
     /\ UNCHANGED <<isPingOutstanding, isAutoReconnectEnabled, waitInterval,
                    messageHandlers, readBuf, ssock>>

\* The bytes of a SUBACK reach the topic of the message that readBuf held,
\* unless that message has a long header.
OverwriteReadBuf == readBuf' \in {NULL, readBuf}

\* SUBACK, whatever it grants: fill the slot chosen before the wait.
Subscribed ==
  /\ Waiting("subscribe") /\ Incoming("SUBACK") /\ Read
  /\ messageHandlers' = [messageHandlers EXCEPT ![Top.slot] = Top.topic]
  /\ OverwriteReadBuf
  /\ Finish("SUCCESS")
  /\ UNCHANGED <<isPingOutstanding, isAutoReconnectEnabled, waitInterval, ssock>>

Unsubscribe(topic) ==
  \/ RequestRefused("unsubscribe", "FAILURE")
  \/ /\ Calls("unsubscribe")
     /\ \E i \in Slots : messageHandlers[i] = topic
     /\ Push([Frame("unsubscribe", "wait") EXCEPT !.topic = topic])
     /\ Send(Packet("UNSUBSCRIBE", topic, 0))
     /\ clientState' = Holds("unsubscribe")
     /\ UNCHANGED <<isPingOutstanding, isAutoReconnectEnabled, waitInterval,
                    messageHandlers, readBuf, ssock>>

Unsubscribed ==
  /\ Waiting("unsubscribe") /\ Incoming("UNSUBACK") /\ Read
  /\ messageHandlers' = [i \in Slots |-> IF messageHandlers[i] = Top.topic THEN NULL
                                         ELSE messageHandlers[i]]
  /\ Finish("SUCCESS")
  /\ UNCHANGED <<isPingOutstanding, isAutoReconnectEnabled, waitInterval, readBuf, ssock>>

Publish(qos) ==
  \/ RequestRefused("publish", "FAILURE")
  \/ /\ Calls("publish")
     /\ Send(Packet("PUBLISH", NULL, qos))
     /\ IF qos = 0 THEN Answer("SUCCESS") /\ UNCHANGED clientState
        ELSE Push(Frame("publish", "wait")) /\ clientState' = Holds("publish")
     /\ UNCHANGED <<isPingOutstanding, isAutoReconnectEnabled, waitInterval,
                    messageHandlers, readBuf, ssock>>

Published ==
  /\ Waiting("publish") /\ Incoming("PUBACK") /\ Read
  /\ Finish("SUCCESS")
  /\ UNCHANGED <<isPingOutstanding, isAutoReconnectEnabled, waitInterval,
                 messageHandlers, readBuf, ssock>>

\* The loop of resubscribe runs up to the first free slot, computed once.
Resubscribe ==
  /\ Calls("resubscribe")
  /\ \E free \in 0 .. NumHandlers :
       /\ IsFreeIndex(free)
       /\ Push([Frame("resubscribe", "send") EXCEPT !.limit = free])
  /\ clientState' = Holds("resubscribe")
  /\ UNCHANGED <<isPingOutstanding, isAutoReconnectEnabled, waitInterval,
                 messageHandlers, readBuf, ssock, external>>

FaultyIsNextUsed(i) ==  \* the loop stops one slot early
  /\ i \in Slots /\ Top.slot <= i /\ i + 1 < Top.limit /\ messageHandlers[i] # NULL
  /\ \A j \in Slots : Top.slot <= j /\ j < i => messageHandlers[j] = NULL

\* The first slot in use from itr on, below the limit.
IsNextUsed(i) ==
  /\ i \in Slots /\ Top.slot <= i /\ i < Top.limit /\ messageHandlers[i] # NULL
  /\ \A j \in Slots : Top.slot <= j /\ j < i => messageHandlers[j] = NULL

ResubscribeSend ==
  /\ At("resubscribe", "send")
  /\ \E i \in Slots :
       /\ IsNextUsed(i)
       /\ Send(Packet("SUBSCRIBE", messageHandlers[i], 0))
       /\ stack' = WithTop([Top EXCEPT !.pc = "wait", !.slot = i])
  /\ UNCHANGED <<client, ret>>

ResubscribeNext ==
  /\ Waiting("resubscribe") /\ Incoming("SUBACK") /\ Read
  /\ stack' = WithTop([Top EXCEPT !.pc = "send", !.slot = @ + 1])
  /\ OverwriteReadBuf
  /\ UNCHANGED <<clientState, isPingOutstanding, isAutoReconnectEnabled, waitInterval,
                 messageHandlers, ssock, ret>>

ResubscribeEnds ==
  /\ At("resubscribe", "send")
  /\ Finish(IF \E i \in Slots : IsNextUsed(i) THEN "FAILURE" ELSE "SUCCESS")
  /\ UNCHANGED <<isPingOutstanding, isAutoReconnectEnabled, waitInterval,
                 messageHandlers, readBuf, ssock, external>>

FaultyRequestTimesOut ==  \* the timer is looked at while the link is up only
  /\ stack # <<>> /\ Top.pc = "wait" /\ Top.op # "connect" /\ link
  /\ Finish("MQTT_REQUEST_TIMEOUT_ERROR")
  /\ UNCHANGED <<isPingOutstanding, isAutoReconnectEnabled, waitInterval,
                 messageHandlers, readBuf, ssock, external>>

\* wait_for_read gives up; connect has its own clean-up.
RequestTimesOut ==
  /\ stack # <<>> /\ Top.pc = "wait" /\ Top.op # "connect"
  /\ Finish("MQTT_REQUEST_TIMEOUT_ERROR")
  /\ UNCHANGED <<isPingOutstanding, isAutoReconnectEnabled, waitInterval,
                 messageHandlers, readBuf, ssock, external>>

----------------------------------------------------------------------------
(* Reading and delivering: cycle_read, deliver_message, handle_publish *)

\* yield's loop is about to read: no reconnect is pending.
Cycling == At("yield", "loop") /\ clientState # "PENDING_RECONNECT"

WaitingFor(type) == stack # <<>> /\ Top.pc = "wait" /\ Expected(Top.op) = type

\* A packet nobody asked for: PINGRESP is noted, an acknowledgement is dropped.
ReadOther ==
  /\ toClient # <<>>
  /\ \E type \in {Head(toClient).type} :
       /\ type # "PUBLISH"
       /\ isPingOutstanding' = IF type = "PINGRESP" THEN FALSE ELSE isPingOutstanding
       /\ IF type = "SUBACK" THEN OverwriteReadBuf ELSE UNCHANGED readBuf
       /\ \/ /\ stack # <<>> /\ Top.pc = "wait" /\ ~WaitingFor(type)
             /\ UNCHANGED stack
          \/ Cycling /\ Goto("keepalive")
  /\ Read
  /\ UNCHANGED <<clientState, isAutoReconnectEnabled, waitInterval, messageHandlers,
                 ssock, ret>>

\* A PUBLISH: deliver_message saves the state and starts on the handler table.
ReadPublish ==
  /\ Incoming("PUBLISH")
  /\ \/ stack # <<>> /\ Top.pc = "wait"
     \/ Cycling
  /\ stack' = Append(WithTop([Top EXCEPT !.pc = IF @ = "loop" THEN "deliver" ELSE @]),
                     [Frame("deliver", "scan") EXCEPT !.topic = Head(toClient).topic,
                                                      !.qos = Head(toClient).arg])
  /\ ret' = "none"
  /\ readBuf' = Head(toClient).topic
  /\ clientState' = Holds("deliver")
  /\ Read
  /\ UNCHANGED <<isPingOutstanding, isAutoReconnectEnabled, waitInterval,
                 messageHandlers, ssock>>

\* The next handler whose topic matches the topic that readBuf holds now.
IsNextMatch(i) ==
  /\ i \in Slots /\ Top.slot <= i /\ messageHandlers[i] # NULL
  /\ messageHandlers[i] = readBuf
  /\ \A j \in Slots : Top.slot <= j /\ j < i => messageHandlers[j] # readBuf

CallHandler ==
  /\ At("deliver", "scan")
  /\ \E i \in Slots :
       /\ IsNextMatch(i)
       /\ stack' = WithTop([Top EXCEPT !.pc = "callback", !.slot = i])
  /\ UNCHANGED <<client, ret, external>>

HandlerReturns ==
  /\ InMessageCallback
  /\ stack' = WithTop([Top EXCEPT !.pc = "scan", !.slot = @ + 1])
  /\ UNCHANGED <<client, ret, external>>

\* All handlers served.  A QoS 1 message is acknowledged unless the state was
\* changed by a callback.
Delivered ==
  /\ At("deliver", "scan") /\ ~\E i \in Slots : IsNextMatch(i)
  /\ \/ Top.qos = 0 \/ clientState # Holds("deliver")
  /\ Finish("SUCCESS")
  /\ UNCHANGED <<isPingOutstanding, isAutoReconnectEnabled, waitInterval,
                 messageHandlers, readBuf, ssock, external>>

FaultyAcknowledge ==  \* whatever the callback did
  /\ At("deliver", "scan") /\ ~\E i \in Slots : IsNextMatch(i)
  /\ Top.qos = 1
  /\ Finish("SUCCESS") /\ Send(Plain("PUBACK"))
  /\ UNCHANGED <<isPingOutstanding, isAutoReconnectEnabled, waitInterval,
                 messageHandlers, readBuf, ssock>>

Acknowledge ==
  /\ At("deliver", "scan") /\ ~\E i \in Slots : IsNextMatch(i)
  /\ Top.qos = 1 /\ clientState = Holds("deliver")
  /\ \/ Finish("SUCCESS") /\ Send(Plain("PUBACK"))
     \/ Finish("FAILURE") /\ UNCHANGED external
  /\ UNCHANGED <<isPingOutstanding, isAutoReconnectEnabled, waitInterval,
                 messageHandlers, readBuf, ssock>>

----------------------------------------------------------------------------
(* yield: loop, keep-alive, disconnect handling, reconnect *)

Yield ==
  /\ Calls("yield")
  /\ clientState' = IF clientState = "IDLE" THEN Holds("yield") ELSE clientState
  /\ Push([Frame("yield", "loop") EXCEPT !.live = IsConnected])
  /\ UNCHANGED <<isPingOutstanding, isAutoReconnectEnabled, waitInterval,
                 messageHandlers, readBuf, ssock, external>>

Disconnections == {"NETWORK_DISCONNECTED_ERROR", "NETWORK_ATTEMPTING_RECONNECT"}

FaultyYieldReturns(rc) ==  \* the state is given back after SUCCESS only
  /\ IF rc = "SUCCESS" THEN SetClientState(Holds("yield"), "IDLE")
     ELSE UNCHANGED clientState
  /\ Return(IF rc = "SUCCESS" /\ clientState # Holds("yield")
            THEN "MQTT_UNEXPECTED_CLIENT_STATE_ERROR" ELSE rc)

YieldReturns(rc) ==
  /\ IF rc \in Disconnections THEN UNCHANGED clientState
     ELSE SetClientState(Holds("yield"), "IDLE")
  /\ Return(IF rc = "SUCCESS" /\ clientState # Holds("yield")
            THEN "MQTT_UNEXPECTED_CLIENT_STATE_ERROR" ELSE rc)

\* The loop condition: stop when the yield timer has expired.
YieldExpires ==
  /\ At("yield", "check") /\ YieldReturns(ret)
  /\ UNCHANGED <<isPingOutstanding, isAutoReconnectEnabled, waitInterval,
                 messageHandlers, readBuf, ssock, external>>

YieldLoops ==
  /\ At("yield", "check") /\ Goto("loop") /\ ret' = "none"
  /\ UNCHANGED <<client, external>>

\* Nothing to read before the yield timer expires.
YieldReadsNothing ==
  /\ Cycling /\ ssock = "open" /\ Goto("keepalive")
  /\ UNCHANGED <<client, ret, external>>

\* Errors of the cycle that end yield.
YieldFails ==
  /\ \/ Cycling /\ ssock = "null" /\ YieldReturns("NULL_VALUE_ERROR")
     \/ At("yield", "deliver") /\ ret # "SUCCESS" /\ YieldReturns(ret)
  /\ UNCHANGED <<isPingOutstanding, isAutoReconnectEnabled, waitInterval,
                 messageHandlers, readBuf, ssock, external>>

YieldDelivered ==
  /\ At("yield", "deliver") /\ ret = "SUCCESS" /\ Goto("keepalive")
  /\ UNCHANGED <<client, ret, external>>

KeepAliveNotDue ==
  /\ At("yield", "keepalive") /\ Goto("check") /\ ret' = "SUCCESS"
  /\ UNCHANGED <<client, external>>

KeepAlivePing ==
  /\ At("yield", "keepalive") /\ ~isPingOutstanding
  /\ Send(Plain("PINGREQ"))
  /\ isPingOutstanding' = TRUE
  /\ Goto("check") /\ ret' = "SUCCESS"
  /\ UNCHANGED <<clientState, isAutoReconnectEnabled, waitInterval, messageHandlers,
                 readBuf, ssock>>

\* handle_disconnect, up to the call of the disconnect handler: a read error, a
\* ping that got no answer, or a ping that could not be sent.
ConnectionLost ==
  /\ \/ Cycling /\ ssock = "open" /\ ~link /\ toClient = <<>>
     \/ At("yield", "keepalive")
  /\ clientState' = IF IsConnected /\ ssock # "null" THEN "DISCONNECTED_MANUALLY"
                    ELSE "DISCONNECTED_ERROR"
  /\ Destroy
  /\ stack' = Orphaned(WithTop([Top EXCEPT !.pc = "handler"]))
  /\ UNCHANGED <<isPingOutstanding, isAutoReconnectEnabled, waitInterval,
                 messageHandlers, readBuf, ret>>

\* The disconnect handler returns; the state is overwritten whatever it did.
DisconnectHandlerReturns ==
  /\ InDisconnectHandler
  /\ IF isAutoReconnectEnabled
     THEN /\ clientState' = "PENDING_RECONNECT" /\ waitInterval' = MinWait
          /\ Goto("check") /\ ret' = "NETWORK_ATTEMPTING_RECONNECT"
     ELSE /\ clientState' = "DISCONNECTED_ERROR" /\ UNCHANGED waitInterval
          /\ Return("NETWORK_DISCONNECTED_ERROR")
  /\ UNCHANGED <<isPingOutstanding, isAutoReconnectEnabled, messageHandlers,
                 readBuf, ssock, external>>

ReconnectPending == At("yield", "loop") /\ clientState = "PENDING_RECONNECT"

ReconnectTimedOut ==
  /\ ReconnectPending /\ MaxWait < waitInterval
  /\ YieldReturns("NETWORK_RECONNECT_TIMED_OUT_ERROR")
  /\ UNCHANGED <<isPingOutstanding, isAutoReconnectEnabled, waitInterval,
                 messageHandlers, readBuf, ssock, external>>

\* The delay before the next attempt has not passed.
ReconnectDelayed ==
  /\ ReconnectPending /\ waitInterval <= MaxWait
  /\ Goto("check") /\ ret' = "NETWORK_ATTEMPTING_RECONNECT"
  /\ UNCHANGED <<client, external>>

FaultyBackOff(rc) ==  \* the interval is not doubled
  UNCHANGED waitInterval /\ ret' = rc /\ Goto("check")

\* Exponential back-off after an attempt that did not connect.
BackOff(rc) ==
  /\ waitInterval' = 2 * waitInterval
  /\ ret' = IF MaxWait < 2 * waitInterval THEN "NETWORK_RECONNECT_TIMED_OUT_ERROR" ELSE rc
  /\ Goto("check")

\* The delay has passed: attempt only when isConnected answers "connected".
ReconnectDue ==
  /\ ReconnectPending /\ waitInterval <= MaxWait
  /\ \E code \in LinkCodes :
       IF code = "NETWORK_PHYSICAL_LAYER_CONNECTED"
       THEN Goto("reconnect") /\ ret' = "none" /\ UNCHANGED waitInterval
       ELSE BackOff(code)
  /\ UNCHANGED <<clientState, isPingOutstanding, isAutoReconnectEnabled,
                 messageHandlers, readBuf, ssock, external>>

\* attempt_reconnect has returned to yield.
ReconnectAttempted ==
  /\ At("yield", "reconnect") /\ ret # "none"
  /\ IF ret = "NETWORK_RECONNECTED"
     THEN /\ SetClientState("IDLE", Holds("yield"))
          /\ stack' = WithTop([Top EXCEPT !.pc = "check", !.live = (clientState = "IDLE")])
          /\ ret' = IF clientState = "IDLE" THEN ret ELSE "MQTT_UNEXPECTED_CLIENT_STATE_ERROR"
          /\ UNCHANGED waitInterval
     ELSE BackOff(ret) /\ UNCHANGED clientState
  /\ UNCHANGED <<isPingOutstanding, isAutoReconnectEnabled, messageHandlers,
                 readBuf, ssock, external>>

AttemptReconnect ==
  /\ Calls("reconnect")
  /\ Push(Frame("reconnect", "connect"))
  /\ UNCHANGED <<client, external>>

\* connect has returned to attempt_reconnect, which looks at the state only.
ReconnectConnected ==
  /\ At("reconnect", "connect") /\ ret # "none"
  /\ IF clientState = "IDLE"
     THEN Goto("resubscribe") /\ ret' = "none" /\ UNCHANGED clientState
     ELSE /\ SetClientState("DISCONNECTED_ERROR", "PENDING_RECONNECT")
          /\ Return("NETWORK_ATTEMPTING_RECONNECT")
  /\ UNCHANGED <<isPingOutstanding, isAutoReconnectEnabled, waitInterval,
                 messageHandlers, readBuf, ssock, external>>

ReconnectResubscribed ==
  /\ At("reconnect", "resubscribe") /\ ret # "none"
  /\ Return(IF ret = "SUCCESS" THEN "NETWORK_RECONNECTED" ELSE ret)
  /\ UNCHANGED <<client, external>>

----------------------------------------------------------------------------
(* The broker and the network *)

BrokerConnects ==
  /\ link /\ toBroker # <<>> /\ Head(toBroker).type = "CONNECT"
  /\ \E accepted \in {0, 1} :
       /\ brokerUp' = (accepted = 1)
       /\ toClient' = Append(toClient, Packet("CONNACK", NULL, accepted))
  /\ toBroker' = Tail(toBroker)
  /\ UNCHANGED <<client, calls, link, brokerSubs>>

ReplyTo(p) ==
  CASE p.type = "SUBSCRIBE"   -> "SUBACK"
    [] p.type = "UNSUBSCRIBE" -> "UNSUBACK"
    [] p.type = "PINGREQ"     -> "PINGRESP"
    [] OTHER                  -> "PUBACK"

BrokerHandles ==
  /\ brokerUp /\ toBroker # <<>> /\ Len(toClient) < MaxInFlight
  /\ \E p \in {Head(toBroker)} :
       /\ brokerSubs' = CASE p.type = "SUBSCRIBE"   -> brokerSubs \cup {p.topic}
                          [] p.type = "UNSUBSCRIBE" -> brokerSubs \ {p.topic}
                          [] OTHER                  -> brokerSubs
       /\ toClient' = IF p.type = "PUBACK" \/ (p.type = "PUBLISH" /\ p.arg = 0)
                      THEN toClient ELSE Append(toClient, Plain(ReplyTo(p)))
  /\ toBroker' = Tail(toBroker)
  /\ UNCHANGED <<client, calls, link, brokerUp>>

BrokerPublishes(topic, qos) ==
  /\ brokerUp /\ topic \in brokerSubs /\ Len(toClient) < MaxInFlight
  /\ toClient' = Append(toClient, Packet("PUBLISH", topic, qos))
  /\ UNCHANGED <<client, calls, link, brokerUp, brokerSubs, toBroker>>

LinkBreaks ==
  /\ link
  /\ link' = FALSE /\ brokerUp' = FALSE /\ brokerSubs' = {} /\ toBroker' = <<>>
  /\ UNCHANGED <<client, calls, toClient>>

----------------------------------------------------------------------------

CallNext ==
  \/ \E op \in CallOps : Rejected(op)
  \/ \E status \in BOOLEAN : SetAutoReconnect(status)
  \/ ConnectFails \/ ConnectSent \/ ConnectUnsent \/ Disconnect
  \/ \E topic \in Topics : Subscribe(topic) \/ Unsubscribe(topic)
  \/ \E qos \in {0, 1} : Publish(qos)
  \/ Resubscribe \/ Yield \/ AttemptReconnect

WaitNext ==
  \/ ConnectAccepted \/ ConnectAbandoned
  \/ Subscribed \/ Unsubscribed \/ Published
  \/ ResubscribeSend \/ ResubscribeNext \/ ResubscribeEnds
  \/ RequestTimesOut
  \/ ReadOther \/ ReadPublish

DeliverNext == CallHandler \/ HandlerReturns \/ Delivered \/ Acknowledge

YieldNext ==
  \/ YieldExpires \/ YieldLoops \/ YieldReadsNothing \/ YieldFails \/ YieldDelivered
  \/ KeepAliveNotDue \/ KeepAlivePing \/ ConnectionLost \/ DisconnectHandlerReturns

ReconnectNext ==
  \/ ReconnectTimedOut \/ ReconnectDelayed \/ ReconnectDue \/ ReconnectAttempted
  \/ ReconnectConnected \/ ReconnectResubscribed

ExternalNext ==
  \/ BrokerConnects \/ BrokerHandles \/ LinkBreaks
  \/ \E topic \in Topics, qos \in {0, 1} : BrokerPublishes(topic, qos)

Next ==
  \/ CallNext \/ WaitNext \/ DeliverNext
  \/ YieldNext \/ ReconnectNext \/ ExternalNext

Spec == Init /\ [][Next]_vars

=============================================================================
