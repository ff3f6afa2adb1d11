------------------------ MODULE MqttClientProperties ------------------------
(* What the MQTT client has to guarantee. *)
EXTENDS MqttClient

(* Operations that restore, when they return, the state they found.           *)
Restoring == {"publish", "subscribe", "unsubscribe", "resubscribe", "deliver"}

ClientTypes ==
  /\ clientState \in ClientStates
  /\ isPingOutstanding \in BOOLEAN
  /\ isAutoReconnectEnabled \in BOOLEAN
  /\ waitInterval \in Nat
  /\ messageHandlers \in [Slots -> Topics \cup {NULL}]
  /\ readBuf \in Topics \cup {NULL}
  /\ ssock \in {"null", "open", "freed"}

ExternalTypes ==
  /\ link \in BOOLEAN /\ brokerUp \in BOOLEAN
  /\ brokerSubs \subseteq Topics \cup {NULL}
  /\ toBroker \in Seq(Packets) /\ toClient \in Seq(Packets)

(* Every variable holds a value of its type. *)
TypeOK == ClientTypes /\ stack \in Seq(Frames) /\ ExternalTypes

(* An in-progress state belongs to a frame of the current session; so when no *)
(* call is in progress no operation has left its state behind.                *)
StateOwned ==
  clientState \in Busy =>
    \E i \in 1 .. Len(stack) : stack[i].live /\ Holds(stack[i].op) = clientState

(* The application's view and the TLS handle agree: a client in a connected   *)
(* state has an open TLS connection to use.                                   *)
ConnectedHasSocket == IsConnected => ssock = "open"

(* A client that may connect holds no open TLS connection, so that connect    *)
(* never overwrites a live handle (iot_tls_connect stores the new handle over *)
(* the old one).                                                              *)
NoOrphanSession == clientState \in ConnectValid => ssock # "open"

(* A ping marked outstanding on a live session is really under way: keep-alive *)
(* never takes a ping of an earlier session for an unanswered one.             *)
PingTracked ==
  isPingOutstanding /\ IsConnected /\ brokerUp =>
    \/ \E i \in 1 .. Len(toBroker) : toBroker[i].type = "PINGREQ"
    \/ \E i \in 1 .. Len(toClient) : toClient[i].type = "PINGRESP"

(* An operation whose session was closed under it, by a callback, does not     *)
(* touch the state of the session that replaced it when it unwinds.            *)
OwnSessionOnly ==
  [][stack # <<>> /\ Len(stack') < Len(stack) /\ Top.op \in Restoring /\ ~Top.live
       => clientState' = clientState]_vars

(* A QoS 1 message is acknowledged on the session that delivered it only: a    *)
(* PUBACK never crosses over to a connection made by the callback.             *)
AckOnOwnSession ==
  [][Len(toBroker') = Len(toBroker) + 1 /\ toBroker'[Len(toBroker')].type = "PUBACK"
       => Top.live]_vars

(* A handler, once registered, goes only by an unsubscribe of its topic: no   *)
(* subscribe that completes takes the slot of another (subscribe.c:228-259).  *)
HandlersKept ==
  [][\A i \in Slots :
       messageHandlers[i] # NULL /\ messageHandlers'[i] # messageHandlers[i]
         => messageHandlers'[i] = NULL /\ Top.op = "unsubscribe"]_vars

(* attempt_reconnect reports success only when the broker holds the           *)
(* subscription of every registered handler.                                  *)
Resubscribed ==
  [][At("reconnect", "resubscribe") /\ Len(stack') < Len(stack)
       /\ ret' = "NETWORK_RECONNECTED" /\ brokerUp
       => \A i \in Slots : messageHandlers[i] \in brokerSubs \cup {NULL}]_vars

(* attempt_reconnect leaves the client pending when it fails: "Makes only one   *)
(* reconnect attempt. Sets the client state to pending reconnect in case of    *)
(* failure" (connect.c:607-608).                                               *)
PendingAfterFailure ==
  [][At("reconnect", "connect") /\ Len(stack') < Len(stack)
       => clientState' = "PENDING_RECONNECT"]_vars

(* yield never runs while a message callback is on the stack below it.        *)
NoYieldInCallback ==
  \A i, j \in 1 .. Len(stack) :
    i < j => ~(stack[i].op = "deliver" /\ stack[j].op = "yield")

(* yield that reports success, or a completed reconnect, leaves a client that *)
(* is connected and idle.                                                     *)
YieldHonest ==
  [][stack # <<>> /\ Top.op = "yield" /\ Len(stack') < Len(stack)
       /\ ret' \in {"SUCCESS", "NETWORK_RECONNECTED"}
       => clientState' = "IDLE"]_vars

----------------------------------------------------------------------------
(* The inductive invariant behind StateOwned, ConnectedHasSocket and the rest. *)

Owning == Restoring \cup {"yield"}

(* Sessions end for all the operations below an operation at once.            *)
LiveAbove ==
  \A i, j \in 1 .. Len(stack) :
    i < j /\ stack[i].op \in Owning /\ stack[i].live => stack[j].live

(* The state that a live operation gives back on return is still owned below, *)
(* and without a session no operation below has one.                          *)
SavedOwned ==
  \A i \in 1 .. Len(stack) :
    stack[i].live /\ stack[i].op \in Restoring =>
      /\ stack[i].saved \in Busy =>
           \E j \in 1 .. i - 1 : stack[j].live /\ Holds(stack[j].op) = stack[i].saved
      /\ stack[i].saved \notin ConnectedStates =>
           \A j \in 1 .. i - 1 : stack[j].op \in Owning => ~stack[j].live

(* Without a session no operation is live.                                    *)
NoSession ==
  ~IsConnected =>
    \A i \in 1 .. Len(stack) : stack[i].op \in Owning => ~stack[i].live

(* yield runs the disconnect handler and a reconnect without a session.       *)
YieldDead ==
  \A i \in 1 .. Len(stack) :
    stack[i].op = "yield" /\ stack[i].pc \in {"handler", "reconnect"} => ~stack[i].live

(* What yield is about to return agrees with the state.                       *)
YieldResult ==
  At("yield", "check") =>
    /\ ret \in Disconnections => ~Top.live
    /\ ret = "NETWORK_RECONNECTED" => clientState = "YIELD_IN_PROGRESS"

(* Below another frame, yield is at one of its calls, and what is above yield  *)
(* when it delivers is the delivery.                                          *)
YieldCalls ==
  \A i \in 1 .. Len(stack) - 1 :
    stack[i].op = "yield" =>
      /\ stack[i].pc \in {"deliver", "handler", "reconnect"}
      /\ stack[i].pc = "deliver" => stack[i + 1].op = "deliver"

(* A delivery reports nothing of the connection.                              *)
DeliverResult ==
  At("yield", "deliver") => ret \notin Disconnections \cup {"NETWORK_RECONNECTED"}

(* Only a request or a connect waits for an acknowledgement.                  *)
WaitsForAck ==
  \A i \in 1 .. Len(stack) :
    stack[i].pc = "wait" => stack[i].op \in {"connect"} \cup (Restoring \ {"deliver"})

(* Nothing runs on top of a connect, which sees CONNACK before anything else. *)
ConnectOnTop == \A i \in 1 .. Len(stack) - 1 : stack[i].op # "connect"

ConnectWaits ==
  Waiting("connect") =>
    /\ clientState = "CONNECTING" /\ ssock = "open"
    /\ IF toClient = <<>> THEN ~brokerUp ELSE Head(toClient).type = "CONNACK"

(* Only an open connection carries anything.                                  *)
SocketCarries == link \/ brokerUp \/ toClient # <<>> => ssock = "open"

StackInv ==
  /\ StateOwned /\ LiveAbove /\ SavedOwned /\ NoSession
  /\ YieldDead /\ YieldCalls /\ WaitsForAck /\ ConnectOnTop

ResultInv == YieldResult /\ DeliverResult /\ ConnectWaits

SocketInv == SocketCarries /\ ConnectedHasSocket

IInv == TypeOK /\ StackInv /\ ResultInv /\ SocketInv

----------------------------------------------------------------------------
(* Stronger invariants, of clients whose callbacks keep to a rule.            *)

Requests == {"publish", "subscribe", "unsubscribe"}

(* Message callbacks open no connection.                                      *)
CallbacksStay == CallbackOps \cap {"connect", "reconnect"} = {}

(* Callbacks do not subscribe.                                                *)
CallbacksKeepHandlers == "subscribe" \notin CallbackOps \cup HandlerOps

(* The disconnect handler opens no connection.                                *)
HandlerStays == HandlerOps \cap {"connect", "reconnect"} = {}

(* Above a delivery there are requests and deliveries only, none of which gives *)
(* back a state from which yield could start.                                 *)
CallbackInv ==
  \A i \in 1 .. Len(stack) :
    stack[i].op = "deliver" =>
      /\ clientState \notin {"IDLE", "PENDING_RECONNECT"}
      /\ \A j \in i + 1 .. Len(stack) :
           /\ stack[j].op \in Requests \cup {"deliver"}
           /\ stack[j].saved \notin {"IDLE", "PENDING_RECONNECT"}

(* The slot that a subscribe waits to fill is free.                           *)
SlotInv ==
  \A i \in 1 .. Len(stack) :
    stack[i].op = "subscribe" =>
      i = 1 /\ stack[i].slot \in Slots /\ messageHandlers[stack[i].slot] = NULL

(* An open connection is the client's: it is connected, or connect waits on it. *)
SocketOwned == ssock = "open" => IsConnected \/ Waiting("connect")

(* The disconnect handler runs on top, without a connection.                   *)
HandlerOnTop ==
  \A i \in 1 .. Len(stack) :
    stack[i].op = "yield" /\ stack[i].pc = "handler" =>
      /\ i = Len(stack)
      /\ clientState \in {"DISCONNECTED_MANUALLY", "DISCONNECTED_ERROR"}

(* No operation gives back a state without a connection.                      *)
SavedConnected ==
  \A i \in 1 .. Len(stack) :
    stack[i].op \in Restoring => stack[i].saved \in ConnectedStates

OrphanInv == SocketOwned /\ HandlerOnTop /\ SavedConnected

(* Only a connect that waits has its CONNECT under way, alone.                *)
ConnectAlone ==
  \A i \in 1 .. Len(toBroker) :
    toBroker[i].type = "CONNECT" =>
      Waiting("connect") /\ ~brokerUp /\ Len(toBroker) = 1 /\ toClient = <<>>

(* The flag is about the connection the client has, unless connect is about to  *)
(* clear it.                                                                   *)
PingKept ==
  isPingOutstanding /\ brokerUp =>
    \/ Waiting("connect")
    \/ \E i \in 1 .. Len(toBroker) : toBroker[i].type = "PINGREQ"
    \/ \E i \in 1 .. Len(toClient) : toClient[i].type = "PINGRESP"

PingInv == PingKept /\ ConnectAlone /\ (brokerUp => link)

(* The user of the client does not unsubscribe.                                *)
NobodyUnsubscribes == "unsubscribe" \notin AppOps \cup CallbackOps \cup HandlerOps

NoneOf(type, packets) == \A i \in 1 .. Len(packets) : packets[i].type # type

AtMostOne(type, packets) ==
  \A i, j \in 1 .. Len(packets) : packets[i].type = type /\ packets[j].type = type => i = j

NothingUnsubscribed ==
  /\ \A i \in 1 .. Len(stack) : stack[i].op # "unsubscribe"
  /\ NoneOf("UNSUBSCRIBE", toBroker)

(* The handlers lie in the lowest slots; a subscribe goes for the next one, and *)
(* resubscribe for all of them.                                                *)
HandlersFirst ==
  /\ \A i, j \in Slots : i < j /\ messageHandlers[j] # NULL => messageHandlers[i] # NULL
  /\ \A i \in 1 .. Len(stack) :
       stack[i].op = "subscribe" =>
         /\ stack[i].topic \in Topics
         /\ \A j \in Slots : j < stack[i].slot => messageHandlers[j] # NULL
  /\ \A i \in 1 .. Len(stack) :
       stack[i].op = "resubscribe" =>
         /\ stack[i].limit \in 0 .. NumHandlers /\ stack[i].slot <= stack[i].limit
         /\ stack[i].pc = "wait" => stack[i].slot < stack[i].limit
         /\ \A j \in Slots : j < stack[i].limit <=> messageHandlers[j] # NULL

(* What runs above a resubscribe of the session neither starts another one nor  *)
(* makes the client idle.                                                      *)
RenewalAlone ==
  \A i \in 1 .. Len(stack) :
    stack[i].op = "resubscribe" /\ stack[i].live =>
      /\ clientState # "IDLE"
      /\ \A j \in i + 1 .. Len(stack) :
           stack[j].op \in {"publish", "deliver"} /\ stack[j].saved # "IDLE"

(* attempt_reconnect connects, and then resubscribes.                          *)
ReconnectCalls ==
  /\ \A i \in 1 .. Len(stack) - 1 : stack[i].op = "reconnect" => stack[i + 1].op = stack[i].pc
  /\ \A i \in 1 .. Len(stack) : stack[i].op = "connect" => stack[i].pc = "wait"

(* No subscription is under way.                                               *)
Unasked == NoneOf("SUBSCRIBE", toBroker) /\ NoneOf("SUBACK", toClient)

(* None is when attempt_reconnect comes to resubscribe, so no acknowledgement   *)
(* can be taken for that of another.                                           *)
AskedFirst ==
  \/ Waiting("connect")
  \/ At("reconnect", "connect") /\ clientState = "IDLE"
  \/ At("reconnect", "resubscribe") /\ ret = "none"
  => Unasked

(* The broker has the subscriptions of the slots below n.                      *)
Renewed(n) == \A i \in Slots : i < n => messageHandlers[i] \in brokerSubs \cup {NULL}

(* That of slot n is under way, once, or its answer is.                        *)
Asked(n) ==
  /\ AtMostOne("SUBSCRIBE", toBroker) /\ AtMostOne("SUBACK", toClient)
  /\ \A i \in 1 .. Len(toBroker) :
       toBroker[i].type = "SUBSCRIBE" => toBroker[i].topic = messageHandlers[n]
  /\ \/ NoneOf("SUBACK", toClient)
     \/ NoneOf("SUBSCRIBE", toBroker) /\ messageHandlers[n] \in brokerSubs

(* How far the resubscribe of a reconnect has come.                            *)
Renewing ==
  \A i \in 1 .. Len(stack) - 1 :
    /\ stack[i].op = "reconnect" /\ stack[i + 1].op = "resubscribe"
    /\ stack[i + 1].live /\ brokerUp
    => /\ Renewed(stack[i + 1].slot)
       /\ IF stack[i + 1].pc = "wait" THEN Asked(stack[i + 1].slot) ELSE Unasked

AllRenewed ==
  At("reconnect", "resubscribe") =>
    /\ ret # "NETWORK_RECONNECTED"
    /\ ret = "SUCCESS" /\ brokerUp => Renewed(NumHandlers)

RenewalInv ==
  /\ NothingUnsubscribed /\ HandlersFirst /\ RenewalAlone /\ ReconnectCalls
  /\ AskedFirst /\ Renewing /\ AllRenewed

----------------------------------------------------------------------------
(* The main loop of the application yields again after these results.  After  *)
(* any other it updates the shadow first, which ends the loop when the client  *)
(* is not connected (shadowTemperature.c:213-245).                             *)
GoingOn == {"SUCCESS", "NETWORK_RECONNECTED", "NETWORK_ATTEMPTING_RECONNECT"}

GivenUp == stack = <<>> /\ ret \notin GoingOn

(* Fairness: the one thread keeps running, every timer expires in the end, a  *)
(* callback returns, and the main loop yields again as long as it goes on,    *)
(* whatever else it calls between two yields.                                 *)
(* Nothing is assumed of the broker, of the link, or of the other calls the    *)
(* application may make.                                                      *)
Fairness ==
  /\ WF_vars(WaitNext \/ DeliverNext \/ YieldNext \/ ReconnectNext
             \/ (stack # <<>> /\ CallNext))
  /\ SF_vars(RequestTimesOut) /\ SF_vars(ConnectAbandoned)
  /\ SF_vars(YieldExpires) /\ SF_vars(ReconnectDue)
  /\ SF_vars(HandlerReturns) /\ SF_vars(DisconnectHandlerReturns)
  /\ SF_vars(stack = <<>> /\ ret \in GoingOn /\ (Yield \/ Rejected("yield")))

FairSpec == Spec /\ Fairness

(* No call blocks for ever: whatever the broker and the link do, control comes *)
(* back to the application.                                                   *)
CallsReturn == []<>(stack = <<>>)

(* A pending reconnect comes to an end under an application that goes on       *)
(* yielding: the client is connected again, or a result after which the main   *)
(* loop no longer goes on tells the application that it is not: that of the    *)
(* back-off past its maximum (yield.c:102-106), or that of yield on the client *)
(* PendingAfterFailure is about, which no longer tries.                        *)
ReconnectResolves == clientState = "PENDING_RECONNECT" ~> IsConnected \/ GivenUp

(* With auto-reconnect enabled a disconnect leads to an attempt to reconnect  *)
(* (aws_iot_shadow_interface.h:283), while the back-off is at its first        *)
(* interval or later.                                                         *)
ReconnectTried ==
  clientState = "PENDING_RECONNECT" /\ waitInterval = MinWait ~>
    At("reconnect", "connect") \/ clientState # "PENDING_RECONNECT"

=============================================================================
