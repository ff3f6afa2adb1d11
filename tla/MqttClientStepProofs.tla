------------------------ MODULE MqttClientStepProofs ------------------------
(***************************************************************************)
(* What follows from the invariant of MqttClientProofs: what a step may    *)
(* never do, and the invariants of a client whose callbacks keep to a rule. *)
(***************************************************************************)
EXTENDS MqttClientProofs

(* An operation that finds the state its own is an operation of the session.  *)
LEMMA HolderLives ==
  ASSUME IInv, stack # <<>>, Top.op \in Restoring, clientState = Holds(Top.op)
  PROVE  Top.live
<1> DEFINE n == Len(stack)
<1>1. n \in Nat \ {0} /\ Top = stack[n] /\ Len(stack) = n
  BY BelowSeq DEF IInv, TypeOK, Top
<1> HIDE DEF n
<1>2. clientState \in Busy
  BY DEF Holds, Busy, Restoring
<1>3. PICK j \in 1 .. n : stack[j].live /\ Holds(stack[j].op) = clientState
  BY <1>1, <1>2 DEF IInv, StackInv, StateOwned
<1>4. CASE j = n
  BY <1>1, <1>3, <1>4
<1>5. CASE j # n
  <2>1. stack[j].op \in Owning
    BY <1>2, <1>3 DEF Holds, Owning, Restoring, Busy
  <2> QED
    BY <1>1, <1>3, <1>5, <2>1 DEF IInv, StackInv, LiveAbove
<1> QED
  BY <1>4, <1>5

----------------------------------------------------------------------------
(* Which steps shrink the stack *)

(* Calls never do. *)
LEMMA CallsGrow ==
  ASSUME TypeOK, CallNext
  PROVE  Len(stack') >= Len(stack)
<1> USE DEF TypeOK
<1>1. Len(stack) \in Nat /\ Len(Orphaned(stack)) = Len(stack)
  BY OrphanedSeq
<1>2. ASSUME UNCHANGED stack \/ stack' = Orphaned(stack) PROVE Len(stack') >= Len(stack)
  BY <1>1, <1>2
<1>3. ASSUME NEW f, stack' = Append(stack, f) PROVE Len(stack') >= Len(stack)
  BY <1>1, <1>3
<1>4. ASSUME NEW f, stack' = Append(Orphaned(stack), f) PROVE Len(stack') >= Len(stack)
  <2> DEFINE s == Orphaned(stack)
  <2>1. s \in Seq(Frames) /\ Len(s) = Len(stack)
    BY OrphanedSeq
  <2>2. stack' = Append(s, f)
    BY <1>4
  <2> HIDE DEF s
  <2> QED
    BY <1>1, <2>1, <2>2
<1>5. CASE \E op \in CallOps : Rejected(op)
  BY <1>2, <1>5 DEF Rejected, Answer
<1>6. CASE \E status \in BOOLEAN : SetAutoReconnect(status)
  BY <1>2, <1>6 DEF SetAutoReconnect, Answer
<1>7. CASE ConnectFails \/ ConnectUnsent \/ Disconnect
  BY <1>2, <1>7 DEF ConnectFails, ConnectUnsent, Disconnect
<1>8. CASE ConnectSent
  BY <1>4, <1>8, Zenon DEF ConnectSent
<1>9. CASE \E topic \in Topics : Subscribe(topic) \/ Unsubscribe(topic)
  <2>1. UNCHANGED stack \/ \E f : stack' = Append(stack, f)
    BY <1>9, Zenon DEF Subscribe, Unsubscribe, RequestRefused, Answer, Push
  <2> QED
    BY <1>2, <1>3, <2>1, Zenon
<1>10. CASE \E qos \in {0, 1} : Publish(qos)
  <2>1. UNCHANGED stack \/ \E f : stack' = Append(stack, f)
    BY <1>10, Zenon DEF Publish, RequestRefused, Answer, Push
  <2> QED
    BY <1>2, <1>3, <2>1, Zenon
<1>11. CASE Resubscribe \/ Yield \/ AttemptReconnect
  <2>1. \E f : stack' = Append(stack, f)
    BY <1>11, Zenon DEF Resubscribe, Yield, AttemptReconnect, Push
  <2> QED
    BY <1>3, <2>1, Zenon
<1> QED
  BY <1>5, <1>6, <1>7, <1>8, <1>9, <1>10, <1>11 DEF CallNext

LEMMA GotoKeeps ==
  ASSUME TypeOK, stack # <<>>, NEW f, stack' = WithTop(f)
  PROVE  Len(stack') = Len(stack)
  BY DEF TypeOK, WithTop

(* A request or a delivery leaves the stack by finishing.                      *)
LEMMA FinishOnly ==
  ASSUME TypeOK, Next, stack # <<>>, Top.op \in Restoring, Len(stack') < Len(stack)
  PROVE  /\ \E rc : Finish(rc)
         /\ Top.op = "resubscribe" => ResubscribeEnds \/ RequestTimesOut
<1>1. Len(stack) \in Nat \ {0}
  BY BelowSeq DEF TypeOK
<1>2. stack' # stack /\ \A f : stack' # WithTop(f)
  BY <1>1, GotoKeeps
<1>3. CASE CallNext
  <2>1. Len(stack') >= Len(stack) /\ Len(stack') \in Nat
    BY <1>3, CallsGrow, CallTypes DEF TypeOK
  <2> QED
    BY <1>1, <2>1
<1>4. CASE WaitNext
  <2>1. CASE ConnectAccepted \/ ConnectAbandoned
    BY <2>1 DEF ConnectAccepted, ConnectAbandoned, Waiting, At, Restoring
  <2>2. CASE Subscribed \/ Unsubscribed \/ Published \/ ResubscribeEnds \/ RequestTimesOut
    <3>1. \E rc : Finish(rc)
      BY <2>2, Zenon DEF Subscribed, Unsubscribed, Published, ResubscribeEnds, RequestTimesOut
    <3> QED
      BY <2>2, <3>1 DEF Subscribed, Unsubscribed, Published, Waiting, At
  <2>3. CASE ResubscribeSend \/ ResubscribeNext
    BY <1>2, <2>3, Zenon DEF ResubscribeSend, ResubscribeNext
  <2>4. CASE ReadOther
    BY <1>2, <2>4, Zenon DEF ReadOther, Goto
  <2>5. CASE ReadPublish
    <3>1. PICK f, g : stack' = Append(WithTop(f), g)
      BY <2>5, Zenon DEF ReadPublish
    <3> DEFINE s == WithTop(f)
    <3>2. s = [stack EXCEPT ![Len(stack)] = f] /\ stack' = Append(s, g)
      BY <3>1 DEF WithTop
    <3>3. Len(s) = Len(stack)
      BY <1>1, <3>2 DEF TypeOK
    <3> HIDE DEF s
    <3>4. Len(stack') \in Nat
      BY <1>4, WaitTypes DEF TypeOK
    <3>5. Len(Append(s, g)) = Len(s) + 1
      BY <1>1, <3>3
    <3> QED
      BY <1>1, <3>2, <3>3, <3>4, <3>5
  <2> QED
    BY <1>4, <2>1, <2>2, <2>3, <2>4, <2>5 DEF WaitNext
<1>5. CASE DeliverNext
  <2>1. Top.op = "deliver"
    BY <1>5 DEF DeliverNext, CallHandler, HandlerReturns, Delivered, Acknowledge,
       InMessageCallback, At
  <2> QED
    BY <1>2, <1>5, <2>1, Zenon DEF DeliverNext, CallHandler, HandlerReturns, Delivered, Acknowledge
<1>6. CASE YieldNext
  <2>1. Top.op = "yield"
    BY <1>6 DEF YieldNext, YieldExpires, YieldLoops, YieldReadsNothing, YieldFails,
       YieldDelivered, KeepAliveNotDue, KeepAlivePing, ConnectionLost,
       DisconnectHandlerReturns, InDisconnectHandler, Cycling, At
  <2> QED
    BY <2>1 DEF Restoring
<1>7. CASE ReconnectNext
  <2>1. Top.op = "yield" \/ Top.op = "reconnect"
    BY <1>7 DEF ReconnectNext, ReconnectTimedOut, ReconnectDelayed, ReconnectDue,
       ReconnectAttempted, ReconnectConnected, ReconnectResubscribed, ReconnectPending, At
  <2> QED
    BY <2>1 DEF Restoring
<1>8. CASE ExternalNext
  BY <1>2, <1>8 DEF ExternalNext, BrokerConnects, BrokerHandles, BrokerPublishes, LinkBreaks,
     calls
<1> QED
  BY <1>3, <1>4, <1>5, <1>6, <1>7, <1>8 DEF Next

(* A request or a delivery whose session is gone leaves the client state, which *)
(* may by then be that of the next session, exactly as it finds it.             *)
THEOREM UnwindsInOwnSession == Spec => OwnSessionOnly
<1>1. ASSUME IInv, Next, stack # <<>>, Len(stack') < Len(stack), Top.op \in Restoring,
             ~Top.live
      PROVE  clientState' = clientState
  <2>1. PICK rc : Finish(rc)
    BY <1>1, FinishOnly DEF IInv
  <2>2. clientState # Holds(Top.op)
    BY <1>1, HolderLives
  <2> QED
    BY <2>1, <2>2 DEF Finish, SetClientState
<1>2. IInv /\ [Next]_vars =>
        [stack # <<>> /\ Len(stack') < Len(stack) /\ Top.op \in Restoring /\ ~Top.live
           => clientState' = clientState]_vars
  BY <1>1
<1> QED
  BY <1>2, Invariance, PTL DEF Spec, OwnSessionOnly

----------------------------------------------------------------------------
(* What yield reports *)

(* yield leaves the stack by YieldReturns, with a result that agrees with the  *)
(* state, or with the result of a lost connection.                             *)
LEMMA YieldLeaves ==
  ASSUME IInv, Next, stack # <<>>, Top.op = "yield", Len(stack') < Len(stack)
  PROVE  \/ ret' = "NETWORK_DISCONNECTED_ERROR"
         \/ \E rc : /\ YieldReturns(rc)
                    /\ rc = "NETWORK_RECONNECTED" => clientState = Holds("yield")
<1> USE DEF IInv
<1>1. Len(stack) \in Nat \ {0} /\ Top = stack[Len(stack)]
  BY BelowSeq DEF TypeOK, Top
<1>2. stack' # stack /\ \A f : stack' # WithTop(f)
  BY <1>1, GotoKeeps
<1>3. CASE CallNext
  <2>1. Len(stack') >= Len(stack) /\ Len(stack') \in Nat
    BY <1>3, CallsGrow, CallTypes DEF TypeOK
  <2> QED
    BY <1>1, <2>1
<1>4. CASE WaitNext
  <2>1. Top.pc # "wait"
    BY <1>1 DEF StackInv, WaitsForAck, Restoring
  <2>2. CASE ReadOther
    BY <1>2, <2>2, Zenon DEF ReadOther, Goto
  <2>3. CASE ReadPublish
    <3>1. PICK f, g : stack' = Append(WithTop(f), g)
      BY <2>3, Zenon DEF ReadPublish
    <3> DEFINE s == WithTop(f)
    <3>2. s = [stack EXCEPT ![Len(stack)] = f] /\ stack' = Append(s, g)
      BY <3>1 DEF WithTop
    <3>3. Len(s) = Len(stack)
      BY <1>1, <3>2 DEF TypeOK
    <3> HIDE DEF s
    <3>4. Len(stack') \in Nat
      BY <1>4, WaitTypes DEF TypeOK
    <3>5. Len(Append(s, g)) = Len(s) + 1
      BY <1>1, <3>3
    <3> QED
      BY <1>1, <3>2, <3>3, <3>4, <3>5
  <2> QED
    BY <1>4, <2>1, <2>2, <2>3 DEF WaitNext, ConnectAccepted, ConnectAbandoned, Subscribed,
       Unsubscribed, Published, ResubscribeSend, ResubscribeNext, ResubscribeEnds,
       RequestTimesOut, Waiting, At
<1>5. CASE DeliverNext
  BY <1>5 DEF DeliverNext, CallHandler, HandlerReturns, Delivered, Acknowledge,
     InMessageCallback, At
<1>6. CASE YieldNext
  <2>1. CASE YieldExpires
    BY <2>1 DEF YieldExpires, ResultInv, YieldResult, Holds
  <2>2. CASE YieldFails
    BY <2>2 DEF YieldFails, ResultInv, DeliverResult
  <2>3. CASE DisconnectHandlerReturns
    BY <1>2, <2>3 DEF DisconnectHandlerReturns, Goto, Return
  <2>4. CASE ConnectionLost
    <3>1. PICK f : stack' = Orphaned(WithTop(f))
      BY <2>4, Zenon DEF ConnectionLost
    <3>2. Len(WithTop(f)) = Len(stack)
      BY <1>1 DEF WithTop, TypeOK
    <3> DEFINE s == WithTop(f)
    <3>3. Len(s) = Len(stack) /\ stack' = Orphaned(s)
      BY <3>1, <3>2
    <3> HIDE DEF s
    <3>4. Len(stack') = Len(stack)
      BY <1>1, <3>3 DEF Orphaned
    <3> QED
      BY <1>1, <3>4
  <2> QED
    BY <1>2, <1>6, <2>1, <2>2, <2>3, <2>4, Zenon DEF YieldNext, YieldLoops, YieldReadsNothing,
       YieldDelivered, KeepAliveNotDue, KeepAlivePing, Goto
<1>7. CASE ReconnectNext
  <2>1. CASE ReconnectTimedOut
    BY <2>1 DEF ReconnectTimedOut
  <2>2. CASE ReconnectDelayed \/ ReconnectDue \/ ReconnectAttempted
    BY <1>2, <2>2, Zenon DEF ReconnectDelayed, ReconnectDue, ReconnectAttempted, BackOff, Goto
  <2>3. CASE ReconnectConnected \/ ReconnectResubscribed
    BY <2>3 DEF ReconnectConnected, ReconnectResubscribed, At
  <2> QED
    BY <1>7, <2>1, <2>2, <2>3 DEF ReconnectNext
<1>8. CASE ExternalNext
  BY <1>2, <1>8 DEF ExternalNext, BrokerConnects, BrokerHandles, BrokerPublishes, LinkBreaks,
     calls
<1> QED
  BY <1>3, <1>4, <1>5, <1>6, <1>7, <1>8 DEF Next

(* yield that reports success, or a completed reconnect, leaves a client that is *)
(* connected and idle, whatever callbacks and disconnect handler did meanwhile.  *)
THEOREM YieldTellsTheTruth == Spec => YieldHonest
<1>1. ASSUME IInv, Next, stack # <<>>, Top.op = "yield", Len(stack') < Len(stack),
             ret' \in {"SUCCESS", "NETWORK_RECONNECTED"}
      PROVE  clientState' = "IDLE"
  <2>1. PICK rc : /\ YieldReturns(rc)
                  /\ rc = "NETWORK_RECONNECTED" => clientState = Holds("yield")
    BY <1>1, YieldLeaves
  <2>2. rc \notin Disconnections
    BY <1>1, <2>1 DEF YieldReturns, Disconnections, Return
  <2>3. clientState = Holds("yield")
    BY <1>1, <2>1 DEF YieldReturns, Return
  <2> QED
    BY <2>1, <2>2, <2>3 DEF YieldReturns, SetClientState
<1>2. IInv /\ [Next]_vars =>
        [stack # <<>> /\ Top.op = "yield" /\ Len(stack') < Len(stack)
           /\ ret' \in {"SUCCESS", "NETWORK_RECONNECTED"}
           => clientState' = "IDLE"]_vars
  BY <1>1
<1> QED
  BY <1>2, Invariance, PTL DEF Spec, YieldHonest

----------------------------------------------------------------------------
(* What is sent *)

LEMMA LastSent ==
  ASSUME TypeOK, NEW p, Send(p), Len(toBroker') = Len(toBroker) + 1
  PROVE  toBroker'[Len(toBroker')] = p
<1>1. toBroker \in Seq(Packets) /\ Len(toBroker) \in Nat
  BY DEF TypeOK, ExternalTypes
<1>2. toBroker' = Append(toBroker, p)
  BY <1>1 DEF Send
<1> QED
  BY <1>1, <1>2

LEMMA NothingSent ==
  ASSUME TypeOK,
         \/ UNCHANGED toBroker
         \/ toBroker' = <<>>
         \/ toBroker # <<>> /\ toBroker' = Tail(toBroker)
  PROVE  Len(toBroker') # Len(toBroker) + 1
<1>1. toBroker \in Seq(Packets) /\ Len(toBroker) \in Nat
  BY DEF TypeOK, ExternalTypes
<1> QED
  BY <1>1

(* Acknowledge is the only step that sends a PUBACK.                           *)
LEMMA PubackOnly ==
  ASSUME IInv, Next, Len(toBroker') = Len(toBroker) + 1,
         toBroker'[Len(toBroker')].type = "PUBACK"
  PROVE  Acknowledge
<1> USE DEF IInv
<1>1. ~UNCHANGED toBroker /\ toBroker' # <<>> /\ ~(toBroker # <<>> /\ toBroker' = Tail(toBroker))
  BY NothingSent
<1>2. \A p : Send(p) => p.type = "PUBACK"
  BY LastSent
<1>3. ~UNCHANGED external /\ ~Read /\ ~Destroy
  BY <1>1 DEF external, Read, Destroy
<1>4. CASE CallNext
  <2>1. CASE ConnectSent
    <3>1. toBroker' = <<Plain("CONNECT")>>
      BY <2>1 DEF ConnectSent
    <3>2. toBroker'[Len(toBroker')] = Plain("CONNECT")
      BY <3>1
    <3> QED
      BY <3>2 DEF Plain, Packet
  <2>2. CASE \E topic \in Topics : Subscribe(topic) \/ Unsubscribe(topic)
    <3>1. \E topic : Send(Packet("SUBSCRIBE", topic, 0)) \/ Send(Packet("UNSUBSCRIBE", topic, 0))
      BY <1>3, <2>2, Zenon DEF Subscribe, Unsubscribe, RequestRefused
    <3> QED
      BY <1>2, <3>1 DEF Packet
  <2>3. CASE \E qos \in {0, 1} : Publish(qos)
    <3>1. \E qos : Send(Packet("PUBLISH", NULL, qos))
      BY <1>3, <2>3, Zenon DEF Publish, RequestRefused
    <3> QED
      BY <1>2, <3>1 DEF Packet
  <2> QED
    BY <1>1, <1>3, <1>4, <2>1, <2>2, <2>3, Zenon DEF CallNext, Rejected, SetAutoReconnect,
       ConnectFails, ConnectUnsent, Disconnect, Resubscribe, Yield, AttemptReconnect
<1>5. CASE WaitNext
  <2>1. CASE ResubscribeSend
    <3>1. \E topic : Send(Packet("SUBSCRIBE", topic, 0))
      BY <2>1, Zenon DEF ResubscribeSend
    <3> QED
      BY <1>2, <3>1 DEF Packet
  <2> QED
    BY <1>3, <1>5, <2>1, Zenon DEF WaitNext, ConnectAccepted, ConnectAbandoned, Subscribed,
       Unsubscribed, Published, ResubscribeNext, ResubscribeEnds, RequestTimesOut,
       ReadOther, ReadPublish
<1>6. CASE DeliverNext
  BY <1>3, <1>6, Zenon DEF DeliverNext, CallHandler, HandlerReturns, Delivered
<1>7. CASE YieldNext
  <2>1. CASE KeepAlivePing
    BY <1>2, <2>1 DEF KeepAlivePing, Plain, Packet
  <2> QED
    BY <1>3, <1>7, <2>1, Zenon DEF YieldNext, YieldExpires, YieldLoops, YieldReadsNothing,
       YieldFails, YieldDelivered, KeepAliveNotDue, ConnectionLost, DisconnectHandlerReturns
<1>8. CASE ReconnectNext
  BY <1>3, <1>8, Zenon DEF ReconnectNext, ReconnectTimedOut, ReconnectDelayed, ReconnectDue,
     ReconnectAttempted, ReconnectConnected, ReconnectResubscribed
<1>9. CASE ExternalNext
  BY <1>1, <1>9 DEF ExternalNext, BrokerConnects, BrokerHandles, BrokerPublishes, LinkBreaks
<1> QED
  BY <1>4, <1>5, <1>6, <1>7, <1>8, <1>9 DEF Next

(* handle_publish sends PUBACK on the session that delivered the message: the  *)
(* callback may have opened another one, and then nothing is acknowledged.     *)
THEOREM AcksStayInSession == Spec => AckOnOwnSession
<1>1. ASSUME IInv, Next, Len(toBroker') = Len(toBroker) + 1,
             toBroker'[Len(toBroker')].type = "PUBACK"
      PROVE  Top.live
  <2>1. Acknowledge
    BY <1>1, PubackOnly
  <2>2. stack # <<>> /\ Top.op = "deliver" /\ clientState = Holds("deliver")
    BY <2>1 DEF Acknowledge, At
  <2> QED
    BY <1>1, <2>2, HolderLives DEF Restoring
<1>2. IInv /\ [Next]_vars =>
        [Len(toBroker') = Len(toBroker) + 1 /\ toBroker'[Len(toBroker')].type = "PUBACK"
           => Top.live]_vars
  BY <1>1
<1> QED
  BY <1>2, Invariance, PTL DEF Spec, AckOnOwnSession

----------------------------------------------------------------------------
(* How a step changes the calls in progress *)

(* A frame keeps the operation, the state to give back and what it works on; a  *)
(* session that ended does not come back, except for yield.                    *)
SameCall(f, g) ==
  /\ f.op = g.op /\ f.saved = g.saved /\ f.topic = g.topic /\ f.limit = g.limit
  /\ g.op = "subscribe" => f.slot = g.slot
  /\ f.live /\ g.op # "yield" => g.live

(* A call that is not on top is where it was.                                  *)
SamePlace(f, g) == f.pc = g.pc /\ f.slot = g.slot

(* The top call goes on to its next place.                                     *)
GoesOn ==
  Top.op \in {"yield", "deliver"} \/ ResubscribeSend \/ ResubscribeNext \/ ReconnectConnected

(* The same calls are in progress; below the top they are where they were.     *)
Stays ==
  /\ Len(stack') = Len(stack)
  /\ \A i \in 1 .. Len(stack) : SameCall(stack'[i], stack[i])
  /\ \A i \in 1 .. Len(stack) : SamePlace(stack'[i], stack[i]) \/ (i = Len(stack) /\ GoesOn)

(* The top call returns.                                                       *)
Leaves ==
  /\ stack # <<>> /\ Len(stack') = Len(stack) - 1
  /\ \A i \in 1 .. Len(stack) - 1 :
       SameCall(stack'[i], stack[i]) /\ SamePlace(stack'[i], stack[i])

(* A call starts, in the state it is going to give back.  A yield that delivers *)
(* a message moves on from its loop.                                           *)
Enters(op) ==
  /\ Len(stack') = Len(stack) + 1
  /\ \A i \in 1 .. Len(stack) :
       /\ SameCall(stack'[i], stack[i])
       /\ \/ SamePlace(stack'[i], stack[i])
          \/ stack[i].op = "yield" /\ stack'[i].pc = "deliver"
  /\ \E f \in {stack'[Len(stack) + 1]} :
       /\ f.op = op /\ f.saved = clientState /\ f.pc # "handler"
       /\ op = "subscribe" => f.slot \in Slots /\ messageHandlers[f.slot] = NULL

(* What a call that is admitted does beyond its frame.                          *)
Makes(op) ==
  /\ op = "connect" => ConnectSent
  /\ op = "subscribe" => \E topic \in Topics : Subscribe(topic)
  /\ op = "resubscribe" => Resubscribe
  /\ op = "reconnect" => AttemptReconnect

LEMMA StaysSame == ASSUME TypeOK, UNCHANGED stack PROVE Stays
  BY DEF Stays, SameCall, SamePlace

LEMMA StaysOrphaned == ASSUME TypeOK, stack' = Orphaned(stack) PROVE Stays
<1>1. \A i \in 1 .. Len(stack) : stack[i] \in Frames
  BY DEF TypeOK
<1>2. /\ Len(stack') = Len(stack) /\ Len(stack) \in Nat
      /\ \A i \in 1 .. Len(stack) : stack'[i] = [stack[i] EXCEPT !.live = FALSE]
  BY OrphanedSeq DEF TypeOK
<1>3. \A i \in 1 .. Len(stack) : SameCall(stack'[i], stack[i]) /\ SamePlace(stack'[i], stack[i])
  BY <1>1, <1>2 DEF SameCall, SamePlace, Frames
<1> QED
  BY <1>2, <1>3 DEF Stays

LEMMA StaysTop ==
  ASSUME TypeOK, stack # <<>>, NEW f, stack' = WithTop(f), SameCall(f, Top), GoesOn
  PROVE  Stays
<1>1. /\ Len(stack') = Len(stack) /\ stack'[Len(stack)] = f
      /\ \A i \in 1 .. Len(stack) - 1 : stack'[i] = stack[i]
  BY DEF TypeOK, WithTop
<1>2. Len(stack) \in Nat \ {0}
  BY BelowSeq DEF TypeOK
<1> QED
  BY <1>1, <1>2 DEF Top, Stays, SameCall, SamePlace

LEMMA StaysGoto == ASSUME TypeOK, stack # <<>>, NEW pc, Goto(pc), GoesOn PROVE Stays
<1> DEFINE f == [Top EXCEPT !.pc = pc]
<1>1. Top \in Frames
  BY BelowSeq DEF TypeOK
<1>2. SameCall(f, Top) /\ stack' = WithTop(f)
  BY <1>1 DEF SameCall, Frames, Goto
<1> HIDE DEF f
<1> QED
  BY <1>2, StaysTop

LEMMA LeavesBelow ==
  ASSUME TypeOK, stack # <<>>, stack' = Below \/ stack' = Orphaned(Below)
  PROVE  Leaves
<1>1. /\ Below \in Seq(Frames) /\ Len(Below) = Len(stack) - 1 /\ Len(stack) \in Nat \ {0}
      /\ \A i \in 1 .. Len(stack) - 1 : Below[i] = stack[i] /\ Below[i] \in Frames
  BY BelowSeq DEF TypeOK
<1>2. CASE stack' = Below
  BY <1>1, <1>2 DEF Leaves, SameCall, SamePlace
<1>3. CASE stack' = Orphaned(Below)
  <2> DEFINE b == Below
  <2>1. b \in Seq(Frames) /\ stack' = Orphaned(b) /\ Len(b) = Len(stack) - 1
    BY <1>1, <1>3
  <2>2. \A i \in 1 .. Len(stack) - 1 : b[i] = stack[i] /\ b[i] \in Frames
    BY <1>1
  <2> HIDE DEF b
  <2>3. Len(stack') = Len(b) /\ \A i \in 1 .. Len(b) : stack'[i] = [b[i] EXCEPT !.live = FALSE]
    BY <2>1, OrphanedSeq
  <2>4. \A i \in 1 .. Len(stack) - 1 : stack'[i] = [stack[i] EXCEPT !.live = FALSE]
    BY <1>1, <2>1, <2>2, <2>3
  <2>5. \A i \in 1 .. Len(stack) - 1 : SameCall(stack'[i], stack[i]) /\ SamePlace(stack'[i], stack[i])
    BY <2>2, <2>4 DEF Frames, SameCall, SamePlace
  <2> QED
    BY <1>1, <2>1, <2>3, <2>5 DEF Leaves
<1> QED
  BY <1>2, <1>3

(* A call is pushed on the stack as it is.                                     *)
LEMMA EntersPush ==
  ASSUME TypeOK, NEW f, Push(f), f.saved = clientState, f.pc # "handler",
         f.op = "subscribe" => f.slot \in Slots /\ messageHandlers[f.slot] = NULL
  PROVE  Enters(f.op)
<1>1. /\ Len(stack') = Len(stack) + 1 /\ stack'[Len(stack) + 1] = f
      /\ \A i \in 1 .. Len(stack) : stack'[i] = stack[i]
  BY DEF TypeOK, Push
<1> QED
  BY <1>1 DEF Enters, SameCall, SamePlace

LEMMA CallMoves ==
  ASSUME TypeOK, CallNext
  PROVE  Stays \/ \E op \in CallOps \ {"disconnect"} : Enters(op) /\ Calls(op) /\ Makes(op)
<1> DEFINE Goal ==
      Stays \/ \E op \in CallOps \ {"disconnect"} : Enters(op) /\ Calls(op) /\ Makes(op)
<1> SUFFICES Goal
  BY DEF Goal
<1> HIDE DEF Goal
<1>1. ASSUME UNCHANGED stack \/ stack' = Orphaned(stack) PROVE Goal
  BY <1>1, StaysSame, StaysOrphaned DEF Goal
<1>2. ASSUME NEW op \in CallOps \ {"disconnect"}, NEW pc \in Places, NEW f, Calls(op), Push(f), pc # "handler",
             f.op = op, f.pc = pc, f.saved = clientState, Makes(op),
             op = "subscribe" => f.slot \in Slots /\ messageHandlers[f.slot] = NULL
      PROVE  Goal
  BY <1>2, EntersPush DEF Goal
<1>3. CASE \E op \in CallOps : Rejected(op)
  BY <1>1, <1>3 DEF Rejected, Answer
<1>4. CASE \E status \in BOOLEAN : SetAutoReconnect(status)
  BY <1>1, <1>4 DEF SetAutoReconnect, Answer
<1>5. CASE ConnectFails \/ ConnectUnsent \/ Disconnect
  BY <1>1, <1>5 DEF ConnectFails, ConnectUnsent, Disconnect
<1>6. CASE ConnectSent
  <2> DEFINE o == Orphaned(stack)
             f == Frame("connect", "wait")
  <2>1. /\ o \in Seq(Frames) /\ Len(o) = Len(stack) /\ Len(stack) \in Nat
        /\ \A i \in 1 .. Len(stack) : o[i] = [stack[i] EXCEPT !.live = FALSE]
    BY OrphanedSeq DEF TypeOK
  <2>2. \A i \in 1 .. Len(stack) : SameCall(o[i], stack[i]) /\ SamePlace(o[i], stack[i])
    <3>1. \A i \in 1 .. Len(stack) : stack[i] \in Frames
      BY DEF TypeOK
    <3> QED
      BY <2>1, <3>1 DEF SameCall, SamePlace, Frames
  <2>3. f.op = "connect" /\ f.pc = "wait" /\ f.saved = clientState
    BY DEF Frame
  <2>4. stack' = Append(o, f) /\ Calls("connect")
    BY <1>6 DEF ConnectSent
  <2> HIDE DEF o, f
  <2>5. /\ Len(stack') = Len(stack) + 1 /\ stack'[Len(stack) + 1] = f
        /\ \A i \in 1 .. Len(stack) : stack'[i] = o[i]
    BY <2>1, <2>4
  <2>6. Enters("connect")
    BY <2>2, <2>3, <2>5 DEF Enters, SameCall, SamePlace
  <2> QED
    BY <1>6, <2>4, <2>6 DEF Goal, CallOps, FrameOps, Makes
<1>7. CASE \E topic \in Topics : Subscribe(topic) \/ Unsubscribe(topic)
  <2>1. CASE UNCHANGED stack
    BY <1>1, <2>1
  <2>2. CASE /\ Calls("subscribe") /\ \E topic \in Topics : Subscribe(topic)
             /\ \E topic \in Topics, free \in Slots :
                  /\ IsFreeIndex(free)
                  /\ Push([Frame("subscribe", "wait") EXCEPT !.topic = topic, !.slot = free])
    <3>1. PICK topic \in Topics, free \in Slots :
            /\ IsFreeIndex(free)
            /\ Push([Frame("subscribe", "wait") EXCEPT !.topic = topic, !.slot = free])
      BY <2>2
    <3> DEFINE f == [Frame("subscribe", "wait") EXCEPT !.topic = topic, !.slot = free]
    <3>2. f.op = "subscribe" /\ f.pc = "wait" /\ f.saved = clientState /\ f.slot = free /\ Push(f)
      BY <3>1 DEF Frame
    <3>3. messageHandlers[free] = NULL
      BY <3>1 DEF IsFreeIndex
    <3> HIDE DEF f
    <3> QED
      BY <1>2, <2>2, <3>2, <3>3 DEF CallOps, FrameOps, Places, Makes
  <2>3. CASE /\ Calls("unsubscribe")
             /\ \E topic \in Topics :
                  Push([Frame("unsubscribe", "wait") EXCEPT !.topic = topic])
    <3>1. PICK topic \in Topics : Push([Frame("unsubscribe", "wait") EXCEPT !.topic = topic])
      BY <2>3
    <3> DEFINE f == [Frame("unsubscribe", "wait") EXCEPT !.topic = topic]
    <3>2. f.op = "unsubscribe" /\ f.pc = "wait" /\ f.saved = clientState /\ Push(f)
      BY <3>1 DEF Frame
    <3> HIDE DEF f
    <3> QED
      BY <1>2, <2>3, <3>2 DEF CallOps, FrameOps, Places, Makes
  <2>4. CASE \E topic \in Topics : Subscribe(topic)
    <3>1. \/ UNCHANGED stack
          \/ /\ Calls("subscribe")
             /\ \E topic \in Topics, free \in Slots :
                  /\ IsFreeIndex(free)
                  /\ Push([Frame("subscribe", "wait") EXCEPT !.topic = topic, !.slot = free])
      BY <2>4, Zenon DEF Subscribe, RequestRefused, Answer
    <3> QED
      BY <2>1, <2>2, <2>4, <3>1
  <2>5. CASE \E topic \in Topics : Unsubscribe(topic)
    BY <2>1, <2>3, <2>5, Zenon DEF Unsubscribe, RequestRefused, Answer
  <2> QED
    BY <1>7, <2>4, <2>5
<1>8. CASE \E qos \in {0, 1} : Publish(qos)
  <2>1. CASE UNCHANGED stack
    BY <1>1, <2>1
  <2>2. CASE Calls("publish") /\ Push(Frame("publish", "wait"))
    BY <1>2, <2>2 DEF CallOps, FrameOps, Places, Frame, Makes
  <2> QED
    BY <1>8, <2>1, <2>2, Zenon DEF Publish, RequestRefused, Answer
<1>9. CASE Resubscribe
  <2>1. PICK free : Push([Frame("resubscribe", "send") EXCEPT !.limit = free])
    BY <1>9, Zenon DEF Resubscribe
  <2> DEFINE f == [Frame("resubscribe", "send") EXCEPT !.limit = free]
  <2>2. f.op = "resubscribe" /\ f.pc = "send" /\ f.saved = clientState /\ Push(f)
    BY <2>1 DEF Frame
  <2> HIDE DEF f
  <2> QED
    BY <1>2, <1>9, <2>2 DEF Resubscribe, CallOps, FrameOps, Places, Makes
<1>10. CASE Yield
  <2> DEFINE f == [Frame("yield", "loop") EXCEPT !.live = IsConnected]
  <2>1. f.op = "yield" /\ f.pc = "loop" /\ f.saved = clientState /\ Push(f)
    BY <1>10 DEF Frame, Yield
  <2> HIDE DEF f
  <2> QED
    BY <1>2, <1>10, <2>1 DEF Yield, CallOps, FrameOps, Places, Makes
<1>11. CASE AttemptReconnect
  BY <1>2, <1>11 DEF AttemptReconnect, CallOps, FrameOps, Places, Frame, Makes
<1> QED
  BY <1>3, <1>4, <1>5, <1>6, <1>7, <1>8, <1>9, <1>10, <1>11 DEF CallNext, Goal

LEMMA WaitMoves ==
  ASSUME TypeOK, WaitNext
  PROVE  Stays \/ Leaves \/ (Enters("deliver") /\ ReadPublish)
<1> DEFINE Goal == Stays \/ Leaves \/ (Enters("deliver") /\ ReadPublish)
<1> SUFFICES Goal
  BY DEF Goal
<1> HIDE DEF Goal
<1>1. CASE \/ ConnectAccepted \/ ConnectAbandoned \/ Subscribed \/ Unsubscribed \/ Published
           \/ ResubscribeEnds \/ RequestTimesOut
  <2>1. stack # <<>> /\ (stack' = Below \/ stack' = Orphaned(Below))
    BY <1>1, Zenon DEF ConnectAccepted, ConnectAbandoned, Subscribed, Unsubscribed, Published,
       ResubscribeEnds, RequestTimesOut, Waiting, At, Finish, Return
  <2> QED
    BY <2>1, LeavesBelow DEF Goal
<1>2. CASE ResubscribeSend \/ ResubscribeNext
  <2>1. /\ stack # <<>> /\ Top.op = "resubscribe"
        /\ \E pc, slot : stack' = WithTop([Top EXCEPT !.pc = pc, !.slot = slot])
    <3>1. CASE ResubscribeSend
      BY <3>1, Zenon DEF ResubscribeSend, At
    <3>2. CASE ResubscribeNext
      BY <3>2 DEF ResubscribeNext, Waiting, At
    <3> QED
      BY <1>2, <3>1, <3>2
  <2>2. PICK pc, slot : stack' = WithTop([Top EXCEPT !.pc = pc, !.slot = slot])
    BY <2>1
  <2> DEFINE f == [Top EXCEPT !.pc = pc, !.slot = slot]
  <2>3. Top \in Frames
    BY <2>1, BelowSeq DEF TypeOK
  <2>4. SameCall(f, Top) /\ stack' = WithTop(f)
    BY <2>1, <2>2, <2>3 DEF SameCall, SamePlace, Frames
  <2> HIDE DEF f
  <2> QED
    BY <1>2, <2>1, <2>4, StaysTop DEF Goal, GoesOn
<1>3. CASE ReadOther
  <2>1. CASE UNCHANGED stack
    BY <2>1, StaysSame DEF Goal
  <2>2. CASE Cycling /\ Goto("keepalive")
    BY <2>2, StaysGoto DEF Cycling, At, Goal, GoesOn
  <2> QED
    BY <1>3, <2>1, <2>2, Zenon DEF ReadOther
<1>4. CASE ReadPublish
  <2> DEFINE t == [Top EXCEPT !.pc = IF @ = "loop" THEN "deliver" ELSE @]
             f == [Frame("deliver", "scan") EXCEPT !.topic = Head(toClient).topic,
                                                   !.qos = Head(toClient).arg]
             s == WithTop(t)
  <2>1. stack # <<>> /\ stack' = Append(s, f)
    BY <1>4 DEF ReadPublish, Cycling, At
  <2>2. /\ Top \in Frames /\ Len(stack) \in Nat \ {0} /\ Top = stack[Len(stack)]
    BY <2>1, BelowSeq DEF TypeOK, Top
  <2>3. /\ SameCall(t, Top) /\ t \in Frames
        /\ SamePlace(t, Top) \/ (Top.op = "yield" /\ t.pc = "deliver")
    <3>1. Top.pc = "loop" => Top.op = "yield"
      BY <1>4 DEF ReadPublish, Cycling, At
    <3> QED
      BY <2>2, <3>1 DEF SameCall, SamePlace, Frames, Places
  <2>4. f.op = "deliver" /\ f.pc = "scan" /\ f.saved = clientState
    BY DEF Frame
  <2> HIDE DEF t, f
  <2>5. /\ s \in Seq(Frames) /\ Len(s) = Len(stack) /\ s[Len(stack)] = t
        /\ \A i \in 1 .. Len(stack) - 1 : s[i] = stack[i]
    BY <2>1, <2>3, WithTopSeq DEF TypeOK
  <2> HIDE DEF s
  <2>6. /\ Len(stack') = Len(stack) + 1 /\ stack'[Len(stack) + 1] = f
        /\ \A i \in 1 .. Len(stack) : stack'[i] = s[i]
    BY <2>1, <2>2, <2>5
  <2>7. \A i \in 1 .. Len(stack) :
          /\ SameCall(stack'[i], stack[i])
          /\ \/ SamePlace(stack'[i], stack[i])
             \/ stack[i].op = "yield" /\ stack'[i].pc = "deliver"
    BY <2>2, <2>3, <2>5, <2>6 DEF SameCall, SamePlace
  <2> QED
    BY <1>4, <2>4, <2>6, <2>7 DEF Enters, Goal
<1> QED
  BY <1>1, <1>2, <1>3, <1>4 DEF WaitNext, Goal

LEMMA DeliverMoves ==
  ASSUME TypeOK, DeliverNext
  PROVE  Stays \/ Leaves
<1>1. CASE CallHandler \/ HandlerReturns
  <2>1. /\ stack # <<>> /\ Top.op = "deliver"
        /\ \E pc, slot : stack' = WithTop([Top EXCEPT !.pc = pc, !.slot = slot])
    <3>1. CASE CallHandler
      BY <3>1, Zenon DEF CallHandler, At
    <3>2. CASE HandlerReturns
      BY <3>2 DEF HandlerReturns, InMessageCallback, At
    <3> QED
      BY <1>1, <3>1, <3>2
  <2>2. PICK pc, slot : stack' = WithTop([Top EXCEPT !.pc = pc, !.slot = slot])
    BY <2>1
  <2> DEFINE f == [Top EXCEPT !.pc = pc, !.slot = slot]
  <2>3. Top \in Frames
    BY <2>1, BelowSeq DEF TypeOK
  <2>4. SameCall(f, Top) /\ stack' = WithTop(f)
    BY <2>1, <2>2, <2>3 DEF SameCall, SamePlace, Frames
  <2> HIDE DEF f
  <2> QED
    BY <2>1, <2>4, StaysTop DEF GoesOn
<1>2. CASE Delivered \/ Acknowledge
  <2>1. stack # <<>> /\ stack' = Below
    BY <1>2, Zenon DEF Delivered, Acknowledge, At, Finish, Return
  <2> QED
    BY <2>1, LeavesBelow
<1> QED
  BY <1>1, <1>2 DEF DeliverNext

LEMMA YieldMoves ==
  ASSUME TypeOK, YieldNext
  PROVE  Stays \/ Leaves
<1>1. stack # <<>> /\ Top.op = "yield"
  BY DEF YieldNext, YieldExpires, YieldLoops, YieldReadsNothing, YieldFails, YieldDelivered,
     KeepAliveNotDue, KeepAlivePing, ConnectionLost, DisconnectHandlerReturns,
     InDisconnectHandler, Cycling, At
<1>2. CASE stack' = Below
  BY <1>1, <1>2, LeavesBelow
<1>3. CASE \E pc : Goto(pc)
  BY <1>1, <1>3, StaysGoto DEF GoesOn
<1>4. CASE ConnectionLost
  <2> DEFINE f == [Top EXCEPT !.pc = "handler"]
             s == WithTop(f)
  <2>1. stack' = Orphaned(s)
    BY <1>4 DEF ConnectionLost
  <2>2. Top \in Frames /\ Len(stack) \in Nat \ {0} /\ Top = stack[Len(stack)]
    BY <1>1, BelowSeq DEF TypeOK, Top
  <2>3. f \in Frames /\ SameCall(f, Top)
    <3>1. "handler" \in Places
      BY DEF Places
    <3>2. f \in Frames
      BY <2>2, <3>1, ChangedType
    <3>3. SameCall(f, Top)
      BY <2>2 DEF SameCall, Frames
    <3> QED
      BY <3>2, <3>3
  <2> HIDE DEF f
  <2>4. /\ s \in Seq(Frames) /\ Len(s) = Len(stack) /\ s[Len(stack)] = f
        /\ \A i \in 1 .. Len(stack) - 1 : s[i] = stack[i]
    BY <1>1, <2>3, WithTopSeq DEF TypeOK
  <2> HIDE DEF s
  <2>5. /\ Len(stack') = Len(stack)
        /\ \A i \in 1 .. Len(stack) : stack'[i] = [s[i] EXCEPT !.live = FALSE] /\ s[i] \in Frames
    <3>1. /\ Len(stack') = Len(s)
          /\ \A i \in 1 .. Len(s) : stack'[i] = [s[i] EXCEPT !.live = FALSE]
      BY <2>1, <2>4, OrphanedSeq
    <3> QED
      BY <2>4, <3>1
  <2>6. \A i \in 1 .. Len(stack) : SameCall(stack'[i], s[i]) /\ SamePlace(stack'[i], s[i])
    BY <2>5 DEF SameCall, SamePlace, Frames
  <2> QED
    BY <1>1, <2>2, <2>3, <2>4, <2>5, <2>6 DEF SameCall, SamePlace, Stays, GoesOn
<1> QED
  BY <1>2, <1>3, <1>4, Zenon DEF YieldNext, YieldExpires, YieldLoops, YieldReadsNothing,
     YieldFails, YieldDelivered, KeepAliveNotDue, KeepAlivePing, DisconnectHandlerReturns,
     YieldReturns, Return

LEMMA ReconnectMoves ==
  ASSUME TypeOK, ReconnectNext
  PROVE  Stays \/ Leaves
<1>1. stack # <<>> /\ (GoesOn \/ stack' = Below)
  <2>1. CASE ReconnectConnected
    BY <2>1 DEF ReconnectConnected, At, GoesOn
  <2>2. CASE ReconnectResubscribed
    BY <2>2 DEF ReconnectResubscribed, At, Return
  <2>3. CASE ~ReconnectConnected /\ ~ReconnectResubscribed
    BY <2>3 DEF ReconnectNext, GoesOn, ReconnectTimedOut, ReconnectDelayed, ReconnectDue,
       ReconnectAttempted, ReconnectPending, At
  <2> QED
    BY <2>1, <2>2, <2>3
<1>2. CASE stack' = Below
  BY <1>1, <1>2, LeavesBelow
<1>3. CASE \E pc : Goto(pc)
  BY <1>1, <1>2, <1>3, StaysGoto
<1>4. CASE /\ Top.op = "yield"
           /\ \E pc, live : stack' = WithTop([Top EXCEPT !.pc = pc, !.live = live])
  <2>1. PICK pc, live : stack' = WithTop([Top EXCEPT !.pc = pc, !.live = live])
    BY <1>4
  <2> DEFINE f == [Top EXCEPT !.pc = pc, !.live = live]
  <2>2. Top \in Frames
    BY <1>1, BelowSeq DEF TypeOK
  <2>3. SameCall(f, Top) /\ stack' = WithTop(f)
    BY <1>4, <2>1, <2>2 DEF SameCall, Frames
  <2> HIDE DEF f
  <2> QED
    BY <1>1, <1>4, <2>3, StaysTop DEF GoesOn
<1>5. CASE ReconnectAttempted
  <2>1. Top.op = "yield"
    BY <1>5 DEF ReconnectAttempted, At
  <2> QED
    BY <1>3, <1>4, <1>5, <2>1, Zenon DEF ReconnectAttempted, BackOff
<1> QED
  BY <1>2, <1>3, <1>5, Zenon DEF ReconnectNext, ReconnectTimedOut, ReconnectDelayed, ReconnectDue,
     ReconnectConnected, ReconnectResubscribed, YieldReturns, BackOff, Return

(* The calls in progress stay, one returns, or one starts: a call that is      *)
(* admitted, or the delivery of a message.                                     *)
LEMMA Moves ==
  ASSUME TypeOK, Next
  PROVE  \/ Stays \/ Leaves
         \/ \E op \in CallOps \ {"disconnect"} : Enters(op) /\ Calls(op) /\ Makes(op)
         \/ Enters("deliver") /\ ReadPublish
<1>1. CASE ExternalNext
  BY <1>1, StaysSame DEF ExternalNext, BrokerConnects, BrokerHandles, BrokerPublishes,
     LinkBreaks, calls
<1> QED
  BY <1>1, CallMoves, WaitMoves, DeliverMoves, YieldMoves, ReconnectMoves DEF Next

----------------------------------------------------------------------------
(* No yield in a callback *)

Startable == {"IDLE", "PENDING_RECONNECT"}

(* A state from which yield may start comes from a connect or a return.        *)
LEMMA BecomesStartable ==
  ASSUME IInv, Next, clientState \notin Startable, clientState' \in Startable
  PROVE  /\ stack # <<>>
         /\ \/ Top.op \in {"connect", "yield", "reconnect"}
            \/ stack' = Below /\ Top.op \in Restoring /\ clientState' = Top.saved
<1>1. ~UNCHANGED clientState /\ ~UNCHANGED client
  BY DEF client
<1>2. CASE CallNext
  <2>1. CASE ConnectFails \/ ConnectSent \/ ConnectUnsent \/ Disconnect
    BY <1>1, <2>1 DEF ConnectFails, ConnectSent, ConnectUnsent, Disconnect, Startable
  <2>2. CASE \E topic \in Topics : Subscribe(topic) \/ Unsubscribe(topic)
    BY <1>1, <2>2 DEF Subscribe, Unsubscribe, RequestRefused, Holds, Startable
  <2>3. CASE \E qos \in {0, 1} : Publish(qos)
    BY <1>1, <2>3 DEF Publish, RequestRefused, Holds, Startable
  <2>4. CASE Resubscribe \/ Yield
    BY <1>1, <2>4 DEF Resubscribe, Yield, Holds, Startable
  <2> QED
    BY <1>1, <1>2, <2>1, <2>2, <2>3, <2>4 DEF CallNext, Rejected, SetAutoReconnect,
       AttemptReconnect
<1>3. CASE WaitNext
  <2>1. CASE ConnectAccepted \/ ConnectAbandoned
    BY <2>1 DEF ConnectAccepted, ConnectAbandoned, Waiting, At
  <2>2. CASE Subscribed \/ Unsubscribed \/ Published \/ ResubscribeEnds \/ RequestTimesOut
    <3>1. stack # <<>> /\ \E rc : Finish(rc)
      BY <2>2, Zenon DEF Subscribed, Unsubscribed, Published, ResubscribeEnds, RequestTimesOut,
         Waiting, At
    <3>2. Top.op \in Restoring
      <4>1. CASE RequestTimesOut
        <5>1. Len(stack) \in 1 .. Len(stack)
          BY <3>1, BelowSeq DEF IInv, TypeOK
        <5> QED
          BY <4>1, <5>1 DEF RequestTimesOut, IInv, StackInv, WaitsForAck, Top
      <4> QED
        BY <2>2, <4>1 DEF Subscribed, Unsubscribed, Published, ResubscribeEnds, Waiting, At,
           Restoring
    <3> QED
      BY <1>1, <3>1, <3>2 DEF Finish, SetClientState, Return
  <2>3. CASE ReadPublish
    BY <2>3 DEF ReadPublish, Holds, Startable
  <2> QED
    BY <1>1, <1>3, <2>1, <2>2, <2>3 DEF WaitNext, ResubscribeSend, ResubscribeNext, ReadOther
<1>4. CASE DeliverNext
  <2>1. stack # <<>> /\ Top.op = "deliver" /\ \E rc : Finish(rc)
    BY <1>1, <1>4, Zenon DEF DeliverNext, CallHandler, HandlerReturns, Delivered, Acknowledge, At
  <2> QED
    BY <1>1, <2>1 DEF Finish, SetClientState, Return, Restoring
<1>5. CASE YieldNext
  BY <1>5 DEF YieldNext, YieldExpires, YieldLoops, YieldReadsNothing, YieldFails, YieldDelivered,
     KeepAliveNotDue, KeepAlivePing, ConnectionLost, DisconnectHandlerReturns,
     InDisconnectHandler, Cycling, At
<1>6. CASE ReconnectNext
  BY <1>6 DEF ReconnectNext, ReconnectTimedOut, ReconnectDelayed, ReconnectDue,
     ReconnectAttempted, ReconnectConnected, ReconnectResubscribed, ReconnectPending, At
<1>7. CASE ExternalNext
  BY <1>1, <1>7 DEF ExternalNext, BrokerConnects, BrokerHandles, BrokerPublishes, LinkBreaks
<1> QED
  BY <1>2, <1>3, <1>4, <1>5, <1>6, <1>7 DEF Next

LEMMA CallbackInvStep ==
  ASSUME CallbacksStay, IInv, CallbackInv, [Next]_vars
  PROVE  CallbackInv'
<1> DEFINE n == Len(stack)
           Delivers == \E i \in 1 .. n : stack[i].op = "deliver"
<1> USE DEF Startable
<1>1. CASE UNCHANGED vars
  BY <1>1 DEF CallbackInv, vars, client, calls
<1>2. CASE Next
  <2>1. n \in Nat /\ (stack # <<>> => n # 0 /\ Top = stack[n])
    BY BelowSeq DEF IInv, TypeOK, Top
  <2>2. Delivers => /\ clientState \notin Startable
                    /\ Top.op \in Requests \cup {"deliver"}
    BY <2>1 DEF CallbackInv
  <2>3. Delivers /\ clientState' \in Startable =>
          stack' = Below /\ Top.op \in Restoring /\ clientState' = Top.saved
    BY <1>2, <2>2, BecomesStartable DEF Requests
  <2>4. CASE Stays
    <3>1. Delivers => clientState' \notin Startable
      <4> SUFFICES ASSUME stack' = Below PROVE ~Delivers
        BY <2>3
      <4> QED
        BY <2>1, <2>4, BelowSeq DEF Stays, IInv, TypeOK
    <3>2. /\ Len(stack') = n /\ Len(stack) = n
          /\ \A i \in 1 .. n : /\ stack'[i].op = stack[i].op
                                /\ stack'[i].saved = stack[i].saved
      BY <2>4 DEF Stays, SameCall, SamePlace
    <3> HIDE DEF n
    <3>3. SUFFICES ASSUME NEW i \in 1 .. n, stack[i].op = "deliver"
                   PROVE  /\ clientState' \notin Startable
                          /\ \A j \in i + 1 .. n :
                               /\ stack[j].op \in Requests \cup {"deliver"}
                               /\ stack[j].saved \notin Startable
      BY <2>1, <3>2 DEF CallbackInv
    <3> QED
      BY <3>1, <3>2, <3>3 DEF CallbackInv
  <2>5. CASE Leaves
    <3>1. \A i \in 1 .. n - 1 : stack[i].op = "deliver" => clientState' \notin Startable
      BY <2>1, <2>3, <2>5 DEF CallbackInv, Leaves
    <3> QED
      BY <2>1, <2>5, <3>1 DEF CallbackInv, Leaves, SameCall, SamePlace
  <2>6. CASE \E op \in CallOps \ {"disconnect"} : Enters(op) /\ Calls(op)
    <3>1. PICK op \in CallOps \ {"disconnect"} : Enters(op) /\ Calls(op)
      BY <2>6
    <3>2. Delivers => op \in Requests
      <4> SUFFICES ASSUME Delivers PROVE op \in Requests
        OBVIOUS
      <4>1. stack # <<>> /\ AppCalls(op) /\ op \in CallbackOps
        BY <2>1, <2>2, <3>1 DEF Calls, SdkCalls, AppCalls, InDisconnectHandler, At, Requests
      <4>2. op \notin {"connect", "reconnect"}
        BY <4>1 DEF CallbacksStay
      <4>3. op \notin {"yield", "resubscribe"}
        BY <2>2, <3>1, AdmittedYield DEF Calls, Admission, AdmissionIf
      <4> QED
        BY <4>2, <4>3 DEF CallOps, FrameOps, Requests
    <3>3. op # "deliver" /\ n + 1 = Len(stack')
      BY <3>1 DEF Enters, CallOps
    <3>4. Delivers => clientState' \notin Startable
      <4> SUFFICES ASSUME stack' = Below PROVE ~Delivers
        BY <2>3
      <4> QED
        BY <2>1, <3>3, BelowSeq DEF IInv, TypeOK
    <3> QED
      BY <2>1, <2>2, <3>1, <3>2, <3>3, <3>4 DEF CallbackInv, Enters, SameCall, SamePlace
  <2>7. CASE Enters("deliver") /\ ReadPublish
    <3>1. clientState' \notin Startable
      BY <2>7 DEF ReadPublish, Holds
    <3>2. /\ Len(stack) = n /\ Len(stack') = n + 1
          /\ \A i \in 1 .. n : /\ stack'[i].op = stack[i].op
                                /\ stack'[i].saved = stack[i].saved
          /\ stack'[n + 1].op = "deliver" /\ stack'[n + 1].saved = clientState
      BY <2>7 DEF Enters, SameCall, SamePlace
    <3>3. \A i \in 1 .. n : stack'[i].op = "deliver" => clientState \notin Startable
      BY <2>2, <3>2
    <3> HIDE DEF n, Startable
    <3> QED
      BY <2>1, <3>1, <3>2, <3>3 DEF CallbackInv, Startable
  <2> QED
    BY <1>2, <2>4, <2>5, <2>6, <2>7, Moves DEF IInv
<1> QED
  BY <1>1, <1>2

LEMMA CallbackInvInit == Init => CallbackInv
  BY DEF Init, CallbackInv

LEMMA CallbackInvariance == ASSUME CallbacksStay PROVE Spec => []CallbackInv
<1>1. IInv /\ CallbackInv /\ [Next]_vars => CallbackInv'
  BY CallbackInvStep
<1> QED
  BY <1>1, CallbackInvInit, Invariance, PTL DEF Spec

(* While a message callback runs, no yield is on the stack above it, whatever   *)
(* the callback disconnects, publishes, subscribes or tries: yield refuses the  *)
(* state of a callback.  A callback that opens a connection makes the client    *)
(* idle, and yield may start.                                                   *)
THEOREM CallbacksDoNotYield == ASSUME CallbacksStay PROVE Spec => []NoYieldInCallback
<1>1. IInv /\ CallbackInv => NoYieldInCallback
  <2> SUFFICES ASSUME IInv, CallbackInv, NEW i \in 1 .. Len(stack), NEW j \in 1 .. Len(stack),
                      i < j, stack[i].op = "deliver", stack[j].op = "yield"
               PROVE  FALSE
    BY DEF NoYieldInCallback
  <2>1. j \in i + 1 .. Len(stack)
    BY DEF IInv, TypeOK
  <2> QED
    BY <2>1 DEF CallbackInv, Requests
<1> QED
  BY <1>1, CallbackInvariance, Invariance, PTL

----------------------------------------------------------------------------
(* A handler keeps its slot *)

(* The handler table changes when a subscribe or an unsubscribe completes.     *)
LEMMA HandlersChange ==
  ASSUME Next, ~UNCHANGED messageHandlers
  PROVE  Subscribed \/ Unsubscribed
<1>1. ~UNCHANGED client
  BY DEF client
<1> QED
  BY <1>1, Zenon DEF Next, CallNext, WaitNext, DeliverNext, YieldNext, ReconnectNext, ExternalNext,
     Rejected, SetAutoReconnect, ConnectFails, ConnectSent, ConnectUnsent, Disconnect, Subscribe,
     Unsubscribe, Publish, RequestRefused, Resubscribe, Yield, AttemptReconnect, ConnectAccepted,
     ConnectAbandoned, Published, ResubscribeSend, ResubscribeNext, ResubscribeEnds,
     RequestTimesOut, ReadOther, ReadPublish, CallHandler, HandlerReturns, Delivered,
     Acknowledge, YieldExpires, YieldLoops, YieldReadsNothing, YieldFails, YieldDelivered,
     KeepAliveNotDue, KeepAlivePing, ConnectionLost, DisconnectHandlerReturns,
     ReconnectTimedOut, ReconnectDelayed, ReconnectDue, ReconnectAttempted,
     ReconnectConnected, ReconnectResubscribed, BrokerConnects, BrokerHandles,
     BrokerPublishes, LinkBreaks

LEMMA SlotInvStep ==
  ASSUME CallbacksKeepHandlers, IInv, SlotInv, [Next]_vars
  PROVE  SlotInv'
<1> DEFINE n == Len(stack)
<1>1. CASE UNCHANGED vars
  BY <1>1 DEF SlotInv, vars, client, calls
<1>2. CASE Next
  <2>1. n \in Nat /\ (stack # <<>> => n # 0 /\ Top = stack[n])
    BY BelowSeq DEF IInv, TypeOK, Top
  <2>2. messageHandlers \in [Slots -> Topics \cup {NULL}]
    BY DEF IInv, TypeOK, ClientTypes
  \* A slot that is free is taken only when the subscribe returns.
  <2>3. CASE Subscribed
    <3>1. stack' = Below /\ stack # <<>> /\ Top.op = "subscribe"
      BY <2>3 DEF Subscribed, Waiting, At, Finish, Return
    <3>2. n = 1
      <4>1. n \in 1 .. n /\ stack[n].op = "subscribe"
        BY <2>1, <3>1
      <4> QED
        BY <4>1 DEF SlotInv
    <3>3. Len(stack') = 0
      BY <3>1, <3>2, BelowSeq DEF IInv, TypeOK
    <3> QED
      BY <3>3 DEF SlotInv
  <2>4. CASE ~Subscribed
    <3>1. \A slot \in Slots : messageHandlers[slot] = NULL => messageHandlers'[slot] = NULL
      <4>1. CASE UNCHANGED messageHandlers
        BY <4>1
      <4>2. CASE Unsubscribed
        BY <2>2, <4>2 DEF Unsubscribed
      <4> QED
        BY <1>2, <2>4, <4>1, <4>2, HandlersChange
    <3>2. CASE Stays
      BY <3>1, <3>2 DEF SlotInv, Stays, SameCall, SamePlace
    <3>3. CASE Leaves
      BY <2>1, <3>1, <3>3 DEF SlotInv, Leaves, SameCall, SamePlace
    <3>4. CASE \E op \in CallOps \ {"disconnect"} : Enters(op) /\ Calls(op)
      <4>1. PICK op \in CallOps \ {"disconnect"} : Enters(op) /\ Calls(op)
        BY <3>4
      <4>2. op = "subscribe" => stack = <<>>
        BY <4>1 DEF Calls, AppCalls, SdkCalls, CallbacksKeepHandlers
      <4> QED
        BY <2>1, <3>1, <4>1, <4>2 DEF SlotInv, Enters, SameCall, SamePlace
    <3>5. CASE Enters("deliver")
      BY <2>1, <3>1, <3>5 DEF SlotInv, Enters, SameCall, SamePlace
    <3> QED
      BY <1>2, <3>2, <3>3, <3>4, <3>5, Moves DEF IInv
  <2> QED
    BY <2>3, <2>4
<1> QED
  BY <1>1, <1>2

LEMMA SlotInvariance == ASSUME CallbacksKeepHandlers PROVE Spec => []SlotInv
<1>1. Init => SlotInv
  BY DEF Init, SlotInv
<1>2. IInv /\ SlotInv /\ [Next]_vars => SlotInv'
  BY SlotInvStep
<1> QED
  BY <1>1, <1>2, Invariance, PTL DEF Spec

(* The slot that a subscribe chooses before it waits for SUBACK is still free   *)
(* when it is filled, whatever callbacks publish, unsubscribe or disconnect in  *)
(* the meantime; so a handler goes only by an unsubscribe.  A callback that     *)
(* subscribes may take the slot.                                               *)
THEOREM HandlersStay == ASSUME CallbacksKeepHandlers PROVE Spec => HandlersKept
<1>1. ASSUME IInv, SlotInv, Next, NEW i \in Slots, messageHandlers[i] # NULL,
             messageHandlers'[i] # messageHandlers[i]
      PROVE  messageHandlers'[i] = NULL /\ Top.op = "unsubscribe"
  <2>1. messageHandlers \in [Slots -> Topics \cup {NULL}]
    BY <1>1 DEF IInv, TypeOK, ClientTypes
  <2>2. CASE Subscribed
    <3>1. Len(stack) \in 1 .. Len(stack) /\ Top = stack[Len(stack)] /\ Top.op = "subscribe"
      BY <1>1, <2>2, BelowSeq DEF Subscribed, Waiting, At, IInv, TypeOK, Top
    <3>2. Top.slot \in Slots /\ messageHandlers[Top.slot] = NULL
      BY <1>1, <3>1 DEF SlotInv
    <3> QED
      BY <1>1, <2>1, <2>2, <3>2 DEF Subscribed
  <2>3. CASE Unsubscribed
    BY <1>1, <2>1, <2>3 DEF Unsubscribed, Waiting, At
  <2> QED
    BY <1>1, <2>2, <2>3, HandlersChange
<1>2. IInv /\ SlotInv /\ [Next]_vars =>
        [\A i \in Slots :
           messageHandlers[i] # NULL /\ messageHandlers'[i] # messageHandlers[i]
             => messageHandlers'[i] = NULL /\ Top.op = "unsubscribe"]_vars
  BY <1>1
<1> QED
  BY <1>2, SlotInvariance, Invariance, PTL DEF Spec, HandlersKept

----------------------------------------------------------------------------
(* No open connection is forgotten *)

(* A connect that waits is answered or gives up before anything else happens,   *)
(* and meanwhile the client stays as it is.                                     *)
LEMMA ConnectWaitsOn ==
  ASSUME IInv, Next, Waiting("connect")
  PROVE  ConnectAccepted \/ ConnectAbandoned \/ (ExternalNext /\ UNCHANGED <<client, calls>>)
<1>1. stack # <<>> /\ Top.op = "connect" /\ Top.pc = "wait"
  BY DEF Waiting, At
<1>2. toClient # <<>> => Head(toClient).type = "CONNACK"
  BY DEF IInv, ResultInv, ConnectWaits
<1>3. \A op : ~AppCalls(op) /\ ~SdkCalls(op) /\ ~Calls(op)
  BY <1>1 DEF AppCalls, SdkCalls, Calls, InMessageCallback, InDisconnectHandler, At
<1>4. ~CallNext
  BY <1>3, Zenon DEF CallNext, Rejected, SetAutoReconnect, ConnectFails, ConnectSent,
     ConnectUnsent, Disconnect, Subscribe, Unsubscribe, Publish, RequestRefused, Resubscribe,
     Yield, AttemptReconnect
<1>5. CASE WaitNext
  <2>1. ~ReadOther /\ ~ReadPublish
    BY <1>1, <1>2 DEF ReadOther, ReadPublish, Incoming, WaitingFor, Expected, Cycling, At
  <2> QED
    BY <1>1, <1>5, <2>1 DEF WaitNext, Subscribed, Unsubscribed, Published, ResubscribeSend,
       ResubscribeNext, ResubscribeEnds, RequestTimesOut, Waiting, At
<1>6. ~DeliverNext
  BY <1>1 DEF DeliverNext, CallHandler, HandlerReturns, Delivered, Acknowledge,
     InMessageCallback, At
<1>7. ~YieldNext
  BY <1>1 DEF YieldNext, YieldExpires, YieldLoops, YieldReadsNothing, YieldFails,
     YieldDelivered, KeepAliveNotDue, KeepAlivePing, ConnectionLost,
     DisconnectHandlerReturns, InDisconnectHandler, Cycling, At
<1>8. ~ReconnectNext
  BY <1>1 DEF ReconnectNext, ReconnectTimedOut, ReconnectDelayed, ReconnectDue,
     ReconnectAttempted, ReconnectConnected, ReconnectResubscribed, ReconnectPending, At
<1> QED
  BY <1>4, <1>5, <1>6, <1>7, <1>8 DEF Next, ExternalNext, BrokerConnects, BrokerHandles,
     BrokerPublishes, LinkBreaks

(* While the disconnect handler runs, its calls are refused.                   *)
LEMMA HandlerRefused ==
  ASSUME HandlerStays, IInv, OrphanInv, At("yield", "handler")
  PROVE  /\ ~IsConnected /\ clientState \notin {"IDLE", "PENDING_RECONNECT"}
         /\ \A op \in CallOps : ~Calls(op)
<1>1. Len(stack) \in 1 .. Len(stack) /\ Top = stack[Len(stack)]
  BY BelowSeq DEF IInv, TypeOK, At, Top
<1>2. clientState \in {"DISCONNECTED_MANUALLY", "DISCONNECTED_ERROR"}
  BY <1>1 DEF OrphanInv, HandlerOnTop, At
<1>3. ~IsConnected /\ clientState \notin {"IDLE", "PENDING_RECONNECT"}
  BY <1>2 DEF IsConnected, ConnectedStates, Busy
<1>4. ASSUME NEW op \in CallOps, Calls(op) PROVE FALSE
  <2>1. op \in HandlerOps
    BY <1>4 DEF Calls, AppCalls, SdkCalls, InMessageCallback, At
  <2>2. op \notin {"connect", "reconnect"}
    BY <2>1 DEF HandlerStays
  <2>3. op # "yield"
    BY <1>3, <1>4, AdmittedYield DEF Calls
  <2>4. op \notin {"publish", "subscribe", "unsubscribe", "resubscribe", "disconnect"}
    BY <1>3, <1>4, AdmittedConnected DEF Calls
  <2> QED
    BY <2>2, <2>3, <2>4 DEF CallOps, FrameOps
<1> QED
  BY <1>3, <1>4

(* A message is read by a connected client only.                               *)
LEMMA ReadsConnected ==
  ASSUME IInv, OrphanInv, ReadPublish
  PROVE  IsConnected
<1>1. toClient # <<>> /\ Head(toClient).type = "PUBLISH"
  BY DEF ReadPublish, Incoming
<1>2. ssock = "open"
  BY <1>1 DEF IInv, SocketInv, SocketCarries
<1>3. ~Waiting("connect")
  BY <1>1 DEF IInv, ResultInv, ConnectWaits
<1> QED
  BY <1>2, <1>3 DEF OrphanInv, SocketOwned

(* A connected client becomes another only by closing its connection.          *)
LEMMA StaysConnected ==
  ASSUME HandlerStays, IInv, OrphanInv, Next, IsConnected, ssock' = "open"
  PROVE  IsConnected'
<1> DEFINE C(state) == state \in ConnectedStates
<1> USE DEF IsConnected
<1>1. C(clientState)
  OBVIOUS
<1>2. C("IDLE") /\ \A op : Holds(op) \in Busy \cup {"CONNECTING"}
  BY DEF ConnectedStates, Busy, Holds
<1>3. ASSUME stack # <<>>, Top.op \in Restoring, NEW rc, Finish(rc) PROVE C(clientState')
  <2>1. Len(stack) \in 1 .. Len(stack) /\ Top = stack[Len(stack)]
    BY <1>3, BelowSeq DEF IInv, TypeOK, Top
  <2>2. C(Top.saved)
    BY <1>3, <2>1 DEF OrphanInv, SavedConnected
  <2> QED
    BY <1>1, <1>3, <2>2 DEF Finish, SetClientState
<1>4. CASE UNCHANGED clientState
  BY <1>1, <1>4
<1>5. ssock # "null" => ~Destroy
  BY DEF Destroy
<1>6. CASE CallNext
  <2>1. ~Calls("connect")
    BY AdmittedConnect DEF Calls
  <2>2. CASE Disconnect
    BY <1>4, <1>5, <2>2 DEF Disconnect
  <2>3. CASE \E topic \in Topics : Subscribe(topic) \/ Unsubscribe(topic)
    BY <1>4, <2>3 DEF Subscribe, Unsubscribe, RequestRefused, client, Holds, ConnectedStates, Busy
  <2>4. CASE \E qos \in {0, 1} : Publish(qos)
    BY <1>4, <2>4 DEF Publish, RequestRefused, client, Holds, ConnectedStates, Busy
  <2>5. CASE Resubscribe \/ Yield
    BY <1>4, <2>5 DEF Resubscribe, Yield, Holds, ConnectedStates, Busy
  <2> QED
    BY <1>4, <1>6, <2>1, <2>2, <2>3, <2>4, <2>5, Zenon DEF CallNext, Rejected, client,
       SetAutoReconnect, ConnectFails, ConnectSent, ConnectUnsent, AttemptReconnect
<1>7. CASE WaitNext
  <2>1. CASE ConnectAccepted \/ ConnectAbandoned
    <3>1. clientState = "CONNECTING"
      BY <2>1 DEF ConnectAccepted, ConnectAbandoned, IInv, ResultInv, ConnectWaits
    <3> QED
      BY <3>1 DEF ConnectedStates, Busy
  <2>2. CASE Subscribed \/ Unsubscribed \/ Published \/ ResubscribeEnds \/ RequestTimesOut
    <3>1. stack # <<>> /\ \E rc : Finish(rc)
      BY <2>2, Zenon DEF Subscribed, Unsubscribed, Published, ResubscribeEnds, RequestTimesOut,
         Waiting, At
    <3>2. Top.op \in Restoring
      <4>1. CASE RequestTimesOut
        <5>1. Len(stack) \in 1 .. Len(stack)
          BY <3>1, BelowSeq DEF IInv, TypeOK
        <5> QED
          BY <4>1, <5>1 DEF RequestTimesOut, IInv, StackInv, WaitsForAck, Top
      <4> QED
        BY <2>2, <4>1 DEF Subscribed, Unsubscribed, Published, ResubscribeEnds, Waiting, At,
           Restoring
    <3> QED
      BY <1>3, <3>1, <3>2
  <2>3. CASE ReadPublish
    BY <2>3 DEF ReadPublish, Holds, ConnectedStates, Busy
  <2> QED
    BY <1>4, <1>7, <2>1, <2>2, <2>3, Zenon DEF WaitNext, ResubscribeSend, ResubscribeNext,
       ReadOther, client
<1>8. CASE DeliverNext
  <2>1. CASE Delivered \/ Acknowledge
    <3>1. stack # <<>> /\ Top.op = "deliver" /\ \E rc : Finish(rc)
      BY <2>1, Zenon DEF Delivered, Acknowledge, At
    <3> QED
      BY <1>3, <3>1 DEF Restoring
  <2> QED
    BY <1>4, <1>8, <2>1, Zenon DEF DeliverNext, CallHandler, HandlerReturns, client
<1>9. ASSUME NEW rc, YieldReturns(rc) PROVE C(clientState')
  BY <1>1, <1>2, <1>9 DEF YieldReturns, SetClientState
<1>10. CASE YieldNext
  <2>1. CASE ConnectionLost
    BY <1>5, <2>1 DEF ConnectionLost, IInv, SocketInv, ConnectedHasSocket
  <2>2. ~DisconnectHandlerReturns
    BY HandlerRefused DEF DisconnectHandlerReturns, InDisconnectHandler
  <2> QED
    BY <1>4, <1>9, <1>10, <2>1, <2>2, Zenon DEF YieldNext, YieldExpires, YieldLoops,
       YieldReadsNothing, YieldFails, YieldDelivered, KeepAliveNotDue, KeepAlivePing, client
<1>11. CASE ReconnectNext
  <2>1. CASE ReconnectAttempted
    BY <1>4, <2>1 DEF ReconnectAttempted, SetClientState, Holds, ConnectedStates, Busy
  <2>2. CASE ReconnectConnected
    BY <1>4, <2>2 DEF ReconnectConnected, SetClientState, ConnectedStates, Busy
  <2> QED
    BY <1>4, <1>9, <1>11, <2>1, <2>2, Zenon DEF ReconnectNext, ReconnectTimedOut, ReconnectDelayed,
       ReconnectDue, ReconnectResubscribed, client
<1>12. CASE ExternalNext
  BY <1>4, <1>12 DEF ExternalNext, BrokerConnects, BrokerHandles, BrokerPublishes, LinkBreaks,
     client
<1> QED
  BY <1>6, <1>7, <1>8, <1>10, <1>11, <1>12 DEF Next

LEMMA SentWaits ==
  ASSUME IInv, ConnectSent
  PROVE  Waiting("connect")'
<1> DEFINE o == Orphaned(stack)
           f == Frame("connect", "wait")
<1>1. stack' = Append(o, f)
  BY DEF ConnectSent
<1>2. o \in Seq(Frames) /\ f.op = "connect" /\ f.pc = "wait"
  BY OrphanedSeq DEF IInv, TypeOK, Frame
<1> HIDE DEF o, f
<1>3. stack' # <<>> /\ stack'[Len(stack')] = f
  BY <1>1, <1>2
<1> QED
  BY <1>2, <1>3 DEF Waiting, At, Top

(* The connection is opened by a connect, which then waits.                    *)
LEMMA OpensWaiting ==
  ASSUME IInv, Next, ssock # "open", ssock' = "open"
  PROVE  Waiting("connect")'
<1>1. ConnectSent
  <2>1. ~UNCHANGED ssock /\ ~UNCHANGED client /\ ~Destroy
    BY DEF client, Destroy
  <2>2. ~ConnectFails /\ ~ConnectUnsent
    BY DEF ConnectFails, ConnectUnsent
  <2>3. CallNext
    BY <2>1, Zenon DEF Next, WaitNext, DeliverNext, YieldNext, ReconnectNext, ExternalNext,
       ConnectAccepted, ConnectAbandoned, Subscribed, Unsubscribed, Published, ResubscribeSend,
       ResubscribeNext, ResubscribeEnds, RequestTimesOut, ReadOther, ReadPublish, CallHandler,
       HandlerReturns, Delivered, Acknowledge, YieldExpires, YieldLoops, YieldReadsNothing,
       YieldFails, YieldDelivered, KeepAliveNotDue, KeepAlivePing, ConnectionLost,
       DisconnectHandlerReturns, ReconnectTimedOut, ReconnectDelayed, ReconnectDue,
       ReconnectAttempted, ReconnectConnected, ReconnectResubscribed, BrokerConnects,
       BrokerHandles, BrokerPublishes, LinkBreaks
  <2> QED
    BY <2>1, <2>2, <2>3, Zenon DEF CallNext, Rejected, SetAutoReconnect, Disconnect, Subscribe,
       Unsubscribe, Publish, RequestRefused, Resubscribe, Yield, AttemptReconnect
<1> QED
  BY <1>1, SentWaits

LEMMA SocketOwnedStep ==
  ASSUME HandlerStays, IInv, OrphanInv, Next
  PROVE  SocketOwned'
<1> SUFFICES ASSUME ssock' = "open" PROVE (IsConnected \/ Waiting("connect"))'
  BY DEF SocketOwned
<1>1. CASE ssock # "open"
  BY <1>1, OpensWaiting
<1>2. CASE IsConnected
  BY <1>2, StaysConnected
<1>3. CASE Waiting("connect")
  <2>1. CASE ConnectAccepted
    <3>1. clientState = "CONNECTING"
      BY <1>3 DEF IInv, ResultInv, ConnectWaits
    <3> QED
      BY <2>1, <3>1 DEF ConnectAccepted, SetClientState, IsConnected, ConnectedStates
  <2>2. CASE ConnectAbandoned
    BY <1>3, <2>2 DEF ConnectAbandoned, Destroy, IInv, ResultInv, ConnectWaits
  <2>3. CASE UNCHANGED <<client, calls>>
    BY <1>3, <2>3 DEF Waiting, At, Top, calls
  <2> QED
    BY <1>3, <2>1, <2>2, <2>3, ConnectWaitsOn
<1> QED
  BY <1>1, <1>2, <1>3 DEF OrphanInv, SocketOwned

LEMMA SavedConnectedStep ==
  ASSUME HandlerStays, IInv, OrphanInv, Next
  PROVE  SavedConnected'
<1> DEFINE n == Len(stack)
<1>1. n \in Nat
  BY DEF IInv, TypeOK
<1>2. SavedConnected
  BY DEF OrphanInv
<1>3. CASE Stays
  BY <1>2, <1>3 DEF SavedConnected, Stays, SameCall, SamePlace
<1>4. CASE Leaves
  BY <1>1, <1>2, <1>4 DEF SavedConnected, Leaves, SameCall, SamePlace
<1>5. CASE \E op \in CallOps \ {"disconnect"} : Enters(op) /\ Calls(op)
  <2>1. PICK op \in CallOps \ {"disconnect"} : Enters(op) /\ Calls(op)
    BY <1>5
  <2>2. op \in Restoring => clientState \in ConnectedStates
    <3>1. op \in Restoring => op \in {"publish", "subscribe", "unsubscribe", "resubscribe"}
      BY <2>1 DEF Restoring, CallOps
    <3> QED
      BY <2>1, <3>1, AdmittedConnected DEF Calls, IsConnected
  <2> QED
    BY <1>1, <1>2, <2>1, <2>2 DEF SavedConnected, Enters, SameCall, SamePlace
<1>6. CASE Enters("deliver") /\ ReadPublish
  BY <1>1, <1>2, <1>6, ReadsConnected DEF SavedConnected, Enters, SameCall, SamePlace, IsConnected
<1> QED
  BY <1>3, <1>4, <1>5, <1>6, Moves DEF IInv

(* What may happen while the disconnect handler runs.                          *)
LEMMA HandlerRuns ==
  ASSUME HandlerStays, IInv, OrphanInv, Next, At("yield", "handler")
  PROVE  UNCHANGED <<clientState, stack>> \/ DisconnectHandlerReturns
<1>1. stack # <<>> /\ Top.op = "yield" /\ Top.pc = "handler"
  BY DEF At
<1>2. CASE CallNext
  <2>1. \A op \in CallOps : ~Calls(op)
    BY HandlerRefused
  <2>2. /\ ~Calls("connect") /\ ~Calls("disconnect") /\ ~Calls("subscribe") /\ ~Calls("publish")
        /\ ~Calls("unsubscribe") /\ ~Calls("resubscribe") /\ ~Calls("yield")
        /\ ~Calls("reconnect")
    BY <2>1 DEF CallOps, FrameOps
  <2> QED
    BY <1>2, <2>2, Zenon DEF CallNext, Rejected, SetAutoReconnect, ConnectFails, ConnectSent,
       ConnectUnsent, Disconnect, Subscribe, Unsubscribe, Publish, RequestRefused, Resubscribe,
       Yield, AttemptReconnect, Answer, client
<1>3. ~WaitNext
  BY <1>1 DEF WaitNext, ConnectAccepted, ConnectAbandoned, Subscribed, Unsubscribed, Published,
     ResubscribeSend, ResubscribeNext, ResubscribeEnds, RequestTimesOut, ReadOther,
     ReadPublish, Waiting, Cycling, At
<1>4. ~DeliverNext
  BY <1>1 DEF DeliverNext, CallHandler, HandlerReturns, Delivered, Acknowledge,
     InMessageCallback, At
<1>5. CASE YieldNext
  BY <1>1, <1>5 DEF YieldNext, YieldExpires, YieldLoops, YieldReadsNothing, YieldFails,
     YieldDelivered, KeepAliveNotDue, KeepAlivePing, ConnectionLost, Cycling, At
<1>6. ~ReconnectNext
  BY <1>1 DEF ReconnectNext, ReconnectTimedOut, ReconnectDelayed, ReconnectDue,
     ReconnectAttempted, ReconnectConnected, ReconnectResubscribed, ReconnectPending, At
<1>7. CASE ExternalNext
  BY <1>7 DEF ExternalNext, BrokerConnects, BrokerHandles, BrokerPublishes, LinkBreaks,
     client, calls
<1> QED
  BY <1>2, <1>3, <1>4, <1>5, <1>6, <1>7 DEF Next

(* Only a lost connection takes yield to the disconnect handler.               *)
LEMMA ToHandler ==
  ASSUME IInv, Next, stack # <<>>, Top.op = "yield", Top.pc # "handler",
         At("yield", "handler")', Len(stack') = Len(stack)
  PROVE  ConnectionLost
<1>1. Len(stack) \in 1 .. Len(stack) /\ Top = stack[Len(stack)] /\ Top \in Frames
  BY BelowSeq DEF IInv, TypeOK, Top
<1>2. stack'[Len(stack)].pc = "handler" /\ ~UNCHANGED stack
  BY <1>1 DEF At, Top
<1>3. ASSUME NEW pc, Goto(pc) PROVE pc = "handler"
  <2> DEFINE f == [Top EXCEPT !.pc = pc]
  <2>1. f.pc = pc /\ stack' = WithTop(f)
    BY <1>1, <1>3 DEF Goto, Frames
  <2> HIDE DEF f
  <2>2. stack'[Len(stack)] = f
    BY <1>1, <2>1 DEF WithTop, IInv, TypeOK
  <2> QED
    BY <1>2, <2>1, <2>2
<1>4. stack' # Below
  BY <1>1, BelowSeq DEF IInv, TypeOK
<1>5. CASE CallNext
  <2>1. CASE stack' = Orphaned(stack)
    <3>1. \A i \in 1 .. Len(stack) : stack'[i] = [stack[i] EXCEPT !.live = FALSE]
      BY <2>1, OrphanedSeq DEF IInv, TypeOK
    <3>2. stack'[Len(stack)].pc = stack[Len(stack)].pc
      BY <1>1, <3>1 DEF Frames
    <3> QED
      BY <1>1, <1>2, <3>2
  <2>2. stack \in Seq(Frames) /\ Orphaned(stack) \in Seq(Frames)
        /\ Len(Orphaned(stack)) = Len(stack)
    BY OrphanedSeq DEF IInv, TypeOK
  <2>3. \A f : stack' # Append(stack, f) /\ stack' # Append(Orphaned(stack), f)
    BY <2>2
  <2> QED
    BY <1>2, <1>5, <2>1, <2>3, Zenon DEF CallNext, Rejected, SetAutoReconnect, ConnectFails,
       ConnectSent, ConnectUnsent, Disconnect, Subscribe, Unsubscribe, Publish, RequestRefused,
       Resubscribe, Yield, AttemptReconnect, Answer, Push
<1>6. CASE WaitNext
  <2>1. Top.pc # "wait"
    BY <1>1 DEF IInv, StackInv, WaitsForAck, Restoring
  <2>2. CASE ReadOther
    BY <1>2, <1>3, <2>2 DEF ReadOther
  <2>3. CASE ReadPublish
    <3>1. PICK f, g : stack' = Append(WithTop(f), g)
      BY <2>3, Zenon DEF ReadPublish
    <3> DEFINE s == WithTop(f)
    <3>2. Len(s) = Len(stack) /\ stack' = Append(s, g)
      BY <1>1, <3>1 DEF WithTop, IInv, TypeOK
    <3> HIDE DEF s
    <3>3. Len(stack') = Len(stack) + 1
      BY <1>1, <3>2
    <3> QED
      BY <1>1, <3>3
  <2> QED
    BY <1>6, <2>1, <2>2, <2>3 DEF WaitNext, ConnectAccepted, ConnectAbandoned, Subscribed,
       Unsubscribed, Published, ResubscribeSend, ResubscribeNext, ResubscribeEnds,
       RequestTimesOut, Waiting, At
<1>7. ~DeliverNext
  BY DEF DeliverNext, CallHandler, HandlerReturns, Delivered, Acknowledge,
     InMessageCallback, At
<1>8. CASE YieldNext
  BY <1>3, <1>4, <1>8, Zenon DEF YieldNext, YieldExpires, YieldLoops, YieldReadsNothing,
     YieldFails, YieldDelivered, KeepAliveNotDue, KeepAlivePing, DisconnectHandlerReturns,
     YieldReturns, Return
<1>9. CASE ReconnectNext
  <2>1. CASE ReconnectAttempted
    <3>1. CASE \E live : stack' = WithTop([Top EXCEPT !.pc = "check", !.live = live])
      <4>1. PICK live : stack' = WithTop([Top EXCEPT !.pc = "check", !.live = live])
        BY <3>1
      <4> DEFINE f == [Top EXCEPT !.pc = "check", !.live = live]
      <4>2. f.pc = "check" /\ stack' = WithTop(f)
        BY <1>1, <4>1 DEF Frames
      <4> HIDE DEF f
      <4>3. stack'[Len(stack)] = f
        BY <1>1, <4>2 DEF WithTop, IInv, TypeOK
      <4> QED
        BY <1>2, <4>2, <4>3
    <3>2. CASE Goto("check")
      BY <1>3, <3>2
    <3> QED
      BY <2>1, <3>1, <3>2, Zenon DEF ReconnectAttempted, BackOff
  <2>2. ~ReconnectConnected /\ ~ReconnectResubscribed
    BY DEF ReconnectConnected, ReconnectResubscribed, At
  <2>3. ~Goto("check") /\ ~Goto("reconnect")
    BY <1>3
  <2> QED
    BY <1>4, <1>9, <2>1, <2>2, <2>3, Zenon DEF ReconnectNext, ReconnectTimedOut,
       ReconnectDelayed, ReconnectDue, BackOff, YieldReturns, Return
<1>10. ~ExternalNext
  BY <1>2 DEF ExternalNext, BrokerConnects, BrokerHandles, BrokerPublishes, LinkBreaks, calls
<1> QED
  BY <1>5, <1>6, <1>7, <1>8, <1>9, <1>10 DEF Next

LEMMA HandlerOnTopStep ==
  ASSUME HandlerStays, IInv, OrphanInv, Next
  PROVE  HandlerOnTop'
<1> DEFINE n == Len(stack)
           Closed == clientState' \in {"DISCONNECTED_MANUALLY", "DISCONNECTED_ERROR"}
<1> SUFFICES ASSUME NEW i \in 1 .. Len(stack'), stack'[i].op = "yield",
                    stack'[i].pc = "handler"
             PROVE  i = Len(stack') /\ Closed
  BY DEF HandlerOnTop
<1>1. n \in Nat /\ (stack # <<>> => n # 0 /\ Top = stack[n]) /\ stack' \in Seq(Frames)
  <2>1. TypeOK'
    BY TypeStep DEF IInv
  <2> QED
    BY <2>1, BelowSeq DEF IInv, TypeOK, Top
<1>2. HandlerOnTop
  BY DEF OrphanInv
\* It was there already, or the connection is lost by this step.
<1>3. CASE i \in 1 .. n /\ stack[i].op = "yield" /\ stack[i].pc = "handler"
  <2>1. i = n /\ clientState \in {"DISCONNECTED_MANUALLY", "DISCONNECTED_ERROR"}
    BY <1>2, <1>3 DEF HandlerOnTop
  <2>2. At("yield", "handler")
    BY <1>1, <1>3, <2>1 DEF At
  <2>3. CASE UNCHANGED <<clientState, stack>>
    BY <2>1, <2>3
  <2>4. CASE DisconnectHandlerReturns
    <3>1. CASE stack' = Below
      BY <1>1, <1>3, <2>1, <3>1, BelowSeq DEF IInv, TypeOK
    <3>2. CASE Goto("check")
      <4>1. stack'[n].pc = "check"
        <5>1. "check" \in Places /\ Top \in Frames
          BY <1>1, <1>3, BelowSeq DEF Places, IInv, TypeOK
        <5>2. stack'[n] = [Top EXCEPT !.pc = "check"]
          BY <1>1, <1>3, <3>2, <5>1, GotoSeq DEF IInv, TypeOK
        <5> QED
          BY <5>1, <5>2 DEF Frames
      <4> QED
        BY <2>1, <4>1
    <3> QED
      BY <2>4, <3>1, <3>2, Zenon DEF DisconnectHandlerReturns, Return
  <2> QED
    BY <2>2, <2>3, <2>4, HandlerRuns
<1>4. CASE ~(i \in 1 .. n /\ stack[i].op = "yield" /\ stack[i].pc = "handler")
  <2>1. Stays /\ i = n
    <3>1. CASE Stays
      BY <1>1, <1>4, <3>1 DEF Stays, SameCall, SamePlace
    <3>2. CASE Leaves
      BY <1>1, <1>4, <3>2 DEF Leaves, SameCall, SamePlace
    <3>3. ASSUME NEW op, Enters(op) PROVE FALSE
      BY <1>1, <1>4, <3>3 DEF Enters, SameCall, SamePlace
    <3> QED
      BY <3>1, <3>2, <3>3, Moves DEF IInv
  <2>2. /\ stack # <<>> /\ Top.op = "yield" /\ Top.pc # "handler" /\ Len(stack') = Len(stack)
        /\ At("yield", "handler")'
    BY <1>1, <1>4, <2>1 DEF Stays, SameCall, SamePlace, At, Top
  <2>3. ConnectionLost
    BY <2>2, ToHandler
  <2> QED
    BY <2>1, <2>2, <2>3 DEF ConnectionLost
<1> QED
  BY <1>3, <1>4

LEMMA OrphanInvariance == ASSUME HandlerStays PROVE Spec => []OrphanInv
<1>1. Init => OrphanInv
  BY DEF Init, OrphanInv, SocketOwned, HandlerOnTop, SavedConnected
<1>2. IInv /\ OrphanInv /\ [Next]_vars => OrphanInv'
  <2> SUFFICES ASSUME IInv, OrphanInv, [Next]_vars PROVE OrphanInv'
    OBVIOUS
  <2>1. CASE Next
    BY <2>1, SocketOwnedStep, HandlerOnTopStep, SavedConnectedStep DEF OrphanInv
  <2>2. CASE UNCHANGED vars
    BY <2>2 DEF vars, client, calls, OrphanInv, SocketOwned, HandlerOnTop, SavedConnected,
       IsConnected, Waiting, At, Top
  <2> QED
    BY <2>1, <2>2
<1> QED
  BY <1>1, <1>2, Invariance, PTL DEF Spec

(* connect is never called over an open TLS connection: whenever the state      *)
(* admits it, the last connection was closed, by whichever of disconnect, a     *)
(* read error, an unanswered ping or a refused CONNACK ended it.  A disconnect  *)
(* handler that connects breaks this, since the state is overwritten when it    *)
(* returns (yield.c:65-71).                                                     *)
THEOREM NoSessionIsOrphaned == ASSUME HandlerStays PROVE Spec => []NoOrphanSession
<1>1. IInv /\ OrphanInv => NoOrphanSession
  <2> SUFFICES ASSUME IInv, OrphanInv, clientState \in ConnectValid, ssock = "open" PROVE FALSE
    BY DEF NoOrphanSession
  <2>1. ~IsConnected /\ clientState # "CONNECTING"
    BY DEF ConnectValid, IsConnected, ConnectedStates, Busy
  <2>2. Waiting("connect")
    BY <2>1 DEF OrphanInv, SocketOwned
  <2> QED
    BY <2>1, <2>2 DEF IInv, ResultInv, ConnectWaits
<1> QED
  BY <1>1, OrphanInvariance, Invariance, PTL

----------------------------------------------------------------------------
(* A ping is tracked *)

Carries(packets, type) == \E i \in 1 .. Len(packets) : packets[i].type = type

LEMMA CarriesAppend ==
  ASSUME NEW s \in Seq(Packets), NEW p, NEW type
  PROVE  Carries(Append(s, p), type) <=> Carries(s, type) \/ p.type = type
<1>1. /\ Len(s) \in Nat /\ Len(Append(s, p)) = Len(s) + 1 /\ Append(s, p)[Len(s) + 1] = p
      /\ \A i \in 1 .. Len(s) : Append(s, p)[i] = s[i]
  OBVIOUS
<1> QED
  BY <1>1 DEF Carries

LEMMA CarriesTail ==
  ASSUME NEW s \in Seq(Packets), s # <<>>, NEW type
  PROVE  Carries(s, type) <=> Carries(Tail(s), type) \/ Head(s).type = type
<1>1. /\ Len(s) \in Nat \ {0} /\ Len(Tail(s)) = Len(s) - 1 /\ Head(s) = s[1]
      /\ \A i \in 1 .. Len(s) - 1 : Tail(s)[i] = s[i + 1]
  OBVIOUS
<1>2. \A i \in 1 .. Len(s) : i # 1 => i - 1 \in 1 .. Len(s) - 1 /\ s[i] = Tail(s)[i - 1]
  BY <1>1
<1> QED
  BY <1>1, <1>2 DEF Carries

(* Which function sends a packet.                                              *)
Sendable(p) ==
  /\ p.type # "CONNECT"
  /\ p.type = "SUBSCRIBE" => Calls("subscribe") \/ ResubscribeSend
  /\ p.type = "UNSUBSCRIBE" => Calls("unsubscribe")

(* What a step does to the packets under way.                                  *)
LEMMA PacketsMove ==
  ASSUME Next
  PROVE  \/ UNCHANGED external
         \/ \E p : Send(p) /\ Sendable(p)
         \/ /\ toClient # <<>> /\ Read
            /\ Head(toClient).type = "PINGRESP" => isPingOutstanding' = FALSE
         \/ ~brokerUp' /\ ~link' /\ toBroker' = <<>> /\ toClient' = <<>>
         \/ ConnectSent \/ ExternalNext
<1> DEFINE Closed == ~brokerUp' /\ ~link' /\ toBroker' = <<>> /\ toClient' = <<>>
           Sends == \E p : Send(p) /\ Sendable(p)
           Answered == Head(toClient).type = "PINGRESP" => isPingOutstanding' = FALSE
           Reads == toClient # <<>> /\ Read /\ Answered
           Goal == UNCHANGED external \/ Sends \/ Reads \/ Closed \/ ConnectSent \/ ExternalNext
<1> SUFFICES Goal
  OBVIOUS
<1>1. Destroy => UNCHANGED external \/ Closed
  BY DEF Destroy
<1>2. \A p : Send(p) /\ Sendable(p) => Sends
  OBVIOUS
<1>3. \A topic, arg :
        /\ Calls("subscribe") \/ ResubscribeSend => Sendable(Packet("SUBSCRIBE", topic, arg))
        /\ Calls("unsubscribe") => Sendable(Packet("UNSUBSCRIBE", topic, arg))
        /\ Sendable(Packet("PUBLISH", topic, arg))
        /\ Sendable(Plain("PINGREQ")) /\ Sendable(Plain("PUBACK"))
  BY DEF Packet, Plain, Sendable
<1>4. CASE CallNext
  <2>1. CASE ConnectFails \/ ConnectUnsent
    BY <2>1 DEF ConnectFails, ConnectUnsent
  <2>2. CASE Disconnect
    BY <1>1, <2>2, Zenon DEF Disconnect
  <2>3. CASE \E topic \in Topics : Subscribe(topic) \/ Unsubscribe(topic)
    BY <1>2, <1>3, <2>3, Zenon DEF Subscribe, Unsubscribe, RequestRefused
  <2>4. CASE \E qos \in {0, 1} : Publish(qos)
    BY <1>2, <1>3, <2>4, Zenon DEF Publish, RequestRefused
  <2> QED
    BY <1>4, <2>1, <2>2, <2>3, <2>4, Zenon DEF CallNext, Rejected, SetAutoReconnect,
       Resubscribe, Yield, AttemptReconnect
<1>5. CASE WaitNext
  <2>1. CASE ConnectAbandoned
    BY <1>1, <2>1, Zenon DEF ConnectAbandoned
  <2>2. CASE ResubscribeSend
    BY <1>2, <1>3, <2>2, Zenon DEF ResubscribeSend
  <2>3. CASE \/ ConnectAccepted \/ Subscribed \/ Unsubscribed \/ Published \/ ResubscribeNext
             \/ ReadOther \/ ReadPublish
    <3>1. toClient # <<>> /\ Read
      BY <2>3, Zenon DEF ConnectAccepted, Subscribed, Unsubscribed, Published, ResubscribeNext,
         ReadOther, ReadPublish, Incoming
    <3>2. Answered
      BY <2>3 DEF ConnectAccepted, Subscribed, Unsubscribed, Published, ResubscribeNext,
         ReadOther, ReadPublish, Incoming
    <3> QED
      BY <3>1, <3>2
  <2> QED
    BY <1>5, <2>1, <2>2, <2>3, Zenon DEF WaitNext, ResubscribeEnds, RequestTimesOut
<1>6. CASE DeliverNext
  BY <1>2, <1>3, <1>6, Zenon DEF DeliverNext, CallHandler, HandlerReturns, Delivered, Acknowledge
<1>7. CASE YieldNext
  BY <1>1, <1>2, <1>3, <1>7, Zenon DEF YieldNext, YieldExpires, YieldLoops, YieldReadsNothing,
     YieldFails, YieldDelivered, KeepAliveNotDue, KeepAlivePing, ConnectionLost,
     DisconnectHandlerReturns
<1>8. CASE ReconnectNext
  BY <1>8, Zenon DEF ReconnectNext, ReconnectTimedOut, ReconnectDelayed, ReconnectDue,
     ReconnectAttempted, ReconnectConnected, ReconnectResubscribed
<1> QED
  BY <1>4, <1>5, <1>6, <1>7, <1>8 DEF Next

(* The flag is set when the ping is sent.                                      *)
LEMMA PingMarked ==
  ASSUME Next, ~isPingOutstanding, isPingOutstanding'
  PROVE  KeepAlivePing
<1>1. ~UNCHANGED isPingOutstanding /\ ~UNCHANGED client
  BY DEF client
<1>2. CASE WaitNext
  BY <1>1, <1>2 DEF WaitNext, ConnectAccepted, ConnectAbandoned, Subscribed, Unsubscribed,
     Published, ResubscribeSend, ResubscribeNext, ResubscribeEnds, RequestTimesOut,
     ReadOther, ReadPublish
<1> QED
  BY <1>1, <1>2, Zenon DEF Next, CallNext, DeliverNext, YieldNext, ReconnectNext, ExternalNext,
     Rejected, SetAutoReconnect, ConnectFails, ConnectSent, ConnectUnsent, Disconnect, Subscribe,
     Unsubscribe, Publish, RequestRefused, Resubscribe, Yield, AttemptReconnect, CallHandler,
     HandlerReturns, Delivered, Acknowledge, YieldExpires, YieldLoops, YieldReadsNothing,
     YieldFails, YieldDelivered, KeepAliveNotDue, ConnectionLost, DisconnectHandlerReturns,
     ReconnectTimedOut, ReconnectDelayed, ReconnectDue, ReconnectAttempted,
     ReconnectConnected, ReconnectResubscribed, BrokerConnects, BrokerHandles,
     BrokerPublishes, LinkBreaks

LEMMA ConnectAloneStep ==
  ASSUME IInv, ConnectAlone, Next
  PROVE  ConnectAlone'
<1>1. toBroker \in Seq(Packets) /\ toClient \in Seq(Packets)
  BY DEF IInv, TypeOK, ExternalTypes
<1>2. Carries(toBroker, "CONNECT") =>
        Waiting("connect") /\ ~brokerUp /\ Len(toBroker) = 1 /\ toClient = <<>>
  BY DEF ConnectAlone, Carries
<1> SUFFICES ASSUME Carries(toBroker', "CONNECT")
             PROVE  Waiting("connect")' /\ ~brokerUp' /\ Len(toBroker') = 1 /\ toClient' = <<>>
  BY DEF ConnectAlone, Carries
<1>3. CASE ConnectSent
  <2>1. ~brokerUp' /\ toBroker' = <<Plain("CONNECT")>> /\ toClient' = <<>>
    BY <1>3 DEF ConnectSent
  <2> QED
    BY <1>3, <2>1, SentWaits
<1>4. CASE ~ConnectSent
  <2>1. Carries(toBroker, "CONNECT")
    <3>1. toBroker' # <<>>
      BY DEF Carries
    <3>2. CASE UNCHANGED toBroker
      BY <3>2
    <3>3. CASE \E p : Send(p) /\ Sendable(p)
      BY <1>1, <3>2, <3>3, CarriesAppend DEF Send, Sendable
    <3>4. CASE toBroker # <<>> /\ toBroker' = Tail(toBroker)
      BY <1>1, <3>4, CarriesTail
    <3>5. CASE ExternalNext
      BY <3>1, <3>2, <3>4, <3>5 DEF ExternalNext, BrokerConnects, BrokerHandles,
         BrokerPublishes, LinkBreaks
    <3> QED
      BY <1>4, <3>1, <3>2, <3>3, <3>5, PacketsMove DEF external, Read
  <2>2. Waiting("connect") /\ ~brokerUp /\ Len(toBroker) = 1 /\ toClient = <<>>
    BY <1>2, <2>1
  <2>3. ~ConnectAccepted
    BY <2>2 DEF ConnectAccepted, Incoming
  <2>4. ~ConnectAbandoned
    <3>1. ssock = "open"
      BY <2>2 DEF IInv, ResultInv, ConnectWaits
    <3> QED
      BY <3>1 DEF ConnectAbandoned, Destroy, Carries
  <2>5. ~ExternalNext
    <3>1. ~BrokerConnects
      <4> SUFFICES ASSUME toBroker' = Tail(toBroker) PROVE FALSE
        BY DEF BrokerConnects
      <4>1. Len(toBroker') = 0
        BY <1>1, <2>2
      <4> QED
        BY <4>1 DEF Carries
    <3> QED
      BY <2>2, <3>1 DEF ExternalNext, BrokerHandles, BrokerPublishes, LinkBreaks, Carries
  <2> QED
    BY <2>2, <2>3, <2>4, <2>5, ConnectWaitsOn
<1> QED
  BY <1>3, <1>4

LEMMA LinkUpStep ==
  ASSUME brokerUp => link, Next
  PROVE  (brokerUp => link)'
<1>1. CASE ExternalNext
  BY <1>1 DEF ExternalNext, BrokerConnects, BrokerHandles, BrokerPublishes, LinkBreaks
<1> QED
  BY <1>1, PacketsMove DEF external, Send, Read, ConnectSent

LEMMA PingKeptStep ==
  ASSUME IInv, PingInv, Next
  PROVE  PingKept'
<1> DEFINE Pings == Carries(toBroker, "PINGREQ") \/ Carries(toClient, "PINGRESP")
<1> SUFFICES ASSUME isPingOutstanding', brokerUp', ~Waiting("connect")' PROVE Pings'
  BY DEF PingKept, Carries
<1>1. toBroker \in Seq(Packets) /\ toClient \in Seq(Packets)
  BY DEF IInv, TypeOK, ExternalTypes
<1>2. ~Waiting("connect")
  <2> SUFFICES ASSUME Waiting("connect") PROVE FALSE
    OBVIOUS
  <2>1. ~ConnectAccepted
    BY DEF ConnectAccepted
  <2>2. ~ConnectAbandoned
    BY DEF ConnectAbandoned, Destroy, IInv, ResultInv, ConnectWaits
  <2>3. ~UNCHANGED calls
    BY DEF calls, Waiting, At, Top
  <2> QED
    BY <2>1, <2>2, <2>3, ConnectWaitsOn
<1>3. ~Carries(toBroker, "CONNECT")
  BY <1>2 DEF Carries, PingInv, ConnectAlone
<1>4. ~BrokerConnects
  BY <1>1, <1>3, CarriesTail DEF BrokerConnects
<1>5. ~ConnectSent
  BY SentWaits
<1>6. CASE ExternalNext
  <2>1. brokerUp /\ isPingOutstanding
    BY <1>4, <1>6 DEF ExternalNext, BrokerHandles, BrokerPublishes, LinkBreaks, client
  <2>2. Pings
    BY <1>2, <2>1 DEF PingInv, PingKept, Carries
  <2>3. CASE BrokerHandles
    <3>1. CASE Head(toBroker).type = "PINGREQ"
      <4>1. toClient' = Append(toClient, Plain("PINGRESP"))
        BY <2>3, <3>1 DEF BrokerHandles, ReplyTo
      <4>2. Plain("PINGRESP").type = "PINGRESP"
        BY DEF Plain, Packet
      <4> QED
        BY <1>1, <4>1, <4>2, CarriesAppend
    <3>2. CASE Head(toBroker).type # "PINGREQ"
      <4>1. Carries(toBroker, "PINGREQ") => Carries(toBroker', "PINGREQ")
        BY <1>1, <2>3, <3>2, CarriesTail DEF BrokerHandles
      <4>2. toClient' = toClient \/ \E p : toClient' = Append(toClient, p)
        BY <2>3 DEF BrokerHandles
      <4>3. Carries(toClient, "PINGRESP") => Carries(toClient', "PINGRESP")
        BY <1>1, <4>2, CarriesAppend
      <4> QED
        BY <2>2, <4>1, <4>3
    <3> QED
      BY <3>1, <3>2
  <2>4. CASE \E topic \in Topics, qos \in {0, 1} : BrokerPublishes(topic, qos)
    <3>1. UNCHANGED toBroker /\ \E p : toClient' = Append(toClient, p)
      BY <2>4, Zenon DEF BrokerPublishes
    <3> QED
      BY <1>1, <2>2, <3>1, CarriesAppend
  <2> QED
    BY <1>4, <1>6, <2>3, <2>4 DEF ExternalNext, LinkBreaks
<1>7. CASE ~ExternalNext
  <2>1. \/ UNCHANGED external
        \/ \E p : Send(p)
        \/ /\ toClient # <<>> /\ Read
           /\ Head(toClient).type # "PINGRESP"
    BY <1>5, <1>7, PacketsMove
  <2>2. brokerUp /\ link
    BY <2>1 DEF external, Send, Read, PingInv
  <2>3. CASE KeepAlivePing
    <3>1. toBroker' = Append(toBroker, Plain("PINGREQ"))
      BY <2>2, <2>3 DEF KeepAlivePing, Send
    <3>2. Plain("PINGREQ").type = "PINGREQ"
      BY DEF Plain, Packet
    <3> QED
      BY <1>1, <3>1, <3>2, CarriesAppend
  <2>4. CASE ~KeepAlivePing
    <3>1. isPingOutstanding
      BY <2>4, PingMarked
    <3>2. Pings
      BY <1>2, <2>2, <3>1 DEF PingInv, PingKept, Carries
    <3>3. Carries(toBroker, "PINGREQ") => Carries(toBroker', "PINGREQ")
      BY <1>1, <2>1, CarriesAppend DEF external, Send, Read
    <3>4. Carries(toClient, "PINGRESP") => Carries(toClient', "PINGRESP")
      BY <1>1, <2>1, CarriesTail DEF external, Send, Read
    <3> QED
      BY <3>2, <3>3, <3>4
  <2> QED
    BY <2>3, <2>4
<1> QED
  BY <1>6, <1>7

LEMMA PingInvariance == Spec => []PingInv
<1>1. Init => PingInv
  BY DEF Init, PingInv, PingKept, ConnectAlone
<1>2. IInv /\ PingInv /\ [Next]_vars => PingInv'
  <2> SUFFICES ASSUME IInv, PingInv, [Next]_vars PROVE PingInv'
    OBVIOUS
  <2>1. CASE Next
    BY <2>1, PingKeptStep, ConnectAloneStep, LinkUpStep DEF PingInv
  <2>2. CASE UNCHANGED vars
    BY <2>2 DEF vars, client, calls, external, PingInv, PingKept, ConnectAlone, Waiting, At, Top
  <2> QED
    BY <2>1, <2>2
<1> QED
  BY <1>1, <1>2, Invariance, PTL DEF Spec

(* An unanswered ping ends the session (yield.c:130-132), so the flag has to be  *)
(* about this session: while it is set on a live one, the PINGREQ or its answer  *)
(* is under way, whatever sessions callbacks and disconnect handler end or open. *)
THEOREM PingsAreTracked == Spec => []PingTracked
<1>1. IInv /\ PingInv => PingTracked
  <2>1. IInv /\ Waiting("connect") => ~IsConnected
    BY DEF IInv, ResultInv, ConnectWaits, IsConnected, ConnectedStates, Busy
  <2> QED
    BY <2>1 DEF PingInv, PingKept, PingTracked
<1> QED
  BY <1>1, PingInvariance, Invariance, PTL

----------------------------------------------------------------------------
(* A reconnect renews the subscriptions *)

(* Where the calls in progress are is what a step leaves alone, but for the     *)
(* loop of resubscribe and attempt_reconnect's own.                             *)
LEMMA Unmoved ==
  ASSUME TypeOK, Next, NEW i \in 1 .. Len(stack), i <= Len(stack'),
         stack[i].op \notin {"yield", "deliver"}
  PROVE  /\ SameCall(stack'[i], stack[i])
         /\ \/ SamePlace(stack'[i], stack[i])
            \/ i = Len(stack) /\ (ResubscribeSend \/ ResubscribeNext \/ ReconnectConnected)
<1>1. Len(stack) \in Nat
  BY DEF TypeOK
<1>2. CASE Stays
  BY <1>2 DEF Stays, GoesOn, Top
<1>3. CASE Leaves
  BY <1>1, <1>3 DEF Leaves
<1>4. CASE \E op : Enters(op)
  BY <1>4 DEF Enters
<1> QED
  BY <1>2, <1>3, <1>4, Moves

(* attempt_reconnect waits for what it calls, and goes on when that returns.    *)
LEMMA AtReconnect ==
  ASSUME IInv, Next, stack # <<>>, Top.op = "reconnect"
  PROVE  \/ ExternalNext /\ UNCHANGED <<client, calls>>
         \/ /\ ret = "none"
            /\ \/ \E op \in {"connect", "resubscribe"} : Rejected(op)
               \/ (ConnectFails \/ ConnectUnsent \/ ConnectSent) /\ At("reconnect", "connect")
               \/ Resubscribe /\ At("reconnect", "resubscribe")
         \/ ReconnectConnected \/ ReconnectResubscribed
<1> DEFINE Goal == \/ ExternalNext /\ UNCHANGED <<client, calls>>
                   \/ /\ ret = "none"
                      /\ \/ \E op \in {"connect", "resubscribe"} : Rejected(op)
                         \/ (ConnectFails \/ ConnectUnsent \/ ConnectSent) /\ At("reconnect", "connect")
                         \/ Resubscribe /\ At("reconnect", "resubscribe")
                   \/ ReconnectConnected \/ ReconnectResubscribed
<1> SUFFICES Goal
  OBVIOUS
<1> HIDE DEF Goal
<1>1. Top.pc # "wait"
  BY BelowSeq DEF IInv, StackInv, WaitsForAck, TypeOK, Top, Restoring
<1>2. \A op : AppCalls(op) \/ SdkCalls(op) =>
        ret = "none" /\ op \in {"connect", "resubscribe"} /\ At("reconnect", op)
  BY DEF AppCalls, SdkCalls, InMessageCallback, InDisconnectHandler, At
<1>3. \A op : Calls(op) =>
        ret = "none" /\ op \in {"connect", "resubscribe"} /\ At("reconnect", op)
  BY <1>2 DEF Calls
<1>4. CASE CallNext
  <2>1. CASE \E op \in CallOps : Rejected(op)
    BY <1>2, <2>1 DEF Rejected, Goal
  <2>2. CASE ConnectFails \/ ConnectUnsent \/ ConnectSent \/ Resubscribe
    BY <1>3, <2>2, Zenon DEF ConnectFails, ConnectUnsent, ConnectSent, Resubscribe, Goal
  <2>3. ~AppCalls("autoreconnect") /\ ~Calls("disconnect") /\ ~Calls("subscribe")
        /\ ~Calls("unsubscribe") /\ ~Calls("publish") /\ ~Calls("yield") /\ ~Calls("reconnect")
    BY <1>2, <1>3
  <2> QED
    BY <1>4, <2>1, <2>2, <2>3, Zenon DEF CallNext, SetAutoReconnect, Disconnect, Subscribe,
       Unsubscribe, Publish, RequestRefused, Yield, AttemptReconnect
<1>5. ~WaitNext
  BY <1>1 DEF WaitNext, ConnectAccepted, ConnectAbandoned, Subscribed, Unsubscribed, Published,
     ResubscribeSend, ResubscribeNext, ResubscribeEnds, RequestTimesOut, ReadOther, ReadPublish,
     Cycling, Waiting, At
<1>6. ~DeliverNext
  BY DEF DeliverNext, CallHandler, HandlerReturns, Delivered, Acknowledge, InMessageCallback, At
<1>7. ~YieldNext
  BY DEF YieldNext, YieldExpires, YieldLoops, YieldReadsNothing, YieldFails, YieldDelivered,
     KeepAliveNotDue, KeepAlivePing, ConnectionLost, DisconnectHandlerReturns,
     InDisconnectHandler, Cycling, At
<1>8. CASE ReconnectNext
  BY <1>8 DEF ReconnectNext, ReconnectTimedOut, ReconnectDelayed, ReconnectDue,
     ReconnectAttempted, ReconnectPending, At, Goal
<1>9. CASE ExternalNext
  BY <1>9 DEF ExternalNext, BrokerConnects, BrokerHandles, BrokerPublishes, LinkBreaks, Goal
<1> QED
  BY <1>4, <1>5, <1>6, <1>7, <1>8, <1>9 DEF Next

(* Nobody unsubscribes *)
LEMMA NothingUnsubscribedStep ==
  ASSUME NobodyUnsubscribes, IInv, NothingUnsubscribed, Next
  PROVE  NothingUnsubscribed'
<1>1. ~Calls("unsubscribe")
  BY DEF Calls, AppCalls, SdkCalls, NobodyUnsubscribes
<1>2. ASSUME NEW i \in 1 .. Len(stack'), stack'[i].op = "unsubscribe" PROVE FALSE
  <2>1. Len(stack) \in Nat
    BY DEF IInv, TypeOK
  <2>2. CASE Stays
    BY <1>2, <2>2 DEF Stays, SameCall, NothingUnsubscribed
  <2>3. CASE Leaves
    BY <1>2, <2>1, <2>3 DEF Leaves, SameCall, NothingUnsubscribed
  <2>4. CASE \E op : Enters(op) /\ op # "unsubscribe"
    BY <1>2, <2>1, <2>4 DEF Enters, SameCall, NothingUnsubscribed
  <2> QED
    BY <1>1, <2>2, <2>3, <2>4, Moves DEF IInv
<1>3. toBroker \in Seq(Packets) /\ toClient \in Seq(Packets)
  BY DEF IInv, TypeOK, ExternalTypes
<1>4. ~Carries(toBroker, "UNSUBSCRIBE")
  BY DEF NothingUnsubscribed, NoneOf, Carries
<1>5. ~Carries(toBroker', "UNSUBSCRIBE")
  <2>1. CASE UNCHANGED toBroker
    BY <1>4, <2>1
  <2>2. CASE \E p : Send(p) /\ Sendable(p)
    BY <1>1, <1>3, <1>4, <2>1, <2>2, CarriesAppend DEF Send, Sendable
  <2>3. CASE toBroker' = <<>>
    BY <2>3 DEF Carries
  <2>4. CASE toBroker # <<>> /\ toBroker' = Tail(toBroker)
    BY <1>3, <1>4, <2>4, CarriesTail
  <2>5. CASE ConnectSent
    <3>1. toBroker' = <<Plain("CONNECT")>>
      BY <2>5 DEF ConnectSent
    <3> QED
      BY <3>1 DEF Plain, Packet, Carries
  <2>6. CASE ExternalNext
    BY <2>1, <2>3, <2>4, <2>6 DEF ExternalNext, BrokerConnects, BrokerHandles, BrokerPublishes,
       LinkBreaks
  <2> QED
    BY <2>1, <2>2, <2>3, <2>5, <2>6, PacketsMove DEF external, Read
<1> QED
  BY <1>2, <1>5 DEF NothingUnsubscribed, NoneOf, Carries

(* Handlers are registered one slot after another.                             *)
LEMMA HandlersFirstStep ==
  ASSUME IInv, SlotInv, NothingUnsubscribed, HandlersFirst, Next
  PROVE  HandlersFirst'
<1> DEFINE n == Len(stack)
           Filled(h) == \A i, j \in Slots : i < j /\ h[j] # NULL => h[i] # NULL
           Asking(f) == f.op = "subscribe" =>
                          /\ f.topic \in Topics
                          /\ \A j \in Slots : j < f.slot => messageHandlers[j] # NULL
           Looping(f) == f.op = "resubscribe" =>
                           /\ f.limit \in 0 .. NumHandlers /\ f.slot <= f.limit
                           /\ f.pc = "wait" => f.slot < f.limit
                           /\ \A j \in Slots : j < f.limit <=> messageHandlers[j] # NULL
<1>1. n \in Nat /\ (stack # <<>> => n \in 1 .. n /\ Top = stack[n])
  BY BelowSeq DEF IInv, TypeOK, Top
<1>2. Filled(messageHandlers) /\ \A i \in 1 .. n : Asking(stack[i]) /\ Looping(stack[i])
  BY DEF HandlersFirst
<1>3. CASE Subscribed
  <2>1. stack' = Below /\ stack # <<>> /\ Top.op = "subscribe"
    BY <1>3 DEF Subscribed, Waiting, At, Finish, Return
  <2>2. n = 1 /\ Top.slot \in Slots /\ Asking(Top)
    BY <1>1, <1>2, <2>1 DEF SlotInv
  <2>3. Len(stack') = 0
    BY <2>1, <2>2, BelowSeq DEF IInv, TypeOK
  <2>4. Filled(messageHandlers')
    <3>1. messageHandlers' = [messageHandlers EXCEPT ![Top.slot] = Top.topic]
      BY <1>3 DEF Subscribed
    <3>2. messageHandlers \in [Slots -> Topics \cup {NULL}]
      BY DEF IInv, TypeOK, ClientTypes
    <3>3. Top.topic # NULL /\ \A j \in Slots : j < Top.slot => messageHandlers[j] # NULL
      BY <2>1, <2>2, ConstantsAssumption
    <3>4. \A j \in Slots : messageHandlers'[j] = IF j = Top.slot THEN Top.topic ELSE messageHandlers[j]
      BY <3>1, <3>2
    <3> QED
      BY <1>2, <2>2, <3>3, <3>4
  <2> QED
    BY <2>3, <2>4 DEF HandlersFirst
<1>4. CASE ~Subscribed
  <2>1. UNCHANGED messageHandlers
    <3>1. ~Unsubscribed
      BY <1>1 DEF Unsubscribed, Waiting, At, NothingUnsubscribed
    <3> QED
      BY <1>4, <3>1, HandlersChange
  <2>2. ASSUME NEW i \in 1 .. n, i <= Len(stack') PROVE Asking(stack'[i]) /\ Looping(stack'[i])
    <3>1. Asking(stack[i]) /\ Looping(stack[i])
      BY <1>2
    <3>2. CASE stack[i].op \notin {"subscribe", "resubscribe"}
      <4>1. stack'[i].op = stack[i].op
        BY <1>1, <2>2, Moves DEF IInv, Stays, Leaves, Enters, SameCall
      <4> QED
        BY <3>2, <4>1
    <3>3. CASE stack[i].op \in {"subscribe", "resubscribe"}
      <4>1. /\ SameCall(stack'[i], stack[i])
            /\ \/ SamePlace(stack'[i], stack[i])
               \/ i = n /\ (ResubscribeSend \/ ResubscribeNext \/ ReconnectConnected)
        BY <2>2, <3>3, Unmoved DEF IInv
      <4>2. CASE SamePlace(stack'[i], stack[i])
        BY <3>1, <4>1, <4>2 DEF SameCall, SamePlace
      <4>3. CASE i = n /\ ResubscribeSend
        <5>1. PICK j \in Slots : IsNextUsed(j) /\ stack' = WithTop([Top EXCEPT !.pc = "wait", !.slot = j])
          BY <4>3 DEF ResubscribeSend
        <5>2. stack # <<>> /\ Top.op = "resubscribe" /\ j < Top.limit
          BY <4>3, <5>1 DEF ResubscribeSend, At, IsNextUsed
        <5>3. Top \in Frames
          BY <5>2, BelowSeq DEF IInv, TypeOK
        <5>4. stack'[n] = [Top EXCEPT !.pc = "wait", !.slot = j]
          BY <1>1, <5>1, <5>2 DEF WithTop, IInv, TypeOK
        <5>5. /\ stack'[n].op = Top.op /\ stack'[n].limit = Top.limit /\ stack'[n].slot = j
          BY <5>3, <5>4 DEF Frames
        <5>6. Looping(Top)
          BY <1>1, <3>1, <4>3, <5>2
        <5> QED
          BY <4>3, <5>2, <5>5, <5>6 DEF Slots
      <4>4. CASE i = n /\ ResubscribeNext
        <5>1. stack # <<>> /\ Top.op = "resubscribe" /\ Top.pc = "wait"
              /\ stack' = WithTop([Top EXCEPT !.pc = "send", !.slot = @ + 1])
          BY <4>4 DEF ResubscribeNext, Waiting, At
        <5>2. Top \in Frames
          BY <5>1, BelowSeq DEF IInv, TypeOK
        <5>3. stack'[n] = [Top EXCEPT !.pc = "send", !.slot = @ + 1]
          BY <1>1, <5>1 DEF WithTop, IInv, TypeOK
        <5>4. /\ stack'[n].op = Top.op /\ stack'[n].limit = Top.limit /\ Top.slot \in Nat
              /\ stack'[n].slot = Top.slot + 1 /\ stack'[n].pc = "send"
          BY <5>2, <5>3 DEF Frames
        <5>5. Looping(Top)
          BY <1>1, <3>1, <4>4, <5>1
        <5> QED
          BY <4>4, <5>1, <5>4, <5>5
      <4>5. CASE i = n /\ ReconnectConnected
        <5>1. Top.op = "reconnect" /\ Top = stack[n]
          BY <4>5 DEF ReconnectConnected, At, Top
        <5> QED
          BY <3>3, <4>5, <5>1
      <4> QED
        BY <4>1, <4>2, <4>3, <4>4, <4>5
    <3> QED
      BY <3>2, <3>3
  <2>3. ASSUME Len(stack') = n + 1 PROVE Asking(stack'[n + 1]) /\ Looping(stack'[n + 1])
    <3> DEFINE f == stack'[n + 1]
    <3>1. PICK op : Enters(op) /\ (op = "deliver" \/ Makes(op))
      BY <1>1, <2>3, Moves DEF IInv, Stays, Leaves
    <3>2. f.op = op
      BY <3>1 DEF Enters
    <3>3. CASE op = "subscribe"
      <4>1. PICK topic \in Topics : Subscribe(topic)
        BY <3>1, <3>3 DEF Makes
      <4>2. stack' # stack
        BY <1>1, <2>3
      <4>3. PICK free \in Slots :
              /\ IsFreeIndex(free)
              /\ Push([Frame("subscribe", "wait") EXCEPT !.topic = topic, !.slot = free])
        BY <4>1, <4>2, Zenon DEF Subscribe, RequestRefused, Answer
      <4>4. f = [Frame("subscribe", "wait") EXCEPT !.topic = topic, !.slot = free]
        BY <4>3 DEF Push, IInv, TypeOK
      <4>5. f.op = "subscribe" /\ f.topic = topic /\ f.slot = free
        BY <4>4 DEF Frame
      <4>6. \A j \in Slots : j < free => messageHandlers[j] # NULL
        BY <4>3 DEF IsFreeIndex, Slots
      <4> QED
        BY <4>5, <4>6
    <3>4. CASE op = "resubscribe"
      <4>1. Resubscribe
        BY <3>1, <3>4 DEF Makes
      <4>2. PICK free \in 0 .. NumHandlers :
              IsFreeIndex(free) /\ Push([Frame("resubscribe", "send") EXCEPT !.limit = free])
        BY <4>1, Zenon DEF Resubscribe
      <4>3. f = [Frame("resubscribe", "send") EXCEPT !.limit = free]
        BY <4>2 DEF Push, IInv, TypeOK
      <4>4. f.op = "resubscribe" /\ f.limit = free /\ f.slot = 0 /\ f.pc = "send"
        BY <4>3 DEF Frame
      <4>5. ASSUME NEW j \in Slots PROVE j < free <=> messageHandlers[j] # NULL
        <5>1. j < free => messageHandlers[j] # NULL
          BY <4>2, <4>5 DEF IsFreeIndex, Slots
        <5>2. j >= free => free \in Slots
          BY <4>5, ConstantsAssumption DEF Slots
        <5>3. j >= free => messageHandlers[j] = NULL
          BY <1>2, <4>2, <4>5, <5>2 DEF IsFreeIndex, Slots
        <5> QED
          BY <4>2, <5>1, <5>3 DEF Slots
      <4> QED
        BY <4>4, <4>5, ConstantsAssumption
    <3> QED
      BY <3>2, <3>3, <3>4
  <2>4. Len(stack') \in Nat /\ Len(stack') <= n + 1
    BY <1>1, Moves DEF IInv, Stays, Leaves, Enters
  <2>5. \A i \in 1 .. Len(stack') : Asking(stack'[i]) /\ Looping(stack'[i])
    BY <1>1, <2>2, <2>3, <2>4
  <2> QED
    BY <1>2, <2>1, <2>5 DEF HandlersFirst
<1> QED
  BY <1>3, <1>4

(* What is on top while a resubscribe of the session is in progress.           *)
LEMMA RenewalTop ==
  ASSUME TypeOK, RenewalAlone, NEW i \in 1 .. Len(stack), stack[i].op = "resubscribe", stack[i].live
  PROVE  /\ stack # <<>> /\ (i # Len(stack) => i < Len(stack))
         /\ IF i = Len(stack) THEN Top.op = "resubscribe"
            ELSE Top.op \in {"publish", "deliver"} /\ Top.saved # "IDLE"
<1>1. stack # <<>> /\ Len(stack) \in Nat /\ Top = stack[Len(stack)]
  BY DEF TypeOK, Top
<1> QED
  BY <1>1 DEF RenewalAlone

(* Meanwhile callbacks may publish, but not subscribe or open a connection.    *)
LEMMA RenewalCalls ==
  ASSUME CallbacksKeepHandlers, NobodyUnsubscribes, IInv, RenewalAlone,
         NEW i \in 1 .. Len(stack), stack[i].op = "resubscribe", stack[i].live,
         NEW op \in CallOps \ {"disconnect"}, Calls(op)
  PROVE  op = "publish"
<1>1. IsConnected /\ clientState # "IDLE" /\ clientState # "PENDING_RECONNECT"
  <2>1. IsConnected
    BY DEF IInv, StackInv, NoSession, Owning, Restoring
  <2> QED
    BY <2>1 DEF RenewalAlone, IsConnected, ConnectedStates, Busy
<1>2. stack # <<>> /\ Top.op \in {"resubscribe", "publish", "deliver"}
  BY RenewalTop DEF IInv
<1>3. op \in CallbackOps
  BY <1>2 DEF Calls, AppCalls, SdkCalls, InDisconnectHandler, At
<1>4. op # "subscribe" /\ op # "unsubscribe"
  BY <1>3 DEF CallbacksKeepHandlers, NobodyUnsubscribes
<1>5. op \notin {"connect", "reconnect", "yield"}
  BY <1>1, AdmittedConnect, AdmittedReconnect, AdmittedYield DEF Calls
<1>6. op # "resubscribe"
  BY <1>1 DEF Calls, Admission, AdmissionIf
<1> QED
  BY <1>4, <1>5, <1>6 DEF CallOps, FrameOps

LEMMA RenewalAloneStep ==
  ASSUME CallbacksKeepHandlers, NobodyUnsubscribes, IInv, RenewalAlone, Next
  PROVE  RenewalAlone'
<1> DEFINE n == Len(stack)
           Renews(f) == f.op = "resubscribe" /\ f.live
           Quiet(f) == f.op \in {"publish", "deliver"} /\ f.saved # "IDLE"
<1>1. n \in Nat /\ Len(stack') \in Nat /\ Len(stack') <= n + 1
  BY Moves DEF IInv, TypeOK, Stays, Leaves, Enters
<1>2. ASSUME NEW i \in 1 .. n, i <= Len(stack')
      PROVE  SameCall(stack'[i], stack[i])
  BY <1>1, <1>2, Moves DEF IInv, Stays, Leaves, Enters
<1>3. ASSUME NEW i \in 1 .. n, i <= Len(stack'), Renews(stack'[i])
      PROVE  /\ clientState' # "IDLE"
             /\ \A j \in i + 1 .. Len(stack') : Quiet(stack'[j])
  <2>1. Renews(stack[i])
    BY <1>2, <1>3 DEF SameCall
  <2>2. IsConnected /\ clientState # "IDLE" /\ clientState \notin Startable
    <3>1. IsConnected
      BY <2>1 DEF IInv, StackInv, NoSession, Owning, Restoring
    <3> QED
      BY <2>1, <3>1 DEF RenewalAlone, IsConnected, ConnectedStates, Busy, Startable
  <2>3. /\ stack # <<>>
        /\ IF i = n THEN Top.op = "resubscribe" ELSE Top.op \in {"publish", "deliver"} /\ Top.saved # "IDLE"
    BY <2>1, RenewalTop DEF IInv
  <2>4. clientState' # "IDLE"
    <3> SUFFICES ASSUME clientState' = "IDLE" PROVE FALSE
      OBVIOUS
    <3>1. stack' = Below /\ Top.saved = "IDLE"
      BY <2>2, <2>3, BecomesStartable DEF Startable
    <3>2. i # n
      BY <1>1, <1>3, <2>3, <3>1, BelowSeq DEF IInv, TypeOK
    <3> QED
      BY <2>3, <3>1, <3>2
  <2>5. ASSUME NEW j \in i + 1 .. n, j <= Len(stack') PROVE Quiet(stack'[j])
    <3>1. Quiet(stack[j]) /\ j \in 1 .. n
      BY <2>1 DEF RenewalAlone
    <3> QED
      BY <1>2, <2>5, <3>1 DEF SameCall
  <2>6. ASSUME Len(stack') = n + 1 PROVE Quiet(stack'[n + 1])
    <3>1. PICK op : /\ Enters(op)
                    /\ op = "deliver" \/ (op \in CallOps \ {"disconnect"} /\ Calls(op))
      BY <1>1, <2>6, Moves DEF IInv, Stays, Leaves
    <3>2. op \in {"publish", "deliver"}
      BY <2>1, <3>1, RenewalCalls
    <3> QED
      BY <2>2, <3>1, <3>2 DEF Enters
  <2> QED
    BY <1>1, <2>4, <2>5, <2>6
<1>4. ASSUME Len(stack') = n + 1, Renews(stack'[n + 1]) PROVE clientState' # "IDLE"
  <2>1. PICK op : Enters(op) /\ (op = "deliver" \/ Makes(op))
    BY <1>1, <1>4, Moves DEF IInv, Stays, Leaves
  <2>2. op = "resubscribe"
    BY <1>4, <2>1 DEF Enters
  <2> QED
    BY <2>1, <2>2 DEF Makes, Resubscribe, Holds
<1>5. ASSUME NEW i \in 1 .. Len(stack'), Renews(stack'[i])
      PROVE  /\ clientState' # "IDLE"
             /\ \A j \in i + 1 .. Len(stack') : Quiet(stack'[j])
  BY <1>1, <1>3, <1>4, <1>5
<1> QED
  BY <1>5 DEF RenewalAlone

LEMMA ReconnectCallsStep ==
  ASSUME IInv, ReconnectCalls, Next
  PROVE  ReconnectCalls'
<1> DEFINE n == Len(stack)
<1>1. n \in Nat /\ (stack # <<>> => n \in 1 .. n /\ Top = stack[n])
  BY BelowSeq DEF IInv, TypeOK, Top
<1>2. Len(stack') \in Nat /\ Len(stack') <= n + 1
  BY <1>1, Moves DEF IInv, Stays, Leaves, Enters
<1>3. ASSUME NEW i \in 1 .. Len(stack'), i <= n, stack'[i].op \in {"connect", "reconnect"}
      PROVE  /\ stack[i].op = stack'[i].op
             /\ \/ stack'[i].pc = stack[i].pc
                \/ i = n /\ ReconnectConnected
  <2>1. i \in 1 .. n
    BY <1>1, <1>2, <1>3
  <2>2. stack'[i].op = stack[i].op
    BY <1>1, <2>1, Moves DEF IInv, Stays, Leaves, Enters, SameCall
  <2>3. \/ SamePlace(stack'[i], stack[i])
        \/ i = n /\ (ResubscribeSend \/ ResubscribeNext \/ ReconnectConnected)
    BY <1>2, <1>3, <2>1, <2>2, Unmoved DEF IInv
  <2>4. i = n /\ (ResubscribeSend \/ ResubscribeNext) => stack[i].op = "resubscribe"
    BY <1>1 DEF ResubscribeSend, ResubscribeNext, Waiting, At
  <2> QED
    BY <1>3, <2>2, <2>3, <2>4 DEF SamePlace
<1>4. ASSUME Len(stack') = n + 1
      PROVE  /\ stack'[n + 1].op = "connect" => stack'[n + 1].pc = "wait"
             /\ stack # <<>> /\ Top.op = "reconnect" =>
                  stack'[n + 1].op = Top.pc /\ ~ReconnectConnected
  <2>1. PICK op : /\ Enters(op)
                  /\ (op = "deliver" /\ ReadPublish) \/ (Calls(op) /\ Makes(op))
    BY <1>1, <1>4, Moves DEF IInv, Stays, Leaves
  <2>2. stack'[n + 1].op = op
    BY <2>1 DEF Enters
  <2>3. op = "connect" => stack'[n + 1].pc = "wait"
    <3> SUFFICES ASSUME op = "connect" PROVE stack'[n + 1].pc = "wait"
      OBVIOUS
    <3>1. ConnectSent
      BY <2>1 DEF Makes
    <3>2. Waiting("connect")' /\ Len(stack') = n + 1
      BY <1>4, <3>1, SentWaits
    <3> QED
      BY <3>2 DEF Waiting, At, Top
  <2>4. ASSUME stack # <<>>, Top.op = "reconnect" PROVE op = Top.pc /\ ~ReconnectConnected
    <3>1. ~ReadPublish
      <4>1. Top.pc # "wait"
        BY <1>1, <2>4 DEF IInv, StackInv, WaitsForAck, Restoring
      <4> QED
        BY <2>4, <4>1 DEF ReadPublish, Cycling, At
    <3>2. op = Top.pc
      BY <2>1, <2>4, <3>1 DEF Calls, AppCalls, SdkCalls, InMessageCallback, InDisconnectHandler, At
    <3>3. ~ReconnectConnected
      <4>1. Len(Below) = n - 1 /\ \A f : Len(WithTop(f)) = n
        BY <2>4, BelowSeq, GotoKeeps DEF IInv, TypeOK, WithTop
      <4>2. ReconnectConnected => stack' = Below \/ \E f : stack' = WithTop(f)
        BY Zenon DEF ReconnectConnected, Goto, Return
      <4> QED
        BY <1>1, <1>4, <4>1, <4>2
    <3> QED
      BY <3>2, <3>3
  <2> QED
    BY <2>2, <2>3, <2>4
<1>5. ASSUME NEW i \in 1 .. Len(stack') - 1, stack'[i].op = "reconnect"
      PROVE  stack'[i + 1].op = stack'[i].pc
  <2>1. i \in 1 .. Len(stack') /\ i <= n /\ i \in 1 .. n
    BY <1>1, <1>2
  <2>2. stack[i].op = "reconnect" /\ (stack'[i].pc = stack[i].pc \/ (i = n /\ ReconnectConnected))
    BY <1>3, <1>5, <2>1
  <2>3. CASE i = n
    BY <1>1, <1>2, <1>4, <2>1, <2>2, <2>3
  <2>4. CASE i # n
    <3>1. i \in 1 .. n - 1 /\ i + 1 \in 1 .. n /\ i + 1 <= Len(stack')
      BY <1>1, <1>2, <2>1, <2>4
    <3>2. stack'[i + 1].op = stack[i + 1].op
      BY <1>1, <3>1, Moves DEF IInv, Stays, Leaves, Enters, SameCall
    <3> QED
      BY <2>2, <2>4, <3>1, <3>2 DEF ReconnectCalls
  <2> QED
    BY <2>3, <2>4
<1>6. ASSUME NEW i \in 1 .. Len(stack'), stack'[i].op = "connect" PROVE stack'[i].pc = "wait"
  <2>1. CASE i <= n
    <3>1. stack[i].op = "connect" /\ i \in 1 .. n
      BY <1>1, <1>2, <1>3, <1>6, <2>1
    <3>2. ~(i = n /\ ReconnectConnected)
      BY <1>1, <3>1 DEF ReconnectConnected, At
    <3> QED
      BY <1>3, <1>6, <2>1, <3>1, <3>2 DEF ReconnectCalls
  <2>2. CASE i = n + 1
    BY <1>1, <1>2, <1>4, <1>6, <2>2
  <2> QED
    BY <1>1, <1>2, <2>1, <2>2
<1> QED
  BY <1>5, <1>6 DEF ReconnectCalls

(* Packets sent and read *)

LEMMA FewAppend ==
  ASSUME NEW s \in Seq(Packets), NEW p, NEW type
  PROVE  /\ NoneOf(type, Append(s, p)) <=> NoneOf(type, s) /\ p.type # type
         /\ NoneOf(type, s) \/ (AtMostOne(type, s) /\ p.type # type) => AtMostOne(type, Append(s, p))
<1>1. /\ Len(s) \in Nat /\ Len(Append(s, p)) = Len(s) + 1 /\ Append(s, p)[Len(s) + 1] = p
      /\ \A i \in 1 .. Len(s) : Append(s, p)[i] = s[i]
  OBVIOUS
<1> QED
  BY <1>1 DEF NoneOf, AtMostOne

LEMMA FewTail ==
  ASSUME NEW s \in Seq(Packets), s # <<>>, NEW type
  PROVE  /\ NoneOf(type, s) <=> NoneOf(type, Tail(s)) /\ Head(s).type # type
         /\ AtMostOne(type, s) => /\ AtMostOne(type, Tail(s))
                                  /\ Head(s).type = type => NoneOf(type, Tail(s))
<1>1. /\ Len(s) \in Nat \ {0} /\ Len(Tail(s)) = Len(s) - 1 /\ Head(s) = s[1]
      /\ \A i \in 1 .. Len(s) - 1 : Tail(s)[i] = s[i + 1]
  OBVIOUS
<1>2. \A i \in 1 .. Len(s) : i # 1 => i - 1 \in 1 .. Len(s) - 1 /\ s[i] = Tail(s)[i - 1]
  BY <1>1
<1>3. \A i, j \in 1 .. Len(s) - 1 : i + 1 = j + 1 => i = j
  OBVIOUS
<1> QED
  BY <1>1, <1>2, <1>3 DEF NoneOf, AtMostOne

(* What the broker sends back and what it changes.                             *)
LEMMA BrokerAnswers ==
  ASSUME ExternalNext
  PROVE  \/ LinkBreaks
         \/ /\ toBroker # <<>> /\ toBroker' = Tail(toBroker)
            /\ \/ toClient' = toClient
               \/ \E p : /\ toClient' = Append(toClient, p)
                         /\ p.type = "SUBACK" => Head(toBroker).type = "SUBSCRIBE"
            /\ \/ brokerSubs' = brokerSubs
               \/ Head(toBroker).type = "SUBSCRIBE"
                  /\ brokerSubs' = brokerSubs \cup {Head(toBroker).topic}
               \/ Head(toBroker).type = "UNSUBSCRIBE"
         \/ /\ UNCHANGED <<toBroker, brokerSubs>>
            /\ \E p : toClient' = Append(toClient, p) /\ p.type # "SUBACK"
<1>1. CASE BrokerConnects
  <2>1. \A accepted : Packet("CONNACK", NULL, accepted).type # "SUBACK"
    BY DEF Packet
  <2>2. /\ toBroker # <<>> /\ toBroker' = Tail(toBroker) /\ brokerSubs' = brokerSubs
        /\ \E accepted : toClient' = Append(toClient, Packet("CONNACK", NULL, accepted))
    BY <1>1, Zenon DEF BrokerConnects
  <2> QED
    BY <2>1, <2>2, Zenon
<1>2. CASE BrokerHandles
  <2> DEFINE h == Head(toBroker)
             reply == Plain(ReplyTo(h))
  <2>1. reply.type = "SUBACK" => h.type = "SUBSCRIBE"
    BY DEF Plain, Packet, ReplyTo
  <2>2. toClient' = toClient \/ toClient' = Append(toClient, reply)
    BY <1>2 DEF BrokerHandles
  <2>3. \/ brokerSubs' = brokerSubs
        \/ h.type = "SUBSCRIBE" /\ brokerSubs' = brokerSubs \cup {h.topic}
        \/ h.type = "UNSUBSCRIBE"
    BY <1>2 DEF BrokerHandles
  <2>4. toBroker # <<>> /\ toBroker' = Tail(toBroker)
    BY <1>2 DEF BrokerHandles
  <2> HIDE DEF h, reply
  <2> QED
    BY <2>1, <2>2, <2>3, <2>4, Zenon DEF h
<1>3. CASE \E topic \in Topics, qos \in {0, 1} : BrokerPublishes(topic, qos)
  <2>1. \A topic, qos : Packet("PUBLISH", topic, qos).type # "SUBACK"
    BY DEF Packet
  <2> QED
    BY <1>3, <2>1, Zenon DEF BrokerPublishes
<1> QED
  BY <1>1, <1>2, <1>3 DEF ExternalNext

(* Without a new SUBSCRIBE none is under way.                                  *)
LEMMA UnaskedKept ==
  ASSUME IInv, Next, Unasked, ~Calls("subscribe"), ~ResubscribeSend
  PROVE  Unasked'
<1>1. toBroker \in Seq(Packets) /\ toClient \in Seq(Packets)
  BY DEF IInv, TypeOK, ExternalTypes
<1>2. NoneOf("SUBSCRIBE", toBroker) /\ NoneOf("SUBACK", toClient)
  BY DEF Unasked
<1>3. CASE UNCHANGED external
  BY <1>2, <1>3 DEF external, Unasked
<1>4. CASE \E p : Send(p) /\ Sendable(p)
  BY <1>1, <1>2, <1>4, FewAppend DEF Send, Sendable, Unasked
<1>5. CASE toClient # <<>> /\ Read
  BY <1>1, <1>2, <1>5, FewTail DEF Read, Unasked
<1>6. CASE toBroker' = <<>> /\ toClient' = <<>>
  BY <1>6 DEF Unasked, NoneOf
<1>7. CASE ConnectSent
  <2>1. toBroker' = <<Plain("CONNECT")>> /\ toClient' = <<>> /\ Plain("CONNECT").type = "CONNECT"
    BY <1>7 DEF ConnectSent, Plain, Packet
  <2> QED
    BY <2>1 DEF Unasked, NoneOf
<1>8. CASE ExternalNext
  <2>1. CASE LinkBreaks
    BY <1>2, <2>1 DEF LinkBreaks, Unasked, NoneOf
  <2>2. CASE toBroker # <<>> /\ toBroker' = Tail(toBroker)
             /\ (toClient' = toClient
                 \/ \E p : /\ toClient' = Append(toClient, p)
                           /\ p.type = "SUBACK" => Head(toBroker).type = "SUBSCRIBE")
    <3>1. NoneOf("SUBSCRIBE", toBroker') /\ Head(toBroker).type # "SUBSCRIBE"
      BY <1>1, <1>2, <2>2, FewTail
    <3>2. NoneOf("SUBACK", toClient')
      <4>1. CASE toClient' = toClient
        BY <1>2, <4>1
      <4>2. ASSUME NEW p, toClient' = Append(toClient, p), p.type # "SUBACK"
            PROVE  NoneOf("SUBACK", toClient')
        BY <1>1, <1>2, <4>2, FewAppend
      <4> QED
        BY <2>2, <3>1, <4>1, <4>2
    <3> QED
      BY <3>1, <3>2 DEF Unasked
  <2>3. CASE UNCHANGED toBroker /\ \E p : toClient' = Append(toClient, p) /\ p.type # "SUBACK"
    BY <1>1, <1>2, <2>3, FewAppend DEF Unasked
  <2> QED
    BY <1>8, <2>1, <2>2, <2>3, BrokerAnswers
<1> QED
  BY <1>3, <1>4, <1>5, <1>6, <1>7, <1>8, PacketsMove

(* A broker with a session forgets no subscription unless it is asked to.      *)
LEMMA SubscriptionsStay ==
  ASSUME IInv, NothingUnsubscribed, Next, brokerUp, brokerUp'
  PROVE  brokerSubs \subseteq brokerSubs'
<1>1. toBroker # <<>> => Head(toBroker).type # "UNSUBSCRIBE"
  <2>1. toBroker \in Seq(Packets)
    BY DEF IInv, TypeOK, ExternalTypes
  <2> QED
    BY <2>1, FewTail DEF NothingUnsubscribed
<1>2. CASE ExternalNext
  BY <1>1, <1>2, BrokerAnswers DEF LinkBreaks
<1> QED
  BY <1>2, PacketsMove DEF external, Send, Read, ConnectSent

(* The subscription of a slot stays under way, or is answered.                 *)
LEMMA AskedKept ==
  ASSUME IInv, NothingUnsubscribed, Next, brokerUp, brokerUp', UNCHANGED messageHandlers,
         ~Calls("subscribe"), ~ResubscribeSend, ~BrokerConnects,
         NEW n, Asked(n)
  PROVE  Asked(n)'
<1> DEFINE About(s) == \A i \in 1 .. Len(s) : s[i].type = "SUBSCRIBE" => s[i].topic = messageHandlers[n]
           Answered == NoneOf("SUBSCRIBE", toBroker) /\ messageHandlers[n] \in brokerSubs
           AnsweredThen == NoneOf("SUBSCRIBE", toBroker') /\ messageHandlers[n] \in brokerSubs'
           NoAck == NoneOf("SUBACK", toClient)
           NoAckThen == NoneOf("SUBACK", toClient')
<1>1. toBroker \in Seq(Packets) /\ toClient \in Seq(Packets)
  BY DEF IInv, TypeOK, ExternalTypes
<1>2. /\ AtMostOne("SUBSCRIBE", toBroker) /\ AtMostOne("SUBACK", toClient) /\ About(toBroker)
      /\ NoAck \/ Answered
  BY DEF Asked
<1>3. SUFFICES /\ AtMostOne("SUBSCRIBE", toBroker') /\ AtMostOne("SUBACK", toClient')
               /\ About(toBroker') /\ (NoAckThen \/ AnsweredThen)
  BY DEF Asked
<1>4. brokerSubs \subseteq brokerSubs'
  BY SubscriptionsStay
<1>5. ASSUME NEW p, p.type # "SUBSCRIBE" PROVE About(Append(toBroker, p))
  <2>1. /\ Len(toBroker) \in Nat /\ Len(Append(toBroker, p)) = Len(toBroker) + 1
        /\ Append(toBroker, p)[Len(toBroker) + 1] = p
        /\ \A i \in 1 .. Len(toBroker) : Append(toBroker, p)[i] = toBroker[i]
    BY <1>1
  <2> QED
    BY <1>2, <1>5, <2>1
<1>6. toBroker # <<>> => About(Tail(toBroker))
  <2> SUFFICES ASSUME toBroker # <<>>, NEW i \in 1 .. Len(Tail(toBroker))
               PROVE  \E j \in 1 .. Len(toBroker) : Tail(toBroker)[i] = toBroker[j]
    BY <1>2
  <2> QED
    BY <1>1
<1> HIDE DEF About
<1>7. CASE UNCHANGED external
  BY <1>2, <1>7 DEF external
<1>8. CASE \E p : Send(p) /\ Sendable(p)
  <2>1. PICK p : Send(p) /\ p.type # "SUBSCRIBE"
    BY <1>8 DEF Sendable
  <2>2. UNCHANGED <<toClient, brokerSubs>> /\ (toBroker' = toBroker \/ toBroker' = Append(toBroker, p))
    BY <2>1 DEF Send
  <2>3. CASE toBroker' = Append(toBroker, p)
    <3>1. AtMostOne("SUBSCRIBE", toBroker') /\ About(toBroker')
      BY <1>1, <1>2, <1>5, <2>1, <2>3, FewAppend
    <3>2. NoneOf("SUBSCRIBE", toBroker) => NoneOf("SUBSCRIBE", toBroker')
      BY <1>1, <2>1, <2>3, FewAppend
    <3> QED
      BY <1>2, <2>2, <3>1, <3>2
  <2> QED
    BY <1>2, <2>2, <2>3
<1>9. CASE toClient # <<>> /\ Read
  <2>1. AtMostOne("SUBACK", toClient') /\ (NoAck => NoAckThen)
    BY <1>1, <1>2, <1>9, FewTail DEF Read
  <2> QED
    BY <1>2, <1>9, <2>1 DEF Read
<1>10. CASE ExternalNext
  <2>1. CASE toBroker # <<>> /\ toBroker' = Tail(toBroker)
    <3>1. /\ AtMostOne("SUBSCRIBE", toBroker') /\ About(toBroker')
          /\ NoneOf("SUBSCRIBE", toBroker) => NoneOf("SUBSCRIBE", toBroker')
      BY <1>1, <1>2, <1>6, <2>1, FewTail
    <3>2. CASE Head(toBroker).type = "SUBSCRIBE"
      <4>1. NoneOf("SUBSCRIBE", toBroker') /\ ~NoneOf("SUBSCRIBE", toBroker)
        BY <1>1, <1>2, <2>1, <3>2, FewTail
      <4>2. Head(toBroker).topic = messageHandlers[n]
        BY <1>1, <1>2, <2>1, <3>2 DEF About
      <4>3. messageHandlers[n] \in brokerSubs'
        BY <1>10, <2>1, <3>2, <4>2 DEF ExternalNext, BrokerHandles, BrokerPublishes, LinkBreaks
      <4>4. toClient' = toClient \/ \E p : toClient' = Append(toClient, p)
        BY <1>10 DEF ExternalNext, BrokerConnects, BrokerHandles, BrokerPublishes, LinkBreaks
      <4>5. AtMostOne("SUBACK", toClient')
        <5>1. NoAck /\ AtMostOne("SUBACK", toClient)
          BY <1>2, <4>1
        <5>2. ASSUME NEW p, toClient' = Append(toClient, p) PROVE AtMostOne("SUBACK", toClient')
          BY <1>1, <5>1, <5>2, FewAppend
        <5> QED
          BY <4>4, <5>1, <5>2
      <4> QED
        BY <3>1, <4>1, <4>3, <4>5
    <3>3. CASE Head(toBroker).type # "SUBSCRIBE"
      <4>1. toClient' = toClient \/ \E p : toClient' = Append(toClient, p) /\ p.type # "SUBACK"
        BY <1>10, <3>3, BrokerAnswers DEF LinkBreaks
      <4>2. AtMostOne("SUBACK", toClient') /\ (NoAck => NoAckThen)
        <5>1. ASSUME NEW p, toClient' = Append(toClient, p), p.type # "SUBACK"
              PROVE  AtMostOne("SUBACK", toClient') /\ (NoAck => NoAckThen)
          BY <1>1, <1>2, <5>1, FewAppend
        <5> QED
          BY <1>2, <4>1, <5>1
      <4> QED
        BY <1>2, <1>4, <3>1, <4>2
    <3> QED
      BY <3>2, <3>3
  <2>2. CASE UNCHANGED <<toBroker, brokerSubs>>
             /\ \E p : toClient' = Append(toClient, p) /\ p.type # "SUBACK"
    BY <1>1, <1>2, <2>2, FewAppend
  <2> QED
    BY <1>10, <2>1, <2>2, BrokerAnswers DEF LinkBreaks
<1> QED
  BY <1>7, <1>8, <1>9, <1>10, PacketsMove DEF ConnectSent

(* attempt_reconnect runs on top when it starts, when its call returns, and in  *)
(* between.                                                                    *)
LEMMA ComesToReconnect ==
  ASSUME IInv, ReconnectCalls, Next, stack' # <<>>, Top'.op = "reconnect"
  PROVE  \/ /\ stack # <<>> /\ Top.op = "reconnect" /\ Len(stack') = Len(stack)
            /\ Top'.pc = Top.pc \/ ReconnectConnected
         \/ /\ stack # <<>> /\ Len(stack') = Len(stack) - 1 /\ Top.op = Top'.pc
            /\ Len(stack) - 1 \in 1 .. Len(stack) /\ stack[Len(stack) - 1].op = "reconnect"
         \/ AttemptReconnect /\ Top'.pc = "connect"
<1> DEFINE n == Len(stack)
           m == Len(stack')
<1>1. n \in Nat /\ (stack # <<>> => n \in 1 .. n /\ Top = stack[n])
  BY BelowSeq DEF IInv, TypeOK, Top
<1>2. m \in 1 .. m /\ Top' = stack'[m]
  <2>1. m \in Nat
    BY <1>1, Moves DEF IInv, Stays, Leaves, Enters
  <2>2. stack' \in Seq(Frames)
    BY IInvStep DEF IInv, TypeOK
  <2> QED
    BY <2>1, <2>2 DEF Top
<1>3. CASE Stays
  <2>1. m = n /\ n \in 1 .. n /\ stack # <<>> /\ SameCall(stack'[n], stack[n])
        /\ (SamePlace(stack'[n], stack[n]) \/ GoesOn)
    BY <1>1, <1>2, <1>3 DEF Stays, IInv, TypeOK
  <2>2. Top.op = "reconnect"
    BY <1>1, <1>2, <2>1 DEF SameCall
  <2>3. Top'.pc = Top.pc \/ ReconnectConnected
    BY <1>1, <1>2, <2>1, <2>2 DEF SamePlace, GoesOn, ResubscribeSend, ResubscribeNext, Waiting, At
  <2> QED
    BY <2>1, <2>2, <2>3
<1>4. CASE Leaves
  <2>1. stack # <<>> /\ m = n - 1 /\ SameCall(stack'[m], stack[m]) /\ SamePlace(stack'[m], stack[m])
    BY <1>1, <1>2, <1>4 DEF Leaves
  <2>2. stack[m].op = "reconnect" /\ m + 1 = n /\ m \in 1 .. n - 1
    BY <1>1, <1>2, <2>1 DEF SameCall
  <2>3. Top.op = stack[m].pc
    BY <1>1, <2>1, <2>2 DEF ReconnectCalls
  <2> QED
    BY <1>1, <1>2, <2>1, <2>2, <2>3 DEF SamePlace
<1>5. CASE \E op : Enters(op) /\ (op = "deliver" \/ Makes(op))
  <2>1. PICK op : Enters(op) /\ (op = "deliver" \/ Makes(op))
    BY <1>5
  <2>2. op = "reconnect"
    BY <1>1, <1>2, <2>1 DEF Enters
  <2>3. AttemptReconnect
    BY <2>1, <2>2 DEF Makes
  <2>4. stack' = Append(stack, Frame("reconnect", "connect"))
    BY <2>3, Zenon DEF AttemptReconnect, Push
  <2>5. stack'[m] = Frame("reconnect", "connect")
    BY <1>1, <1>2, <2>4 DEF IInv, TypeOK
  <2>6. Frame("reconnect", "connect").pc = "connect"
    BY DEF Frame
  <2> QED
    BY <1>2, <2>3, <2>5, <2>6
<1> QED
  BY <1>3, <1>4, <1>5, Moves DEF IInv

LEMMA AskedFirstStep ==
  ASSUME IInv, ReconnectCalls, AskedFirst, Next
  PROVE  AskedFirst'
<1>1. Waiting("connect")' => Unasked'
  <2> SUFFICES ASSUME Waiting("connect")' PROVE Unasked'
    OBVIOUS
  <2> DEFINE m == Len(stack')
  <2>1. Len(stack) \in Nat /\ (stack # <<>> => Top = stack[Len(stack)])
    BY DEF IInv, TypeOK, Top
  <2>2. m \in 1 .. m /\ stack' # <<>> /\ stack'[m].op = "connect"
    <3>1. stack' \in Seq(Frames)
      BY IInvStep DEF IInv, TypeOK
    <3> QED
      BY <3>1 DEF Waiting, At, Top
  <2>3. CASE ConnectSent
    <3>1. toBroker' = <<Plain("CONNECT")>> /\ toClient' = <<>> /\ Plain("CONNECT").type = "CONNECT"
      BY <2>3 DEF ConnectSent, Plain, Packet
    <3> QED
      BY <3>1 DEF Unasked, NoneOf
  <2>4. CASE Stays
    <3>1. stack # <<>> /\ Top.op = "connect"
      BY <2>1, <2>2, <2>4 DEF Stays, SameCall, IInv, TypeOK
    <3>2. Waiting("connect")
      BY <2>1, <3>1 DEF ReconnectCalls, Waiting, At
    <3>3. ~Calls("subscribe") /\ ~ResubscribeSend
      BY <3>1 DEF Calls, AppCalls, SdkCalls, InMessageCallback, InDisconnectHandler, At, ResubscribeSend
    <3> QED
      BY <3>2, <3>3, UnaskedKept DEF AskedFirst
  <2>5. ~Leaves
    BY <2>1, <2>2 DEF Leaves, SameCall, IInv, StackInv, ConnectOnTop
  <2>6. CASE \E op : Enters(op) /\ (op = "deliver" \/ Makes(op))
    BY <2>1, <2>2, <2>3, <2>6 DEF Enters, Makes
  <2> QED
    BY <2>4, <2>5, <2>6, Moves DEF IInv
<1>2. ASSUME stack' # <<>>, Top'.op = "reconnect",
             \/ Top'.pc = "connect" /\ clientState' = "IDLE"
             \/ Top'.pc = "resubscribe" /\ ret' = "none"
      PROVE  Unasked'
  <2>1. CASE /\ stack # <<>> /\ Top.op = "reconnect" /\ Len(stack') = Len(stack)
             /\ Top'.pc = Top.pc \/ ReconnectConnected
    <3>1. ~Calls("subscribe") /\ ~ResubscribeSend
      BY <2>1 DEF Calls, AppCalls, SdkCalls, InMessageCallback, InDisconnectHandler, At, ResubscribeSend
    <3>2. SUFFICES Unasked
      BY <3>1, UnaskedKept
    <3>3. CASE ReconnectConnected
      <4>1. At("reconnect", "connect")
        BY <3>3 DEF ReconnectConnected
      <4>2. clientState = "IDLE"
        <5> SUFFICES ASSUME clientState # "IDLE" PROVE FALSE
          OBVIOUS
        <5>1. stack' = Below
          BY <3>3 DEF ReconnectConnected, Return
        <5> QED
          BY <2>1, <5>1, BelowSeq DEF IInv, TypeOK
      <4> QED
        BY <4>1, <4>2 DEF AskedFirst
    <3>4. CASE ~ReconnectConnected
      <4>1. Top'.pc = Top.pc
        BY <2>1, <3>4
      <4>2. CASE UNCHANGED <<client, calls>>
        BY <1>2, <2>1, <4>1, <4>2 DEF client, calls, AskedFirst, At
      <4>3. CASE \E op \in {"connect", "resubscribe"} : Rejected(op)
        <5>1. ret' # "none" /\ clientState' = clientState
          BY <4>3 DEF Rejected, Answer, Admission, AdmissionIf, client
        <5> QED
          BY <1>2, <2>1, <4>1, <5>1 DEF AskedFirst, At
      <4>4. CASE (ConnectFails \/ ConnectUnsent) /\ At("reconnect", "connect")
        BY <1>2, <4>1, <4>4 DEF ConnectFails, ConnectUnsent, At
      <4>5. ~ConnectSent /\ ~Resubscribe /\ ~ReconnectResubscribed
        <5>1. \A f : Len(Append(stack, f)) # Len(stack)
          BY DEF IInv, TypeOK
        <5>2. \A f : Len(Append(Orphaned(stack), f)) # Len(stack)
          <6> DEFINE o == Orphaned(stack)
          <6>1. o \in Seq(Frames) /\ Len(o) = Len(stack)
            BY OrphanedSeq DEF IInv, TypeOK
          <6> HIDE DEF o
          <6> QED
            BY <6>1 DEF o
        <5>3. Len(Below) # Len(stack)
          BY <2>1, BelowSeq DEF IInv, TypeOK
        <5> QED
          BY <2>1, <5>1, <5>2, <5>3, Zenon DEF ConnectSent, Resubscribe, ReconnectResubscribed,
             Push, Return
      <4> QED
        BY <2>1, <3>4, <4>2, <4>3, <4>4, <4>5, AtReconnect
    <3> QED
      BY <3>3, <3>4
  <2>2. CASE stack # <<>> /\ Len(stack') = Len(stack) - 1 /\ Top.op = Top'.pc
    <3>1. Len(stack) \in 1 .. Len(stack) /\ Top = stack[Len(stack)]
      BY <2>2, BelowSeq DEF IInv, TypeOK, Top
    <3>2. CASE Top.op = "resubscribe"
      <4>1. ResubscribeEnds \/ RequestTimesOut
        BY <2>2, <3>1, <3>2, FinishOnly DEF IInv, Restoring
      <4>2. ret' # "none"
        BY <4>1 DEF ResubscribeEnds, RequestTimesOut, Finish, Return
      <4> QED
        BY <1>2, <2>2, <3>2, <4>2
    <3>3. CASE Top.op = "connect"
      <4>1. Waiting("connect")
        BY <2>2, <3>1, <3>3 DEF ReconnectCalls, Waiting, At
      <4>2. clientState' = "IDLE" /\ clientState = "CONNECTING"
        BY <1>2, <2>2, <3>3, <4>1 DEF IInv, ResultInv, ConnectWaits
      <4>3. ~ConnectAbandoned
        BY <4>2 DEF ConnectAbandoned, SetClientState
      <4>4. ConnectAccepted
        <5>1. ~UNCHANGED calls
          BY <2>2, <3>1 DEF calls
        <5> QED
          BY <4>1, <4>3, <5>1, ConnectWaitsOn
      <4>5. ~Calls("subscribe") /\ ~ResubscribeSend
        BY <2>2, <3>3 DEF Calls, AppCalls, SdkCalls, InMessageCallback, InDisconnectHandler, At, ResubscribeSend
      <4> QED
        BY <4>1, <4>5, UnaskedKept DEF AskedFirst
    <3> QED
      BY <1>2, <2>2, <3>2, <3>3
  <2>3. CASE AttemptReconnect /\ Top'.pc = "connect"
    <3>1. ~IsConnected /\ clientState' = clientState
      BY <2>3, AdmittedReconnect DEF AttemptReconnect, Calls, client
    <3> QED
      BY <1>2, <2>3, <3>1 DEF IsConnected, ConnectedStates
  <2> QED
    BY <1>2, <2>1, <2>2, <2>3, ComesToReconnect
<1> QED
  BY <1>1, <1>2 DEF AskedFirst, At

(* How a resubscribe of the session, called by attempt_reconnect, comes on.    *)
LEMMA RenewingStep ==
  ASSUME CallbacksKeepHandlers, NobodyUnsubscribes, IInv, PingInv, RenewalInv, Next
  PROVE  Renewing'
<1> USE DEF RenewalInv
<1> DEFINE n == Len(stack)
<1>1. n \in Nat /\ (stack # <<>> => n \in 1 .. n /\ Top = stack[n])
  BY BelowSeq DEF IInv, TypeOK, Top
<1>2. Len(stack') \in Nat /\ Len(stack') <= n + 1
  BY <1>1, Moves DEF IInv, Stays, Leaves, Enters
<1> SUFFICES ASSUME NEW i \in 1 .. Len(stack') - 1, stack'[i].op = "reconnect",
                    stack'[i + 1].op = "resubscribe", stack'[i + 1].live, brokerUp'
             PROVE  /\ Renewed(stack[i + 1].slot)'
                    /\ IF stack'[i + 1].pc = "wait" THEN Asked(stack[i + 1].slot)' ELSE Unasked'
  BY DEF Renewing
<1> DEFINE k == i + 1
           f == stack'[k]
<1>3. i \in 1 .. n /\ i <= Len(stack') /\ stack[i].op = "reconnect"
  <2>1. i \in 1 .. n /\ i <= Len(stack')
    BY <1>1, <1>2
  <2> QED
    BY <1>1, <2>1, Moves DEF IInv, Stays, Leaves, Enters, SameCall
\* It starts when no subscription is under way.
<1>4. CASE k = n + 1
  <2>1. PICK op : Enters(op) /\ (op = "deliver" \/ Makes(op))
    BY <1>1, <1>2, <1>4, Moves DEF IInv, Stays, Leaves
  <2>2. op = "resubscribe"
    BY <1>4, <2>1 DEF Enters
  <2>3. Resubscribe /\ stack # <<>> /\ Top.op = "reconnect"
    BY <1>1, <1>3, <1>4, <2>1, <2>2 DEF Makes
  <2>4. At("reconnect", "resubscribe") /\ ret = "none"
    BY <2>3 DEF Resubscribe, Calls, AppCalls, SdkCalls, InMessageCallback, InDisconnectHandler, At
  <2>5. PICK free : stack' = Append(stack, [Frame("resubscribe", "send") EXCEPT !.limit = free])
    BY <2>3, Zenon DEF Resubscribe, Push
  <2>6. f = [Frame("resubscribe", "send") EXCEPT !.limit = free]
    BY <1>4, <2>5 DEF IInv, TypeOK
  <2>7. f.slot = 0 /\ f.pc = "send"
    BY <2>6 DEF Frame
  <2>8. Unasked'
    BY <2>3, <2>4 DEF AskedFirst, Unasked, Resubscribe, external
  <2>9. \A j \in Slots : ~(j < 0)
    BY DEF Slots
  <2> QED
    BY <2>7, <2>8, <2>9 DEF Renewed
<1>5. CASE k # n + 1
  <2>1. k \in 1 .. n /\ k <= Len(stack') /\ i \in 1 .. n - 1
    BY <1>1, <1>2, <1>3, <1>5
  <2>2. SameCall(f, stack[k]) /\ stack[k].op = "resubscribe"
    BY <1>1, <2>1, Moves DEF IInv, Stays, Leaves, Enters, SameCall
  <2>3. SamePlace(f, stack[k]) \/ (k = n /\ (ResubscribeSend \/ ResubscribeNext))
    <3>1. k = n => ~ReconnectConnected
      BY <1>1, <2>2 DEF ReconnectConnected, At
    <3> QED
      BY <2>1, <2>2, <3>1, Unmoved DEF IInv, SameCall
  <2>4. stack[k].live
    BY <2>2 DEF SameCall
  <2>5. /\ stack # <<>> /\ IF k = n THEN Top.op = "resubscribe" ELSE Top.op \in {"publish", "deliver"}
    BY <2>1, <2>2, <2>4, RenewalTop DEF IInv
  <2>6. ~BrokerConnects /\ brokerUp
    <3>1. ~BrokerConnects
      <4>1. ~Waiting("connect") /\ toBroker \in Seq(Packets)
        BY <2>5 DEF Waiting, At, IInv, TypeOK, ExternalTypes
      <4>2. NoneOf("CONNECT", toBroker)
        BY <4>1 DEF PingInv, ConnectAlone, NoneOf
      <4> QED
        BY <4>1, <4>2, FewTail DEF BrokerConnects
    <3>2. CASE ExternalNext
      BY <3>1, <3>2 DEF ExternalNext, BrokerHandles, BrokerPublishes, LinkBreaks
    <3> QED
      BY <3>1, <3>2, PacketsMove DEF external, Send, Read, ConnectSent
  <2>7. UNCHANGED messageHandlers
    BY <2>5, HandlersChange DEF Subscribed, Unsubscribed, Waiting, At
  <2>8. ~Calls("subscribe")
    <3>1. "subscribe" \in CallOps \ {"disconnect"}
      BY DEF CallOps, FrameOps
    <3> QED
      BY <2>1, <2>2, <2>4, <3>1, RenewalCalls
  <2>9. brokerSubs \subseteq brokerSubs'
    BY <2>6, SubscriptionsStay
  <2>10. /\ Renewed(stack[k].slot)
         /\ IF stack[k].pc = "wait" THEN Asked(stack[k].slot) ELSE Unasked
    BY <1>3, <2>1, <2>2, <2>4, <2>6 DEF Renewing
  <2>11. stack[k] \in Frames
    BY <2>1 DEF IInv, TypeOK
  \* The next SUBSCRIBE is sent when none is under way.
  <2>12. CASE ResubscribeSend
    <3>1. k = n /\ Top = stack[k]
      BY <1>1, <2>5, <2>12 DEF ResubscribeSend, At
    <3>2. PICK s \in Slots :
            /\ IsNextUsed(s) /\ Send(Packet("SUBSCRIBE", messageHandlers[s], 0))
            /\ stack' = WithTop([Top EXCEPT !.pc = "wait", !.slot = s])
      BY <2>12 DEF ResubscribeSend
    <3>3. f = [Top EXCEPT !.pc = "wait", !.slot = s]
      <4>1. stack'[n] = [Top EXCEPT !.pc = "wait", !.slot = s]
        BY <1>1, <2>5, <3>2 DEF WithTop, IInv, TypeOK
      <4> QED
        BY <3>1, <4>1
    <3>4. f.pc = "wait" /\ f.slot = s
      BY <2>11, <3>1, <3>3 DEF Frames
    <3>5. Unasked
      BY <2>10, <2>12, <3>1 DEF ResubscribeSend, At
    <3>6. \A j \in Slots : j < s => messageHandlers'[j] \in brokerSubs' \cup {NULL}
      <4>1. \A j \in Slots : Top.slot <= j /\ j < s => messageHandlers[j] = NULL
        BY <3>2 DEF IsNextUsed
      <4>2. \A j \in Slots : j < Top.slot => messageHandlers[j] \in brokerSubs \cup {NULL}
        BY <2>10, <3>1 DEF Renewed
      <4>3. Top.slot \in Nat /\ \A j \in Slots : j \in Nat
        BY <2>11, <3>1 DEF Frames, Slots
      <4> QED
        BY <2>7, <2>9, <4>1, <4>2, <4>3
    <3>7. Asked(s)'
      <4> DEFINE p == Packet("SUBSCRIBE", messageHandlers[s], 0)
      <4>1. p.type = "SUBSCRIBE" /\ p.topic = messageHandlers'[s]
        BY <2>7 DEF Packet
      <4>2. UNCHANGED toClient /\ (toBroker' = toBroker \/ toBroker' = Append(toBroker, p))
        BY <3>2 DEF Send
      <4> HIDE DEF p
      <4>3. toBroker \in Seq(Packets) /\ NoneOf("SUBSCRIBE", toBroker) /\ NoneOf("SUBACK", toClient)
        BY <3>5 DEF Unasked, IInv, TypeOK, ExternalTypes
      <4>4. AtMostOne("SUBSCRIBE", toBroker')
        <5>1. CASE toBroker' = toBroker
          BY <4>3, <5>1 DEF NoneOf, AtMostOne
        <5>2. CASE toBroker' = Append(toBroker, p)
          BY <4>3, <5>2, FewAppend
        <5> QED
          BY <4>2, <5>1, <5>2
      <4>5. \A j \in 1 .. Len(toBroker') :
              toBroker'[j].type = "SUBSCRIBE" => toBroker'[j].topic = messageHandlers'[s]
        <5>1. CASE toBroker' = toBroker
          BY <4>3, <5>1 DEF NoneOf
        <5>2. CASE toBroker' = Append(toBroker, p)
          <6>1. /\ Len(toBroker) \in Nat /\ Len(toBroker') = Len(toBroker) + 1
                /\ toBroker'[Len(toBroker) + 1] = p
                /\ \A j \in 1 .. Len(toBroker) : toBroker'[j] = toBroker[j]
            BY <4>3, <5>2
          <6> QED
            BY <4>1, <4>3, <6>1 DEF NoneOf
        <5> QED
          BY <4>2, <5>1, <5>2
      <4>6. NoneOf("SUBACK", toClient') /\ AtMostOne("SUBACK", toClient')
        BY <4>2, <4>3 DEF NoneOf, AtMostOne
      <4> QED
        BY <4>4, <4>5, <4>6 DEF Asked
    <3> QED
      BY <3>4, <3>6, <3>7 DEF Renewed, Asked
  \* The SUBACK that is read is for the SUBSCRIBE of this slot.
  <2>13. CASE ResubscribeNext
    <3>1. k = n /\ Top = stack[k] /\ Top.pc = "wait"
      BY <1>1, <2>5, <2>13 DEF ResubscribeNext, Waiting, At
    <3>2. f = [Top EXCEPT !.pc = "send", !.slot = @ + 1]
      <4>1. stack' = WithTop([Top EXCEPT !.pc = "send", !.slot = @ + 1])
        BY <2>13 DEF ResubscribeNext
      <4>2. stack'[n] = [Top EXCEPT !.pc = "send", !.slot = @ + 1]
        BY <1>1, <2>5, <4>1 DEF WithTop, IInv, TypeOK
      <4> QED
        BY <3>1, <4>2
    <3>3. f.pc = "send" /\ f.slot = Top.slot + 1 /\ Top.slot \in Nat
      BY <2>11, <3>1, <3>2 DEF Frames
    <3>4. toClient # <<>> /\ Head(toClient).type = "SUBACK" /\ toClient \in Seq(Packets)
      BY <2>13 DEF ResubscribeNext, Incoming, IInv, TypeOK, ExternalTypes
    <3>5. NoneOf("SUBSCRIBE", toBroker) /\ messageHandlers[Top.slot] \in brokerSubs
      BY <2>10, <3>1, <3>4, FewTail DEF Asked
    <3>6. Unasked'
      <4>1. NoneOf("SUBACK", Tail(toClient))
        BY <2>10, <3>1, <3>4, FewTail DEF Asked
      <4> QED
        BY <2>13, <3>5, <4>1 DEF ResubscribeNext, Read, Unasked
    <3>7. \A j \in Slots : j < Top.slot + 1 => messageHandlers'[j] \in brokerSubs' \cup {NULL}
      <4>1. \A j \in Slots : j < Top.slot => messageHandlers[j] \in brokerSubs \cup {NULL}
        BY <2>10, <3>1 DEF Renewed
      <4>2. \A j \in Slots : j < Top.slot + 1 => j < Top.slot \/ j = Top.slot
        BY <3>3 DEF Slots
      <4> QED
        BY <2>7, <2>9, <3>5, <4>1, <4>2
    <3> QED
      BY <3>3, <3>6, <3>7 DEF Renewed
  <2>14. CASE ~ResubscribeSend /\ ~ResubscribeNext
    <3>1. f.pc = stack[k].pc /\ f.slot = stack[k].slot
      BY <2>3, <2>14 DEF SamePlace
    <3>2. Renewed(stack[k].slot)'
      BY <2>7, <2>9, <2>10, <3>1 DEF Renewed
    <3>3. ASSUME stack[k].pc = "wait" PROVE Asked(stack[k].slot)'
      <4> SUFFICES ASSUME NEW m, m = stack[k].slot, stack'[k].slot = m PROVE Asked(m)'
        BY <3>1 DEF Asked
      <4>1. Asked(m)
        BY <2>10, <3>3 DEF Asked
      <4> QED
        BY <2>6, <2>7, <2>8, <2>14, <4>1, AskedKept
    <3>4. stack[k].pc # "wait" => Unasked'
      BY <2>8, <2>10, <2>14, UnaskedKept
    <3> QED
      BY <3>1, <3>2, <3>3, <3>4
  <2> QED
    BY <2>12, <2>13, <2>14
<1> QED
  BY <1>4, <1>5

(* When resubscribe returns to attempt_reconnect it has been through all slots.  *)
LEMMA AllRenewedStep ==
  ASSUME IInv, PingInv, RenewalInv, Next
  PROVE  AllRenewed'
<1> USE DEF RenewalInv
<1> SUFFICES ASSUME stack' # <<>>, Top'.op = "reconnect", Top'.pc = "resubscribe"
             PROVE  /\ ret' # "NETWORK_RECONNECTED"
                    /\ ret' = "SUCCESS" /\ brokerUp' => Renewed(NumHandlers)'
  BY DEF AllRenewed, At
<1>1. CASE /\ stack # <<>> /\ Top.op = "reconnect" /\ Len(stack') = Len(stack)
           /\ Top'.pc = Top.pc \/ ReconnectConnected
  <2>1. CASE ReconnectConnected
    <3>1. ret' = "none" \/ ret' = "NETWORK_ATTEMPTING_RECONNECT"
      BY <2>1 DEF ReconnectConnected, Return
    <3> QED
      BY <3>1
  <2>2. CASE ExternalNext /\ UNCHANGED <<client, calls>> /\ ~ReconnectConnected
    <3>1. At("reconnect", "resubscribe") /\ UNCHANGED <<ret, messageHandlers>>
      BY <1>1, <2>2 DEF At, client, calls
    <3>2. ~BrokerConnects
      <4>1. ~Waiting("connect") /\ toBroker \in Seq(Packets)
        BY <1>1 DEF Waiting, At, IInv, TypeOK, ExternalTypes
      <4>2. NoneOf("CONNECT", toBroker)
        BY <4>1 DEF PingInv, ConnectAlone, NoneOf
      <4> QED
        BY <4>1, <4>2, FewTail DEF BrokerConnects
    <3>3. brokerUp' => brokerUp
      BY <2>2, <3>2 DEF ExternalNext, BrokerHandles, BrokerPublishes, LinkBreaks
    <3>4. brokerUp' => brokerSubs \subseteq brokerSubs'
      BY <3>3, SubscriptionsStay
    <3> QED
      BY <3>1, <3>3, <3>4 DEF AllRenewed, Renewed
  <2>3. CASE \E op \in {"connect", "resubscribe"} : Rejected(op)
    <3>1. PICK op : Admission(op) # "SUCCESS" /\ ret' = Admission(op) /\ op \in {"connect", "resubscribe"}
      BY <2>3 DEF Rejected, Answer
    <3> QED
      BY <3>1 DEF Admission, AdmissionIf
  <2>4. CASE ConnectFails \/ ConnectUnsent \/ ConnectSent \/ Resubscribe
    <3>1. ret' \in {"NETWORK_DISCONNECTED_ERROR", "FAILURE", "none"}
      BY <2>4, Zenon DEF ConnectFails, ConnectUnsent, ConnectSent, Resubscribe, Push
    <3> QED
      BY <3>1
  <2>5. ~ReconnectResubscribed
    <3>1. Len(Below) # Len(stack)
      BY <1>1, BelowSeq DEF IInv, TypeOK
    <3> QED
      BY <1>1, <3>1, Zenon DEF ReconnectResubscribed, Return
  <2> QED
    BY <1>1, <2>1, <2>2, <2>3, <2>4, <2>5, AtReconnect
<1>2. CASE /\ stack # <<>> /\ Len(stack') = Len(stack) - 1 /\ Top.op = "resubscribe"
           /\ Len(stack) - 1 \in 1 .. Len(stack) /\ stack[Len(stack) - 1].op = "reconnect"
  <2> DEFINE n == Len(stack)
             i == n - 1
  <2>1. n \in 1 .. n /\ i \in 1 .. n - 1 /\ i + 1 = n /\ Top = stack[n] /\ Top \in Frames
    BY <1>2, BelowSeq DEF IInv, TypeOK, Top
  <2>2. ResubscribeEnds \/ RequestTimesOut
    BY <1>2, <2>1, FinishOnly DEF IInv, Restoring
  <2>3. ret' \in {"SUCCESS", "FAILURE", "MQTT_REQUEST_TIMEOUT_ERROR", "MQTT_UNEXPECTED_CLIENT_STATE_ERROR"}
    BY <2>2 DEF ResubscribeEnds, RequestTimesOut, Finish, Return
  <2>4. ASSUME ret' = "SUCCESS", brokerUp' PROVE Renewed(NumHandlers)'
    <3>1. ResubscribeEnds
      BY <2>2, <2>4 DEF RequestTimesOut, Finish, Return
    <3>2. ~(\E s \in Slots : IsNextUsed(s)) /\ clientState = Holds(Top.op)
      BY <2>4, <3>1 DEF ResubscribeEnds, Finish, Return
    <3>3. Top.live /\ Top.pc = "send" /\ brokerUp
      BY <1>2, <2>4, <3>1, <3>2, HolderLives DEF ResubscribeEnds, At, Restoring, external
    <3>4. Renewed(Top.slot)
      BY <1>2, <2>1, <3>3 DEF Renewing
    <3>5. /\ Top.limit \in 0 .. NumHandlers /\ Top.slot <= Top.limit /\ Top.slot \in Nat
          /\ \A j \in Slots : j < Top.limit <=> messageHandlers[j] # NULL
      BY <1>2, <2>1 DEF HandlersFirst, Frames
    <3>6. ~(Top.slot < Top.limit)
      <4> SUFFICES ASSUME Top.slot < Top.limit PROVE FALSE
        OBVIOUS
      <4>1. Top.slot \in Slots /\ \A j \in Slots : ~(Top.slot <= j /\ j < Top.slot)
        BY <3>5, ConstantsAssumption DEF Slots
      <4>2. IsNextUsed(Top.slot)
        BY <3>5, <4>1 DEF IsNextUsed
      <4> QED
        BY <3>2, <4>1, <4>2
    <3>7. \A j \in Slots : j < Top.slot \/ messageHandlers[j] = NULL
      BY <3>5, <3>6 DEF Slots
    <3> QED
      BY <3>1, <3>4, <3>7 DEF Renewed, ResubscribeEnds, external
  <2> QED
    BY <2>3, <2>4
<1>3. ~(AttemptReconnect /\ Top'.pc = "connect")
  OBVIOUS
<1> QED
  BY <1>1, <1>2, <1>3, ComesToReconnect

LEMMA RenewalInvariance ==
  ASSUME CallbacksKeepHandlers, NobodyUnsubscribes
  PROVE  Spec => []RenewalInv
<1>1. Init => RenewalInv
  <2> SUFFICES ASSUME Init PROVE RenewalInv
    OBVIOUS
  <2>1. stack = <<>> /\ toBroker = <<>> /\ \A i \in Slots : messageHandlers[i] = NULL
    BY DEF Init
  <2> QED
    BY <2>1 DEF RenewalInv, NothingUnsubscribed, NoneOf, HandlersFirst, RenewalAlone,
       ReconnectCalls, AskedFirst, Waiting, At, Renewing, AllRenewed
<1>2. IInv /\ SlotInv /\ PingInv /\ RenewalInv /\ [Next]_vars => RenewalInv'
  <2> SUFFICES ASSUME IInv, SlotInv, PingInv, RenewalInv, [Next]_vars PROVE RenewalInv'
    OBVIOUS
  <2>1. CASE Next
    BY <2>1, NothingUnsubscribedStep, HandlersFirstStep, RenewalAloneStep, ReconnectCallsStep,
       AskedFirstStep, RenewingStep, AllRenewedStep DEF RenewalInv
  <2>2. CASE UNCHANGED vars
    BY <2>2 DEF vars, client, calls, external, RenewalInv, NothingUnsubscribed, NoneOf,
       HandlersFirst, RenewalAlone, ReconnectCalls, AskedFirst, Unasked, Asked, Renewed,
       AtMostOne, Waiting, At, Top, Renewing, AllRenewed
  <2> QED
    BY <2>1, <2>2
<1> QED
  BY <1>1, <1>2, SlotInvariance, PingInvariance, Invariance, PTL DEF Spec

(* When attempt_reconnect reports NETWORK_RECONNECTED (connect.c:636-641) and   *)
(* the broker still has the session, it has the subscription of every handler,  *)
(* whatever callbacks publish, disconnect and reconnect meanwhile.  Callbacks   *)
(* do not subscribe: a SUBACK that comes too late for theirs would be taken for *)
(* one of resubscribe's (subscribe.c:374).  Nobody unsubscribes: the slot of    *)
(* the handler that goes would end the loop (subscribe.c:349).                  *)
THEOREM SubscriptionsAreRenewed ==
  ASSUME CallbacksKeepHandlers, NobodyUnsubscribes
  PROVE  Spec => Resubscribed
<1>1. ASSUME IInv, RenewalInv, Next, At("reconnect", "resubscribe"), Len(stack') < Len(stack),
             ret' = "NETWORK_RECONNECTED", brokerUp, NEW i \in Slots
      PROVE  messageHandlers[i] \in brokerSubs \cup {NULL}
  <2>1. stack # <<>> /\ Top.op = "reconnect" /\ Len(stack) \in Nat
    BY <1>1 DEF At, IInv, TypeOK
  <2>2. ReconnectResubscribed
    <3>1. ~UNCHANGED <<client, calls>> /\ ~\E op \in {"connect", "resubscribe"} : Rejected(op)
      BY <1>1, <2>1 DEF calls, Rejected, Answer
    <3>2. ~ConnectFails /\ ~ConnectUnsent /\ ~ConnectSent /\ ~Resubscribe
      BY <1>1, Zenon DEF ConnectFails, ConnectUnsent, ConnectSent, Resubscribe, Push
    <3>3. ~ReconnectConnected
      BY <1>1 DEF ReconnectConnected, At
    <3> QED
      BY <1>1, <2>1, <3>1, <3>2, <3>3, AtReconnect
  <2>3. ret = "SUCCESS"
    BY <1>1, <2>2 DEF ReconnectResubscribed, Return, RenewalInv, AllRenewed
  <2>4. Renewed(NumHandlers)
    BY <1>1, <2>3 DEF RenewalInv, AllRenewed
  <2> QED
    BY <1>1, <2>4, ConstantsAssumption DEF Renewed, Slots
<1>2. IInv /\ RenewalInv /\ [Next]_vars =>
        [At("reconnect", "resubscribe") /\ Len(stack') < Len(stack)
           /\ ret' = "NETWORK_RECONNECTED" /\ brokerUp
           => \A i \in Slots : messageHandlers[i] \in brokerSubs \cup {NULL}]_vars
  BY <1>1
<1> QED
  BY <1>2, RenewalInvariance, Invariance, PTL DEF Spec, Resubscribed

=============================================================================
