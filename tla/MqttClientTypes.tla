-------------------------- MODULE MqttClientTypes --------------------------
(* Lemmas on the operators MqttClient is built from, and its type invariant. *)
EXTENDS MqttClientProperties, SequenceTheorems, TLAPS

----------------------------------------------------------------------------
(* The call stack *)

(* Ending every session changes nothing else of the stack. *)
LEMMA OrphanedSeq ==
  ASSUME NEW s \in Seq(Frames)
  PROVE  /\ Orphaned(s) \in Seq(Frames)
         /\ Len(Orphaned(s)) = Len(s)
         /\ \A i \in 1 .. Len(s) : Orphaned(s)[i] = [s[i] EXCEPT !.live = FALSE]
<1>1. \A i \in 1 .. Len(s) : [s[i] EXCEPT !.live = FALSE] \in Frames
  <2> TAKE i \in 1 .. Len(s)
  <2>1. s[i] \in Frames
    OBVIOUS
  <2> QED  BY <2>1 DEF Frames
<1>2. Orphaned(s) \in [1 .. Len(s) -> Frames]
  BY <1>1 DEF Orphaned
<1>3. Len(s) \in Nat
  OBVIOUS
<1> QED
  BY <1>2, <1>3 DEF Orphaned

(* A return takes the top frame away. *)
LEMMA BelowSeq ==
  ASSUME stack \in Seq(Frames), stack # <<>>
  PROVE  /\ Below \in Seq(Frames)
         /\ Len(stack) \in Nat \ {0} /\ Len(Below) = Len(stack) - 1
         /\ \A i \in 1 .. Len(stack) - 1 : Below[i] = stack[i]
         /\ Top \in Frames
<1>1. Len(stack) \in Nat \ {0}
  OBVIOUS
<1>2. \A i \in 1 .. Len(stack) - 1 : stack[i] \in Frames
  OBVIOUS
<1>3. Below \in [1 .. Len(stack) - 1 -> Frames] /\ Len(stack) - 1 \in Nat
  BY <1>1, <1>2 DEF Below
<1>4. Below \in Seq(Frames) /\ Len(Below) = Len(stack) - 1
  BY <1>3 DEF Below
<1>5. \A i \in 1 .. Len(stack) - 1 : Below[i] = stack[i]
  BY DEF Below
<1>6. Top \in Frames
  BY <1>1 DEF Top
<1> QED
  BY <1>1, <1>4, <1>5, <1>6

(* Replacing the top frame changes no other. *)
LEMMA WithTopSeq ==
  ASSUME stack \in Seq(Frames), stack # <<>>, NEW f \in Frames
  PROVE  /\ WithTop(f) \in Seq(Frames) /\ Len(WithTop(f)) = Len(stack)
         /\ WithTop(f) # <<>>
         /\ WithTop(f)[Len(stack)] = f
         /\ \A i \in 1 .. Len(stack) - 1 : WithTop(f)[i] = stack[i]
  BY DEF WithTop

(* A new frame goes on top. *)
LEMMA AppendSeq ==
  ASSUME NEW s \in Seq(Frames), NEW f \in Frames
  PROVE  /\ Append(s, f) \in Seq(Frames) /\ Len(Append(s, f)) = Len(s) + 1
         /\ Append(s, f)[Len(s) + 1] = f
         /\ \A i \in 1 .. Len(s) : Append(s, f)[i] = s[i]
  OBVIOUS

LEMMA FrameType ==
  ASSUME ClientTypes, NEW op \in FrameOps, NEW pc \in Places
  PROVE  Frame(op, pc) \in Frames
  BY DEF Frame, Frames, ClientTypes

(* A frame stays a frame when fields change within their types. *)
LEMMA ChangedType ==
  ASSUME NEW f \in Frames
  PROVE  /\ \A pc \in Places : [f EXCEPT !.pc = pc] \in Frames
         /\ \A topic \in Topics \cup {NULL} : [f EXCEPT !.topic = topic] \in Frames
         /\ \A limit \in Nat : [f EXCEPT !.limit = limit] \in Frames
         /\ \A live \in BOOLEAN : [f EXCEPT !.live = live] \in Frames
         /\ \A pc \in Places, slot \in Nat : [f EXCEPT !.pc = pc, !.slot = slot] \in Frames
         /\ \A pc \in Places, live \in BOOLEAN :
              [f EXCEPT !.pc = pc, !.live = live] \in Frames
         /\ \A topic \in Topics \cup {NULL}, slot \in Nat :
              [f EXCEPT !.topic = topic, !.slot = slot] \in Frames
         /\ \A topic \in Topics \cup {NULL}, qos \in {0, 1} :
              [f EXCEPT !.topic = topic, !.qos = qos] \in Frames
  BY DEF Frames

(* The top frame goes on to another place. *)
LEMMA GotoSeq ==
  ASSUME stack \in Seq(Frames), stack # <<>>, NEW pc \in Places, Goto(pc)
  PROVE  /\ stack' \in Seq(Frames) /\ Len(stack') = Len(stack) /\ stack' # <<>>
         /\ stack'[Len(stack)] = [Top EXCEPT !.pc = pc]
         /\ \A i \in 1 .. Len(stack) - 1 : stack'[i] = stack[i]
<1>1. [Top EXCEPT !.pc = pc] \in Frames
  BY BelowSeq, ChangedType
<1> QED
  BY <1>1, WithTopSeq DEF Goto

----------------------------------------------------------------------------
(* The helpers of the actions keep the types *)

LEMMA SetClientStateType ==
  ASSUME clientState \in ClientStates, NEW expected, NEW new \in ClientStates,
         SetClientState(expected, new)
  PROVE  clientState' \in ClientStates
  BY DEF SetClientState

LEMMA HoldsType == ASSUME NEW op PROVE Holds(op) \in ClientStates
  BY DEF Holds, ClientStates, ConnectedStates, Busy

LEMMA FinishType ==
  ASSUME TypeOK, stack # <<>>, NEW rc, Finish(rc)
  PROVE  clientState' \in ClientStates /\ stack' \in Seq(Frames)
<1>1. Top.saved \in ClientStates
  BY BelowSeq DEF TypeOK, Frames
<1>2. clientState' \in ClientStates
  BY <1>1, SetClientStateType DEF Finish, TypeOK, ClientTypes
<1> QED
  BY <1>2, BelowSeq DEF Finish, Return, TypeOK

LEMMA SendType ==
  ASSUME ExternalTypes, NEW p \in Packets, Send(p)
  PROVE  ExternalTypes'
  BY DEF Send, ExternalTypes

LEMMA ReadType ==
  ASSUME ExternalTypes, toClient # <<>>, Read
  PROVE  ExternalTypes' /\ Head(toClient) \in Packets
  BY DEF Read, ExternalTypes

LEMMA DestroyType ==
  ASSUME TypeOK, Destroy
  PROVE  ExternalTypes' /\ ssock' \in {"null", "open", "freed"}
<1>1. CASE ssock = "null"
  <2>1. UNCHANGED <<ssock, external>>
    BY <1>1 DEF Destroy
  <2> QED
    BY <2>1 DEF TypeOK, ClientTypes, ExternalTypes, external
<1>2. CASE ssock # "null"
  <2>1. /\ ssock' = "freed" /\ link' = FALSE /\ brokerUp' = FALSE
        /\ brokerSubs' = {} /\ toBroker' = <<>> /\ toClient' = <<>>
    BY <1>2 DEF Destroy
  <2>2. <<>> \in Seq(Packets)
    OBVIOUS
  <2> QED
    BY <2>1, <2>2, Zenon DEF ExternalTypes
<1> QED
  BY <1>1, <1>2

LEMMA PacketType ==
  ASSUME NEW type \in {"CONNECT", "CONNACK", "PUBLISH", "PUBACK", "SUBSCRIBE", "SUBACK",
                       "UNSUBSCRIBE", "UNSUBACK", "PINGREQ", "PINGRESP"},
         NEW topic \in Topics \cup {NULL}, NEW arg \in {0, 1}
  PROVE  Packet(type, topic, arg) \in Packets /\ Plain(type) \in Packets
  BY DEF Packet, Plain, Packets

LEMMA ClientSame == ASSUME ClientTypes, UNCHANGED client PROVE ClientTypes'
  BY DEF ClientTypes, client

LEMMA ExternalSame == ASSUME ExternalTypes, UNCHANGED external PROVE ExternalTypes'
  BY DEF ExternalTypes, external

----------------------------------------------------------------------------
(* Calls *)

LEMMA CallTypes ==
  ASSUME TypeOK, CallNext
  PROVE  TypeOK'
<1> USE DEF TypeOK
<1>1. ASSUME NEW op \in CallOps, Rejected(op) PROVE TypeOK'
  BY <1>1, ClientSame, ExternalSame DEF Rejected, Answer
<1>2. ASSUME NEW status \in BOOLEAN, SetAutoReconnect(status) PROVE TypeOK'
  <2>1. ClientTypes'
    BY <1>2, Zenon DEF SetAutoReconnect, ClientTypes
  <2> QED
    BY <1>2, <2>1, ExternalSame DEF SetAutoReconnect, Answer
<1>3. ASSUME ConnectFails PROVE TypeOK'
  <2>1. ClientTypes'
    BY <1>3, Zenon DEF ConnectFails, ClientTypes, ClientStates
  <2>2. ExternalTypes'
    <3>1. <<>> \in Seq(Packets)
      OBVIOUS
    <3> QED
      BY <1>3, <3>1, Zenon DEF ConnectFails, ExternalTypes
  <2> QED
    BY <1>3, <2>1, <2>2, OrphanedSeq DEF ConnectFails
<1>4. ASSUME ConnectSent PROVE TypeOK'
  <2>1. ClientTypes'
    BY <1>4, Zenon DEF ConnectSent, ClientTypes, ClientStates
  <2>2. ExternalTypes'
    <3>1. <<>> \in Seq(Packets) /\ <<Plain("CONNECT")>> \in Seq(Packets)
      BY PacketType
    <3> QED
      BY <1>4, <3>1, Zenon DEF ConnectSent, ExternalTypes
  <2>3. Frame("connect", "wait") \in Frames
    BY FrameType DEF FrameOps, Places
  <2> QED
    BY <1>4, <2>1, <2>2, <2>3, OrphanedSeq, AppendSeq, Zenon DEF ConnectSent
<1>5. ASSUME ConnectUnsent PROVE TypeOK'
  <2>1. ClientTypes'
    BY <1>5, Zenon DEF ConnectUnsent, ClientTypes, ClientStates, ConnectValid
  <2>2. ExternalTypes'
    <3>1. <<>> \in Seq(Packets)
      OBVIOUS
    <3> QED
      BY <1>5, <3>1, Zenon DEF ConnectUnsent, ExternalTypes
  <2> QED
    BY <1>5, <2>1, <2>2, OrphanedSeq DEF ConnectUnsent
<1>6. ASSUME Disconnect PROVE TypeOK'
  <2>1. Destroy
    BY <1>6 DEF Disconnect
  <2>2. ClientTypes' /\ ExternalTypes'
    BY <1>6, <2>1, DestroyType, Zenon DEF Disconnect, ClientTypes, ClientStates, ConnectValid
  <2>3. stack' \in Seq(Frames)
    BY <1>6, OrphanedSeq DEF Disconnect
  <2> QED
    BY <2>2, <2>3
<1>7. ASSUME NEW op, NEW rc, RequestRefused(op, rc) PROVE TypeOK'
  BY <1>7, ClientSame, ExternalSame DEF RequestRefused, Answer
<1>8. ASSUME NEW topic \in Topics, Subscribe(topic) PROVE TypeOK'
  <2>1. CASE \E rc : RequestRefused("subscribe", rc)
    BY <2>1, <1>7
  <2>2. CASE ~\E rc : RequestRefused("subscribe", rc)
    <3>1. PICK free \in Slots :
            Push([Frame("subscribe", "wait") EXCEPT !.topic = topic, !.slot = free])
      BY <1>8, <2>2 DEF Subscribe
    <3>2. [Frame("subscribe", "wait") EXCEPT !.topic = topic, !.slot = free] \in Frames
      <4>1. Frame("subscribe", "wait") \in Frames
        BY FrameType DEF FrameOps, Places
      <4>2. topic \in Topics \cup {NULL} /\ free \in Nat
        BY DEF Slots
      <4> QED
        BY <4>1, <4>2, ChangedType
    <3>3. stack' \in Seq(Frames)
      BY <3>1, <3>2 DEF Push
    <3>4. /\ Send(Packet("SUBSCRIBE", topic, 0)) /\ clientState' = Holds("subscribe")
          /\ UNCHANGED <<isPingOutstanding, isAutoReconnectEnabled, waitInterval,
                         messageHandlers, readBuf, ssock>>
      BY <1>8, <2>2 DEF Subscribe
    <3>5. ExternalTypes'
      BY <3>4, PacketType, SendType
    <3>6. ClientTypes'
      BY <3>4, HoldsType, Zenon DEF ClientTypes
    <3> QED
      BY <3>3, <3>5, <3>6
  <2> QED
    BY <2>1, <2>2
<1>9. ASSUME NEW topic \in Topics, Unsubscribe(topic) PROVE TypeOK'
  <2>1. CASE RequestRefused("unsubscribe", "FAILURE")
    BY <2>1, <1>7
  <2>2. CASE ~RequestRefused("unsubscribe", "FAILURE")
    <3>1. /\ Push([Frame("unsubscribe", "wait") EXCEPT !.topic = topic])
          /\ Send(Packet("UNSUBSCRIBE", topic, 0)) /\ clientState' = Holds("unsubscribe")
          /\ UNCHANGED <<isPingOutstanding, isAutoReconnectEnabled, waitInterval,
                         messageHandlers, readBuf, ssock>>
      BY <1>9, <2>2 DEF Unsubscribe
    <3>2. [Frame("unsubscribe", "wait") EXCEPT !.topic = topic] \in Frames
      <4>1. Frame("unsubscribe", "wait") \in Frames
        BY FrameType DEF FrameOps, Places
      <4> QED
        BY <4>1, ChangedType
    <3>3. stack' \in Seq(Frames)
      BY <3>1, <3>2 DEF Push
    <3>4. ExternalTypes'
      BY <3>1, PacketType, SendType
    <3>5. ClientTypes'
      BY <3>1, HoldsType, Zenon DEF ClientTypes
    <3> QED
      BY <3>3, <3>4, <3>5
  <2> QED
    BY <2>1, <2>2
<1>10. ASSUME NEW qos \in {0, 1}, Publish(qos) PROVE TypeOK'
  <2>1. CASE RequestRefused("publish", "FAILURE")
    BY <2>1, <1>7
  <2>2. CASE ~RequestRefused("publish", "FAILURE")
    <3>1. /\ Send(Packet("PUBLISH", NULL, qos))
          /\ IF qos = 0 THEN Answer("SUCCESS") /\ UNCHANGED clientState
             ELSE Push(Frame("publish", "wait")) /\ clientState' = Holds("publish")
          /\ UNCHANGED <<isPingOutstanding, isAutoReconnectEnabled, waitInterval,
                         messageHandlers, readBuf, ssock>>
      BY <1>10, <2>2 DEF Publish
    <3>2. Frame("publish", "wait") \in Frames
      BY FrameType DEF FrameOps, Places
    <3>3. stack' \in Seq(Frames)
      BY <3>1, <3>2 DEF Push, Answer
    <3>4. ExternalTypes'
      BY <3>1, PacketType, SendType
    <3>5. ClientTypes'
      BY <3>1, HoldsType, Zenon DEF ClientTypes
    <3> QED
      BY <3>3, <3>4, <3>5
  <2> QED
    BY <2>1, <2>2
<1>11. ASSUME Resubscribe PROVE TypeOK'
  <2>1. PICK free \in 0 .. NumHandlers :
          Push([Frame("resubscribe", "send") EXCEPT !.limit = free])
    BY <1>11 DEF Resubscribe
  <2>2. [Frame("resubscribe", "send") EXCEPT !.limit = free] \in Frames
    <3>1. Frame("resubscribe", "send") \in Frames
      BY FrameType DEF FrameOps, Places
    <3>2. free \in Nat
      OBVIOUS
    <3> QED
      BY <3>1, <3>2, ChangedType, Zenon
  <2>3. stack' \in Seq(Frames)
    BY <2>1, <2>2 DEF Push
  <2>4. ClientTypes'
    BY <1>11, HoldsType, Zenon DEF Resubscribe, ClientTypes
  <2> QED
    BY <1>11, <2>3, <2>4, ExternalSame DEF Resubscribe
<1>12. ASSUME Yield PROVE TypeOK'
  <2>1. [Frame("yield", "loop") EXCEPT !.live = IsConnected] \in Frames
    <3>1. IsConnected \in BOOLEAN
      BY DEF IsConnected
    <3>2. Frame("yield", "loop") \in Frames
      BY FrameType DEF FrameOps, Places
    <3> QED
      BY <3>1, <3>2, ChangedType
  <2>2. stack' \in Seq(Frames)
    BY <1>12, <2>1 DEF Yield, Push
  <2>3. ClientTypes'
    BY <1>12, HoldsType, Zenon DEF Yield, ClientTypes
  <2> QED
    BY <1>12, <2>2, <2>3, ExternalSame DEF Yield
<1>13. ASSUME AttemptReconnect PROVE TypeOK'
  <2>1. Frame("reconnect", "connect") \in Frames
    BY FrameType DEF FrameOps, Places
  <2> QED
    BY <1>13, <2>1, ClientSame, ExternalSame DEF AttemptReconnect, Push
<1> QED
  BY <1>1, <1>2, <1>3, <1>4, <1>5, <1>6, <1>8, <1>9, <1>10, <1>11, <1>12, <1>13
     DEF CallNext

----------------------------------------------------------------------------
(* Waiting and delivering *)

(* An operation ends and only its state and frame go. *)
LEMMA EndsType ==
  ASSUME TypeOK, stack # <<>>, NEW rc, Finish(rc), ExternalTypes',
         UNCHANGED <<isPingOutstanding, isAutoReconnectEnabled, waitInterval,
                     messageHandlers, readBuf, ssock>>
  PROVE  TypeOK'
  BY FinishType, Zenon DEF TypeOK, ClientTypes

LEMMA OverwriteType ==
  ASSUME ClientTypes, OverwriteReadBuf PROVE readBuf' \in Topics \cup {NULL}
  BY DEF OverwriteReadBuf, ClientTypes

LEMMA WaitTypes ==
  ASSUME TypeOK, WaitNext
  PROVE  TypeOK'
<1> USE DEF TypeOK
<1>1. ASSUME ConnectAccepted PROVE TypeOK'
  <2>1. clientState' \in ClientStates
    BY <1>1, SetClientStateType DEF ConnectAccepted, ClientTypes, ClientStates, ConnectedStates
  <2>2. ClientTypes'
    BY <1>1, <2>1, Zenon DEF ConnectAccepted, ClientTypes
  <2>3. stack' \in Seq(Frames)
    BY <1>1, BelowSeq DEF ConnectAccepted, Waiting, At, Return
  <2> QED
    BY <1>1, <2>2, <2>3, ReadType DEF ConnectAccepted, Incoming
<1>2. ASSUME ConnectAbandoned PROVE TypeOK'
  <2>1. clientState' \in ClientStates
    BY <1>2, SetClientStateType
       DEF ConnectAbandoned, ClientTypes, ClientStates, ConnectValid
  <2>2. ssock' \in {"null", "open", "freed"} /\ ExternalTypes'
    BY <1>2, DestroyType DEF ConnectAbandoned
  <2>3. ClientTypes'
    BY <1>2, <2>1, <2>2, Zenon DEF ConnectAbandoned, ClientTypes
  <2>4. stack' \in Seq(Frames)
    BY <1>2, BelowSeq, OrphanedSeq DEF ConnectAbandoned, Waiting, At
  <2> QED
    BY <2>2, <2>3, <2>4
<1>3. ASSUME Subscribed PROVE TypeOK'
  <2>1. stack # <<>> /\ Top \in Frames
    BY <1>3, BelowSeq DEF Subscribed, Waiting, At
  <2>2. clientState' \in ClientStates /\ stack' \in Seq(Frames)
    BY <1>3, <2>1, FinishType DEF Subscribed
  <2>3. messageHandlers' \in [Slots -> Topics \cup {NULL}]
    BY <1>3, <2>1 DEF Subscribed, ClientTypes, Frames
  <2>4. ClientTypes'
    BY <1>3, <2>2, <2>3, OverwriteType, Zenon DEF Subscribed, ClientTypes
  <2> QED
    BY <1>3, <2>2, <2>4, ReadType DEF Subscribed, Incoming
<1>4. ASSUME Unsubscribed PROVE TypeOK'
  <2>1. stack # <<>>
    BY <1>4 DEF Unsubscribed, Waiting, At
  <2>2. clientState' \in ClientStates /\ stack' \in Seq(Frames)
    BY <1>4, <2>1, FinishType DEF Unsubscribed
  <2>3. messageHandlers' \in [Slots -> Topics \cup {NULL}]
    BY <1>4 DEF Unsubscribed, ClientTypes
  <2>4. ClientTypes'
    BY <1>4, <2>2, <2>3, Zenon DEF Unsubscribed, ClientTypes
  <2> QED
    BY <1>4, <2>2, <2>4, ReadType DEF Unsubscribed, Incoming
<1>5. ASSUME Published PROVE TypeOK'
  BY <1>5, EndsType, ReadType DEF Published, Incoming, Waiting, At
<1>6. ASSUME ResubscribeSend PROVE TypeOK'
  <2>1. PICK i \in Slots :
          /\ Send(Packet("SUBSCRIBE", messageHandlers[i], 0))
          /\ stack' = WithTop([Top EXCEPT !.pc = "wait", !.slot = i])
    BY <1>6 DEF ResubscribeSend
  <2>2. stack # <<>> /\ Top \in Frames
    BY <1>6, BelowSeq DEF ResubscribeSend, At
  <2>3. [Top EXCEPT !.pc = "wait", !.slot = i] \in Frames
    <3>1. "wait" \in Places /\ i \in Nat
      BY DEF Places, Slots
    <3> QED
      BY <2>2, <3>1, ChangedType, Zenon
  <2>4. messageHandlers[i] \in Topics \cup {NULL}
    BY DEF ClientTypes
  <2>5. ExternalTypes'
    BY <2>1, <2>4, PacketType, SendType
  <2> QED
    BY <1>6, <2>1, <2>2, <2>3, <2>5, WithTopSeq, ClientSame DEF ResubscribeSend
<1>7. ASSUME ResubscribeNext PROVE TypeOK'
  <2>1. stack # <<>> /\ Top \in Frames
    BY <1>7, BelowSeq DEF ResubscribeNext, Waiting, At
  <2>2. [Top EXCEPT !.pc = "send", !.slot = @ + 1] \in Frames
    <3>1. "send" \in Places /\ Top.slot + 1 \in Nat
      BY <2>1 DEF Places, Frames
    <3> QED
      BY <2>1, <3>1, ChangedType, Zenon
  <2>3. ClientTypes'
    BY <1>7, OverwriteType, Zenon DEF ResubscribeNext, ClientTypes
  <2> QED
    BY <1>7, <2>1, <2>2, <2>3, WithTopSeq, ReadType DEF ResubscribeNext, Incoming
<1>8. ASSUME ResubscribeEnds PROVE TypeOK'
  BY <1>8, EndsType, ExternalSame DEF ResubscribeEnds, At
<1>9. ASSUME RequestTimesOut PROVE TypeOK'
  BY <1>9, EndsType, ExternalSame DEF RequestTimesOut
<1>10. ASSUME ReadOther PROVE TypeOK'
  <2>1. isPingOutstanding' \in BOOLEAN
    BY <1>10, Zenon DEF ReadOther, ClientTypes
  <2>2. readBuf' \in Topics \cup {NULL}
    BY <1>10, OverwriteType DEF ReadOther, ClientTypes
  <2>3. ClientTypes'
    BY <1>10, <2>1, <2>2, Zenon DEF ReadOther, ClientTypes
  <2>4. stack' \in Seq(Frames)
    <3>1. CASE UNCHANGED stack
      BY <3>1
    <3>2. CASE Cycling /\ Goto("keepalive")
      BY <3>2, GotoSeq DEF Cycling, At, Places
    <3> QED
      BY <1>10, <3>1, <3>2 DEF ReadOther
  <2> QED
    BY <1>10, <2>3, <2>4, ReadType DEF ReadOther
<1>11. ASSUME ReadPublish PROVE TypeOK'
  <2>1. Head(toClient) \in Packets /\ ExternalTypes'
    BY <1>11, ReadType DEF ReadPublish, Incoming
  <2>2. ClientTypes'
    <3>1. readBuf' \in Topics \cup {NULL}
      BY <1>11, <2>1 DEF ReadPublish, Packets
    <3> QED
      BY <1>11, <3>1, HoldsType, Zenon DEF ReadPublish, ClientTypes
  <2>3. stack # <<>> /\ Top \in Frames
    BY <1>11, BelowSeq DEF ReadPublish, Cycling, At
  <2> DEFINE f == [Top EXCEPT !.pc = IF @ = "loop" THEN "deliver" ELSE @]
             g == [Frame("deliver", "scan") EXCEPT !.topic = Head(toClient).topic,
                                                   !.qos = Head(toClient).arg]
  <2>4. f \in Frames
    BY <2>3 DEF Frames, Places
  <2>5. g \in Frames
    <3>1. Frame("deliver", "scan") \in Frames
      BY FrameType DEF FrameOps, Places
    <3>2. Head(toClient).topic \in Topics \cup {NULL} /\ Head(toClient).arg \in {0, 1}
      BY <2>1 DEF Packets
    <3> QED
      BY <3>1, <3>2, ChangedType, Zenon
  <2>6. stack' = Append(WithTop(f), g)
    BY <1>11 DEF ReadPublish
  <2> HIDE DEF f, g
  <2> QED
    BY <2>1, <2>2, <2>3, <2>4, <2>5, <2>6, WithTopSeq, AppendSeq, Zenon
<1> QED
  BY <1>1, <1>2, <1>3, <1>4, <1>5, <1>6, <1>7, <1>8, <1>9, <1>10, <1>11 DEF WaitNext

LEMMA DeliverTypes ==
  ASSUME TypeOK, DeliverNext
  PROVE  TypeOK'
<1> USE DEF TypeOK
<1>1. ASSUME CallHandler PROVE TypeOK'
  <2>1. PICK i \in Slots : stack' = WithTop([Top EXCEPT !.pc = "callback", !.slot = i])
    BY <1>1 DEF CallHandler
  <2>2. stack # <<>> /\ Top \in Frames
    BY <1>1, BelowSeq DEF CallHandler, At
  <2>3. [Top EXCEPT !.pc = "callback", !.slot = i] \in Frames
    <3>1. "callback" \in Places /\ i \in Nat
      BY DEF Places, Slots
    <3> QED
      BY <2>2, <3>1, ChangedType, Zenon
  <2> QED
    BY <1>1, <2>1, <2>2, <2>3, WithTopSeq, ClientSame, ExternalSame DEF CallHandler
<1>2. ASSUME HandlerReturns PROVE TypeOK'
  <2>1. stack # <<>> /\ Top \in Frames
    BY <1>2, BelowSeq DEF HandlerReturns, InMessageCallback, At
  <2>2. [Top EXCEPT !.pc = "scan", !.slot = @ + 1] \in Frames
    <3>1. "scan" \in Places /\ Top.slot + 1 \in Nat
      BY <2>1 DEF Places, Frames
    <3> QED
      BY <2>1, <3>1, ChangedType, Zenon
  <2> QED
    BY <1>2, <2>1, <2>2, WithTopSeq, ClientSame, ExternalSame DEF HandlerReturns
<1>3. ASSUME Delivered PROVE TypeOK'
  BY <1>3, EndsType, ExternalSame DEF Delivered, At
<1>4. ASSUME Acknowledge PROVE TypeOK'
  <2>1. ExternalTypes'
    BY <1>4, PacketType, SendType, ExternalSame DEF Acknowledge
  <2> QED
    BY <1>4, <2>1, EndsType DEF Acknowledge, At
<1> QED
  BY <1>1, <1>2, <1>3, <1>4 DEF DeliverNext

----------------------------------------------------------------------------
(* yield and reconnect *)

(* yield returns and only the state and its frame go. *)
LEMMA YieldReturnsType ==
  ASSUME TypeOK, stack # <<>>, NEW rc, YieldReturns(rc)
  PROVE  clientState' \in ClientStates /\ stack' \in Seq(Frames)
<1>1. clientState' \in ClientStates
  BY SetClientStateType DEF YieldReturns, TypeOK, ClientTypes, ClientStates, ConnectedStates
<1> QED
  BY <1>1, BelowSeq DEF YieldReturns, Return, TypeOK

(* The top frame goes on and the client keeps its variables. *)
LEMMA GoesOnType ==
  ASSUME TypeOK, stack # <<>>, NEW pc \in Places, Goto(pc), UNCHANGED <<client, external>>
  PROVE  TypeOK'
  BY GotoSeq, ClientSame, ExternalSame DEF TypeOK

LEMMA BackOffType ==
  ASSUME TypeOK, stack # <<>>, NEW rc, BackOff(rc)
  PROVE  waitInterval' \in Nat /\ stack' \in Seq(Frames)
  BY GotoSeq DEF BackOff, TypeOK, ClientTypes, Places

LEMMA YieldTypes ==
  ASSUME TypeOK, YieldNext
  PROVE  TypeOK'
<1> USE DEF TypeOK
<1>1. ASSUME YieldExpires PROVE TypeOK'
  <2>1. clientState' \in ClientStates /\ stack' \in Seq(Frames)
    BY <1>1, YieldReturnsType DEF YieldExpires, At
  <2>2. ClientTypes'
    BY <1>1, <2>1, Zenon DEF YieldExpires, ClientTypes
  <2> QED
    BY <1>1, <2>1, <2>2, ExternalSame DEF YieldExpires
<1>2. ASSUME YieldLoops PROVE TypeOK'
  BY <1>2, GoesOnType DEF YieldLoops, At, Places
<1>3. ASSUME YieldReadsNothing PROVE TypeOK'
  BY <1>3, GoesOnType DEF YieldReadsNothing, Cycling, At, Places
<1>4. ASSUME YieldFails PROVE TypeOK'
  <2>1. clientState' \in ClientStates /\ stack' \in Seq(Frames)
    BY <1>4, YieldReturnsType DEF YieldFails, Cycling, At
  <2>2. ClientTypes'
    BY <1>4, <2>1, Zenon DEF YieldFails, ClientTypes
  <2> QED
    BY <1>4, <2>1, <2>2, ExternalSame DEF YieldFails
<1>5. ASSUME YieldDelivered PROVE TypeOK'
  BY <1>5, GoesOnType DEF YieldDelivered, At, Places
<1>6. ASSUME KeepAliveNotDue PROVE TypeOK'
  BY <1>6, GoesOnType DEF KeepAliveNotDue, At, Places
<1>7. ASSUME KeepAlivePing PROVE TypeOK'
  <2>1. stack' \in Seq(Frames)
    BY <1>7, GotoSeq DEF KeepAlivePing, At, Places
  <2>2. ClientTypes'
    BY <1>7, Zenon DEF KeepAlivePing, ClientTypes
  <2> QED
    BY <1>7, <2>1, <2>2, PacketType, SendType DEF KeepAlivePing
<1>8. ASSUME ConnectionLost PROVE TypeOK'
  <2>1. stack # <<>> /\ Top \in Frames
    BY <1>8, BelowSeq DEF ConnectionLost, Cycling, At
  <2>2. [Top EXCEPT !.pc = "handler"] \in Frames
    BY <2>1, ChangedType DEF Places
  <2>3. stack' \in Seq(Frames)
    BY <1>8, <2>1, <2>2, WithTopSeq, OrphanedSeq DEF ConnectionLost
  <2>4. clientState' \in ClientStates
    BY <1>8 DEF ConnectionLost, ClientStates, ConnectValid
  <2>5. ExternalTypes' /\ ssock' \in {"null", "open", "freed"}
    BY <1>8, DestroyType DEF ConnectionLost
  <2>6. ClientTypes'
    BY <1>8, <2>4, <2>5, Zenon DEF ConnectionLost, ClientTypes
  <2> QED
    BY <2>3, <2>5, <2>6
<1>9. ASSUME DisconnectHandlerReturns PROVE TypeOK'
  <2>1. stack' \in Seq(Frames)
    BY <1>9, GotoSeq, BelowSeq
       DEF DisconnectHandlerReturns, InDisconnectHandler, At, Return, Places
  <2>2. clientState' \in ClientStates
    BY <1>9 DEF DisconnectHandlerReturns, ClientStates, ConnectValid
  <2>3. waitInterval' \in Nat
    BY <1>9, ConstantsAssumption DEF DisconnectHandlerReturns, ClientTypes
  <2>4. ClientTypes'
    BY <1>9, <2>2, <2>3, Zenon DEF DisconnectHandlerReturns, ClientTypes
  <2> QED
    BY <1>9, <2>1, <2>4, ExternalSame DEF DisconnectHandlerReturns
<1> QED
  BY <1>1, <1>2, <1>3, <1>4, <1>5, <1>6, <1>7, <1>8, <1>9 DEF YieldNext

LEMMA ReconnectTypes ==
  ASSUME TypeOK, ReconnectNext
  PROVE  TypeOK'
<1> USE DEF TypeOK
<1>1. ASSUME ReconnectTimedOut PROVE TypeOK'
  <2>1. clientState' \in ClientStates /\ stack' \in Seq(Frames)
    BY <1>1, YieldReturnsType DEF ReconnectTimedOut, ReconnectPending, At
  <2>2. ClientTypes'
    BY <1>1, <2>1, Zenon DEF ReconnectTimedOut, ClientTypes
  <2> QED
    BY <1>1, <2>1, <2>2, ExternalSame DEF ReconnectTimedOut
<1>2. ASSUME ReconnectDelayed PROVE TypeOK'
  BY <1>2, GoesOnType DEF ReconnectDelayed, ReconnectPending, At, Places
<1>3. ASSUME ReconnectDue PROVE TypeOK'
  <2>1. stack # <<>>
    BY <1>3 DEF ReconnectDue, ReconnectPending, At
  <2>2. \/ Goto("reconnect") /\ UNCHANGED waitInterval
        \/ \E code : BackOff(code)
    BY <1>3, Zenon DEF ReconnectDue
  <2>3. stack' \in Seq(Frames) /\ waitInterval' \in Nat
    BY <2>1, <2>2, GotoSeq, BackOffType DEF Places, ClientTypes
  <2>4. ClientTypes'
    BY <1>3, <2>3, Zenon DEF ReconnectDue, ClientTypes
  <2> QED
    BY <1>3, <2>3, <2>4, ExternalSame DEF ReconnectDue
<1>4. ASSUME ReconnectAttempted PROVE TypeOK'
  <2>1. stack # <<>> /\ Top \in Frames
    BY <1>4, BelowSeq DEF ReconnectAttempted, At
  <2>2. CASE ret = "NETWORK_RECONNECTED"
    <3>1. [Top EXCEPT !.pc = "check", !.live = (clientState = "IDLE")] \in Frames
      <4>1. "check" \in Places /\ (clientState = "IDLE") \in BOOLEAN
        BY DEF Places
      <4> QED
        BY <2>1, <4>1, ChangedType, Zenon
    <3>2. /\ stack' = WithTop([Top EXCEPT !.pc = "check", !.live = (clientState = "IDLE")])
          /\ SetClientState("IDLE", Holds("yield"))
          /\ UNCHANGED waitInterval
      BY <1>4, <2>2, Zenon DEF ReconnectAttempted
    <3>3. stack' \in Seq(Frames)
      BY <2>1, <3>1, <3>2, WithTopSeq, Zenon
    <3>4. clientState' \in ClientStates
      BY <3>2, HoldsType, SetClientStateType DEF ClientTypes
    <3>5. ClientTypes'
      BY <1>4, <3>2, <3>4, Zenon DEF ReconnectAttempted, ClientTypes
    <3> QED
      BY <1>4, <3>3, <3>5, ExternalSame, Zenon DEF ReconnectAttempted
  <2>3. CASE ret # "NETWORK_RECONNECTED"
    <3>1. BackOff(ret) /\ UNCHANGED clientState
      BY <1>4, <2>3, Zenon DEF ReconnectAttempted
    <3>2. waitInterval' \in Nat /\ stack' \in Seq(Frames)
      BY <2>1, <3>1, BackOffType
    <3>3. ClientTypes'
      BY <1>4, <3>1, <3>2, Zenon DEF ReconnectAttempted, ClientTypes
    <3> QED
      BY <1>4, <3>2, <3>3, ExternalSame, Zenon DEF ReconnectAttempted
  <2> QED
    BY <2>2, <2>3
<1>5. ASSUME ReconnectConnected PROVE TypeOK'
  <2>1. clientState' \in ClientStates
    BY <1>5, SetClientStateType
       DEF ReconnectConnected, ClientTypes, ClientStates, ConnectValid
  <2>2. stack' \in Seq(Frames)
    BY <1>5, GotoSeq, BelowSeq DEF ReconnectConnected, At, Return, Places
  <2>3. ClientTypes'
    BY <1>5, <2>1, Zenon DEF ReconnectConnected, ClientTypes
  <2> QED
    BY <1>5, <2>2, <2>3, ExternalSame DEF ReconnectConnected
<1>6. ASSUME ReconnectResubscribed PROVE TypeOK'
  BY <1>6, BelowSeq, ClientSame, ExternalSame DEF ReconnectResubscribed, At, Return
<1> QED
  BY <1>1, <1>2, <1>3, <1>4, <1>5, <1>6 DEF ReconnectNext

----------------------------------------------------------------------------
(* The broker and the link *)

LEMMA BrokerTypes ==
  ASSUME TypeOK, ExternalNext
  PROVE  TypeOK'
<1> USE DEF TypeOK
<1> SUFFICES ExternalTypes'
  BY ClientSame DEF ExternalNext, BrokerConnects, BrokerHandles, BrokerPublishes, LinkBreaks,
                    calls
<1>1. ASSUME BrokerConnects PROVE ExternalTypes'
  <2>1. PICK accepted \in {0, 1} :
          /\ brokerUp' = (accepted = 1)
          /\ toClient' = Append(toClient, Packet("CONNACK", NULL, accepted))
    BY <1>1 DEF BrokerConnects
  <2>2. brokerUp' \in BOOLEAN
    BY <2>1
  <2>3. toClient' \in Seq(Packets)
    <3>1. Packet("CONNACK", NULL, accepted) \in Packets
      BY PacketType
    <3> QED
      BY <2>1, <3>1 DEF ExternalTypes
  <2>4. toBroker' \in Seq(Packets)
    BY <1>1 DEF BrokerConnects, ExternalTypes
  <2> QED
    BY <1>1, <2>2, <2>3, <2>4, Zenon DEF BrokerConnects, ExternalTypes
<1>2. ASSUME BrokerHandles PROVE ExternalTypes'
  <2> DEFINE p == Head(toBroker)
  <2>1. /\ toBroker # <<>>
        /\ brokerSubs' = CASE p.type = "SUBSCRIBE"   -> brokerSubs \cup {p.topic}
                           [] p.type = "UNSUBSCRIBE" -> brokerSubs \ {p.topic}
                           [] OTHER                  -> brokerSubs
        /\ toClient' = IF p.type = "PUBACK" \/ (p.type = "PUBLISH" /\ p.arg = 0)
                       THEN toClient ELSE Append(toClient, Plain(ReplyTo(p)))
        /\ toBroker' = Tail(toBroker)
    BY <1>2 DEF BrokerHandles
  <2>2. p \in Packets /\ toBroker' \in Seq(Packets)
    BY <2>1 DEF ExternalTypes
  <2>3. p.topic \in Topics \cup {NULL}
    BY <2>2 DEF Packets
  <2>4. brokerSubs' \subseteq Topics \cup {NULL}
    <3> HIDE DEF p
    <3> QED
      BY <2>1, <2>3 DEF ExternalTypes
  <2>5. toClient' \in Seq(Packets)
    <3>1. ReplyTo(p) \in {"SUBACK", "UNSUBACK", "PINGRESP", "PUBACK"}
      BY DEF ReplyTo
    <3>2. Plain(ReplyTo(p)) \in Packets
      <4> DEFINE q == ReplyTo(p)
      <4>1. q \in {"CONNECT", "CONNACK", "PUBLISH", "PUBACK", "SUBSCRIBE", "SUBACK",
                   "UNSUBSCRIBE", "UNSUBACK", "PINGREQ", "PINGRESP"}
        BY <3>1
      <4> HIDE DEF q
      <4>2. Plain(q) \in Packets
        BY <4>1 DEF Plain, Packet, Packets
      <4> QED
        BY <4>2 DEF q
    <3> HIDE DEF p
    <3> QED
      BY <2>1, <3>2 DEF ExternalTypes
  <2> QED
    BY <1>2, <2>2, <2>4, <2>5, Zenon DEF BrokerHandles, ExternalTypes
<1>3. ASSUME NEW topic \in Topics, NEW qos \in {0, 1}, BrokerPublishes(topic, qos)
      PROVE ExternalTypes'
  <2>1. toClient' \in Seq(Packets)
    BY <1>3, PacketType DEF BrokerPublishes, ExternalTypes
  <2> QED
    BY <1>3, <2>1, Zenon DEF BrokerPublishes, ExternalTypes
<1>4. ASSUME LinkBreaks PROVE ExternalTypes'
  <2>1. <<>> \in Seq(Packets)
    OBVIOUS
  <2> QED
    BY <1>4, <2>1, Zenon DEF LinkBreaks, ExternalTypes
<1> QED
  BY <1>1, <1>2, <1>3, <1>4 DEF ExternalNext

----------------------------------------------------------------------------
(* The theorem *)

LEMMA TypeInit == Init => TypeOK
<1> SUFFICES ASSUME Init PROVE TypeOK
  OBVIOUS
<1>1. ClientTypes
  <2>1. waitInterval \in Nat
    BY ConstantsAssumption DEF Init
  <2>2. messageHandlers \in [Slots -> Topics \cup {NULL}]
    BY DEF Init
  <2>3. clientState \in ClientStates
    BY DEF Init, ClientStates, ConnectValid
  <2> QED
    BY <2>1, <2>2, <2>3, Zenon DEF Init, ClientTypes
<1>2. stack \in Seq(Frames)
  BY DEF Init
<1>3. ExternalTypes
  <2>1. <<>> \in Seq(Packets)
    OBVIOUS
  <2> QED
    BY <2>1, Zenon DEF Init, ExternalTypes
<1> QED
  BY <1>1, <1>2, <1>3 DEF TypeOK

LEMMA TypeStep == TypeOK /\ [Next]_vars => TypeOK'
<1> SUFFICES ASSUME TypeOK, [Next]_vars PROVE TypeOK'
  OBVIOUS
<1>1. CASE Next
  BY <1>1, CallTypes, WaitTypes, DeliverTypes, YieldTypes, ReconnectTypes, BrokerTypes
     DEF Next
<1>2. CASE UNCHANGED vars
  BY <1>2, ClientSame, ExternalSame DEF TypeOK, vars, calls
<1> QED
  BY <1>1, <1>2

(* Every variable of the client, every frame of its stack and every packet    *)
(* under way keep their types, for any set of topics, any table size, any     *)
(* back-off interval and any depth of nested callbacks.                        *)
THEOREM TypeCorrect == Spec => []TypeOK
<1>1. Init => TypeOK
  BY TypeInit
<1>2. TypeOK /\ [Next]_vars => TypeOK'
  BY TypeStep
<1> QED
  BY <1>1, <1>2, PTL DEF Spec

=============================================================================
