---------------------------- MODULE PacketStream ----------------------------
(* The byte streams of one connection, as aws_iot_mqtt_client_common_internal.c *)
(* cuts them into packets: _aws_iot_mqtt_internal_read_packet on the way in,   *)
(* the serialisers and aws_iot_mqtt_internal_send_packet on the way out.       *)
(* MqttClient takes packets as whole; this module is about what happens inside *)
(* them: a packet longer than the buffer, a read that times out half-way, a    *)
(* write that is cut short.                                                    *)
(*                                                                             *)
(* The incoming stream is the packets the broker has sent and the position the *)
(* client has read to.  Of the outgoing stream the module keeps how many bytes *)
(* the broker still expects of the packet it is in.                            *)
EXTENDS MqttPacket

CONSTANTS
  Incoming,     \* the packets the broker may send
  Requests,     \* what the client may send
  Payload,      \* the bytes a payload can consist of
  ReadBufSize,  \* AWS_IOT_MQTT_RX_BUF_LEN
  ExpectedCodes, \* maxExpectedQoSCount: the codes a subscribe expects
  MaxUnread     \* packets the broker is ahead of the client

\* A length that is announced can be counted; four digits, one for the length
\* of an identifier, are enough for what the client writes; the array of
\* subscribe has room for three codes.
ASSUME StreamAssumption ==
  /\ \A p \in Incoming : p.rem \in 0 .. SizeModulus - 1
  /\ Payload \subseteq 0 .. (2 * LengthBase - 1)
  /\ TwoBytes < LengthBase
  /\ WriteBufSize <= LengthBase * LengthBase * LengthBase * LengthBase
  /\ ReadBufSize \in Nat \ {0} /\ ExpectedCodes \in 0 .. 2 /\ MaxUnread \in Nat

VARIABLES
  unread,    \* the packets not read to their end
  at,        \* how far the first of them has been read
  reader,    \* the call of _aws_iot_mqtt_internal_read_packet that is running
  read,      \* what the last call returned
  inStep,    \* (history) no call of this connection left a packet half-way
  writer,    \* aws_iot_mqtt_internal_send_packet
  owed,      \* bytes the broker waits for to end the packet it reads
  garbled,   \* the broker took something else for a packet than what was sent
  cut        \* (history) a send of this connection left its packet half-way

stream == <<unread, at>>
incoming == <<stream, reader, read, inStep>>
outgoing == <<writer, owed, garbled, cut>>
vars == <<incoming, outgoing>>

-----------------------------------------------------------------------------
(* The stream of the broker.                                                   *)

Size(p) == 1 + Len(LengthBytes[p.rem]) + p.rem

\* What the byte of packet p at offset i can be.
BytesAt(p, i) ==
  IF i = 0 THEN {HeaderByte(p.type, p.qos)}
  ELSE IF i <= Len(LengthBytes[p.rem]) THEN {LengthBytes[p.rem][i]}
  ELSE Payload

End(i) == Total([j \in 1 .. i |-> Size(unread[j])])
Available == End(Len(unread)) - at

\* What the next read can find.  Once the client is out of step it takes content
\* for headers: from there the stream is not followed and any byte may come.
NextBytes ==
  IF ~inStep THEN Payload ELSE IF Available > 0 THEN BytesAt(unread[1], at) ELSE {}
Enough(n) == inStep => n <= Available

\* n bytes are read.
Consume(n) ==
  IF inStep
  THEN LET k == Max({0} \cup {i \in 1 .. Len(unread) : End(i) <= at + n})
       IN  /\ unread' = SubSeq(unread, k + 1, Len(unread))
           /\ at' = at + n - End(k)
  ELSE UNCHANGED stream

\* A read ended inside the packet.
LoseStep == inStep' = FALSE /\ unread' = <<>> /\ at' = 0

BrokerSends(p) ==
  /\ inStep /\ Len(unread) < MaxUnread
  /\ unread' = Append(unread, p)
  /\ UNCHANGED <<at, reader, read, inStep, outgoing>>

-----------------------------------------------------------------------------
(* Reading a packet.  reader.pc is the read the call waits in, left what the   *)
(* call has yet to read of the packet, head the packet it began with.          *)

NoPacket == [type |-> "PINGRESP", qos |-> 0, topic |-> 0, rem |-> 0]
Idle == [pc |-> "idle", byte |-> 0, rem |-> 0, multiplier |-> 1, left |-> 0, head |-> NoPacket]
NoContent ==
  [type |-> 0, qos |-> 0, topic |-> 0, payload |-> 0, granted |-> 0, rc |-> "none"]

Returns(rc, content, stored) ==
  /\ reader' = Idle
  /\ read' = [rc |-> rc, content |-> content, stored |-> stored]

\* With nothing to read the call ends in MQTT_NOTHING_TO_READ, no failure.
ReadHeader ==
  /\ reader.pc = "idle" /\ writer.pc = "idle"
  /\ \E byte \in NextBytes :
       reader' = [Idle EXCEPT !.pc = "length", !.byte = byte,
                              !.head = IF inStep THEN unread[1] ELSE NoPacket]
  /\ read' = [rc |-> "none", content |-> NoContent, stored |-> 0]
  /\ Consume(1)
  /\ UNCHANGED <<inStep, outgoing>>

IsTooLong(rem) == rem >= ReadBufSize

\* _aws_iot_mqtt_internal_decode_packet_remaining_len: read's out parameter is
\* also the loop counter, so only a digit without the top bit ends the loop.
ReadLength ==
  /\ reader.pc = "length"
  /\ \E byte \in NextBytes :
       LET rem == Accumulated(reader.rem, byte, reader.multiplier)
       IN  reader' = [reader EXCEPT
             !.rem = rem, !.left = rem, !.multiplier = Raised(@),
             !.pc = IF HasMore(byte) THEN "length"
                    ELSE IF IsTooLong(rem) THEN "drain" ELSE "body"]
  /\ Consume(1)
  /\ UNCHANGED <<read, inStep, outgoing>>

ReadLengthTimesOut ==
  /\ reader.pc = "length"
  /\ Returns("NETWORK_SSL_NOTHING_TO_READ", NoContent, 0)
  /\ LoseStep
  /\ UNCHANGED outgoing

\* A packet that does not fit is read in pieces into the buffer and dropped.
Piece(left) == IF left >= ReadBufSize THEN ReadBufSize ELSE left

Drained(n) ==
  /\ Consume(n)
  /\ IF n = reader.left
     THEN Returns("MQTT_RX_BUFFER_TOO_SHORT_ERROR", NoContent, 0)
     ELSE reader' = [reader EXCEPT !.left = @ - n] /\ UNCHANGED read
  /\ UNCHANGED <<inStep, outgoing>>

\* The read may return fewer bytes than it was asked for.
Drain ==
  /\ reader.pc = "drain"
  /\ \E n \in {1, Piece(reader.left) - 1, Piece(reader.left)} \ {0} :
       Enough(n) /\ Drained(n)

\* A read fails: the call returns the same code as if all had been dropped.
DrainFails ==
  /\ reader.pc = "drain"
  /\ Returns("MQTT_RX_BUFFER_TOO_SHORT_ERROR", NoContent, 0)
  /\ LoseStep
  /\ UNCHANGED outgoing

-----------------------------------------------------------------------------
(* What the deserialisers find in a packet that was read as a whole.           *)

FaultyPublishContent ==  \* the packet id is taken for payload
  LET topic == reader.head.topic
  IN  [NoContent EXCEPT !.rc = "SUCCESS", !.qos = HeaderQos(reader.byte), !.topic = topic,
                        !.payload = reader.rem - Text(topic)]

\* aws_iot_mqtt_internal_deserialize_publish, aws_iot_mqtt_read_string_with_len
PublishContent ==
  LET qos == HeaderQos(reader.byte)
      topic == reader.head.topic
  IN  [NoContent EXCEPT !.rc = "SUCCESS", !.qos = qos, !.topic = topic,
         !.payload = reader.rem - Text(topic) - (IF qos # 0 THEN TwoBytes ELSE 0)]

\* aws_iot_mqtt_internal_deserialize_ack: a packet id, whatever follows it.
AckContent ==
  [NoContent EXCEPT !.rc = IF reader.rem < TwoBytes THEN "FAILURE" ELSE "SUCCESS"]

ConnackContent ==
  [NoContent EXCEPT !.rc = IF reader.rem # 2 THEN "MQTT_DECODE_REMAINING_LENGTH_ERROR"
                           ELSE "SUCCESS"]

\* The codes of a SUBACK go into an array.  The limit is compared before the
\* count is raised: one code more than expected is stored and accepted.
SubackContent ==
  LET codes == reader.rem - TwoBytes
  IN  IF codes < 0
      THEN [NoContent EXCEPT !.rc = "FAILURE"]
      ELSE [NoContent EXCEPT !.granted = Min({codes, ExpectedCodes + 1}),
              !.rc = IF codes > ExpectedCodes + 1 THEN "FAILURE" ELSE "SUCCESS"]

Content ==
  LET type == HeaderType(reader.byte)
      found == CASE type = MessageTypes.PUBLISH -> PublishContent
                 [] type = MessageTypes.CONNACK -> ConnackContent
                 [] type = MessageTypes.SUBACK -> SubackContent
                 [] type \in {MessageTypes.PUBACK, MessageTypes.UNSUBACK} -> AckContent
                 [] OTHER -> NoContent
  IN  [found EXCEPT !.type = type]

\* The packet is put together in the buffer: the header byte, the remaining
\* length, coded again, and the rest.  Out of step, what it says is arbitrary.
ReadBody ==
  /\ reader.pc = "body" /\ Enough(reader.left)
  /\ Consume(reader.left)
  /\ LET stored == 1 + Len(LengthBytes[reader.rem]) + reader.rem
     IN  IF inStep
         THEN Returns("SUCCESS", Content, stored)
         ELSE \E rc \in {"SUCCESS", "FAILURE"} : Returns(rc, NoContent, stored)
  /\ UNCHANGED <<inStep, outgoing>>

ReadBodyTimesOut ==
  /\ reader.pc = "body" /\ reader.left > 0
  /\ Returns("FAILURE", NoContent, 0)
  /\ LoseStep
  /\ UNCHANGED outgoing

-----------------------------------------------------------------------------
(* Writing a packet.                                                           *)

NoWriter == [pc |-> "idle", length |-> 0, left |-> 0, declared |-> 0, kind |-> "none", qos |-> 0]

Serialize(request) ==
  /\ writer.pc = "idle" /\ reader.pc = "idle"
  /\ LET packet == PacketOf(request)
         length == PacketLength(packet)
     IN  /\ packet.room <= WriteBufSize
         /\ writer' = [pc |-> "write", length |-> length, left |-> length,
                       declared |-> packet.declared, kind |-> request.kind, qos |-> request.qos]
  /\ UNCHANGED <<incoming, owed, garbled, cut>>

\* MQTT_TX_BUFFER_TOO_SHORT_ERROR: a packet that fills the buffer is not sent.
SendRefused ==
  /\ writer.pc = "write" /\ writer.length >= WriteBufSize
  /\ writer' = NoWriter
  /\ UNCHANGED <<incoming, owed, garbled, cut>>

Understood(byte) ==
  HeaderType(byte) = MessageTypes[writer.kind] /\ HeaderQos(byte) = writer.qos

\* The broker takes n bytes of the packet being written, at the start of a packet
\* or wherever it takes itself to be.  After a write was cut short it is not
\* followed.
Take(n) ==
  LET starts == owed = 0 /\ writer.left = writer.length
      expected == IF owed = 0
                  THEN 1 + Len(LengthBytes[writer.declared]) + writer.declared
                  ELSE owed
      isMeant == /\ n <= expected
                 /\ starts => Understood(HeaderByte(writer.kind, writer.qos))
                 /\ owed # 0 \/ starts
  IN  IF cut
      THEN UNCHANGED <<owed, garbled>>
      ELSE /\ owed' = IF isMeant THEN expected - n ELSE 0
           /\ garbled' = (garbled \/ ~isMeant)

Write ==
  /\ writer.pc = "write" /\ writer.length < WriteBufSize
  /\ \E n \in {1, writer.left - 1, writer.left} \ {0} :
       /\ Take(n)
       /\ writer' = IF n = writer.left THEN NoWriter ELSE [writer EXCEPT !.left = @ - n]
  /\ UNCHANGED <<incoming, cut>>

\* The time is over, or the write failed: FAILURE, and the connection stays.
WriteFails ==
  /\ writer.pc = "write" /\ writer.length < WriteBufSize
  /\ writer' = NoWriter
  /\ cut' = (cut \/ writer.left # writer.length)
  /\ owed' = 0
  /\ UNCHANGED <<incoming, garbled>>

-----------------------------------------------------------------------------
NoRead == [rc |-> "none", content |-> NoContent, stored |-> 0]

\* A new connection starts new streams.
Reconnect ==
  /\ reader.pc = "idle" /\ writer.pc = "idle"
  /\ unread' = <<>> /\ at' = 0 /\ read' = NoRead /\ inStep' = TRUE
  /\ owed' = 0 /\ garbled' = FALSE /\ cut' = FALSE
  /\ UNCHANGED <<reader, writer>>

Init ==
  /\ unread = <<>> /\ at = 0 /\ reader = Idle /\ read = NoRead /\ inStep = TRUE
  /\ writer = NoWriter /\ owed = 0 /\ garbled = FALSE /\ cut = FALSE

Next ==
  \/ \E p \in Incoming : BrokerSends(p)
  \/ ReadHeader \/ ReadLength \/ ReadLengthTimesOut
  \/ Drain \/ DrainFails \/ ReadBody \/ ReadBodyTimesOut
  \/ \E request \in Requests : Serialize(request)
  \/ SendRefused \/ Write \/ WriteFails
  \/ Reconnect

Spec == Init /\ [][Next]_vars

=============================================================================
