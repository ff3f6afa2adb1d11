----------------------------- MODULE MqttPacket -----------------------------
(* The formats of the MQTT packets the client writes and reads: the coding of *)
(* the remaining length, the header byte, the lengths of what the serialisers *)
(* write, and the matching of a topic with a filter.  A packet is the number  *)
(* of bytes of each of its fields.                                            *)
EXTENDS Integers, Sequences, FiniteSets, FiniteSetsExt

CONSTANTS
  LengthBase,    \* 128: the digits of a remaining length, low digit first
  SizeModulus,   \* size_t counts modulo this
  WriteBufSize   \* AWS_IOT_MQTT_TX_BUF_LEN

ASSUME PacketAssumption ==
  /\ LengthBase \in Nat \ {0, 1}
  /\ SizeModulus \in Nat \ {0}
  /\ WriteBufSize \in Nat

-----------------------------------------------------------------------------
(* The remaining length.                                                      *)

\* aws_iot_mqtt_internal_write_len_to_buffer: every digit but the last has the
\* top bit set.
LengthBytes[n \in Nat] ==
  IF n < LengthBase
  THEN <<n>>
  ELSE <<LengthBase + (n % LengthBase)>> \o LengthBytes[n \div LengthBase]

HasMore(byte) == byte >= LengthBase

\* One turn of the decoding loops.
Accumulated(sum, byte, multiplier) ==
  (sum + (byte % LengthBase) * multiplier) % SizeModulus
Raised(multiplier) == (multiplier * LengthBase) % SizeModulus

FaultyFinalLength(rem) ==  \* the header byte is left out
  rem + (IF rem < LengthBase THEN 1
         ELSE IF rem < LengthBase * LengthBase THEN 2
         ELSE IF rem < LengthBase * LengthBase * LengthBase THEN 3
         ELSE 4)

\* aws_iot_mqtt_internal_get_final_packet_length_from_remaining_length: the
\* header byte is added before the length of the length is looked up.
FinalLength(rem) ==
  LET n == rem + 1
  IN  n + (IF n < LengthBase THEN 1
           ELSE IF n < LengthBase * LengthBase THEN 2
           ELSE IF n < LengthBase * LengthBase * LengthBase THEN 3
           ELSE 4)

-----------------------------------------------------------------------------
(* The header byte.                                                           *)

MessageTypes ==
  [CONNECT |-> 1, CONNACK |-> 2, PUBLISH |-> 3, PUBACK |-> 4, SUBSCRIBE |-> 8,
   SUBACK |-> 9, UNSUBSCRIBE |-> 10, UNSUBACK |-> 11, PINGREQ |-> 12,
   PINGRESP |-> 13, DISCONNECT |-> 14]

HeaderByte(type, qos) == MessageTypes[type] * 16 + (IF qos = 1 THEN 2 ELSE 0)
HeaderType(byte) == (byte \div 16) % 16
HeaderQos(byte) == (byte \div 2) % 4

-----------------------------------------------------------------------------
(* The serialisers.  A packet is the remaining length that is announced, the   *)
(* room the serialiser asks for before it writes, and the lengths of the       *)
(* fields it writes behind the header.  A request has the lengths of its       *)
(* texts: a publication its topic and payload, a subscription one topic, a     *)
(* connection the client id, the will's topic and message, the user name and   *)
(* the password (0: not given).                                                *)

TwoBytes == 2
Text(len) == 2 + len
TextIf(len) == IF len = 0 THEN 0 ELSE Text(len)

Serialized(declared, fields) ==
  [declared |-> declared, room |-> FinalLength(declared), fields |-> fields]

\* _aws_iot_get_connect_packet_length
ConnectLength(texts) ==
  10 + texts[1] + 2
     + (IF texts[2] = 0 THEN 0 ELSE texts[2] + 2 + texts[3] + 2)
     + (IF texts[4] = 0 THEN 0 ELSE texts[4] + 2)
     + (IF texts[5] = 0 THEN 0 ELSE texts[5] + 2)

ConnectPacket(texts) ==
  Serialized(ConnectLength(texts),
    <<Text(4), 1, 1, TwoBytes, Text(texts[1])>>
      \o (IF texts[2] = 0 THEN <<>> ELSE <<Text(texts[2]), Text(texts[3])>>)
      \o <<TextIf(texts[4]), TextIf(texts[5])>>)

FaultyPublishPacket(texts, qos) ==  \* a packet id is always counted
  Serialized(texts[1] + texts[2] + 2 + 2,
    <<Text(texts[1])>> \o (IF qos > 0 THEN <<TwoBytes>> ELSE <<>>) \o <<texts[2]>>)

PublishPacket(texts, qos) ==
  Serialized(texts[1] + texts[2] + 2 + (IF qos > 0 THEN 2 ELSE 0),
    <<Text(texts[1])>> \o (IF qos > 0 THEN <<TwoBytes>> ELSE <<>>) \o <<texts[2]>>)

SubscribePacket(texts) ==
  Serialized(2 + texts[1] + 2 + 1, <<TwoBytes, Text(texts[1]), 1>>)

UnsubscribePacket(texts) ==
  Serialized(2 + texts[1] + 2, <<TwoBytes, Text(texts[1])>>)

\* An acknowledgement, and a packet without content, ask for a fixed room.
AckPacket == [declared |-> 2, room |-> 4, fields |-> <<TwoBytes>>]
ZeroPacket == [declared |-> 0, room |-> 4, fields |-> <<>>]

PacketOf(request) ==
  CASE request.kind = "CONNECT" -> ConnectPacket(request.texts)
    [] request.kind = "PUBLISH" -> PublishPacket(request.texts, request.qos)
    [] request.kind = "SUBSCRIBE" -> SubscribePacket(request.texts)
    [] request.kind = "UNSUBSCRIBE" -> UnsubscribePacket(request.texts)
    [] request.kind = "PUBACK" -> AckPacket
    [] request.kind \in {"PINGREQ", "DISCONNECT"} -> ZeroPacket

Total(lengths) ==
  LET sum[n \in 0 .. Len(lengths)] == IF n = 0 THEN 0 ELSE sum[n - 1] + lengths[n]
  IN  sum[Len(lengths)]

PacketLength(packet) == 1 + Len(LengthBytes[packet.declared]) + Total(packet.fields)

-----------------------------------------------------------------------------
(* Topics: sequences of characters.                                           *)

FaultySkipLevel(name, curn) == Len(name)  \* + takes all the levels

\* _aws_iot_mqtt_internal_is_topic_matched: curf and curn are the cursors, one
\* past the end when a text is used up.
SkipLevel(name, curn) ==
  LET Ends == {i \in curn .. Len(name) : i = Len(name) \/ name[i + 1] = "/"}
  IN  Min(Ends)

IsTopicMatched(filter, name) ==
  LET walk[curf \in 1 .. Len(filter) + 1, curn \in 1 .. Len(name) + 1] ==
        IF curf > Len(filter) \/ curn > Len(name)
        THEN curf > Len(filter) /\ curn > Len(name)
        ELSE IF \/ name[curn] = "/" /\ filter[curf] # "/"
                \/ filter[curf] \notin {"+", "#", name[curn]}
        THEN FALSE
        ELSE walk[curf + 1,
                  1 + CASE filter[curf] = "+" -> SkipLevel(name, curn)
                        [] filter[curf] = "#" -> Len(name)
                        [] OTHER -> curn]
  IN  walk[1, 1]

=============================================================================
