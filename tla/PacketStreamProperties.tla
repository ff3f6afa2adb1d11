----------------------- MODULE PacketStreamProperties -----------------------
(* What PacketStream has to keep.                                              *)
EXTENDS PacketStream

\* The packets of a broker that keeps to the protocol.
WellFormed(p) ==
  /\ p \in [type : {"CONNACK", "PUBLISH", "PUBACK", "SUBACK", "UNSUBACK", "PINGRESP"},
            qos : {0, 1}, topic : Nat, rem : Nat]
  /\ p.type = "PUBLISH" =>
       p.rem >= Text(p.topic) + (IF p.qos = 1 THEN TwoBytes ELSE 0)
  /\ p.type # "PUBLISH" => p.qos = 0 /\ p.topic = 0
  /\ p.type \in {"PUBACK", "UNSUBACK"} => p.rem >= TwoBytes
  /\ p.type = "SUBACK" => p.rem > TwoBytes

\* A request has the texts of its kind.
TextsOf ==
  [CONNECT |-> 5, PUBLISH |-> 2, SUBSCRIBE |-> 1, UNSUBSCRIBE |-> 1,
   PUBACK |-> 0, PINGREQ |-> 0, DISCONNECT |-> 0]
Proper(request) ==
  /\ request.kind \in DOMAIN TextsOf /\ request.qos \in {0, 1}
  /\ request.texts \in [1 .. TextsOf[request.kind] -> Nat]

ASSUME ProtocolAssumption ==
  /\ \A p \in Incoming : WellFormed(p)
  /\ \A request \in Requests : Proper(request)

-----------------------------------------------------------------------------
\* What a serialiser writes fits the buffer for which it checked the room before
\* it wrote, at every boundary of the coding of the length: the room is
\* estimated with the header byte counted into the length that is looked up
\* (aws_iot_mqtt_internal_get_final_packet_length_from_remaining_length).
WriterFits == writer.length <= WriteBufSize

\* The broker reads the requests as they were meant: after each of them it is
\* at the start of a packet, so the length announced is the length written, and
\* it never reads content for a header, unless a write was cut short on this
\* connection (aws_iot_mqtt_internal_send_packet).
BrokerInStep ==
  ~cut =>
    /\ writer.pc = "idle" => owed = 0
    /\ ~garbled

-----------------------------------------------------------------------------
(* The refinement: the packets are those not read to their end, and the one   *)
(* the running call has read to its end.                                       *)

Pending ==
  IF reader.pc # "idle" /\ at = 0 THEN <<reader.head>> \o unread ELSE unread

\* What a packet says, by the protocol: an acknowledgement has an identifier, a
\* CONNACK two bytes, and a SUBACK one code for each topic asked for; the code
\* tolerates a second one.
Acceptable(p) ==
  CASE p.type = "CONNACK" -> p.rem = 2
    [] p.type = "SUBACK" -> p.rem \in {3, 4}
    [] OTHER -> TRUE
Meaning(p) ==
  [type |-> MessageTypes[p.type], qos |-> p.qos, topic |-> p.topic,
   payload |-> IF p.type = "PUBLISH"
               THEN p.rem - Text(p.topic) - (IF p.qos = 1 THEN TwoBytes ELSE 0)
               ELSE 0,
   granted |-> IF p.type = "SUBACK" THEN Min({p.rem - 2, 2}) ELSE 0,
   rc |-> CASE p.type = "PINGRESP" -> "none"
            [] p.type # "PINGRESP" /\ Acceptable(p) -> "SUCCESS"
            [] p.type = "CONNACK" /\ ~Acceptable(p) -> "MQTT_DECODE_REMAINING_LENGTH_ERROR"
            [] p.type = "SUBACK" /\ ~Acceptable(p) -> "FAILURE"]
Fits(p) == p.rem < ReadBufSize

Channel == INSTANCE PacketChannel WITH
  Packets <- Incoming, None <- NoContent, Limit <- MaxUnread + 1,
  queue <- IF inStep THEN Pending ELSE <<>>,
  got <- IF inStep THEN read.content ELSE NoContent,
  broken <- ~inStep

\* The calls of read_packet and deserialize_publish implement the channel: each
\* packet that fits is delivered once, whole, in order and with the lengths it
\* was sent with, one that does not is dropped alone, and a call that ends
\* inside a packet is never taken for a delivery.
ImplementsChannel == Channel!Spec

-----------------------------------------------------------------------------
(* Topics.                                                                     *)

Characters == {"a", "b", "/"}
Names == UNION {[1 .. n -> Characters] : n \in 1 .. 4}

\* The levels of a text, by the positions of the separators around them.
Levels(text) ==
  LET Cut == {0, Len(text) + 1} \cup {i \in 1 .. Len(text) : text[i] = "/"}
      After(i) == Min({j \in Cut : j > i})
      Nth[k \in 1 .. Cardinality(Cut)] == IF k = 1 THEN 0 ELSE After(Nth[k - 1])
  IN  [k \in 1 .. Cardinality(Cut) - 1 |-> SubSeq(text, Nth[k] + 1, Nth[k + 1] - 1)]

\* A filter in correct format: wildcards fill a level, and # is the last one.
IsFilter(text) ==
  LET levels == Levels(text)
  IN  \A k \in DOMAIN levels :
        /\ (\E i \in DOMAIN levels[k] : levels[k][i] \in {"+", "#"}) => Len(levels[k]) = 1
        /\ levels[k] = <<"#">> => k = Len(levels)
Filters ==
  {text \in UNION {[1 .. n -> Characters \cup {"+", "#"}] : n \in 1 .. 4} : IsFilter(text)}

\* The rule of the protocol.
MatchesByRule(filter, name) ==
  LET f == Levels(filter)
      n == Levels(name)
      prefix == IF f[Len(f)] = <<"#">> THEN Len(f) - 1 ELSE Len(f)
  IN  /\ IF prefix < Len(f) THEN Len(n) >= prefix ELSE Len(n) = prefix
      /\ \A k \in 1 .. prefix : f[k] \in {<<"+">>, n[k]}

\* The rule also lets # stand for the parent of its level and wildcards for
\* empty levels, which the code does not.
Ordinary(filter, name) ==
  /\ \A k \in DOMAIN Levels(name) : Levels(name)[k] # <<>>
  /\ filter[Len(filter)] = "#" => Len(Levels(name)) >= Len(Levels(filter))

AnswersByRule ==
  \A filter \in Filters, name \in Names :
    /\ IsTopicMatched(filter, name) => MatchesByRule(filter, name)
    /\ Ordinary(filter, name) =>
         IsTopicMatched(filter, name) = MatchesByRule(filter, name)

\* A message that was read goes to the handlers whose filters match by the rule:
\* for every filter in correct format and every name of up to four characters
\* _aws_iot_mqtt_internal_is_topic_matched answers by the rule, for names whose
\* levels are not empty; for the others it never matches against the rule.
TopicsMatch ==
  read.content.type = MessageTypes.PUBLISH /\ read.content.rc = "SUCCESS" => AnswersByRule

=============================================================================
