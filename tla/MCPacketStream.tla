--------------------------- MODULE MCPacketStream ---------------------------
EXTENDS PacketStreamProperties

\* Around the boundaries of the length's coding (7 and 8, 63 and 64) and of the
\* buffers (40).
Publish(qos, topic, rem) == [type |-> "PUBLISH", qos |-> qos, topic |-> topic, rem |-> rem]
Plain(type, rem) == [type |-> type, qos |-> 0, topic |-> 0, rem |-> rem]
MCIncoming ==
  {Publish(0, 3, 8), Publish(1, 3, 7), Publish(1, 9, 39), Publish(0, 9, 40), Publish(0, 9, 90),
   Plain("PINGRESP", 0), Plain("CONNACK", 3), Plain("UNSUBACK", 2),
   Plain("SUBACK", 3), Plain("SUBACK", 7)}

Ask(kind, qos, texts) == [kind |-> kind, qos |-> qos, texts |-> texts]
MCRequests ==
  {Ask("CONNECT", 0, <<4, 0, 0, 0, 0>>), Ask("CONNECT", 0, <<4, 3, 5, 2, 2>>)}
    \cup {Ask("PUBLISH", qos, <<3, n>>) : qos \in {0, 1}, n \in {0, 2, 30, 31, 32, 33, 34}}
    \cup {Ask("SUBSCRIBE", 1, <<n>>) : n \in {2, 3, 31, 32, 33}}
    \cup {Ask("UNSUBSCRIBE", 1, <<n>>) : n \in {3, 4, 32, 33, 34}}
    \cup {Ask(kind, 0, <<>>) : kind \in {"PUBACK", "PINGREQ", "DISCONNECT"}}
=============================================================================
