---------------------------- MODULE PacketChannel ----------------------------
(* What the MQTT client takes the network to be: packets arrive whole and in    *)
(* the order they were sent, one that does not fit is dropped alone, and a call *)
(* that fails half-way breaks the channel until the next connection.            *)
EXTENDS Naturals, Sequences

CONSTANTS Packets, Fits(_), Meaning(_), None, Limit

VARIABLES
  queue,    \* packets on their way
  got,      \* what the last call that was in order delivered
  broken    \* nothing can be said of what is read before the next connection

vars == <<queue, got, broken>>

Init == queue = <<>> /\ got = None /\ broken = FALSE

Send(p) ==
  /\ Len(queue) < Limit
  /\ queue' = Append(queue, p)
  /\ UNCHANGED <<got, broken>>

Call == got' = None /\ UNCHANGED <<queue, broken>>

Deliver ==
  /\ queue # <<>> /\ Fits(Head(queue))
  /\ got' = Meaning(Head(queue)) /\ queue' = Tail(queue)
  /\ UNCHANGED broken

Drop ==
  /\ queue # <<>> /\ ~Fits(Head(queue))
  /\ queue' = Tail(queue)
  /\ UNCHANGED <<got, broken>>

Break == broken' = TRUE /\ queue' = <<>> /\ got' = None

Connect == queue' = <<>> /\ got' = None /\ broken' = FALSE

Next ==
  \/ \E p \in Packets : ~broken /\ Send(p)
  \/ ~broken /\ (Call \/ Deliver \/ Drop \/ Break)
  \/ Connect

Spec == Init /\ [][Next]_vars

=============================================================================
