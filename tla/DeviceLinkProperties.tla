------------------------- MODULE DeviceLinkProperties -------------------------
(* What DeviceLink has to keep.                                                *)
EXTENDS DeviceLink

ConnectSteps == {"dns", "socket", "ssock", "tls", "tcp", "quit"}
ReadSteps == {"read", "reading", "check"}

\* What NetWiFi_isConnected answers is the state of the link, once the events
\* are handled, across the restart of the network processor in setStationMode.
FlagTruthful == events = <<>> => deviceConnected = processor.associated

\* A connection is tried only by a device whose network processor was given an
\* address after it was started for good, that has set its clocks by a time server
\* and has all its certificate files, unless setting a clock or asking for a file
\* failed, which the code does not look at (NetWiFi_init, setTime, flashCerts).
ConnectsPrepared ==
  pc \in ConnectSteps \cup ReadSteps \cup {"up", "down"} =>
    /\ processor.announced
    /\ timeSet \/ "clock" \in ignored
    /\ certs = CertFiles \/ "flash" \in ignored

\* The port leaks nothing: no object is there twice; between its calls nothing is
\* left of a connection that failed or was destroyed, and what there is of an open
\* one is all there (the QUIT ladder of iot_tls_connect, iot_tls_destroy).  Of what
\* is deleted without being there the TLS context is none; the secure socket and
\* descriptor 0 are.
NothingLeaked ==
  /\ \A o \in DOMAIN live : live[o] \in 0 .. 1
  /\ pc = "down" => \A o \in DOMAIN live : live[o] = 0
  /\ pc \in ReadSteps \cup {"up"} =>
       ssock = "open" /\ tlsH = "open" /\ \A o \in DOMAIN live : live[o] = 1
  /\ "tls" \notin strays

\* If the access point is lost only so many times, the poll of NetWiFi_init ends,
\* and the start with it, unless flash fails or the time server was not found.
StartUpEnds ==
  <>[](processor.associated /\ processor.leased) =>
    (pc = "poll" ~> (pc = "down" \/ pc = "halted" \/ ntpHost = "wild"))

\* A call of yield ends: its timer runs out whenever data comes
\* (iot_tls_read waits for what is left, has_timer_expired ends the loop).
ReadingEnds == pc = "read" ~> pc = "up"

=============================================================================
