------------------------------ MODULE DeviceLink ------------------------------
(* What is below the MQTT client: the start of the AWS thread (main_tirtos.c,  *)
(* netwifi.c, startsntp.c), the Wi-Fi events it polls for, and the TLS port of *)
(* network_sl.c with the timer that bounds its reads.                          *)
(*                                                                             *)
(* The network processor reports what happens to the link in events, handled   *)
(* later by another thread, sl_Task, whose callbacks set two flags.  The AWS   *)
(* thread goes from one blocking call to the next.                             *)
EXTENDS Timer, Sequences

CONSTANTS
  CertFiles,   \* the certificate and key files awsThreadFxn writes to flash
  Timeouts,    \* what the client yields for, in ms
  MaxEvents    \* events not yet handled

ASSUME DeviceLinkAssumption ==
  /\ Timeouts \subseteq 1 .. MaxTimeout - 1
  /\ MaxEvents \in Nat

VARIABLES
  pc,                           \* where the AWS thread waits
  deviceConnected, ipAcquired,  \* the flags of netwifi.c
  processor, events,            \* the network processor and its events
  ntpHost, timeSet, certs,      \* startNTP, the clocks, the files in flash
  tried,                        \* the files flashCerts was called for
  ignored,                      \* (history) what failed and nobody looked at
  ssock, tlsH,                  \* pNetwork->tlsDataParams
  skt,                          \* a local of iot_tls_connect
  live,                         \* (history) the objects that exist
  strays                        \* (history) what was deleted and did not exist

flags == <<deviceConnected, ipAcquired>>
wifi == <<processor, events>>
startup == <<ntpHost, timeSet, certs, tried, ignored>>
port == <<ssock, tlsH, skt, live, strays>>
vars == <<pc, flags, wifi, startup, port, timerVars>>

-----------------------------------------------------------------------------
(* The network processor: associated, and with an address, which it has as     *)
(* long as the association lasts; announced (history) says that it got one     *)
(* since it was last started.                                                  *)

Off == [on |-> FALSE, associated |-> FALSE, leased |-> FALSE, announced |-> FALSE]

Event(e) == Len(events) < MaxEvents /\ events' = Append(events, e)

Associates ==
  /\ processor.on /\ ~processor.associated
  /\ processor' = [processor EXCEPT !.associated = TRUE]
  /\ Event("CONNECT")
  /\ UNCHANGED <<pc, flags, startup, port, timerVars>>

Leases ==
  /\ processor.associated /\ ~processor.leased
  /\ processor' = [processor EXCEPT !.leased = TRUE, !.announced = TRUE]
  /\ Event("IPV4_ACQUIRED")
  /\ UNCHANGED <<pc, flags, startup, port, timerVars>>

Dissociates ==
  /\ processor.associated
  /\ processor' = [processor EXCEPT !.associated = FALSE, !.leased = FALSE]
  /\ Event("DISCONNECT")
  /\ UNCHANGED <<pc, flags, startup, port, timerVars>>

FaultyWlanFlag(event) ==  \* DISCONNECT is not handled
  IF event = "CONNECT" THEN TRUE ELSE deviceConnected

\* SimpleLinkWlanEventHandler, SimpleLinkNetAppEventHandler
WlanFlag(event) ==
  CASE event = "CONNECT" -> TRUE
    [] event = "DISCONNECT" -> FALSE
    [] OTHER -> deviceConnected

HandleEvent ==
  /\ events # <<>>
  /\ deviceConnected' = WlanFlag(Head(events))
  /\ ipAcquired' = (ipAcquired \/ Head(events) = "IPV4_ACQUIRED")
  /\ events' = Tail(events)
  /\ UNCHANGED <<pc, processor, startup, port, timerVars>>

-----------------------------------------------------------------------------
(* The start.                                                                  *)

Go(from, to) == pc = from /\ pc' = to

\* setStationMode: the processor connects with the profile it has stored, until
\* it is stopped.
StationMode ==
  /\ Go("boot", "station")
  /\ processor' = [Off EXCEPT !.on = TRUE]
  /\ UNCHANGED <<flags, events, startup, port, timerVars>>

StationModeFails ==
  /\ Go("boot", "halted")
  /\ UNCHANGED <<flags, wifi, startup, port, timerVars>>

FaultyStationModeSet ==  \* the address of the first start still counts
  /\ Go("station", "start")
  /\ processor' = Off /\ events' = <<>>
  /\ deviceConnected' = FALSE
  /\ UNCHANGED <<ipAcquired, startup, port, timerVars>>

StationModeSet ==
  /\ Go("station", "start")
  /\ processor' = Off /\ events' = <<>>
  /\ deviceConnected' = FALSE /\ ipAcquired' = FALSE
  /\ UNCHANGED <<startup, port, timerVars>>

\* Whether sl_Start and wlanConnect succeed or not, NetWiFi_init goes on to poll.
StartProcessor ==
  /\ Go("start", "poll")
  /\ processor' \in {[Off EXCEPT !.on = TRUE], Off}
  /\ UNCHANGED <<flags, events, startup, port, timerVars>>

\* The button starts the provisioning, which helps the processor to connect.
Provision ==
  /\ pc = "poll" /\ ~processor.on
  /\ processor' = [Off EXCEPT !.on = TRUE]
  /\ UNCHANGED <<pc, flags, events, startup, port, timerVars>>

PollEnds ==
  /\ deviceConnected /\ ipAcquired
  /\ Go("poll", "resolve")
  /\ UNCHANGED <<flags, wifi, startup, port, timerVars>>

\* startNTP: a host that cannot be resolved is reported, and its address read
\* through a null pointer: the thread is lost, or it asks an arbitrary address.
ResolveNtp ==
  /\ \/ ntpHost' = "known" /\ Go("resolve", "sntp")
     \/ ntpHost' = "wild" /\ (Go("resolve", "sntp") \/ Go("resolve", "lost"))
  /\ UNCHANGED <<flags, wifi, timeSet, certs, tried, ignored, port, timerVars>>

\* setTime sets the clock of the host and of the processor; whether it could
\* is not looked at.
SetTime ==
  /\ \/ timeSet' = TRUE /\ UNCHANGED ignored
     \/ ignored' = ignored \cup {"clock"} /\ UNCHANGED timeSet
  /\ UNCHANGED <<ntpHost, certs, tried>>

FaultyGetTime ==  \* the answer does not end the polling
  /\ ntpHost = "known"
  /\ Go("sntp", "sleep")
  /\ SetTime
  /\ UNCHANGED <<flags, wifi, port, timerVars>>

\* After a failure the same address is asked again, NTP_POLL_TIME later.
GetTime ==
  /\ ntpHost = "known"
  /\ Go("sntp", "certs")
  /\ SetTime
  /\ UNCHANGED <<flags, wifi, port, timerVars>>

GetTimeFails ==
  /\ Go("sntp", "sleep")
  /\ UNCHANGED <<flags, wifi, startup, port, timerVars>>

Slept ==
  /\ Go("sleep", "sntp")
  /\ UNCHANGED <<flags, wifi, startup, port, timerVars>>

\* flashCerts, for one file after the other: one that exists is left, one that
\* does not is written; one that cannot be asked about is left as well.
FlashCert ==
  /\ pc = "certs"
  /\ \E file \in CertFiles \ tried :
       /\ tried' = tried \cup {file}
       /\ \/ certs' = certs \cup {file} /\ UNCHANGED ignored
          \/ ignored' = ignored \cup {"flash"} /\ UNCHANGED certs
  /\ UNCHANGED <<pc, flags, wifi, ntpHost, timeSet, port, timerVars>>

\* A file that cannot be written stops the thread.
FlashFails ==
  /\ ~(CertFiles \ tried \subseteq certs)
  /\ Go("certs", "halted")
  /\ UNCHANGED <<flags, wifi, startup, port, timerVars>>

Flashed ==
  /\ tried = CertFiles
  /\ Go("certs", "down")
  /\ UNCHANGED <<flags, wifi, startup, port, timerVars>>

-----------------------------------------------------------------------------
(* iot_tls_connect, one action for each call that may fail, and QUIT.  The    *)
(* client calls it when it has no connection, in pc "down".                    *)

\* The objects: TLS contexts, sockets with TLS, sockets.  Only what was created
\* is counted; strays has what was deleted without being there.
Created(object) == live' = [live EXCEPT ![object] = @ + 1]

TlsCreate ==
  /\ pc = "down"
  /\ \/ tlsH' = "open" /\ Created("tls") /\ pc' = "dns"
     \/ tlsH' = "null" /\ pc' = "quit" /\ UNCHANGED live
  /\ skt' = "zero"
  /\ UNCHANGED <<ssock, strays, flags, wifi, startup, timerVars>>

Resolve ==
  /\ Go("dns", "socket") \/ Go("dns", "quit")
  /\ UNCHANGED <<flags, wifi, startup, port, timerVars>>

Socket ==
  /\ \/ skt' = "open" /\ Created("skt") /\ Go("socket", "ssock")
     \/ skt' = "none" /\ Go("socket", "quit") /\ UNCHANGED live
  /\ UNCHANGED <<ssock, tlsH, strays, flags, wifi, startup, timerVars>>

SsockCreate ==
  /\ \/ ssock' = "open" /\ Created("ssock") /\ Go("ssock", "tls")
     \/ ssock' = "null" /\ Go("ssock", "quit") /\ UNCHANGED live
  /\ UNCHANGED <<tlsH, skt, strays, flags, wifi, startup, timerVars>>

StartTls ==
  /\ Go("tls", "tcp") \/ Go("tls", "quit")
  /\ UNCHANGED <<flags, wifi, startup, port, timerVars>>

TcpConnect ==
  /\ \/ Go("tcp", "up") /\ skt' = "none"
     \/ Go("tcp", "quit") /\ UNCHANGED skt
  /\ UNCHANGED <<ssock, tlsH, live, strays, flags, wifi, startup, timerVars>>

Deleted(objects) ==
  live' = [o \in DOMAIN live |-> IF o \in objects THEN live[o] - 1 ELSE live[o]]

\* The handles that are at value.
At(value) ==
  {o \in {"tls", "ssock", "skt"} : [tls |-> tlsH, ssock |-> ssock, skt |-> skt][o] = value}

\* QUIT deletes by the handles that are set.  One that iot_tls_destroy left
\* dangling is deleted a second time, after which the thread may be lost; and
\* while there is no socket yet, skt is descriptor 0, whosever that is.
Quit ==
  /\ Go("quit", "down") \/ (ssock = "dangling" /\ Go("quit", "lost"))
  /\ Deleted(At("open"))
  /\ strays' = strays \cup At("dangling") \cup At("zero")
  /\ ssock' = "null" /\ tlsH' = "null" /\ skt' = "none"
  /\ UNCHANGED <<flags, wifi, startup, timerVars>>

FaultyDestroy ==  \* the TLS context is left
  /\ Go("up", "down")
  /\ Deleted({"ssock", "skt"})
  /\ ssock' = "dangling" /\ tlsH' = "null"
  /\ UNCHANGED <<skt, strays, flags, wifi, startup, timerVars>>

\* iot_tls_destroy deletes the socket through a copy of the handle.
Destroy ==
  /\ Go("up", "down")
  /\ Deleted({"ssock", "tls", "skt"})
  /\ ssock' = "dangling" /\ tlsH' = "null"
  /\ UNCHANGED <<skt, strays, flags, wifi, startup, timerVars>>

-----------------------------------------------------------------------------
(* A call of yield: reads until its timer is over.                             *)

StartReading ==
  /\ Go("up", "read")
  /\ \E tms \in Timeouts : Countdown(tms)
  /\ UNCHANGED <<flags, wifi, startup, port>>

\* iot_tls_read waits for the time that is left, and for 1 ms if none is.
SocketTimeout == IF LeftMs = 0 THEN 1 ELSE LeftMs

FaultyRead ==  \* every read starts the timer again
  /\ Go("read", "reading")
  /\ Countdown(asked)
  /\ UNCHANGED <<flags, wifi, startup, port>>

Read ==
  /\ Go("read", "reading")
  /\ AskLeft
  /\ UNCHANGED <<flags, wifi, startup, port>>

\* Data came before the socket timed out, or it timed out, a little late.
ReadReturns ==
  /\ Go("reading", "check")
  /\ \E d \in 0 .. SocketTimeout + 1 : Pass(d)
  /\ UNCHANGED <<flags, wifi, startup, port>>

ReadTimesOut == ReadReturns /\ now' # now

CheckTimer ==
  /\ pc = "check"
  /\ AskLeft
  /\ pc' = IF Expired THEN "up" ELSE "read"
  /\ UNCHANGED <<flags, wifi, startup, port>>

\* Between two calls time passes.
Sleep ==
  /\ pc = "up" /\ rung
  /\ \E d \in 1 .. MaxTimeout : Pass(d)
  /\ UNCHANGED <<pc, flags, wifi, startup, port>>

-----------------------------------------------------------------------------
Init ==
  /\ pc = "boot" /\ deviceConnected = FALSE /\ ipAcquired = FALSE
  /\ processor = Off /\ events = <<>>
  /\ ntpHost = "none" /\ timeSet = FALSE
  /\ certs \in SUBSET CertFiles /\ tried = {} /\ ignored = {}
  /\ ssock = "null" /\ tlsH = "null" /\ skt = "none"
  /\ live = [tls |-> 0, ssock |-> 0, skt |-> 0] /\ strays = {}
  /\ TimerInit

Network == Associates \/ Leases \/ Dissociates \/ HandleEvent

StartUp ==
  \/ StationMode \/ StationModeFails \/ StationModeSet \/ StartProcessor \/ PollEnds
  \/ ResolveNtp \/ GetTime \/ GetTimeFails \/ Slept \/ FlashCert \/ FlashFails \/ Flashed

Connecting ==
  TlsCreate \/ Resolve \/ Socket \/ SsockCreate \/ StartTls \/ TcpConnect \/ Quit

Reading == StartReading \/ Read \/ ReadReturns \/ CheckTimer

\* A thread that is lost or halted stays where it is.
Ended == pc \in {"halted", "lost"} /\ UNCHANGED vars

Next == Network \/ Provision \/ StartUp \/ Connecting \/ Destroy \/ Reading \/ Sleep \/ Ended

Spec == Init /\ [][Next]_vars

\* The AWS thread and sl_Task run, time passes over the reads, and the time
\* server answers some time if it is the one that was meant.
Fairness ==
  /\ WF_vars(HandleEvent) /\ WF_vars(StartUp)
  /\ WF_vars(Read \/ ReadReturns \/ CheckTimer) /\ SF_vars(ReadTimesOut)
  /\ SF_vars(GetTime)

FairSpec == Spec /\ Fairness

=============================================================================
