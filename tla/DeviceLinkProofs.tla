--------------------------- MODULE DeviceLinkProofs ---------------------------
(* For any files, timeouts, length of the event queue and size of the clock:   *)
(* the flag of netwifi.c tells the state of the link, a connection is tried    *)
(* only by a device that is prepared for it as far as the code looks at what   *)
(* fails, the TLS port leaks nothing, and the timer of its reads is a timer of *)
(* timer.c.                                                                    *)
EXTENDS DeviceLinkProperties, TLAPS

-----------------------------------------------------------------------------
(* The timer: for every size of the clock and every limit of the timeouts      *)
(* below it, it tells the time it has left and stays expired.                  *)

\* A timer that has not been found expired was started age milliseconds ago; one
\* that has been has no length.
TimerInv ==
  /\ TimerTypeOK
  /\ ~rung => Minus(now, timer.start) = age /\ timer.length = asked
  /\ rung => age >= asked /\ timer.length = 0

USE TimerAssumption

\* The clock's difference is a time on the clock.
LEMMA MinusType ==
  ASSUME NEW a \in 0 .. ClockModulus - 1, NEW b \in 0 .. ClockModulus - 1
  PROVE  Minus(a, b) \in 0 .. ClockModulus - 1
  BY DEF Minus

\* The difference grows with the clock, across the point where it wraps around,
\* as long as the sum is less than a whole round.
LEMMA MinusPlus ==
  ASSUME NEW a \in 0 .. ClockModulus - 1, NEW b \in 0 .. ClockModulus - 1, NEW d \in Nat,
         Minus(a, b) + d < ClockModulus
  PROVE  /\ Plus(a, d) \in 0 .. ClockModulus - 1
         /\ Minus(Plus(a, d), b) = Minus(a, b) + d
  BY DEF Minus, Plus

LEMMA TimerInitial == TimerInit => TimerInv
  BY DEF TimerInit, TimerInv, TimerTypeOK

\* A timer just started is of age zero.
LEMMA CountdownKeeps ==
  ASSUME TimerInv, NEW tms \in 0 .. MaxTimeout - 1, Countdown(tms)
  PROVE  TimerInv'
<1>1. TimerTypeOK'
  <2>1. now \in 0 .. ClockModulus - 1
    BY DEF TimerInv, TimerTypeOK
  <2>2. [start |-> now, length |-> tms] \in
          [start : 0 .. ClockModulus - 1, length : 0 .. MaxTimeout - 1]
    BY <2>1
  <2>3. 0 \in 0 .. ClockModulus - 1
    OBVIOUS
  <2> QED
    BY <2>1, <2>2, <2>3 DEF TimerTypeOK, Countdown
<1>2. timer'.start = now /\ timer'.length = tms /\ now' = now /\ age' = 0 /\ asked' = tms /\ ~rung'
  BY DEF Countdown
<1>3. Minus(now', timer'.start) = age'
  BY <1>2 DEF TimerInv, TimerTypeOK, Minus
<1> QED
  BY <1>1, <1>2, <1>3 DEF TimerInv, Minus

\* A timer is found expired only when its age is what was asked for.
LEMMA AskLeftKeeps ==
  ASSUME TimerInv, AskLeft
  PROVE  TimerInv'
<1>1. CASE rung
  BY <1>1 DEF TimerInv, TimerTypeOK, AskLeft, Stopped, Minus
<1>2. CASE ~rung /\ Expired
  <2>1. age >= asked
    BY <1>2 DEF TimerInv, Expired
  <2>2. timer' = [timer EXCEPT !.length = 0] /\ rung'
    BY <1>2 DEF AskLeft, Stopped
  <2> QED
    BY <1>2, <2>1, <2>2 DEF TimerInv, TimerTypeOK, AskLeft
<1>3. CASE ~rung /\ ~Expired
  BY <1>3 DEF TimerInv, TimerTypeOK, AskLeft, Minus
<1> QED
  BY <1>1, <1>2, <1>3

\* Time may pass in any steps, wherever the clock stands.
LEMMA PassKeeps ==
  ASSUME TimerInv, NEW d \in 0 .. ClockModulus - 1, Pass(d)
  PROVE  TimerInv'
<1>1. now' \in 0 .. ClockModulus - 1
  BY DEF TimerInv, TimerTypeOK, Pass, Plus
<1>2. CASE rung
  BY <1>1, <1>2 DEF TimerInv, TimerTypeOK, Pass
<1>3. CASE ~rung
  <2>1. Minus(now', timer.start) = age + d
    BY <1>3, MinusPlus DEF TimerInv, TimerTypeOK, Pass
  <2> QED
    BY <1>1, <1>3, <2>1 DEF TimerInv, TimerTypeOK, Pass, Minus
<1> QED
  BY <1>2, <1>3

LEMMA TimerInductive == TimerInv /\ [TimerNext]_timerVars => TimerInv'
<1> SUFFICES ASSUME TimerInv, [TimerNext]_timerVars PROVE TimerInv'
  OBVIOUS
<1>1. CASE \E tms \in 0 .. MaxTimeout - 1 : Countdown(tms)
  BY <1>1, CountdownKeeps
<1>2. CASE AskLeft
  BY <1>2, AskLeftKeeps
<1>3. CASE \E d \in 0 .. ClockModulus - 1 : Pass(d)
  BY <1>3, PassKeeps
<1>4. CASE UNCHANGED timerVars
  BY <1>4 DEF timerVars, TimerInv, TimerTypeOK, Minus
<1> QED
  BY <1>1, <1>2, <1>3, <1>4 DEF TimerNext

\* The invariant of timer.c: the difference of the ticks is the age of a timer
\* that runs.
THEOREM TimerInvariance == TimerSpec => []TimerInv
  BY TimerInitial, TimerInductive, PTL DEF TimerSpec

\* has_timer_expired is never true early, and once true it stays true, however
\* often the clock comes round.
THEOREM TimerStaysExpired == TimerSpec => []StaysExpired
<1>1. TimerInv => StaysExpired
  BY MinusType DEF TimerInv, TimerTypeOK, StaysExpired, LeftMs, Expired
<1> QED
  BY <1>1, TimerInvariance, PTL

\* left_ms answers what is left of the time asked for, for a clock of any size.
THEOREM TimerTellsTimeLeft == TimerSpec => []TellsTimeLeft
<1>1. TimerInv /\ ~rung => LeftMs = IF age >= asked THEN 0 ELSE asked - age
  BY DEF TimerInv, TimerTypeOK, LeftMs, Expired
<1>2. TimerInv => StaysExpired
  BY MinusType DEF TimerInv, TimerTypeOK, StaysExpired, LeftMs, Expired
<1>3. TimerInv => TellsTimeLeft
  BY <1>1, <1>2 DEF TellsTimeLeft
<1> QED
  BY <1>3, TimerInvariance, PTL

-----------------------------------------------------------------------------
(* The device.                                                                 *)

USE DeviceLinkAssumption

Booting == {"boot", "station", "start"}
Getting == {"poll", "resolve", "sntp", "sleep", "certs"}
Connected == ReadSteps \cup {"up"}
Pcs == Booting \cup Getting \cup {"halted", "lost", "down"} \cup ConnectSteps \cup Connected

Events == {"CONNECT", "DISCONNECT", "IPV4_ACQUIRED"}

Processors ==
  [on : BOOLEAN, associated : BOOLEAN, leased : BOOLEAN, announced : BOOLEAN]

LinkTypeOK ==
  /\ pc \in Pcs
  /\ deviceConnected \in BOOLEAN /\ ipAcquired \in BOOLEAN
  /\ processor \in Processors
  /\ events \in Seq(Events)
  /\ ntpHost \in {"none", "known", "wild"} /\ timeSet \in BOOLEAN
  /\ certs \subseteq CertFiles /\ tried \subseteq CertFiles
  /\ ignored \subseteq {"clock", "flash"} /\ strays \subseteq {"ssock", "skt"}
  /\ ssock \in {"null", "open", "dangling"} /\ tlsH \in {"null", "open"}
  /\ skt \in {"none", "zero", "open"}

-----------------------------------------------------------------------------
(* The link.                                                                   *)

\* A processor that is not started knows nothing, and neither do the flags
\* before it is started and when it is started for good.
ProcessorInv ==
  /\ ~processor.on => processor = Off
  /\ pc \in {"boot", "start"} =>
       processor = Off /\ events = <<>> /\ ~deviceConnected /\ ~ipAcquired

\* The last event about the association that is not handled yet, or else the
\* flag, tells the state of the link.
LinkEvent(e) == e \in {"CONNECT", "DISCONNECT"}

FlagInv ==
  /\ (\A n \in 1 .. Len(events) : ~LinkEvent(events[n]))
       => deviceConnected = processor.associated
  /\ \A n \in 1 .. Len(events) :
       LinkEvent(events[n]) /\ (\A m \in n + 1 .. Len(events) : ~LinkEvent(events[m]))
         => processor.associated = (events[n] = "CONNECT")

\* An address is announced only after it was leased.
AddressInv ==
  /\ ipAcquired => processor.announced
  /\ \A n \in 1 .. Len(events) : events[n] = "IPV4_ACQUIRED" => processor.announced

\* What has been achieved when the thread is at pc, except for failures that the
\* code does not look at.
PreparedInv ==
  /\ pc \in {"resolve", "sntp", "sleep", "certs", "down"} \cup ConnectSteps \cup Connected
       => processor.announced
  /\ pc \in {"certs", "down"} \cup ConnectSteps \cup Connected
       => timeSet \/ "clock" \in ignored
  /\ tried \subseteq certs \/ "flash" \in ignored
  /\ pc \in {"down"} \cup ConnectSteps \cup Connected
       => certs = CertFiles \/ "flash" \in ignored

LinkInv == ProcessorInv /\ FlagInv /\ AddressInv /\ PreparedInv

-----------------------------------------------------------------------------
(* The TLS port.                                                               *)

Owned(handle) == IF handle = "open" THEN 1 ELSE 0

\* A handle that is open stands for an object, except the socket of an open
\* connection, which skt has given up.
OwnedInv ==
  /\ live \in [{"tls", "ssock", "skt"} -> 0 .. 1]
  /\ live["tls"] = Owned(tlsH) /\ live["ssock"] = Owned(ssock)
  /\ live["skt"] = IF pc \in Connected THEN 1 ELSE Owned(skt)

\* What is open when the thread is at pc.
HandlesInv ==
  /\ pc \in Booting \cup Getting \cup {"halted", "lost", "down"} => tlsH = "null"
  /\ pc \in Booting \cup Getting \cup {"halted", "lost", "down", "dns", "socket", "ssock"}
       => ssock # "open"
  /\ pc \in Booting \cup Getting \cup {"halted", "lost", "down", "dns", "socket"}
       => skt # "open"
  /\ pc \in {"dns", "socket", "ssock", "tls", "tcp"} \cup Connected => tlsH = "open"
  /\ pc \in {"ssock", "tls", "tcp"} => skt = "open"
  /\ pc \in {"tls", "tcp"} \cup Connected => ssock = "open"
  /\ pc \in Connected => skt = "none"

PortInv == OwnedInv /\ HandlesInv

\* Only a timer that was asked for is read by.
ReadingInv == pc \in ReadSteps => Timeouts # {}

DeviceInv == LinkTypeOK /\ LinkInv /\ PortInv /\ ReadingInv /\ TimerInv

-----------------------------------------------------------------------------
(* The queue of events.                                                        *)

LEMMA EventQueued ==
  ASSUME events \in Seq(Events), NEW e \in Events, Event(e)
  PROVE  /\ events' \in Seq(Events) /\ Len(events) \in Nat /\ Len(events') = Len(events) + 1
         /\ events'[Len(events) + 1] = e
         /\ \A n \in 1 .. Len(events) : events'[n] = events[n]
         /\ \A n \in 1 .. Len(events') : n \in 1 .. Len(events) \/ n = Len(events) + 1
  BY DEF Event

LEMMA EventTaken ==
  ASSUME events \in Seq(Events), events # <<>>, events' = Tail(events)
  PROVE  /\ events' \in Seq(Events) /\ Len(events) \in Nat /\ Len(events) = Len(events') + 1
         /\ Head(events) = events[1] /\ events[1] \in Events
         /\ \A n \in 1 .. Len(events') : events'[n] = events[n + 1] /\ n + 1 \in 1 .. Len(events)
  OBVIOUS

LEMMA NoEvents ==
  ASSUME events' = <<>>, processor'.associated = deviceConnected'
  PROVE  FlagInv' /\ (AddressInv' <=> (ipAcquired' => processor'.announced))
<1>1. \A n \in 1 .. Len(events') : FALSE
  OBVIOUS
<1> QED
  BY <1>1 DEF FlagInv, AddressInv, LinkEvent

\* CONNECT and DISCONNECT go to the end of the queue.
LEMMA LinkEventQueued ==
  ASSUME events \in Seq(Events), NEW e \in {"CONNECT", "DISCONNECT"}, Event(e),
         processor'.associated = (e = "CONNECT")
  PROVE  FlagInv'
<1>1. /\ Len(events) \in Nat /\ Len(events') = Len(events) + 1
      /\ events'[Len(events) + 1] = e /\ LinkEvent(e)
      /\ \A n \in 1 .. Len(events') : n \in 1 .. Len(events) \/ n = Len(events) + 1
  BY EventQueued DEF Events, LinkEvent
<1>2. \E n \in 1 .. Len(events') : LinkEvent(events'[n])
  BY <1>1
<1>3. ASSUME NEW n \in 1 .. Len(events'),
             \A m \in n + 1 .. Len(events') : ~LinkEvent(events'[m])
      PROVE  processor'.associated = (events'[n] = "CONNECT")
  <2>1. n = Len(events) + 1
    BY <1>1, <1>3
  <2> QED
    BY <1>1, <2>1
<1> QED
  BY <1>2, <1>3 DEF FlagInv, LinkEvent

\* IPV4_ACQUIRED says nothing about the association.
LEMMA AddressQueued ==
  ASSUME events \in Seq(Events), FlagInv, Event("IPV4_ACQUIRED"),
         UNCHANGED deviceConnected, processor'.associated = processor.associated
  PROVE  FlagInv'
<1>1. /\ Len(events) \in Nat /\ Len(events') = Len(events) + 1
      /\ ~LinkEvent(events'[Len(events) + 1])
      /\ \A n \in 1 .. Len(events) : events'[n] = events[n]
      /\ \A n \in 1 .. Len(events') : n \in 1 .. Len(events) \/ n = Len(events) + 1
  BY EventQueued DEF Events, LinkEvent
<1>2. ASSUME \A n \in 1 .. Len(events') : ~LinkEvent(events'[n])
      PROVE  deviceConnected' = processor'.associated
  <2>1. \A n \in 1 .. Len(events) : ~LinkEvent(events[n])
    BY <1>1, <1>2
  <2> QED
    BY <2>1 DEF FlagInv
<1>3. ASSUME NEW n \in 1 .. Len(events'), LinkEvent(events'[n]),
             \A m \in n + 1 .. Len(events') : ~LinkEvent(events'[m])
      PROVE  processor'.associated = (events'[n] = "CONNECT")
  <2>1. n \in 1 .. Len(events) /\ events'[n] = events[n]
    BY <1>1, <1>3
  <2>2. \A m \in n + 1 .. Len(events) :
          m \in n + 1 .. Len(events') /\ m \in 1 .. Len(events)
    BY <1>1, <2>1
  <2>3. \A m \in n + 1 .. Len(events) : ~LinkEvent(events[m])
    BY <1>1, <1>3, <2>2
  <2> QED
    BY <1>3, <2>1, <2>3 DEF FlagInv
<1> QED
  BY <1>2, <1>3 DEF FlagInv, LinkEvent

\* The handler of an event brings the flag closer to the link.
LEMMA EventHandled ==
  ASSUME LinkTypeOK, FlagInv, HandleEvent
  PROVE  FlagInv'
<1>1. /\ events \in Seq(Events) /\ events # <<>> /\ events' = Tail(events)
      /\ deviceConnected' = WlanFlag(events[1]) /\ UNCHANGED processor
  BY EventTaken DEF LinkTypeOK, HandleEvent
<1>2. /\ Len(events) \in Nat /\ Len(events') \in Nat /\ Len(events) = Len(events') + 1
      /\ events[1] \in Events
      /\ \A n \in 1 .. Len(events') : events'[n] = events[n + 1] /\ n + 1 \in 1 .. Len(events)
  BY <1>1, EventTaken
<1>3. \A m \in 2 .. Len(events) :
        m - 1 \in 1 .. Len(events') /\ (m - 1) + 1 = m /\ events[m] = events'[m - 1]
  BY <1>2
<1>4. ASSUME \A n \in 1 .. Len(events') : ~LinkEvent(events'[n])
      PROVE  deviceConnected' = processor'.associated
  <2>1. \A m \in 2 .. Len(events) : ~LinkEvent(events[m])
    BY <1>3, <1>4
  <2>2. CASE LinkEvent(events[1])
    <3>1. 1 \in 1 .. Len(events) /\ 1 + 1 = 2
      BY <1>2
    <3>2. processor.associated = (events[1] = "CONNECT")
      BY <2>1, <2>2, <3>1 DEF FlagInv
    <3> QED
      BY <1>1, <2>2, <3>2 DEF WlanFlag, LinkEvent
  <2>3. CASE ~LinkEvent(events[1])
    <3>1. \A n \in 1 .. Len(events) : n = 1 \/ n \in 2 .. Len(events)
      BY <1>2
    <3>2. \A n \in 1 .. Len(events) : ~LinkEvent(events[n])
      BY <2>1, <2>3, <3>1
    <3> QED
      BY <1>1, <1>2, <2>3, <3>2 DEF FlagInv, WlanFlag, LinkEvent, Events
  <2> QED
    BY <2>2, <2>3
<1>5. ASSUME NEW n \in 1 .. Len(events'), LinkEvent(events'[n]),
             \A m \in n + 1 .. Len(events') : ~LinkEvent(events'[m])
      PROVE  processor'.associated = (events'[n] = "CONNECT")
  <2>1. n + 1 \in 1 .. Len(events) /\ events[n + 1] = events'[n]
    BY <1>2
  <2>2. \A m \in (n + 1) + 1 .. Len(events) : m - 1 \in n + 1 .. Len(events') /\ m \in 2 .. Len(events)
    BY <1>2
  <2>3. \A m \in (n + 1) + 1 .. Len(events) : ~LinkEvent(events[m])
    BY <1>3, <1>5, <2>2
  <2>4. processor.associated = (events[n + 1] = "CONNECT")
    BY <1>5, <2>1, <2>3 DEF FlagInv
  <2> QED
    BY <1>1, <2>1, <2>4
<1> QED
  BY <1>4, <1>5 DEF FlagInv, LinkEvent

-----------------------------------------------------------------------------
(* The steps.                                                                  *)

USE DEF Go

LEMMA TypesInitial == Init => LinkTypeOK
<1> SUFFICES ASSUME Init PROVE LinkTypeOK
  OBVIOUS
<1>1. processor \in Processors
  BY DEF Init, Off, Processors
<1>2. events \in Seq(Events) /\ pc \in Pcs /\ certs \subseteq CertFiles
  BY DEF Init, Pcs, Booting
<1> QED
  BY <1>1, <1>2 DEF Init, LinkTypeOK

LEMMA TypesKept == LinkTypeOK /\ [Next]_vars => LinkTypeOK'
<1> SUFFICES ASSUME LinkTypeOK, [Next]_vars PROVE LinkTypeOK'
  OBVIOUS
<1> USE DEF LinkTypeOK, flags, wifi, startup, port
<1>1. CASE Associates
  BY <1>1, EventQueued DEF Associates, Events, Processors
<1>2. CASE Leases
  BY <1>2, EventQueued DEF Leases, Events, Processors
<1>3. CASE Dissociates
  BY <1>3, EventQueued DEF Dissociates, Events, Processors
<1>4. CASE HandleEvent
  <2>1. events' \in Seq(Events)
    BY <1>4, EventTaken DEF HandleEvent
  <2>2. deviceConnected' \in BOOLEAN /\ ipAcquired' \in BOOLEAN
    BY <1>4 DEF HandleEvent, WlanFlag
  <2> QED
    BY <1>4, <2>1, <2>2 DEF HandleEvent
<1>5. CASE StationMode \/ StationModeFails \/ StationModeSet \/ StartProcessor \/ Provision
  <2>1. Off \in Processors
        /\ [Off EXCEPT !.on = TRUE] \in Processors
    BY DEF Off, Processors
  <2>2. <<>> \in Seq(Events)
    OBVIOUS
  <2>3. {"boot", "station", "start", "poll", "halted"} \subseteq Pcs
    BY DEF Pcs, Booting, Getting
  <2> QED
    BY <1>5, <2>1, <2>2, <2>3
       DEF StationMode, StationModeFails, StationModeSet, StartProcessor, Provision
<1>6. CASE PollEnds \/ ResolveNtp \/ GetTime \/ GetTimeFails \/ Slept
  BY <1>6 DEF PollEnds, ResolveNtp, GetTime, SetTime, GetTimeFails, Slept, Pcs, Getting
<1>7. CASE FlashCert \/ FlashFails \/ Flashed
  BY <1>7 DEF FlashCert, FlashFails, Flashed, Pcs
<1>8. CASE Connecting
  <2>1. CASE Quit
    <3>1. At("dangling") \subseteq {"ssock"} /\ At("zero") \subseteq {"skt"}
      BY DEF At
    <3>2. pc' \in Pcs /\ strays' = strays \cup At("dangling") \cup At("zero")
      BY <2>1 DEF Quit, Pcs
    <3> QED
      BY <2>1, <3>1, <3>2 DEF Quit
  <2>2. CASE TlsCreate \/ Resolve \/ Socket
    BY <2>2 DEF TlsCreate, Resolve, Socket, Pcs, ConnectSteps
  <2>3. CASE SsockCreate \/ StartTls \/ TcpConnect
    BY <2>3 DEF SsockCreate, StartTls, TcpConnect, Pcs, ConnectSteps, Connected
  <2> QED
    BY <1>8, <2>1, <2>2, <2>3 DEF Connecting
<1>9. CASE Destroy \/ Sleep \/ Ended \/ UNCHANGED vars
  BY <1>9 DEF Destroy, Sleep, Ended, vars, Pcs
<1>10. CASE Reading
  BY <1>10 DEF Reading, StartReading, Read, ReadReturns, CheckTimer, Pcs, Connected, ReadSteps
<1> QED
  BY <1>1, <1>2, <1>3, <1>4, <1>5, <1>6, <1>7, <1>8, <1>9, <1>10 DEF Next, Network, StartUp

LEMMA PreparedKept ==
  ASSUME LinkTypeOK, LinkInv, [Next]_vars
  PROVE  PreparedInv'
<1> USE DEF PreparedInv, Connected, ReadSteps, ConnectSteps
<1>0. PreparedInv /\ (ipAcquired => processor.announced) /\ (~processor.on => processor = Off)
  BY DEF LinkInv, AddressInv, ProcessorInv
<1> USE <1>0
<1>1. CASE Network
  <2>1. processor.announced => processor'.announced
    BY <1>1 DEF Network, Associates, Leases, Dissociates, HandleEvent, LinkTypeOK, Processors
  <2>2. UNCHANGED <<pc, timeSet, certs, tried, ignored>>
    BY <1>1 DEF Network, Associates, Leases, Dissociates, HandleEvent, startup
  <2> QED
    BY <2>1, <2>2
<1>2. CASE StationMode \/ StationModeFails \/ StationModeSet \/ StartProcessor \/ Provision
  BY <1>2 DEF StationMode, StationModeFails, StationModeSet, StartProcessor, Provision, startup
<1>3. CASE PollEnds \/ ResolveNtp \/ GetTime \/ GetTimeFails \/ Slept
  BY <1>3 DEF PollEnds, ResolveNtp, GetTime, SetTime, GetTimeFails, Slept, wifi, flags, startup
<1>4. CASE FlashCert \/ FlashFails \/ Flashed
  BY <1>4 DEF FlashCert, FlashFails, Flashed, wifi, startup, LinkTypeOK
<1>5. CASE Connecting
  BY <1>5 DEF Connecting, TlsCreate, Resolve, Socket, SsockCreate, StartTls, TcpConnect, Quit,
              wifi, startup
<1>6. CASE Destroy \/ Sleep \/ Ended \/ UNCHANGED vars
  BY <1>6 DEF Destroy, Sleep, Ended, vars, wifi, startup
<1>7. CASE Reading
  BY <1>7 DEF Reading, StartReading, Read, ReadReturns, CheckTimer, wifi, startup
<1> QED
  BY <1>1, <1>2, <1>3, <1>4, <1>5, <1>6, <1>7 DEF Next, StartUp

\* The thread goes on while the link stays as it is.
LEMMA LinkStays ==
  ASSUME LinkInv, PreparedInv', UNCHANGED <<flags, wifi>>, pc' \in {"boot", "start"} => pc' = pc
  PROVE  LinkInv'
  BY DEF LinkInv, ProcessorInv, FlagInv, AddressInv, LinkEvent, flags, wifi

LEMMA LinkKept ==
  ASSUME LinkTypeOK, LinkInv, [Next]_vars
  PROVE  LinkInv'
<1>0. PreparedInv'
  BY PreparedKept
<1> USE DEF LinkTypeOK, Processors
<1>1. CASE Associates
  <2>1. /\ processor.on /\ processor' = [processor EXCEPT !.associated = TRUE]
        /\ Event("CONNECT") /\ UNCHANGED <<pc, flags>>
    BY <1>1 DEF Associates
  <2>2. processor'.associated = TRUE /\ processor'.on /\ processor'.announced = processor.announced
    BY <2>1
  <2>3. FlagInv'
    BY <2>1, <2>2, LinkEventQueued
  <2>4. AddressInv'
    BY <2>1, <2>2, EventQueued DEF LinkInv, AddressInv, flags, Events
  <2>5. ProcessorInv'
    BY <2>1, <2>2 DEF LinkInv, ProcessorInv, Off
  <2> QED
    BY <1>0, <2>3, <2>4, <2>5 DEF LinkInv
<1>2. CASE Leases
  <2>1. /\ processor.associated /\ processor' = [processor EXCEPT !.leased = TRUE, !.announced = TRUE]
        /\ Event("IPV4_ACQUIRED") /\ UNCHANGED <<pc, flags>>
    BY <1>2 DEF Leases
  <2>2. /\ processor'.associated = processor.associated /\ processor'.on = processor.on
        /\ processor'.announced
    BY <2>1 DEF Processors
  <2>3. FlagInv'
    BY <2>1, <2>2, AddressQueued DEF LinkInv, flags
  <2>4. AddressInv'
    BY <2>2 DEF AddressInv
  <2>5. ProcessorInv'
    BY <2>1, <2>2 DEF LinkInv, ProcessorInv, Off
  <2> QED
    BY <1>0, <2>3, <2>4, <2>5 DEF LinkInv
<1>3. CASE Dissociates
  <2>1. /\ processor.associated /\ processor' = [processor EXCEPT !.associated = FALSE, !.leased = FALSE]
        /\ Event("DISCONNECT") /\ UNCHANGED <<pc, flags>>
    BY <1>3 DEF Dissociates
  <2>2. /\ processor'.associated = FALSE /\ processor'.on = processor.on
        /\ processor'.announced = processor.announced
    BY <2>1
  <2>3. FlagInv'
    BY <2>1, <2>2, LinkEventQueued
  <2>4. AddressInv'
    BY <2>1, <2>2, EventQueued DEF LinkInv, AddressInv, flags, Events
  <2>5. ProcessorInv'
    BY <2>1, <2>2 DEF LinkInv, ProcessorInv, Off
  <2> QED
    BY <1>0, <2>3, <2>4, <2>5 DEF LinkInv
<1>4. CASE HandleEvent
  <2>1. /\ events # <<>> /\ events' = Tail(events) /\ UNCHANGED <<pc, processor>>
        /\ ipAcquired' = (ipAcquired \/ events[1] = "IPV4_ACQUIRED")
    BY <1>4, EventTaken DEF HandleEvent
  <2>2. FlagInv'
    BY <1>4, EventHandled DEF LinkInv
  <2>3. AddressInv'
    <3>1. 1 \in 1 .. Len(events)
      BY <2>1
    <3>2. ipAcquired' => processor'.announced
      BY <2>1, <3>1 DEF LinkInv, AddressInv
    <3>3. \A n \in 1 .. Len(events') : events'[n] = "IPV4_ACQUIRED" => processor'.announced
      BY <2>1, EventTaken DEF LinkInv, AddressInv
    <3> QED
      BY <3>2, <3>3 DEF AddressInv
  <2>4. ProcessorInv'
    BY <2>1 DEF LinkInv, ProcessorInv, Off
  <2> QED
    BY <1>0, <2>2, <2>3, <2>4 DEF LinkInv
<1>5. CASE StationMode \/ StationModeSet \/ StartProcessor \/ Provision
  <2>1. CASE StationMode \/ StartProcessor
    <3>1. /\ events' = <<>> /\ ~deviceConnected' /\ ~ipAcquired'
          /\ processor'.associated = FALSE /\ (~processor'.on => processor' = Off)
          /\ pc' \notin {"boot", "start"} /\ deviceConnected' \in BOOLEAN
      BY <2>1 DEF StationMode, StartProcessor, LinkInv, ProcessorInv, flags, Off
    <3>2. processor'.associated = deviceConnected'
      BY <3>1
    <3> QED
      BY <1>0, <3>1, <3>2, NoEvents DEF LinkInv, ProcessorInv
  <2>2. CASE StationModeSet
    <3>1. /\ events' = <<>> /\ deviceConnected' = FALSE /\ ipAcquired' = FALSE
          /\ processor' = Off /\ processor'.associated = deviceConnected'
      BY <2>2 DEF StationModeSet, Off
    <3> QED
      BY <1>0, <3>1, NoEvents DEF LinkInv, ProcessorInv
  <2>3. CASE Provision
    <3>1. processor = Off /\ processor' = [Off EXCEPT !.on = TRUE]
          /\ UNCHANGED <<pc, events, deviceConnected, ipAcquired>> /\ pc = "poll"
      BY <2>3 DEF Provision, LinkInv, ProcessorInv, flags
    <3>2. /\ processor'.associated = processor.associated /\ processor'.on
          /\ processor'.announced = processor.announced
      BY <3>1 DEF Off
    <3>3. FlagInv' /\ AddressInv'
      BY <3>1, <3>2 DEF LinkInv, FlagInv, AddressInv, LinkEvent
    <3> QED
      BY <1>0, <3>1, <3>2, <3>3 DEF LinkInv, ProcessorInv
  <2> QED
    BY <1>5, <2>1, <2>2, <2>3
<1>6. CASE \/ StationModeFails \/ PollEnds \/ ResolveNtp \/ GetTime \/ GetTimeFails \/ Slept
           \/ FlashCert \/ FlashFails \/ Flashed
  BY <1>0, <1>6, LinkStays DEF StationModeFails, PollEnds, ResolveNtp, GetTime, GetTimeFails,
                               Slept, FlashCert, FlashFails, Flashed
<1>7. CASE Connecting
  BY <1>0, <1>7, LinkStays DEF Connecting, TlsCreate, Resolve, Socket, SsockCreate, StartTls,
                               TcpConnect, Quit
<1>8. CASE Destroy \/ Sleep \/ Ended \/ UNCHANGED vars
  BY <1>0, <1>8, LinkStays DEF Destroy, Sleep, Ended, vars
<1>9. CASE Reading
  BY <1>0, <1>9, LinkStays DEF Reading, StartReading, Read, ReadReturns, CheckTimer
<1> QED
  BY <1>1, <1>2, <1>3, <1>4, <1>5, <1>6, <1>7, <1>8, <1>9 DEF Next, Network, StartUp

\* The port: every object has a handle, and what a failed or a finished
\* connection leaves behind is deleted.
LEMMA PortKept ==
  ASSUME LinkTypeOK, PortInv, [Next]_vars
  PROVE  PortInv'
<1>0. /\ live \in [{"tls", "ssock", "skt"} -> 0 .. 1]
      /\ live["tls"] = Owned(tlsH) /\ live["ssock"] = Owned(ssock)
      /\ live["skt"] = IF pc \in Connected THEN 1 ELSE Owned(skt)
      /\ HandlesInv /\ tlsH \in {"null", "open"} /\ skt \in {"none", "zero", "open"}
      /\ ssock \in {"null", "open", "dangling"}
  BY DEF PortInv, OwnedInv, LinkTypeOK
<1> USE <1>0 DEF PortInv, OwnedInv, HandlesInv, Owned, Booting, Getting, Connected, ReadSteps
<1>1. CASE Network \/ Provision \/ Sleep \/ Ended \/ UNCHANGED vars
  BY <1>1 DEF Network, Associates, Leases, Dissociates, HandleEvent, Provision, Sleep, Ended,
              vars, port
<1>2. CASE StartUp
  BY <1>2 DEF StartUp, StationMode, StationModeFails, StationModeSet, StartProcessor, PollEnds,
              ResolveNtp, GetTime, GetTimeFails, Slept, FlashCert, FlashFails, Flashed, port
<1>3. CASE TlsCreate
  BY <1>3 DEF TlsCreate, Created
<1>4. CASE Socket
  BY <1>4 DEF Socket, Created
<1>5. CASE SsockCreate
  BY <1>5 DEF SsockCreate, Created
<1>6. CASE Resolve \/ StartTls \/ TcpConnect
  BY <1>6 DEF Resolve, StartTls, TcpConnect, port
<1>7. CASE Quit
  <2>1. /\ ("tls" \in At("open") <=> tlsH = "open")
        /\ ("ssock" \in At("open") <=> ssock = "open")
        /\ ("skt" \in At("open") <=> skt = "open")
    BY DEF At
  <2>2. /\ live' = [o \in {"tls", "ssock", "skt"} |->
                      IF o \in At("open") THEN live[o] - 1 ELSE live[o]]
        /\ pc = "quit" /\ pc' \in {"down", "lost"}
        /\ ssock' = "null" /\ tlsH' = "null" /\ skt' = "none"
    BY <1>7 DEF Quit, Deleted
  <2> QED
    BY <2>1, <2>2
<1>8. CASE Destroy
  BY <1>8 DEF Destroy, Deleted
<1>9. CASE Reading
  BY <1>9 DEF Reading, StartReading, Read, ReadReturns, CheckTimer, port
<1> QED
  BY <1>1, <1>2, <1>3, <1>4, <1>5, <1>6, <1>7, <1>8, <1>9 DEF Next, Connecting

-----------------------------------------------------------------------------
(* The timer.                                                                  *)

LEMMA ReadingKept ==
  ASSUME LinkTypeOK, ReadingInv, [Next]_vars
  PROVE  ReadingInv'
<1> USE DEF ReadingInv, ReadSteps
<1>1. CASE Network \/ Provision \/ Sleep \/ Ended \/ Destroy \/ UNCHANGED vars
  BY <1>1 DEF Network, Associates, Leases, Dissociates, HandleEvent, Provision, Sleep, Ended,
              Destroy, vars
<1>2. CASE StartUp
  BY <1>2 DEF StartUp, StationMode, StationModeFails, StationModeSet, StartProcessor, PollEnds,
              ResolveNtp, GetTime, GetTimeFails, Slept, FlashCert, FlashFails, Flashed
<1>3. CASE Connecting
  BY <1>3 DEF Connecting, TlsCreate, Resolve, Socket, SsockCreate, StartTls, TcpConnect, Quit
<1>4. CASE Reading
  BY <1>4 DEF Reading, StartReading, Read, ReadReturns, CheckTimer
<1> QED
  BY <1>1, <1>2, <1>3, <1>4 DEF Next

\* Every step of the device is a step of the timer, or leaves it alone.
LEMMA TimerStep ==
  ASSUME ReadingInv, TimerInv, [Next]_vars
  PROVE  [TimerNext]_timerVars
<1> USE TimerAssumption
<1>1. CASE Network \/ Provision \/ Ended \/ Destroy \/ UNCHANGED vars
  BY <1>1 DEF Network, Associates, Leases, Dissociates, HandleEvent, Provision, Ended, Destroy, vars
<1>2. CASE StartUp
  BY <1>2 DEF StartUp, StationMode, StationModeFails, StationModeSet, StartProcessor, PollEnds,
              ResolveNtp, GetTime, GetTimeFails, Slept, FlashCert, FlashFails, Flashed
<1>3. CASE Connecting
  BY <1>3 DEF Connecting, TlsCreate, Resolve, Socket, SsockCreate, StartTls, TcpConnect, Quit
<1>4. CASE StartReading
  <2>1. PICK tms \in Timeouts : Countdown(tms)
    BY <1>4 DEF StartReading
  <2>2. tms \in 0 .. MaxTimeout - 1
    OBVIOUS
  <2> QED
    BY <2>1, <2>2 DEF TimerNext
<1>5. CASE Read \/ CheckTimer
  BY <1>5 DEF Read, CheckTimer, TimerNext
<1>6. CASE ReadReturns
  <2>1. PICK d \in 0 .. SocketTimeout + 1 : Pass(d)
    BY <1>6 DEF ReadReturns
  <2>2. 1 < MaxTimeout
    <3>1. PICK tms \in Timeouts : TRUE
      BY <1>6 DEF ReadReturns, ReadingInv, ReadSteps
    <3> QED
      BY <3>1
  <2>3. SocketTimeout \in 0 .. MaxTimeout - 1
    <3>1. now \in 0 .. ClockModulus - 1 /\ timer.start \in 0 .. ClockModulus - 1
          /\ timer.length \in 0 .. MaxTimeout - 1
      BY DEF TimerInv, TimerTypeOK
    <3>2. Minus(now, timer.start) \in 0 .. ClockModulus - 1
      BY <3>1, MinusType
    <3> QED
      BY <2>2, <3>1, <3>2 DEF SocketTimeout, LeftMs, Expired
  <2>4. d \in 0 .. ClockModulus - 1
    BY <2>3
  <2> QED
    BY <2>1, <2>4 DEF TimerNext
<1>7. CASE Sleep
  <2>1. PICK d \in 1 .. MaxTimeout : Pass(d)
    BY <1>7 DEF Sleep
  <2>2. d \in 0 .. ClockModulus - 1
    OBVIOUS
  <2> QED
    BY <2>1, <2>2 DEF TimerNext
<1> QED
  BY <1>1, <1>2, <1>3, <1>4, <1>5, <1>6, <1>7 DEF Next, Reading

-----------------------------------------------------------------------------
(* The theorems.                                                               *)

LEMMA DeviceInitial == Init => DeviceInv
<1> SUFFICES ASSUME Init PROVE DeviceInv
  OBVIOUS
<1>1. LinkTypeOK /\ TimerInv
  BY TypesInitial, TimerInitial DEF Init
<1>2. 1 .. Len(events) = {}
  BY DEF Init
<1>3. LinkInv
  BY <1>2 DEF Init, LinkInv, ProcessorInv, FlagInv, AddressInv, PreparedInv, Off, Connected,
              ConnectSteps, ReadSteps
<1>4. PortInv /\ ReadingInv
  BY DEF Init, PortInv, OwnedInv, HandlesInv, Owned, Connected, ReadSteps, ReadingInv
<1> QED
  BY <1>1, <1>3, <1>4 DEF DeviceInv

\* The invariant of the device below the MQTT client: the flags and the queue of
\* events against the network processor, the handles of the port against the
\* objects, the timer against the clock.
THEOREM DeviceInvariance == Spec => []DeviceInv
<1>1. DeviceInv /\ [Next]_vars => DeviceInv'
  <2> SUFFICES ASSUME DeviceInv, [Next]_vars PROVE DeviceInv'
    OBVIOUS
  <2>1. [TimerNext]_timerVars
    BY TimerStep DEF DeviceInv
  <2> QED
    BY <2>1, TypesKept, LinkKept, PortKept, ReadingKept, TimerInductive DEF DeviceInv
<1> QED
  BY DeviceInitial, <1>1, PTL DEF Spec

\* Once its events are handled, the flag that NetWiFi_isConnected answers is the
\* state of the link, however many events were queued and although the processor
\* is started twice (netwifi.c:58-110, main_tirtos.c).
THEOREM FlagTellsTruth == Spec => []FlagTruthful
<1>1. DeviceInv => FlagTruthful
  <2> SUFFICES ASSUME DeviceInv, events = <<>> PROVE deviceConnected = processor.associated
    BY DEF FlagTruthful
  <2>1. \A n \in 1 .. Len(events) : FALSE
    OBVIOUS
  <2> QED
    BY <2>1 DEF DeviceInv, LinkInv, FlagInv
<1> QED
  BY <1>1, DeviceInvariance, PTL

\* A connection is tried only after an address was announced, and with the clocks
\* set and all certificate files there unless a failure that setTime or
\* flashCerts does not look at is the reason, wherever events interrupt the start.
THEOREM OnlyPreparedConnects == Spec => []ConnectsPrepared
<1>1. DeviceInv => ConnectsPrepared
  BY DEF DeviceInv, LinkInv, PreparedInv, ConnectsPrepared, Connected
<1> QED
  BY <1>1, DeviceInvariance, PTL

\* Whichever call of iot_tls_connect fails, and however often connections are
\* opened and destroyed, no object of the port is left behind, and no TLS context
\* is deleted twice; the secure socket is, and descriptor 0 closed.
THEOREM NoObjectLeaks == Spec => []NothingLeaked
<1>1. DeviceInv => NothingLeaked
  <2> SUFFICES ASSUME DeviceInv PROVE NothingLeaked
    OBVIOUS
  <2>1. /\ live \in [{"tls", "ssock", "skt"} -> 0 .. 1]
        /\ live["tls"] = Owned(tlsH) /\ live["ssock"] = Owned(ssock)
        /\ live["skt"] = IF pc \in Connected THEN 1 ELSE Owned(skt)
        /\ HandlesInv
    BY DEF DeviceInv, PortInv, OwnedInv
  <2>2. pc = "down" => live["tls"] = 0 /\ live["ssock"] = 0 /\ live["skt"] = 0
    BY <2>1 DEF HandlesInv, Owned, Connected, ReadSteps
  <2>3. pc \in ReadSteps \cup {"up"} =>
          /\ ssock = "open" /\ tlsH = "open"
          /\ live["tls"] = 1 /\ live["ssock"] = 1 /\ live["skt"] = 1
    BY <2>1 DEF HandlesInv, Owned, Connected
  <2>4. "tls" \notin strays
    BY DEF DeviceInv, LinkTypeOK
  <2> QED
    BY <2>1, <2>2, <2>3, <2>4 DEF NothingLeaked
<1> QED
  BY <1>1, DeviceInvariance, PTL

\* The timer that bounds the reads of the port is a timer as timer.c specifies
\* it: the device implements the specification of Timer.
THEOREM DeviceRunsTimer == Spec => TimerSpec
<1>1. Init => TimerInit
  BY DEF Init
<1>2. DeviceInv /\ [Next]_vars => [TimerNext]_timerVars
  BY TimerStep DEF DeviceInv
<1> QED
  BY <1>1, <1>2, DeviceInvariance, PTL DEF Spec, TimerSpec

\* So it tells the time that is left, wherever the clock wraps around in a read
\* and however late the socket times out.
THEOREM ReadsTellTimeLeft == Spec => []TellsTimeLeft
  BY DeviceRunsTimer, TimerTellsTimeLeft, PTL

===============================================================================
