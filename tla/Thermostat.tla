----------------------------- MODULE Thermostat -----------------------------
(* The application of shadowTemperature.c: two threads that share the        *)
(* structure processParams without a lock, the shadow service they talk to   *)
(* and the link between them.                                                *)
(*                                                                           *)
(* awsThread (priority 3) runs runAWSClient: connect, register the delta     *)
(* handler, then yield and report for ever.  controlThread (priority 2) reads*)
(* the sensors and adjusts the duty of the heater.  The AWS thread preempts  *)
(* the control thread at any point, and the control thread runs only while   *)
(* the AWS thread blocks: an AWS action goes from one blocking call to the   *)
(* next, a control action is one access to the shared structure.             *)
(*                                                                           *)
(* Temperatures are in quarters of a degree, so the thresholds 0.25 and 0.5  *)
(* are 1 and 2.  Versions of the shadow are counted back from the newest one:*)
(* a message of age 0 carries the newest version, and lag is the age of      *)
(* shadowJsonVersionNum.  Ages stop at MaxDelay, beyond which a message is   *)
(* lost.                                                                     *)
EXTENDS ShadowJson, FiniteSets

CONSTANTS
  Readings,     \* what the temperature sensor can measure
  Wishes,       \* what another party can ask for, in degrees
  Unreadable,   \* a wish that is not an unsigned number
  PwmPeriod,    \* the longest duty: 3000 in the program
  MaxDelay,     \* a message older than this many versions is lost
  MaxInFlight   \* messages on their way to the device

ASSUME ThermostatAssumption ==
  /\ Readings \subseteq Int
  /\ Wishes \subseteq Nat \cup {Unreadable} /\ Unreadable \notin Nat
  /\ PwmPeriod \in Nat
  /\ MaxDelay \in Nat \ {0} /\ MaxInFlight \in Nat

VARIABLES
  aws,                 \* where the AWS thread blocks
  document,            \* the desired temperature in the report being sent
  ackTopics,           \* the acknowledgement topics are subscribed to
  client,              \* the MQTT client's own view of its connection
  linkUp, subscribed,  \* the link, and the broker's subscription to the delta
  desired, reported, lag, messages, \* the service, and what it has sent
  ctl,                 \* the next access of the control thread
  pwmOpen, hwDuty,     \* the PWM driver: opened, and the duty it applies
  savePwmDuty, reg,    \* a local and a register of adjustPWM, 0 when dead
  pwmDuty, temperatureVal, temperatureDesired, \* processParams
  overwritten          \* (history) pwmDuty was cleared and not applied since

application == <<aws, document, ackTopics>>
connection == <<client, linkUp, subscribed>>
service == <<desired, reported, lag, messages>>
control == <<ctl, pwmOpen, hwDuty, savePwmDuty, reg>>
params == <<pwmDuty, temperatureVal, temperatureDesired, overwritten>>
vars == <<application, connection, service, control, params>>

UInt8(n) == n % 256

-----------------------------------------------------------------------------
(* The shadow service.  Every change of the document is a new version; the   *)
(* service answers a report, and publishes a delta whenever what is desired  *)
(* is not what is reported.  Both travel with QoS 0: any of them may be lost,*)
(* delivered twice or overtaken.                                             *)

Delta(wish) == [kind |-> "delta", age |-> 0, wish |-> wish]
Accepted == [kind |-> "accepted", age |-> 0, wish |-> Unreadable]

Aged == {[m EXCEPT !.age = @ + 1] : m \in {n \in messages : n.age + 1 < MaxDelay}}

NewVersion(published) ==
  /\ messages' \in {kept \in SUBSET (Aged \cup published) : Cardinality(kept) <= MaxInFlight}
  /\ lag' = IF lag < MaxDelay THEN lag + 1 ELSE lag

\* Another party asks for another temperature.
Ask(wish) ==
  /\ wish # desired
  /\ desired' = wish
  /\ NewVersion(IF wish # reported /\ subscribed THEN {Delta(wish)} ELSE {})
  /\ UNCHANGED <<reported, application, connection, control, params>>

\* The service takes a report that says the device applies temperature t.
TakeReport(t) ==
  /\ reported' = t
  /\ NewVersion((IF desired # t /\ subscribed THEN {Delta(desired)} ELSE {})
                  \cup (IF subscribed THEN {Accepted} ELSE {}))
  /\ UNCHANGED desired

-----------------------------------------------------------------------------
(* What the device does with a message.                                      *)

\* shadow_delta_callback handles a delta newer than the version it knows.
IsFresh(m) == m.age < lag

FaultyVersionAfterAck(m) ==  \* update/accepted moves the version
  IF m.age < lag THEN m.age ELSE lag

\* isValidShadowVersionUpdate: update/accepted does not move the version.
VersionAfterAck(m) == lag

\* parseUnsignedInteger8Value, then tempDesired_Callback, which is called even
\* when the value could not be parsed.
Parsed(wish) == IF wish = Unreadable THEN temperatureDesired ELSE UInt8(wish)

Receive(m) ==
  IF m.kind = "accepted"
  THEN lag' = VersionAfterAck(m) /\ UNCHANGED temperatureDesired
  ELSE IF IsFresh(m)
       THEN lag' = m.age /\ temperatureDesired' = Parsed(m.wish)
       ELSE UNCHANGED <<lag, temperatureDesired>>

\* The client reads while it yields, and while the first update waits for the
\* acknowledgement topics; the message may come again.
Deliver(m) ==
  /\ aws = "yield" \/ (aws = "update" /\ ~ackTopics)
  /\ client = "connected" /\ linkUp /\ subscribed
  /\ Receive(m)
  /\ messages' \in {messages, messages \ {m}}
  /\ UNCHANGED <<desired, reported, application, connection, control,
                 pwmDuty, temperatureVal, overwritten>>

-----------------------------------------------------------------------------
(* The AWS thread.                                                           *)

\* The network is up: the shared structure is cleared, whatever the control
\* thread has done with it, and the client connects.
Start ==
  /\ aws = "boot"
  /\ aws' = "connect"
  /\ temperatureVal' = 0 /\ temperatureDesired' = 0 /\ pwmDuty' = 0
  /\ overwritten' = TRUE
  /\ UNCHANGED <<document, ackTopics, connection, service, control>>

Connect ==
  /\ aws = "connect"
  /\ \/ aws' = "register" /\ client' = "connected" /\ linkUp' = TRUE
     \/ aws' = "ended" /\ UNCHANGED <<client, linkUp>>
  /\ UNCHANGED <<document, ackTopics, subscribed, service, control, params>>

\* The return code of the registration is the first condition of the loop.
Register ==
  /\ aws = "register"
  /\ \/ linkUp /\ aws' = "yield" /\ subscribed' = TRUE
     \/ aws' = "leave" /\ UNCHANGED subscribed
  /\ UNCHANGED <<document, ackTopics, client, linkUp, service, control, params>>

\* The report: six keys, whose values are between the shortest and the longest
\* text their types and the sensors allow, and the client id with its sequence
\* number.  ReportCodes is what the three JSON calls can return.
ReportBuffer == 200

Item(key, lengths) == {[key |-> key, value |-> n] : n \in lengths}
ReportItems ==
  {<<t, d, x, y, z, p>> :
     t \in Item(14, {9, 13}), d \in Item(14, {2, 4}), x \in Item(7, {2, 5}),
     y \in Item(7, {2, 5}), z \in Item(7, {2, 5}), p \in Item(10, {2, 6})}
Reports ==
  {Finalized(WithReported(Opened(ReportBuffer), items, ReportBuffer), token, ReportBuffer) :
     items \in ReportItems, token \in {11, 21}}
ReportCodes == {doc.rc : doc \in Reports}

\* The document is built between two blocking calls; it is sent if it fits.
BuildReport ==
  \E rc \in ReportCodes :
    IF rc = "SUCCESS"
    THEN aws' = "update" /\ document' = temperatureDesired
    ELSE aws' = "leave" /\ document' = 0

\* The return code of yield is overwritten unless it says that the client is
\* attempting to reconnect.
YieldReturns ==
  /\ aws = "yield" /\ client = "connected"
  /\ BuildReport
  /\ UNCHANGED <<ackTopics, connection, service, control, params>>

YieldFindsLoss ==
  /\ aws = "yield" /\ client = "connected" /\ ~linkUp
  /\ client' = "pending"
  /\ UNCHANGED <<application, linkUp, subscribed, service, control, params>>

\* The attempt succeeded; it subscribes again, which may fail.
YieldReconnects ==
  /\ aws = "yield" /\ client = "pending"
  /\ client' = "connected" /\ linkUp' = TRUE /\ subscribed' \in BOOLEAN
  /\ BuildReport
  /\ UNCHANGED <<ackTopics, service, control, params>>

\* The attempts are over, or the last one returned a code of the port.
YieldGivesUp ==
  /\ aws = "yield" /\ client = "pending"
  /\ BuildReport
  /\ UNCHANGED <<ackTopics, connection, service, control, params>>

Reported ==
  /\ aws = "update" /\ client = "connected" /\ linkUp
  /\ aws' = "yield" /\ ackTopics' = TRUE /\ document' = 0
  /\ TakeReport(document)
  /\ UNCHANGED <<connection, control, params>>

\* The link took the bytes and the service never saw or rejected the report.
ReportLost ==
  /\ aws = "update" /\ client = "connected"
  /\ aws' = "yield" /\ ackTopics' = TRUE /\ document' = 0
  /\ UNCHANGED <<connection, service, control, params>>

\* The client is not connected, or a subscription or the publish failed.
ReportFails ==
  /\ aws = "update"
  /\ aws' = "leave" /\ document' = 0
  /\ UNCHANGED <<ackTopics, connection, service, control, params>>

Leave ==
  /\ aws = "leave"
  /\ aws' = "ended" /\ client' = "down" /\ linkUp' = FALSE
  /\ subscribed' = FALSE /\ messages' = {}
  /\ UNCHANGED <<document, ackTopics, desired, reported, lag, control, params>>

\* The link breaks; the broker drops the session and what it had to send.
LinkLost ==
  /\ linkUp
  /\ linkUp' = FALSE /\ subscribed' = FALSE /\ messages' = {}
  /\ UNCHANGED <<client, application, desired, reported, lag, control, params>>

-----------------------------------------------------------------------------
(* The control thread.                                                       *)

InitDevices ==
  /\ ctl = "init"
  /\ ctl' = "sense"
  /\ pwmOpen' \in BOOLEAN /\ hwDuty' = 0
  /\ UNCHANGED <<savePwmDuty, reg, application, connection, service, params>>

\* A failed reading keeps the previous value.
Sense ==
  /\ ctl = "sense"
  /\ ctl' = "save"
  /\ temperatureVal' \in Readings \cup {temperatureVal}
  /\ UNCHANGED <<pwmOpen, hwDuty, savePwmDuty, reg, pwmDuty, temperatureDesired,
                 overwritten, application, connection, service>>

Save ==
  /\ ctl = "save"
  /\ ctl' = "cold" /\ savePwmDuty' = pwmDuty
  /\ UNCHANGED <<pwmOpen, hwDuty, reg, application, connection, service, params>>

\* One of the four comparisons: each reads the desired temperature again.
Compare(at, otherwise, holds, change) ==
  /\ ctl = at
  /\ IF holds
     THEN ctl' = "store" /\ reg' = pwmDuty + change
     ELSE ctl' = otherwise /\ UNCHANGED reg
  /\ UNCHANGED <<pwmOpen, hwDuty, savePwmDuty, application, connection, service, params>>

Error == temperatureVal - 4 * temperatureDesired

FaultyBranch ==  \* no small step up
  \/ Compare("cold", "hot",   Error < -2, 50)
  \/ Compare("hot",  "cool",  Error > 2, -50)
  \/ Compare("cool", "warm",  FALSE, 25)
  \/ Compare("warm", "clamp", Error > 1, -25)

Branch ==
  \/ Compare("cold", "hot",   Error < -2, 50)
  \/ Compare("hot",  "cool",  Error > 2, -50)
  \/ Compare("cool", "warm",  Error < -1, 25)
  \/ Compare("warm", "clamp", Error > 1, -25)

Store ==
  /\ ctl = "store"
  /\ ctl' = "clamp" /\ pwmDuty' = reg /\ reg' = 0
  /\ UNCHANGED <<pwmOpen, hwDuty, savePwmDuty, temperatureVal, temperatureDesired,
                 overwritten, application, connection, service>>

FaultyClamped(duty) == IF duty >= PwmPeriod THEN PwmPeriod ELSE duty  \* no lower limit

Clamped(duty) == IF duty >= PwmPeriod THEN PwmPeriod ELSE IF duty <= 0 THEN 0 ELSE duty

Clamp ==
  /\ ctl = "clamp"
  /\ ctl' = "changed" /\ pwmDuty' = Clamped(pwmDuty)
  /\ UNCHANGED <<pwmOpen, hwDuty, savePwmDuty, reg, temperatureVal, temperatureDesired,
                 overwritten, application, connection, service>>

FaultyChanged ==  \* only a longer duty is applied
  /\ ctl = "changed"
  /\ IF pwmDuty > savePwmDuty /\ pwmOpen
     THEN ctl' = "set" /\ reg' = pwmDuty /\ overwritten' = FALSE
     ELSE ctl' = "sense" /\ UNCHANGED <<reg, overwritten>>
  /\ savePwmDuty' = 0
  /\ UNCHANGED <<pwmOpen, hwDuty, pwmDuty, temperatureVal, temperatureDesired,
                 application, connection, service>>

\* pwmUpdate reads the duty again.
Changed ==
  /\ ctl = "changed"
  /\ IF pwmDuty # savePwmDuty /\ pwmOpen
     THEN ctl' = "set" /\ reg' = pwmDuty /\ overwritten' = FALSE
     ELSE ctl' = "sense" /\ UNCHANGED <<reg, overwritten>>
  /\ savePwmDuty' = 0
  /\ UNCHANGED <<pwmOpen, hwDuty, pwmDuty, temperatureVal, temperatureDesired,
                 application, connection, service>>

SetDuty ==
  /\ ctl = "set"
  /\ ctl' = "sense" /\ hwDuty' = reg /\ reg' = 0
  /\ UNCHANGED <<pwmOpen, savePwmDuty, application, connection, service, params>>

ControlStep ==
  InitDevices \/ Sense \/ Save \/ Branch \/ Store \/ Clamp \/ Changed \/ SetDuty

-----------------------------------------------------------------------------
AwsStep ==
  \/ Start \/ Connect \/ Register
  \/ YieldReturns \/ YieldFindsLoss \/ YieldReconnects \/ YieldGivesUp
  \/ Reported \/ ReportLost \/ ReportFails \/ Leave

Init ==
  /\ aws = "boot" /\ document = 0 /\ ackTopics = FALSE
  /\ client = "down" /\ linkUp = FALSE /\ subscribed = FALSE
  /\ desired \in Wishes /\ reported = 0
  /\ lag = MaxDelay /\ messages = {}
  /\ ctl = "init" /\ pwmOpen = FALSE /\ hwDuty = 0 /\ savePwmDuty = 0 /\ reg = 0
  /\ pwmDuty = 0 /\ temperatureVal = 0 /\ temperatureDesired = 0 /\ overwritten = FALSE

Next ==
  \/ AwsStep
  \/ ControlStep
  \/ LinkLost
  \/ \E wish \in Wishes : Ask(wish)
  \/ \E m \in messages : Deliver(m)

Spec == Init /\ [][Next]_vars

DeliverDelta == \E m \in messages : m.kind = "delta" /\ Deliver(m)
ReportAnswered == Reported /\ Delta(desired) \in messages'

\* Both threads get the processor: the AWS thread's calls return, and it sleeps
\* in every pass.  The network loses messages, but not all of them.
Fairness ==
  /\ WF_vars(AwsStep)
  /\ WF_vars(ControlStep)
  /\ SF_vars(Reported) /\ SF_vars(ReportAnswered)
  /\ SF_vars(DeliverDelta)

FairSpec == Spec /\ Fairness

=============================================================================
