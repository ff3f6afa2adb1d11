# AWS IoT thermostat: verification of the device SDK and its application

The repository is a CC3220 application on an embedded port of the AWS IoT device
SDK for C. One thread (`awsThread`) connects to the AWS IoT broker over TLS, keeps
a device shadow up to date and receives the desired temperature as shadow deltas;
a second thread (`controlThread`) reads the sensors and drives a PWM output. This
directory holds the TLA+ specifications of that program, the TLC configurations
that check them on small instances, and proofs that TLAPS checks for all instances.

All source files lie in `src/`; `yield.c`, `connect.c`, ... stand for
`aws_iot_mqtt_client_yield.c`, `aws_iot_mqtt_client_connect.c` and so on, `common_internal.c` for
`aws_iot_mqtt_client_common_internal.c`, and `records.c`, `actions.c` for `aws_iot_shadow_records.c`, `aws_iot_shadow_actions.c`.

## 1. Inventory

| Component | State it keeps | Operations | What is hard |
|---|---|---|---|
| MQTT client: connection (`aws_iot_mqtt_client.c`, `connect.c`) | `clientStatus` (state, ping, auto-reconnect), `clientData`, the TLS handle | init, connect, disconnect, attempt_reconnect, is_client_connected, set_client_state | one state variable is connection state, lock and return address at once; clean-up after a failed step |
| MQTT client: requests (`publish.c`, `subscribe.c`, `unsubscribe.c`) | table of `messageHandlers`, shared `readBuf`/`writeBuf` | publish, subscribe, unsubscribe, resubscribe; all block in `wait_for_read` | callbacks run while they wait and may start further operations |
| MQTT client: yield and delivery (`yield.c`, `common_internal.c`) | ping and reconnect timers, back-off interval | yield, cycle_read, deliver_message, handle_publish, keep_alive, handle_disconnect, handle_reconnect | callbacks that disconnect and reconnect under the loop; timeouts against late answers |
| MQTT packet codec (`common_internal.c`, parts of the request files) | read and write position in a buffer | remaining length, header, (de)serialise, topic filter matching | boundaries of buffers and of the length field; partial reads |
| TLS port (`network_sl.c`) | `ssock`, `skt`, context | connect, read, write, disconnect, destroy, is_connected | order of clean-up, a handle that dangles after destroy, codes of two different types |
| Shadow records (`aws_iot_shadow_records.c`, `aws_iot_shadow_actions.c`) | ack wait list, subscription list with counts, token table for deltas, version | add to list, subscribe to acks, ack callback, delta callback, expiry | an answer that comes after the record was given away; counts after a failed step |
| Shadow API (`aws_iot_shadow.c`) | thing name, flags | init, connect, update, get, delete, yield, register_delta | composition of yield and expiry |
| Shadow JSON (`aws_iot_shadow_json.c`, `aws_iot_json_utils.c`) | document buffer | init, add_reported, add_desired, finalize, parse | remaining size of a buffer over several snprintf calls |
| Timers (`timer.c`) | start tick and length | countdown, left, expired | 32-bit tick wraparound |
| Application (`shadowTemperature.c`, `ProcessParams.h`, `timerled.c`) | `processParams`, shared by two threads without a lock | main loop, delta callback, control loop, adjustPWM | data races, a duty cycle outside its range |
| Wi-Fi (`netwifi.c`) | connection and address flags | connect, event handlers, isConnected | flags set from events by another thread and polled, across a restart of the network processor |
| Start-up (`main_tirtos.c`, `startsntp.c`) | the files in flash, the clock | awsThreadFxn, flashCerts, startNTP | waits for events, for an answer of a time server, for flash |
| Sensors, board files, certificates, `jsmn.c` | - | - | pure I/O, tables, vendored code |

Interaction. The application calls the shadow API, which calls the MQTT client,
which calls the network port through function pointers (`networkStack`). In the
other direction there are callbacks only: a PUBLISH runs the handlers registered for
its topic (`deliver_message`), the shadow registers such handlers for answers
and deltas, and the disconnect handler runs inside `yield`. `_ENABLE_THREAD_SUPPORT_` is not
defined, so the SDK has no locks and runs on one thread; its concurrency is that of
*re-entrant callbacks* against the network. Only `processParams` is shared between threads.

What makes each component correct:

* MQTT client: no nesting of operations leaves the state of an operation behind, and a failed attempt leaves a client that can
  try again (`MqttStuck`: not always); a connected state
  has a connection; an operation never disturbs a session that is not its own; a
  handler, once registered, stays; subscriptions survive a reconnect; yield reports what
  is the case; nothing blocks for ever; acknowledgements belong to their request and
  session.
* Codec: decode inverts encode, buffers are never left, a stream never loses its framing. (Received packets do leave
  their buffer, by the bytes of their length at most: `OverrunsAreBounded`, section 5.)
* TLS port: whatever was created is deleted, once, and nothing else is. (The code does the first; it may delete a secure socket
  twice and close descriptor 0, which is not its own: section 5.)
* Shadow records: every request is answered exactly once, by its answer or by its timeout;
  a topic stays subscribed while a request needs it.
* JSON: the document ends within its buffer or the call fails.
* Timers: expired stays expired; nothing expires early.
* Application: the duty cycle that is applied is always in 0..3000; the heater ends where the wish wants it; a wish
  that lasts is applied and reported.
* Deltas: no old delta is handled after a newer one, and a registered variable holds what was told last.
* Wi-Fi and start-up: a connection is tried only with an address, a clock and certificates; the start ends. (The address may be
  lost again, and a failure to set a clock or to look for a file is ignored: sections 3 and 5.)

## 2. Modules

| Module | Content |
|---|---|
| `MqttClient` | the MQTT client: state, one action per step between two reads, callbacks or returns |
| `MqttClientProperties` | type invariant, safety, action and liveness properties, inductive invariants, fairness |
| `MCMqttClient` | what TLC runs |
| `MqttClientTypes` | lemmas on the operators of `MqttClient`; proof of the type invariant |
| `MqttClientProofs` | proof of the inductive invariant and the state properties it implies |
| `MqttClientStepProofs` | proofs of the action properties, and of the properties that need invariants of their own |
| `ShadowRecords` | requests to the shadow, the records and counted subscriptions of their answers |
| `ShadowRecordsProperties` | type invariant, inductive invariants of the records and of the counts, safety, action and liveness properties, fairness |
| `MCShadowRecords` | what TLC runs |
| `ShadowRecordsProofs` | proof of the type invariant, of both inductive invariants and of what they imply |
| `MqttPacket` | the formats: remaining length, header byte, lengths written and found by every (de)serialiser, topic filters |
| `PacketStream` | the byte streams of a connection, cut into packets (EXTENDS `MqttPacket`) |
| `PacketChannel` | abstract specification: packets arrive whole, in order, or the channel breaks |
| `PacketStreamProperties` | bounds, framing, the refinement mapping to `PacketChannel`, the rule of topic filters |
| `PacketStreamProofs` | lemmas on the length's coding and on `MqttPacket`; the inductive invariant of both streams; proof that they implement `PacketChannel` |
| `MCPacketStream` | what TLC runs |
| `ShadowJson` | the room of a JSON document over the snprintf calls that build it |
| `ShadowDelta` | registrations, deltas, versions |
| `ShadowDeltaProperties`, `MCShadowDelta`, `ShadowDeltaProofs` | its properties; what TLC runs; the proofs |
| `Thermostat` | both threads of the application, the link, the shadow service (EXTENDS `ShadowJson`) |
| `ThermostatProperties` | the inductive invariant, safety and liveness properties |
| `ThermostatProofs` | proof of the inductive invariant and of what it implies; lemmas on `ShadowJson`, proof that documents fit |
| `MCThermostat` | what TLC runs |
| `Timer` | a timer on a clock that wraps around |
| `DeviceLink` | start-up, Wi-Fi events, the TLS port, reads under a timer (EXTENDS `Timer`) |
| `DeviceLinkProperties` | its properties; what TLC runs |
| `DeviceLinkProofs` | proof that a timer tells the time that is left, for every clock; the inductive invariant of the device, proofs of its safety properties, and that it implements `Timer` |

How the modules fit together. `MqttClient` takes packets as whole; that a stream of bytes with timeouts gives such
packets is what `PacketStream` shows by implementing `PacketChannel`. It takes the answers of the port from
`LinkCodes` and lets a timer expire at any moment; `DeviceLink` and `Timer` are about where those come from.
`ShadowRecords`, `ShadowDelta` and `Thermostat` take an MQTT call as one that succeeds, fails, or reads other
messages while it waits, which is what the proved properties of `MqttClient` give them.

### MqttClient and the code

The C stack is the variable `stack`: one frame per SDK function that waits for
a packet, a callback or the function it called. A frame holds the function (`op`), the place
where it waits (`pc`), the client state it will restore (`saved`, the local
`clientState` of each outer function), its topic, its handler slot or loop index, and the QoS of the
message being delivered. `live` is a history field: the session the operation was
started in still exists. `ret` is the result of the last call to return.
An action is everything the code does between two waits, including all of its clean-up.

| Variable | Code |
|---|---|
| `clientState`, `isPingOutstanding`, `isAutoReconnectEnabled` | `clientStatus` (`aws_iot_mqtt_client.h:230-238`) |
| `waitInterval` | `clientData.currentReconnectWaitInterval`, in units of the minimum |
| `messageHandlers` | `clientData.messageHandlers[]`, the topic of each slot or `NULL` |
| `readBuf` | the topic that `clientData.readBuf` contains: `deliver_message` matches against this buffer while callbacks read into it |
| `ssock` | `tlsDataParams.ssock`: null, open, or dangling after destroy |
| `link`, `brokerUp`, `brokerSubs`, `toBroker`, `toClient` | external: TCP connection and broker |

| Code | Actions |
|---|---|
| `aws_iot_mqtt_connect` | `ConnectFails`, `ConnectSent`, `ConnectUnsent`, `ConnectAccepted`, `ConnectAbandoned` |
| `aws_iot_mqtt_disconnect` | `Disconnect` |
| `aws_iot_mqtt_publish`, `subscribe`, `unsubscribe` | `Publish`/`Published`, `Subscribe`/`Subscribed`, `Unsubscribe`/`Unsubscribed`, `RequestTimesOut` |
| `aws_iot_mqtt_resubscribe` | `Resubscribe`, `ResubscribeSend`, `ResubscribeNext`, `ResubscribeEnds` |
| validation at the head of each outer function | `Admission`, `Rejected` |
| `wait_for_read`, `cycle_read` | `ReadOther`, `ReadPublish` |
| `deliver_message`, `handle_publish` | `ReadPublish`, `CallHandler`, `HandlerReturns`, `Delivered`, `Acknowledge` |
| `aws_iot_mqtt_yield`, `_internal_yield` | `Yield`, `YieldReadsNothing`, `YieldDelivered`, `YieldFails`, `YieldLoops`, `YieldExpires` |
| `_keep_alive` | `KeepAliveNotDue`, `KeepAlivePing`, `ConnectionLost` |
| `_handle_disconnect` | `ConnectionLost`, `DisconnectHandlerReturns` |
| `_handle_reconnect`, `attempt_reconnect` | `ReconnectTimedOut`, `ReconnectDelayed`, `ReconnectDue`, `AttemptReconnect`, `ReconnectConnected`, `ReconnectResubscribed`, `ReconnectAttempted` |

### Abstractions and external assumptions

* Packets are whole. A read that stops inside a packet and a short write are the subject of `PacketStream`.
* A timer may expire at any moment the code looks at it.
* Packet identifiers are left out: the code compares none of them.
* Topics match when they are equal. All have the same length, because
  `deliver_message` compares the received number of bytes; filters with wildcards are checked on their own
  (`TopicsMatch`).
* The broker answers in order, sends CONNACK before anything else on a connection (MQTT 3.2.0-1),
  keeps no session across connections (clean session), and may publish at any time to
  a subscribed topic. The link may break at any time; what the client had received stays readable.
* `isConnected` answers some code of the constant `LinkCodes`: the two codes of its contract
  in `network_interface.h` in all runs except `MqttPortLink`, which uses the answer of this port. It never answers `NETWORK_RECONNECTED`.
* In `MqttClient` deleting the dangling handle again, after `iot_tls_destroy` left it in `ssock`, changes
  nothing; that it happens is part of `DeviceLink` (`Quit`, `strays`).
* Auto-reconnect may start enabled: `enableAutoReconnect` of the init parameters.
* The application calls only what `AppOps`, `CallbackOps` and `HandlerOps` allow; a callback
  nests at most `MaxDepth` frames (a bound), a channel holds at most `MaxInFlight` packets
  (a bound: the sender waits until there is room). The proofs hold for every value of all of these.

### ShadowRecords and the code

Again `stack` is the C stack: a frame is a request that waits for SUBACK or UNSUBACK (`op` `"action"`), an
answer being handled (`"ack"`) or the expiry loop of yield (`"expire"`). With an empty stack the application is
between two calls, or reads in `aws_iot_shadow_yield`.

| Variable | Code |
|---|---|
| `ackWaitList`, `subscriptionList` | `AckWaitList[]`, `SubscriptionList[]` (`aws_iot_shadow_records.c:36-77`) |
| `handlers` | the list entries whose `Topic` an MQTT handler points to; the client keeps the pointer, not the text, so an entry that is reused changes the topic of a handler left behind |
| `requests`, `promised`, `answered`, `persistent`, `troubles` | history: tokens handed out, requests whose call returned `SUCCESS`, calls of each callback, actions requested as persistent, kinds of failure so far |
| `service` | external: requests the shadow service may still answer, once, on either topic, or never |

| Code | Actions |
|---|---|
| `aws_iot_shadow_update`, `_get`, `_delete`, `aws_iot_shadow_internal_action` | `RequestRefused`, `RequestCounted`, `RequestSubscribes`, `RequestUnheard`, and `Publish` at the end of each |
| `subscribeToShadowActionAcks` | `RequestSubscribes`, `SubscribeReturns`, `BothSubscribed`, `SubscribeFails`, `RequestUnheard`, `Undone` |
| `incrementSubscriptionCnt` | `RequestCounted` |
| `AckStatusCallback` | `AckStatusCallback`, `CallbackReturns`, then the release |
| `unsubscribeFromAcceptedAndRejected` | `ReleaseUnsubscribes`, `ReleaseCounts`, `Unsubscribed` |
| `HandleExpiredResponseCallbacks` | `YieldStarts`, `Expires`, `CallbackReturns`, `NoneExpired`, and the release |

Abstractions: one thing; requests have a callback and a token, and tokens are all different; one MQTT session, so a second
`initializeRecords` is left out; the MQTT calls return success or, if `Failures` allows, an error. The QoS 0 publish
does not read, so it does not wait. Yield is not called from callbacks. When no entry is free, `records.c:376` reads
`SubscriptionList[-1]`; whatever is there, its topic has no handler, and the unsubscribe changes nothing. The version number
is in `ShadowDelta`.

### MqttPacket, PacketStream and the code

A packet is the number of bytes of each of its fields. The incoming stream is the packets the broker has sent
(`unread`) and how far the first of them has been read (`at`); of the outgoing stream the module keeps how many
bytes the broker still expects (`owed`).

| Code | Definitions |
|---|---|
| `write_len_to_buffer`, `decode_remaining_length_from_buffer` | `LengthBytes`, `Accumulated`, `Raised`, `HasMore` |
| `get_final_packet_length_from_remaining_length` | `FinalLength` |
| `serialize_connect`, `_publish`, `_subscribe`, `_unsubscribe`, `_ack`, `_zero` | `ConnectPacket`, `PublishPacket`, `SubscribePacket`, `UnsubscribePacket`, `AckPacket`, `ZeroPacket` |
| `read_packet`, `decode_packet_remaining_len` | `ReadHeader`, `ReadLength`, `ReadBody`, `Drain`, and the timeout of each |
| `deserialize_publish`, `_ack`, `_connack`, `_suback` | `PublishContent`, `AckContent`, `ConnackContent`, `SubackContent` |
| `send_packet` | `Serialize`, `SendRefused`, `Write`, `WriteFails` |
| `is_topic_matched` | `IsTopicMatched` (character by character, because its properties are about that) |

Once a read has timed out inside a packet the client takes content for headers. From there to the next connection the
stream is not followed and any byte may come (`inStep`); likewise for the broker after a write that was cut short (`cut`).
Whether the read times out is left open: the time limit of a packet starts before the wait for its first byte
(`common_internal.c:357`), so it may be over when the packet begins.

### ShadowDelta and the code

| Variable | Code |
|---|---|
| `tokenTable`, `deltaTopicSubscribedFlag` | the registered keys and the flag of `records.c:79-81` |
| `shadowJsonVersionNum`, `shadowDiscardOldDeltaFlag` | `records.c:82-83` |
| `handler`, `subscribed` | the client's handler for the delta topic; external: the broker's subscription |
| `value` | the variables the registrations point to |
| `current`, `entry`, `tokens` | a running `shadow_delta_callback`: its message, its loop index, and whose tokens `jsonTokenStruct` holds |

| Code | Actions |
|---|---|
| `aws_iot_shadow_init`, `_connect`, `_disconnect` | `ShadowInit`, `Connect`, `Disconnect` |
| `registerJsonTokenOnDelta` | `Register` |
| `aws_iot_shadow_enable_discard_old_delta_msgs`, `_disable_...`, `_reset_last_received_version` | `SetDiscard`, `ResetVersion` |
| `AckStatusCallback` (versions) | `DeliverAnswer` |
| `shadow_delta_callback` | `DeliverDelta`, then `HandleEntry` or `HandleEntryAstray` for each entry |

A handler that makes a shadow request has the parser reuse the one token array while the loop still walks it: the
entries behind it read the tokens of another document (`HandleEntryAstray`), of which nothing is promised. Every
message carries a version, the rejected answers too, as `aws_iot_shadow_interface.h:258` says. An invalid document, or one too large, is a lost message.

### Thermostat and the code

The AWS thread has priority 3, the control thread priority 2, on one processor. The control thread therefore runs only
while the AWS thread blocks, and is preempted anywhere: an action of the AWS thread goes from one blocking call to the
next, an action of the control thread is one access to `processParams`.

| Variable | Code |
|---|---|
| `aws`, `document`, `ackTopics` | where `runAWSClient` blocks, the report it built, whether its answer topics are subscribed |
| `pwmDuty`, `temperatureVal`, `temperatureDesired` | `processParams` (`ProcessParams.h:10-19`) |
| `ctl`, `savePwmDuty`, `reg` | the next access of `adjustPWM`, its local, and the value it computed and has not stored |
| `pwmOpen`, `hwDuty` | the PWM driver |
| `client`, `linkUp`, `subscribed`, `desired`, `reported`, `messages`, `lag` | the client's view of its connection; external: link, broker, service |

| Code | Actions |
|---|---|
| `runAWSClient` | `Start`, `Connect`, `Register`, `YieldReturns`, `YieldFindsLoss`, `YieldReconnects`, `YieldGivesUp`, `Reported`, `ReportLost`, `ReportFails`, `Leave` |
| `shadow_delta_callback`, `tempDesired_Callback`, `AckStatusCallback` | `Deliver` |
| `controlThread`, `temperatureReading`, `pwmInit` | `InitDevices`, `Sense` |
| `adjustPWM`, `pwmUpdate` | `Save`, `Branch`, `Store`, `Clamp`, `Changed`, `SetDuty` |

Temperatures are in quarters of a degree, so the thresholds of 0.25 and 0.5 degrees are 1 and 2. Versions are counted back
from the newest one: a message has an age, and `lag` is the age of `shadowJsonVersionNum`; this keeps the version
unbounded and the state space finite. The accelerometer values are left out.

A report is built by `ShadowJson`: `Opened`, `AddItem` and `Filled` (the loop over the variables), `WithReported`, `WithDesired`, `Finalized` are
the calls of `aws_iot_shadow_json.c`, each with the room it believes in and what it writes.

### Timer, DeviceLink and the code

`Timer` is all of `timer.c`; its clock counts modulo `ClockModulus` (2^32) and the history `age` is the true time since
the start. `DeviceLink` follows the AWS thread from `NetWiFi_init` to an open connection and to the reads on it.

| Code | Actions |
|---|---|
| `SimpleLinkWlanEventHandler`, `SimpleLinkNetAppEventHandler` (on another thread) | `HandleEvent` |
| `setStationMode`, `wlanConnect`, `NetWiFi_init`, `smartConfigFxn` | `StationMode`, `StationModeSet`, `StationModeFails`, `StartProcessor`, `PollEnds`, `Provision` |
| `startNTP`, `setTime` | `ResolveNtp`, `GetTime` with `SetTime`, `GetTimeFails`, `Slept` |
| `awsThreadFxn`, `flashCerts` | `FlashCert`, `FlashFails`, `Flashed` |
| `iot_tls_connect` | `TlsCreate`, `Resolve`, `Socket`, `SsockCreate`, `StartTls`, `TcpConnect`, `Quit` |
| `iot_tls_destroy`, `iot_tls_read`, and the loop of `yield` around it | `Destroy`, `StartReading`, `Read`, `ReadReturns`, `CheckTimer` |

| Variable | Code |
|---|---|
| `deviceConnected`, `ipAcquired` | `netwifi.c:47-48` |
| `timeSet`, `certs` | external: the clocks of host and processor, the files in flash |
| `tried` | how far `awsThreadFxn` is in its three calls of `flashCerts` |
| `ssock`, `tlsH`, `skt` | `tlsDataParams` and the local of `iot_tls_connect`: null or none, open, dangling, or the 0 `skt` starts with |
| `processor`, `events` | external: the network processor, and its events on their way to `sl_Task` |
| `live`, `strays`, `ignored` | history: the objects there are, what was deleted that was not there, and which results nobody looked at went wrong |

What the code does not look at is a choice of the model: `setTime` sets the clocks or does not (the results of `clock_settime` and `sl_DeviceSet`,
`startsntp.c:38`, `:52`), and `flashCerts` leaves a file as it is when `sl_FsGetInfo` reports anything else than that it does not exist
(`main_tirtos.c:59-62`; `overwriteCerts` is false). Both go on, and `ignored` remembers it. `QUIT` deletes `ssock` whenever it is not null, so one that destroy left dangling goes twice (the
thread may then be lost), and it closes `skt` whenever it is not negative, so descriptor 0 if it fails before there is a socket.
External: an address lasts as long as the association; `sl_Stop` drops the events not yet handled, so `FlagTruthful` across
the restart rests on that. A thread that spins after an error (`halted`) stays where it is.

## 3. Runs

In all MQTT runs `NumHandlers` is 1 or 2 (5 in the code; two slots give a full table and
a hole), the back-off goes from 1 to 2 (1000 to 128000 in the code: the loop is the same, three intervals instead of nine).

| Run | Shows | Bounds |
|---|---|---|
| `MqttNested` | requests, and requests and disconnects nested in callbacks: a busy state always has an owner (`StateOwned`); no yield in a callback; handlers stay (`HandlersKept`) | two topics and slots, depth 3: request, delivery, nested request with a second delivery waiting; one packet each way |
| `MqttSessions` | callbacks and a disconnect handler that close and open sessions under yield and subscribe: every operation state is owned (`StateOwned`, in `IInv`) and a connected state has its handle (`ConnectedHasSocket`), old operations unwind in their own session only (`OwnSessionOnly`), acknowledgements stay in it, yield reports what is the case; the inductive invariant | one topic, depth 4: yield, delivery, nested subscribe, nested delivery; auto-reconnect switched on and off; initial interval undefined (`InitialWait`) |
| `MqttReconnect` | reconnect and resubscription of two topics under link failures, with manual attempts (`Resubscribed`); no ping is carried over (`PingTracked`) and no open connection forgotten (`NoOrphanSession`); every call returns (`CallsReturn`); a pending reconnect ends in a connection, or in a result that tells the application that there will be none (`ReconnectResolves`) | two topics, no nested calls; connect, yield, subscribe and reconnect by hand, with auto-reconnect on or off throughout; fairness below |
| `ShadowAcks` | every request that was accepted is answered exactly once, by the service or by its timeout (`AnsweredOnce`, `AllAnswered`, `NoRequestForgotten`), whichever calls fail; its topics are heard until then (`AnswerHeard`), and not longer (`NothingLeft`); the inductive invariants of the proofs (`ShadowInv`: `RecordInv`, with the types, and `UseInv`) | two actions (so two requests may share topics, or not), two records, four topics, three requests: one waits, one shares, one comes after; the list runs full when an unsubscribe fails |
| `ShadowDelta` | no old delta is handled (`NoOldDelta`); the version is the newest of those the code takes over (`VersionWasTold`); a variable holds what was told last (`HoldsWhatWasTold`); a registration that succeeded is heard (`SteadyIsHeard`) | two keys, one with a handler that makes requests; two values, two entries, two versions (an old and a new one), two messages on the way: one can overtake the other |
| `Thermostat` | the duty stays in range (`DutyInRange`), the heater ends where the wish wants it (`HeaterFollows`), a lasting wish is applied and reported (`WishApplied`), documents stay in their buffers (`DocumentsFit`); the inductive invariant | period 50: one large step or two small ones; readings on both sides of all four thresholds of the wishes 0 and 257 (257 wraps to 1); versions two back, two messages on the way |
| `PacketStream` | the streams implement the channel of whole packets (`ImplementsChannel`), the broker stays in step (`BrokerInStep`), what a serialiser writes fits its buffer (`WriterFits`), topic filters follow the rule (`TopicsMatch`) | digits of base 8 and buffers of 40, so that one, two and three digits occur; packets of 0, 2, 3, 7, 8, 39, 40, 90 bytes (just below, at and above each boundary; 90 takes three pieces), requests around 8, 40 and 64; two packets ahead; all filters and names of up to four characters |
| `DeviceLink` | the Wi-Fi flag is true once events are handled (`FlagTruthful`); connections are prepared, up to the failures that nobody looks at (`ConnectsPrepared`); nothing is leaked (`NothingLeaked`); timers tell the truth (`TellsTimeLeft`); the start and each read end (`StartUpEnds`, `ReadingEnds`) | two files, so that one is there and one is not; two events not yet handled (both flags' events, in either order); a clock of 5 ticks with timeouts of 1 and 3, read up to one tick late, so it wraps in a timeout and between two |
| `MqttHole`, `MqttPortLink`, `MqttStuck`, `ShadowDeltaHeard` | one disagreement each between code and documentation, see section 5 | as small as the case allows, or those of the passing run of the module |

`AnswerHeard` and `NothingLeft` say what they promise for behaviours without certain failures (`troubles`): the code
does not repeat a failed unsubscribe, and never gives back the count of a request whose publish failed.
A failed subscribe is no such excuse. `ShadowAcks` has callbacks that start no requests, as in this
application. With callbacks that do (`CallbackActions`), TLC refutes `NoRequestForgotten`, `AnsweredOnce` and `AnswerHeard`:
the index of the record is chosen before the subscriptions wait (`actions.c:50`) and filled after
it, so a nested request takes the same record; and the timeout callback runs while its own record still looks
occupied (`records.c:461`), so an answer read meanwhile calls it again. Callbacks do run while the
application waits in other calls than yield, although `aws_iot_shadow_interface.h:123` says they are executed in its context.

`CHECK_DEADLOCK` is on everywhere: a client that no longer accepts anything is an error
unless the application can still make some call.

Four properties of the client hold only under a condition on its user, which is why they are in some runs and not in others. The
theorems of section 4 have exactly these conditions, and outside them TLC finds counterexamples. `NoYieldInCallback` rests on the state `WAIT_FOR_CB_RETURN`; a callback
that disconnects and connects again leaves that state and may then yield, contrary to
`common_internal.c:475-476`, so `MqttNested` has callbacks that disconnect but do not connect.
`NoOrphanSession` holds as long as the disconnect handler does not connect: `yield.c:69`
sets `DISCONNECTED_ERROR` after the handler whatever state it reached, so a
connection opened in it is forgotten. `HandlersKept` holds as long as callbacks do not subscribe: a nested subscribe
takes the slot the outer one has chosen and not yet filled (`subscribe.c:228`, `:259`). `Resubscribed` holds as long as nobody unsubscribes (`MqttHole`)
and callbacks do not subscribe: the SUBACK of a subscribe that a callback has given up is taken for that of resubscribe's next slot
(`subscribe.c:374`), which may then go without one. Two further observations have no run of their own:
`attempt_reconnect` sets `PENDING_RECONNECT` with auto-reconnect disabled too (`connect.c:632`; compare
`yield.c:276`), and the first back-off interval is uninitialised when the pending state is entered
that way (`InitialWait`); with 0 in it the doubling never reaches the maximum, and TLC refutes `ReconnectResolves`; `MqttReconnect` starts from 3, past the maximum.

What some properties leave out, because the code does nothing about it: `SteadyIsHeard` does not speak of a
subscription that failed (`ShadowDeltaHeard` does). `HeaterFollows` excepts a duty that `runAWSClient` cleared without telling the
driver (`shadowTemperature.c:120`): the heater keeps running while the program believes it off, until the duty changes.
`WishApplied` is about a main loop that goes on and a link that stays up in the end. `HoldsWhatWasTold` follows the
values a handler's own request made the loop misread. `BrokerInStep` ends with a write that was cut short: the code reports it
and goes on using the connection. `WriterFits` is about the way out; on the way in a packet may end two bytes beyond the
receive buffer and a SUBACK has one code too many stored (section 5; `OverrunsAreBounded` says how far). `VersionWasTold` speaks of the versions the code takes over:
those of answers to a get and of deltas handled while discarding is on; the others it leaves, contrary to the documentation (section 5). `ConnectsPrepared` excepts a clock that could not be set and
a file that could not be asked about, and takes any address since the last start of the processor, lost again or not (section 5). `NothingLeaked` counts what exists; of what is
deleted without existing it rules out the TLS context only, because the code does delete the secure socket and close descriptor 0 (section 5). `ReconnectResolves` is content with a result that tells the application to stop; whether the client could have been
connected again is the subject of `MqttStuck`.

### Fairness

`FairSpec` assumes what the program provides. The only thread keeps running (weak
fairness of all steps inside a call). Timers expire: whenever the code looks at a timer over and over it finds it
expired in the end (strong fairness of `RequestTimesOut`, `ConnectAbandoned`, `YieldExpires`, `ReconnectDue`; strong,
because other packets may be read in between). Callbacks return. The main loop
(`shadowTemperature.c:216`) yields again after `SUCCESS`, `NETWORK_RECONNECTED` and
`NETWORK_ATTEMPTING_RECONNECT`, and after nothing else: with any other result the loop ends, and
`ReconnectResolves` says so (`GivenUp`). It yields whatever else it calls in between (strong fairness of `Yield`, and of yield being
refused in the state those calls left). Note that this includes `NETWORK_PHYSICAL_LAYER_DISCONNECTED`, which
yield returns when its timer expires right after an attempt was due with the link down.
Nothing is assumed of broker and link.

In `ShadowRecordsProperties` the thread keeps running and callbacks return (weak fairness of all steps with
a call on the stack), the application calls yield again and again (its main loop, weak fairness of `YieldStarts`), and a record
that the expiry loop visits over and over is found expired in the end (strong fairness of `Expires`; strong,
because the loop visits it only now and then). The service may stay silent.

In `Thermostat` both threads run (weak fairness; the AWS thread sleeps in every pass of its loop, `shadowTemperature.c:245`,
so the control thread gets its turn). The network loses messages but not all of them: a report that is tried over and over
arrives in the end, is answered with a delta that is not lost, and a delta that can be read over and over is read (strong fairness of
`Reported`, `ReportAnswered`, `DeliverDelta`; strong, because the link or the loop comes in between). That the loop goes on is a premise of `WishApplied`, not fairness.

In `DeviceLink` the AWS thread and the thread that handles events run (weak fairness of `StartUp`, `HandleEvent`, and of the reads).
A read that waits lets time pass now and then (strong fairness of `ReadTimesOut`: data may be there at once, but not
for ever), and the time server answers some time if it is the one that was meant (strong fairness of `GetTime`). Nothing is assumed of the access point;
`StartUpEnds` has a premise that says it stays.

## 4. Proofs

TLAPS proves of `MqttClient`, for all topics, tables, back-off limits, application behaviours and nesting depths:

| Theorem | Property |
|---|---|
| `TypeCorrect` | `TypeOK` |
| `Invariance` | `IInv`, the inductive invariant |
| `StateIsOwned` | `StateOwned`: a busy state belongs to a running operation, so none is left when all calls have returned |
| `ConnectedMeansSocket` | `ConnectedHasSocket` |
| `UnwindsInOwnSession` | `OwnSessionOnly` |
| `YieldTellsTheTruth` | `YieldHonest` |
| `AcksStayInSession` | `AckOnOwnSession` |
| `PingsAreTracked` | `PingTracked` |
| `CallbacksDoNotYield`, if message callbacks open no connection (`CallbacksStay`) | `NoYieldInCallback` |
| `HandlersStay`, if callbacks do not subscribe (`CallbacksKeepHandlers`) | `HandlersKept` |
| `NoSessionIsOrphaned`, if the disconnect handler opens no connection (`HandlerStays`) | `NoOrphanSession` |
| `SubscriptionsAreRenewed`, if callbacks do not subscribe and nobody unsubscribes (`CallbacksKeepHandlers`, `NobodyUnsubscribes`) | `Resubscribed` |

The conditions are on what the constants let the user of the SDK do, not on the client (section 3 says why they are
needed); callbacks of this application make no MQTT calls. Otherwise assumed is `ConstantsAssumption` only: `NULL` is no topic, bounds are natural numbers and the table is not empty, and
`isConnected` does not answer `NETWORK_RECONNECTED`.

The argument. `StateOwned` alone is not inductive: when an operation returns it stores a state
it read earlier, and nothing in `StateOwned` says that this state still has an owner. `IInv` adds:

* `SavedOwned`: the busy state a live frame will restore is owned by a live frame below it; a frame that
  saved a disconnected state (connect called from a callback, then a delivery) has none below.
* `LiveAbove`: the session ends for all frames at once, so a live frame has only live frames of the
  current session above it. Hence an operation that finds the client state its own, when it ends, is live.
* `NoSession`: in a disconnected state no frame is live; `connect` marks all frames as of an older session.
* `YieldDead`, `YieldCalls`, `YieldResult`, `DeliverResult`: yield is the one operation that restores `IDLE`
  instead of a saved state and goes on after losing its session; these say where it may be called
  from, and that the results it passes on agree with the state.
* `ConnectOnTop`, `ConnectWaits`, `WaitsForAck`: nothing is delivered before CONNACK, so nothing nests on a connect.
* `SocketCarries`: only an open handle carries anything.

The proof has one lemma per kind of change to the stack (`TopMoves`, `SessionEnds`, `Pops`,
`Pushes`, `PushesDead`, `Revives`, `StackSame`), then one step per action. For the
action properties `HolderLives` says who can find the state its own, and `FinishOnly`,
`YieldLeaves` and `PubackOnly` say which actions can take the step in question.

The last five need invariants of their own next to `IInv` (in `MqttClientProperties`). They share one view of a step, `Moves`: the
calls in progress stay, the top one leaves, or one enters; a frame keeps its operation and its saved state, and below the top its place.

* `CallbackInv`, for `CallbacksDoNotYield`: above a delivery there are only requests and deliveries, none of which saved a state that admits
  yield, and the client state is none either. The saved states matter because each of them will be restored under the delivery.
* `SlotInv`, for `HandlersStay`: the slot a subscribe waits to fill is still free, and the subscribe is at the bottom of the stack.
* `OrphanInv`, for `NoSessionIsOrphaned`: an open handle means connected or a connect on top (`SocketOwned`); the disconnect handler runs on top
  and in a disconnected state (`HandlerOnTop`), so the state stored after it (`yield.c:69`) loses nothing; and no operation saved a
  disconnected state (`SavedConnected`) that it would restore over a connection.
* `PingInv`, for `PingsAreTracked`: the flag may be set without a ping on the way, but only while connect waits, and connect clears it; a
  CONNECT on the wire is alone there (`ConnectAlone`), so the broker has no answer of an old session to a new one's ping. It holds without
  any condition.
* `RenewalInv`, for `SubscriptionsAreRenewed`. The client does not compare identifiers, so the proof has to show that the SUBACK resubscribe reads
  is for the SUBSCRIBE it sent. None is under way when `attempt_reconnect` calls it (`AskedFirst`), and until it returns nothing runs above it but deliveries and
  publishes of its session (`RenewalAlone`); hence at most one is, for the slot the loop is at, and if its SUBACK is under way the broker has the topic (`Asked`).
  `Renewing` says that the broker has the topics of all slots before it. The loop's bound is computed once; `HandlersFirst`
  says that no handler lies beyond it. `ReconnectCalls` ties the two calls of `attempt_reconnect` to their frames, and
  `AllRenewed` is what is left when resubscribe has returned.

Of `Timer`, for every clock and every limit below it (`TimerAssumption`): `TimerInvariance`, `TimerTellsTimeLeft`
(`TellsTimeLeft`) and `TimerStaysExpired` (`StaysExpired`). `TellsTimeLeft` speaks of the true age, which no variable of the code holds.
The invariant ties them: as long as a timer has not been found expired, the wrapped difference of clock and start is its age
(`MinusPlus`: the difference grows with the clock across the wrap-around); afterwards the length is zero. The one
assumption on the environment is in `Pass`: a timer is looked at once in 49 days.

Of `Thermostat`, for every period, all readings and wishes and every interleaving (`ThermostatAssumption`):

| Theorem | Property |
|---|---|
| `Invariance` | `IInv`, the inductive invariant |
| `DutyStaysInRange` | `DutyInRange` |
| `HeaterRunsAtDuty` | `HwFollowsDuty`: between two passes the heater runs at the duty the program remembers, unless it was cleared |

`DutyInRange` is not inductive: the duty that `Store` writes is in a register, and the AWS thread may clear `pwmDuty` between any two
accesses. `IInv` says at each access of a pass what is known of the duty, of the register (`reg`), of the saved duty, and
of what the driver applies. There is one lemma per access of the control thread, one for `Start`, and one for all other steps of
the AWS thread, which do not touch these variables.

Of the documents of `ShadowJson`, for any values and any `size_t` (`JsonAssumption`: it holds 65535, the least C allows):

| Theorem | Property |
|---|---|
| `DocumentsAreWhole` | `DocumentsFit` |
| `RoomyDocuments` | the same for any lists of items, any token and any buffer longer than the document |

TLC checks `RoomyDocumentComplete` on 16 pairs of sections of two items and twelve sizes of the buffer each; `RoomyDocuments` says it of all. The code counts its room before each key
and uses that number for the value as well, so the room it believes in exceeds the room there is by the length of a key. What the proof carries along the calls is therefore
not that the room is right, but that the document so far is as long as its parts (`Filling`, `Adds`) and that what is still to come fits
behind it; then each number believed in is at least the room there is, that is at least what is printed, and no call is cut short (`AppendedFits`, `ItemFits`, `ItemsFit`). The report's
items are between the bounds of their types, which gives `ReportFits` for its 200 characters.

Of `PacketStream`, for any base of the length's coding, any buffers, packets and requests, and any number of packets on the way:

| Theorem | Property |
|---|---|
| `WritesInOrder`, `ReadsInOrder` | `WriterInv`, `ReaderInv`: the inductive invariant, one half for each direction |
| `RequestsAsMeant` | `BrokerInStep` |
| `WritesFit` | `WriterFits` |
| `OverrunsAreBounded` | how far a received packet can leave its buffer, and a SUBACK its limit |
| `StreamsAreChannel`, if subscribes expect one code (`ExpectedCodes = 1`, as the program's) | `ImplementsChannel`: the refinement of `PacketChannel` |

Assumed is what the constants stand for: `PacketAssumption` and `StreamAssumption` (the base is at least 2, an announced length fits `size_t`, the send buffer needs at most four digits, an
array of grants holds what a subscribe asks for) and `ProtocolAssumption` (the broker's packets are well formed: an acknowledgement has its identifier, a PUBLISH its topic; a request has the texts of
its kind). The last is not about the network: the code takes the lengths inside a packet as they come.

The argument has three layers.

* The coding of lengths. `LengthBytes` and `Total` are recursive functions. That a recursive definition defines a function at all is proved first, by taking a least counterexample (`LeastNumber`,
  from the library's well-founded minimum) rather than with the library's induction rules; then that longer numbers have no fewer digits (`LengthGrows`), which is the fact
  `get_final_packet_length_from_remaining_length` rests on: it chooses the number of digits by comparing with powers of the base, the writer produces them by dividing. `PacketsSound` says of all seven serialisers
  that the length they announce is the length they write and that it fits the room they checked.
* Each direction. `OwedIsLeft` says that the broker waits for exactly what is left of a packet whose start it has seen; `BrokerInStep` alone says nothing while a write is in progress. For the way in, `InLength` is the loop invariant of
  `decode_remaining_length_from_buffer` stretched over reads: the digits still unread are the digits of some `q`, and the sum so far plus `q` times the multiplier is the length announced (`StillDigits`). A
  wrapped multiplier or a sum past `size_t` would break it, and does not occur in step (`NothingOverflows`). `InContent` says the same behind the length, `Chosen` that a packet that is kept has room. All of it
  is under `inStep`: a call that timed out inside a packet promises nothing until the next connection, and `AtAnEnd` is all that is left.
* The refinement. The packets of the channel are those not read to their end and the one whose end the running call has read (`Pending`). Reading the last byte of a kept packet is where `Deliver` happens, since `ContentIsMeaning`: what the
  deserialisers find in the read buffer is what the packet says; the last piece of a dropped one is `Drop`, a lost byte `Break`, all other reads stutter (`HeaderRefines`, `LengthRefines`, `DrainRefines`, `BodyRefines`, ...).

With a subscribe that expects two codes a SUBACK with three codes would be accepted (`deserialize_suback` tolerates one more than expected), which is another channel; hence the hypothesis.

Of `ShadowRecords`, for any actions, numbers of records, entries and requests, and any failures:

| Theorem | Property |
|---|---|
| `TypeCorrect` | `TypeOK` |
| `RecordInvariance` | `RecordInv`, the inductive invariant |
| `CalledOnce` | `AnsweredOnce` |
| `NothingForgotten` | `NoRequestForgotten` |
| `ShadowInvariance` | `ShadowInv`: with it `UseInv`, the inductive invariant of the counts |
| `TopicsAreHeard` | `AnswerHeard` |
| `NothingStaysSubscribed` | `NothingLeft` |

All but the first are for applications whose callbacks make no shadow requests (`CallbackActions = {}`), as those of this
application; with others TLC refutes them (section 3). `AnsweredOnce` is not inductive because a record stays taken after its callback was
called: while its topics are released (two unsubscribes that read, `records.c:258-270`) the record still looks like one that waits. `RecordInv` says why it is
not found again. A taken record whose callback was called is held by a frame of the stack (`AnsweredHeld`), by one only, and has been called once
(`HeldOnce`); the service has used up the answer of a record that is held (`AnswerUsed`), so `AckStatusCallback` finds none; the expiry loop, the other caller, starts
at the bottom of the stack, where nothing is held (`AnswersNest`); and a request that is being made has a free record and a token no other
record has (`RequestFresh`, `TokensInOrder`). A frame is disturbed in five ways (a call starts, the callback is called, it returns, the frame moves on or
leaves), each of which is one lemma. `NothingForgotten` follows, since only a held record is ever changed (`RecordsChange`).

`AnswerHeard` and `NothingLeft` need to know what a count counts. The users of an action (`Users`) are the requests that wait for an
answer and those that were answered and have not yet given up the first of their two topics. `PairsCounted` says that the count of both entries covers
the users, and is equal to their number while nothing failed and no request of the action was persistent. Topics are given up one after the other, with
a read between them, so there is a second form of it (`HalfReleased`) for a request that has given up `accepted` only: what is left of that entry is what will be left of
the other. Two requests of one action are never half released at once, since they end in a call that reads only when the count is 1, and then
no other uses the topic (`UnsubscribesLast`). Finding an entry by its topic finds the right one because free entries keep their
old topics but lie behind the entry in use (`LiveFirst`): subscribing takes the first free entries, and only when none has the topic (`ReservedFirst`).
`ListensToLive` ties the entries to the handlers of the MQTT client, with the two moments in which the client listens to a topic whose entry is not yet complete
(`Pending`). All this holds while no unsubscribe failed and the list was not full (`troubles`), as in the two properties; `FramesKnow` holds always.
There is one lemma per action again, and below them lemmas for what many share: a step that leaves the list alone (`QuietKeepsUse`), and one user more or less (`UserComes`, `UserGoes`).

These theorems assume `CountSuffices`: a `uint8_t` count is not incremented past 255. Either there are fewer requests than it can hold,
or no publish fails and there are fewer than 255 records; the application has 10 (`aws_iot_config.h`). That is a condition and not a matter of course:
each failed publish leaves a count one higher for good (`actions.c:67`), so after 255 of them, on topics that stay in use, a count wraps around,
and the end of one request unsubscribes what another waits for. TLC finds that behaviour when the condition is dropped (`CountModulus = 2`, `MaxRequests = 4`).

Of `DeviceLink`, for any certificate files, timeouts, clock and number of events on the way (`DeviceLinkAssumption`, `TimerAssumption`):

| Theorem | Property |
|---|---|
| `DeviceInvariance` | `DeviceInv`, the inductive invariant |
| `FlagTellsTruth` | `FlagTruthful` |
| `OnlyPreparedConnects` | `ConnectsPrepared` |
| `NoObjectLeaks` | `NothingLeaked` |
| `DeviceRunsTimer` | `TimerSpec`: the device implements `Timer` |
| `ReadsTellTimeLeft` | `TellsTimeLeft` |

`FlagTruthful` says nothing while events are on the way. `FlagInv` does: the last event about the association that is not yet
handled, or else the flag, tells the state of the link. For `ConnectsPrepared` an address acquired by the flags or by an event on its way was announced by the processor (`AddressInv`), and `PreparedInv` says what
each step of the start has behind it: of the files, that each of those tried is there or that asking for one failed. For `NothingLeaked`, `OwnedInv` ties each handle to the object it stands for, and `HandlesInv` says
which are open at each rung of the ladder; the socket of an open connection is the exception, `skt` has given it up. Neither speaks of a handle that dangles or of descriptor 0: that
they are deleted as well is what the code does, and no theorem says otherwise. `DeviceRunsTimer` is a refinement step by step:
starting a read initialises the timer, waiting and checking are steps of it, and the rest leave it alone; so `TimerTellsTimeLeft` holds of the device.

Of `ShadowDelta`, for all keys, values, table sizes, versions and numbers of messages on the way (`DeltaAssumption`):

| Theorem | Property |
|---|---|
| `DeltaInvariance` | `DeltaInv`, the inductive invariant |
| `OldDeltasAreIgnored` | `NoOldDelta` |
| `VersionIsOneThatWasTold` | `VersionWasTold` |
| `VariablesHoldWhatWasTold` | `HoldsWhatWasTold` |
| `SteadyRegistrationIsHeard` | `SteadyIsHeard` |

`NoOldDelta` follows from `HandledAreKnown`: no delta that was handled is newer than the version that is known; together with
`VersionWasTold` it is inductive. `SteadyIsHeard` needs `FlagIsTrue`, which says the same of the flag, since the flag is what a later
registration goes by. `HoldsWhatWasTold` speaks of the time between two deltas only. `LoopInv` says what holds within the loop:
a variable whose key has an entry still to come (`Left`) will get what the message says, all others hold what was told; with the tokens of
another document only the entries to come may differ. A key that is registered twice is why `Left` asks for some entry and not
for the entry's number. There is one lemma per action.

Only model-checked: the liveness properties `CallsReturn`, `ReconnectResolves`, `AllAnswered`, `HeaterFollows`, `WishApplied`, `StartUpEnds`, `ReadingEnds` (fairness is out of the prover's reach);
and `TopicsMatch`, which compares two algorithms on all texts of up to four characters: for texts of any length it would need an induction over the text for each of them.

## 5. Disagreements between code and documentation

| Run | Code | Documentation |
|---|---|---|
| `MqttHole` | resubscribe ends at the first free slot (`subscribe.c:349`) | all active subscriptions are renewed (`aws_iot_mqtt_client_interface.h:124`) |
| `MqttPortLink` | `iot_tls_is_connected` returns 0 or 1 as an error code (`network_sl.c:170`); reconnect waits for 6 | reconnects at any disconnect (`aws_iot_shadow_interface.h:283`) |
| `MqttStuck` | a reconnect whose TLS attempts leave no handle stays in `CONNECTING` (`connect.c:501`): nothing tries again, the next connect is refused | a failed attempt leaves the client pending (`connect.c:607`, `aws_iot_mqtt_client_interface.h:186`) |
| `ShadowDeltaHeard` | the flag of the delta subscription is set though the subscribe failed (`records.c:116`), so the next registration succeeds without one | any delta is delivered to the callback (`aws_iot_shadow_interface.h:241`) |

Further disagreements and observations, which the models have as steps and no run states as a property:

* Only get/accepted and the delta move the version: `isValidShadowVersionUpdate` drops those of get/rejected, update/rejected and the
  answers to delete (`records.c:171-178`). `aws_iot_shadow_interface.h:258-260` says that all responses but update/accepted are scanned for it.
  `VersionWasTold` passes because it speaks of what the code takes over.
* `read_packet` compares `rem_len` alone with `readBufSize` and stores the content behind the header byte and the bytes of the length
  (`common_internal.c:387`, `:405-409`): a packet with `rem_len` 511 takes 514 bytes of a buffer of 512. `aws_iot_config.h:38` says a message
  bigger than the buffer is dropped. `OverrunsAreBounded` proves that it is never more than the bytes of the length.
* A SUBACK with too many codes has one more stored than the maximum that `subscribe.c:108` speaks of (`subscribe.c:163`); the callers' arrays
  of three have room for it. The same theorem bounds it.
* `iot_tls_destroy` deletes the secure socket through a local copy and leaves the handle set (`network_sl.c:257-259`); a later connect
  that fails before `Ssock_create` deletes it again (`:152-153`). `network_interface.h:144-146` promises a clean-up. `Quit` has this step; the thread may then be lost.
* `skt` is 0 until `socket()` is called (`network_sl.c:69`), so a connect that fails in `TLS_create` or in the host lookup closes descriptor 0 (`:160`),
  which is not its own. `strays` records both.
* The flag that an address was acquired survives the loss of the access point (`netwifi.c:153`, `:89`): the poll may end, and report
  "acquired an IP address" (`:318`), before there is one again.

* A connect that the application makes itself ends in `CONNECTING` in the same way as the reconnect of `MqttStuck`.
* The results of `clock_settime`, `sl_DeviceSet` (`startsntp.c:38`, `:52`) and `TLS_setCertFile` (`network_sl.c:101-110`) are ignored, and
  `flashCerts` skips a file for any error but that it does not exist (`main_tirtos.c:62`).
* Identifiers of acknowledgements are not compared: any SUBACK completes a subscribe (`subscribe.c:252`).
* A subscribe nested in a callback picks the slot the outer one has already chosen (`subscribe.c:228`, `:259`).
* After a callback that read into `readBuf`, the remaining handlers are matched against the other message (`common_internal.c:483`).
  These two concern users of the SDK whose callbacks make MQTT calls, which the code provides for (`WAIT_FOR_CB_RETURN` admits
  publish, subscribe and unsubscribe); those of this application make none.
* Each request overwrites the persistent flag of the topics it shares (`records.c:397`); a request whose publish fails never gives
  back the count of its topics (`actions.c:67`).
* The four-byte limit of a remaining length is not effective: the counter is also an out parameter of the read (`common_internal.c:339`).
* A topic filter that ends in `#` does not match the parent of its level, and wildcards do not match empty levels, as the MQTT rules
  want (`common_internal.c:425-459`). Otherwise `TopicsMatch` finds the matching right.
* In a document buffer a few characters short of the document, the JSON calls write beyond the end and return `SUCCESS`
  (`aws_iot_shadow_json.c:133`, `:196`); `DocumentsFit` covers the buffers the documentation asks for.
* A time server that cannot be resolved is reported, and its address then read through a null pointer (`startsntp.c:81`).
* Failures in `flashCerts` and `setStationMode` spin at priority 3, above the control thread, which never runs again.
* The main loop ends for good at the first failed report, or at a link lost between yield and update (`shadowTemperature.c:217`);
  it then closes the I2C bus under the control thread (`:253`).
* While discarding is off versions are not remembered, so the first message after it is switched on again may be old (`records.c:500`).

## 6. What is left

In order:

1. `ClientConnection`: an abstract connection (down, connecting, up with the operation that owns it), implemented by
   `MqttClient` under a refinement mapping; checked with TLC, then proved from `IInv`.
2. `TopicsMatch` for texts of any length, by an invariant of the matching loop.

Not modelled, and not planned: `jsmn.c` (vendored), sensor drivers and board files (register and pin tables), the certificates'
contents, `timerled.c` (nothing calls it), the fatal error handlers (they print), logging, the optional delete handler of
`aws_iot_shadow_connect`, `initializeRecords` on a second connect, the unbounded `sprintf` of get and delete documents, deltas without a version.
