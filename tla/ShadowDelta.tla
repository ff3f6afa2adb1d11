---------------------------- MODULE ShadowDelta -----------------------------
(* The delta side of the shadow library (aws_iot_shadow_records.c,           *)
(* aws_iot_shadow.c): keys are registered with handlers, the service         *)
(* publishes what is desired and not reported on the delta topic, and the    *)
(* library keeps the version of the shadow it knows so as to ignore old      *)
(* messages.  Every message may be lost, repeated or overtaken: QoS 0.       *)
(* A delta that is not valid JSON, or does not fit the buffer or the token   *)
(* array, is dropped before anything changes: here it is a lost message.     *)
EXTENDS Integers, Sequences, FiniteSets

CONSTANTS
  Keys,          \* keys of the document
  NestingKeys,   \* those whose handler makes a shadow request of its own
  Values,        \* what a key can be set to
  Unreadable,    \* a value in the document that cannot be parsed
  Initial,       \* the value a key has before the first delta
  MaxTokens,     \* MAX_JSON_TOKEN_EXPECTED, the size of tokenTable
  MaxVersion,    \* bound: versions of the shadow
  MaxInFlight    \* bound: messages on their way to the device

ASSUME DeltaAssumption ==
  /\ NestingKeys \subseteq Keys
  /\ Initial \in Values /\ Unreadable \notin Values
  /\ MaxTokens \in Nat /\ MaxVersion \in Nat /\ MaxInFlight \in Nat

VARIABLES
  connected, handler, subscribed, \* the client, its handler for the delta topic,
                                  \* and the broker's subscription
  tokenTable, deltaTopicSubscribedFlag,
  shadowJsonVersionNum, shadowDiscardOldDeltaFlag,
  value,                          \* what the registered variables hold
  current, entry, tokens,         \* a running shadow_delta_callback: its message,
                                  \* the next entry, and whose tokens it reads
  version, messages,              \* the service, and what it has sent
  registered, steady,             \* (history) a registration returned SUCCESS;
                                  \* and nothing has cost the subscription since
  handled, adopted, told          \* (history) deltas handled, versions taken
                                  \* over, and values they told

link == <<connected, handler, subscribed>>
table == <<tokenTable, deltaTopicSubscribedFlag>>
versionVars == <<shadowJsonVersionNum, shadowDiscardOldDeltaFlag>>
callback == <<current, entry, tokens>>
service == <<version, messages>>
history == <<registered, steady, handled, adopted, told>>
vars == <<link, table, versionVars, value, callback, service, history>>

Versions == 1..MaxVersion
Topics == {"delta", "get/accepted", "get/rejected", "update/accepted"}
Wishes == UNION {[S -> Values \cup {Unreadable}] : S \in SUBSET Keys \ {{}}}
NoWish == [k \in {} |-> Initial]
Idle == entry = 0   \* no delta is being handled
CallbackAt(wish, i, whose) == current' = wish /\ entry' = i /\ tokens' = whose
CallbackEnds == CallbackAt(NoWish, 0, "delta")
None == [v \in Versions |-> 0]

-----------------------------------------------------------------------------
(* The service.                                                              *)

Sent(m) == messages' = messages \cup {m} /\ Cardinality(messages) < MaxInFlight

\* The shadow changes, and the keys of wish differ from what is reported.
PublishDelta(wish) ==
  /\ version < MaxVersion
  /\ version' = version + 1
  /\ Sent([topic |-> "delta", version |-> version', wish |-> wish])
  /\ UNCHANGED <<callback, link, table, versionVars, value, history>>

\* The service answers a request: an update is a new version, a get is not.
Answer(topic) ==
  /\ version' = IF topic = "update/accepted" THEN version + 1 ELSE version
  /\ version' \in Versions
  /\ Sent([topic |-> topic, version |-> version', wish |-> NoWish])
  /\ UNCHANGED <<callback, link, table, versionVars, value, history>>

Lose(m) ==
  /\ messages' = messages \ {m}
  /\ UNCHANGED <<callback, link, table, versionVars, value, version, history>>

-----------------------------------------------------------------------------
(* Calls of the program.                                                     *)

FaultyShadowInit ==  \* the flag of the last life stays
  /\ Idle /\ ~connected
  /\ handler' = FALSE
  /\ tokenTable' = <<>> /\ UNCHANGED deltaTopicSubscribedFlag
  /\ shadowJsonVersionNum' = 0
  /\ registered' = FALSE /\ steady' = TRUE /\ handled' = None /\ adopted' = {}
  /\ UNCHANGED <<callback, connected, subscribed, shadowDiscardOldDeltaFlag, value, service, told>>

\* aws_iot_shadow_init: a new life of the library, on an unconnected client.
ShadowInit ==
  /\ Idle /\ ~connected
  /\ handler' = FALSE
  /\ tokenTable' = <<>> /\ deltaTopicSubscribedFlag' = FALSE
  /\ shadowJsonVersionNum' = 0
  /\ registered' = FALSE /\ steady' = TRUE /\ handled' = None /\ adopted' = {}
  /\ UNCHANGED <<callback, connected, subscribed, shadowDiscardOldDeltaFlag, value, service, told>>

\* aws_iot_shadow_connect: a clean session; the client keeps its handlers.
Connect ==
  /\ Idle /\ ~connected
  /\ connected' = TRUE
  /\ UNCHANGED <<callback, handler, subscribed, table, versionVars, value, service, history>>

Disconnect ==
  /\ Idle /\ connected
  /\ connected' = FALSE /\ subscribed' = FALSE /\ steady' = FALSE
  /\ UNCHANGED <<callback, handler, table, versionVars, value, service,
                 registered, handled, adopted, told>>

\* The link broke and the client reconnected: it subscribes its handlers again.
Reconnect ==
  /\ Idle /\ connected
  /\ subscribed' \in {handler, FALSE}
  /\ steady' = (steady /\ subscribed' = handler)
  /\ UNCHANGED <<callback, connected, handler, table, versionVars, value, service,
                 registered, handled, adopted, told>>

\* The first registration subscribes to the topic, and remembers that it did
\* whatever came of it.  A SUBACK that does not arrive in time leaves the broker
\* subscribed and the client without a handler.
SubscribeOnce ==
  \/ deltaTopicSubscribedFlag /\ UNCHANGED <<handler, subscribed, steady>>
  \/ ~deltaTopicSubscribedFlag /\ handler' = TRUE /\ subscribed' = TRUE /\ UNCHANGED steady
  \/ ~deltaTopicSubscribedFlag /\ subscribed' \in BOOLEAN /\ steady' = FALSE
       /\ UNCHANGED handler

\* registerJsonTokenOnDelta: a failed subscription still takes the entry.
Register(key) ==
  /\ Idle /\ connected
  /\ SubscribeOnce
  /\ deltaTopicSubscribedFlag' = TRUE
  /\ IF Len(tokenTable) >= MaxTokens
     THEN UNCHANGED <<tokenTable, registered>>
     ELSE /\ tokenTable' = Append(tokenTable, key)
          /\ registered' = (registered \/ deltaTopicSubscribedFlag \/ handler')
  /\ UNCHANGED <<callback, connected, versionVars, value, service, handled, adopted, told>>

SetDiscard(on) ==
  /\ Idle /\ shadowDiscardOldDeltaFlag' = on
  /\ UNCHANGED <<callback, link, table, shadowJsonVersionNum, value, service, history>>

ResetVersion ==
  /\ Idle /\ shadowJsonVersionNum' = 0
  /\ handled' = None /\ adopted' = {}
  /\ UNCHANGED <<callback, link, table, shadowDiscardOldDeltaFlag, value, service,
                 registered, steady, told>>

-----------------------------------------------------------------------------
(* Messages reach the library while it yields.                               *)

FaultyMovesVersion(topic) == topic \in {"get/accepted", "update/accepted", "delta"}

\* isValidShadowVersionUpdate
MovesVersion(topic) == topic \in {"get/accepted", "delta"}

FaultyIsNew(v) == v >= shadowJsonVersionNum  \* the same version again

IsNew(v) == v > shadowJsonVersionNum

Received(m) == messages' \in {messages, messages \ {m}} /\ UNCHANGED version

\* The version part of AckStatusCallback.
DeliverAnswer(m) ==
  /\ Idle /\ connected /\ m.topic # "delta"
  /\ IF MovesVersion(m.topic) /\ IsNew(m.version)
     THEN shadowJsonVersionNum' = m.version
     ELSE UNCHANGED shadowJsonVersionNum
  /\ adopted' = IF m.topic = "get/accepted" THEN adopted \cup {m.version} ELSE adopted
  /\ Received(m)
  /\ UNCHANGED <<callback, link, table, shadowDiscardOldDeltaFlag, value,
                 registered, steady, handled, told>>

Entries == 1..Len(tokenTable)
IsRegistered(key) == \E i \in Entries : tokenTable[i] = key

Parsed(old, wish) == IF wish = Unreadable THEN old ELSE wish

\* What a delta says of the registered keys.
Told(m) == [k \in Keys |-> IF k \in DOMAIN m.wish /\ IsRegistered(k)
                           THEN Parsed(told[k], m.wish[k]) ELSE told[k]]

\* shadow_delta_callback is entered, and the entries are looked at in turn; its
\* locals are forgotten at the end.
HandleDelta(m) ==
  /\ IF tokenTable = <<>> THEN CallbackEnds ELSE CallbackAt(m.wish, 1, "delta")
  /\ told' = Told(m)

\* Discarding is on: only a new version is handled, and it is remembered.
HandleIfNew(m) ==
  /\ shadowDiscardOldDeltaFlag
  /\ IF IsNew(m.version)
     THEN /\ HandleDelta(m)
          /\ shadowJsonVersionNum' = m.version
          /\ handled' = [handled EXCEPT ![m.version] = IF @ < 2 THEN @ + 1 ELSE @]
          /\ adopted' = adopted \cup {m.version}
     ELSE UNCHANGED <<callback, shadowJsonVersionNum, handled, adopted, told>>

\* Discarding is off: versions are neither looked at nor remembered.
HandleAlways(m) ==
  /\ ~shadowDiscardOldDeltaFlag
  /\ HandleDelta(m)
  /\ UNCHANGED <<shadowJsonVersionNum, handled, adopted>>

DeliverDelta(m) ==
  /\ Idle /\ connected /\ handler /\ subscribed /\ m.topic = "delta"
  /\ HandleIfNew(m) \/ HandleAlways(m)
  /\ Received(m)
  /\ UNCHANGED <<link, table, shadowDiscardOldDeltaFlag, value, registered, steady>>

FaultyNextEntry(whose) ==  \* the last entry is left out
  IF entry + 1 >= Len(tokenTable) THEN CallbackEnds ELSE CallbackAt(current, entry + 1, whose)

NextEntry(whose) ==
  IF entry = Len(tokenTable) THEN CallbackEnds ELSE CallbackAt(current, entry + 1, whose)

\* One entry: if its key is in the message the value is parsed and the handler
\* called.  A handler that makes a shadow request leaves the tokens of its own
\* document behind.
HandleEntry ==
  /\ ~Idle /\ tokens = "delta"
  /\ LET key == tokenTable[entry]
     IN IF key \in DOMAIN current
        THEN /\ value' = [value EXCEPT ![key] = Parsed(@, current[key])]
             /\ NextEntry(IF key \in NestingKeys THEN "request" ELSE "delta")
        ELSE NextEntry("delta") /\ UNCHANGED value
  /\ UNCHANGED <<link, table, versionVars, service, history>>

\* With the tokens of another document an entry finds anything or nothing.
HandleEntryAstray ==
  /\ ~Idle /\ tokens = "request"
  /\ \E v \in Values :
       /\ value' = [value EXCEPT ![tokenTable[entry]] = v]
       /\ told' = [told EXCEPT ![tokenTable[entry]] = v]
  /\ NextEntry("request")
  /\ UNCHANGED <<link, table, versionVars, service, registered, steady, handled, adopted>>

-----------------------------------------------------------------------------
Init ==
  /\ connected = FALSE /\ handler = FALSE /\ subscribed = FALSE
  /\ tokenTable = <<>> /\ deltaTopicSubscribedFlag = FALSE
  /\ shadowJsonVersionNum = 0 /\ shadowDiscardOldDeltaFlag = TRUE
  /\ value = [k \in Keys |-> Initial] /\ told = value
  /\ version = 0 /\ messages = {}
  /\ current = NoWish /\ entry = 0 /\ tokens = "delta"
  /\ registered = FALSE /\ steady = TRUE /\ handled = None /\ adopted = {}

Next ==
  \/ ShadowInit \/ Connect \/ Disconnect \/ Reconnect \/ ResetVersion
  \/ \E key \in Keys : Register(key)
  \/ \E on \in BOOLEAN : SetDiscard(on)
  \/ \E wish \in Wishes : PublishDelta(wish)
  \/ \E topic \in Topics \ {"delta"} : Answer(topic)
  \/ \E m \in messages : Lose(m) \/ DeliverAnswer(m) \/ DeliverDelta(m)
  \/ HandleEntry \/ HandleEntryAstray

Spec == Init /\ [][Next]_vars

=============================================================================
