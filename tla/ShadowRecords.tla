--------------------------- MODULE ShadowRecords ---------------------------
(***************************************************************************)
(* Requests to the device shadow (get, update, delete) and their answers.  *)
(* A request with a callback occupies a record of AckWaitList until it is  *)
(* answered or times out; the two topics on which the answer may come are  *)
(* entries of SubscriptionList, counted and shared by the requests of the  *)
(* same action.                                                            *)
(*                                                                         *)
(* The MQTT calls block: while a subscribe or unsubscribe waits, answers   *)
(* of other requests arrive and run AckStatusCallback.  "stack" holds the  *)
(* functions that wait, the innermost last; with an empty stack the        *)
(* application is in aws_iot_shadow_yield or about to make a request.  One *)
(* thing, one MQTT session; timers may expire at any time.                 *)
(*                                                                         *)
(* Definitions named Faulty... seed a bug in the definition that follows.  *)
(***************************************************************************)
EXTENDS Naturals, Sequences, FiniteSets

CONSTANTS
  Actions,          \* the actions in use: get, update, delete
  MaxAcks,          \* MAX_ACKS_TO_COMEIN_AT_ANY_GIVEN_TIME
  MaxTopics,        \* MAX_TOPICS_AT_ANY_GIVEN_TIME
  CountModulus,     \* 256: SubscriptionRecord_t.count is a uint8_t
  Stickiness,       \* values of isPersistentSubscribe in use
  CallbackActions,  \* actions that callbacks start
  Failures,         \* MQTT calls that may fail
  MaxRequests,      \* bound: requests of a behaviour
  MaxDepth          \* bound: a callback starts actions only on a smaller stack

ASSUME ConstantsAssumption ==
  /\ Actions # {} /\ MaxAcks \in Nat \ {0} /\ MaxTopics \in Nat /\ CountModulus \in Nat \ {0, 1}
  /\ Stickiness \subseteq BOOLEAN /\ CallbackActions \subseteq Actions
  /\ MaxRequests \in Nat /\ MaxDepth \in Nat

VARIABLES
  ackWaitList,       \* AckWaitList: token and action of each record
  subscriptionList,  \* SubscriptionList
  handlers,          \* entries whose Topic an MQTT handler points to
  stack,             \* functions that wait
  requests,          \* client tokens handed out
  promised,          \* history: requests whose call returned SUCCESS
  answered,          \* history: how often the callback of a request was called
  persistent,        \* history: actions requested with isPersistentSubscribe
  troubles,          \* history: what has failed so far
  service            \* external: requests the service may still answer

lists   == <<ackWaitList, subscriptionList, handlers>>
history == <<requests, promised, answered, persistent, troubles>>
vars    == <<lists, stack, history, service>>

Acks    == 1 .. MaxAcks
Entries == 1 .. MaxTopics
Tokens  == 1 .. MaxRequests
Kinds   == {"accepted", "rejected"}

AckTopic(action, kind) == <<action, kind>>
NoTopic == <<>>
Topics == {AckTopic(action, kind) : action \in Actions, kind \in Kinds}

Records == [free : BOOLEAN, token : 0 .. MaxRequests, action : Actions]
Subscriptions == [free : BOOLEAN, topic : Topics \cup {NoTopic},
                  count : 0 .. CountModulus - 1, sticky : BOOLEAN]

Top == stack[Len(stack)]
Below == [i \in 1 .. Len(stack) - 1 |-> stack[i]]
At(op, pc) == stack # <<>> /\ Top.op = op /\ Top.pc = pc
WithTop(frame) == [stack EXCEPT ![Len(stack)] = frame]

InCallback == stack # <<>> /\ Top.pc = "callback"

\* The MQTT client reads: in yield, or while one of its calls waits.
Reading == stack # <<>> => Top.pc \in {"subscribe", "undo", "unsubscribe"}

----------------------------------------------------------------------------
(* The lists *)

Init ==
  /\ ackWaitList =
       [i \in Acks |-> [free |-> TRUE, token |-> 0, action |-> CHOOSE a \in Actions : TRUE]]
  /\ subscriptionList =
       [n \in Entries |-> [free |-> TRUE, topic |-> NoTopic, count |-> 0, sticky |-> FALSE]]
  /\ handlers = {} /\ stack = <<>>
  /\ requests = 0 /\ promised = {} /\ answered = [t \in Tokens |-> 0]
  /\ persistent = {} /\ troubles = {}
  /\ service = {}

FaultyIsFreeAck(i) ==  \* the last record is never looked at
  /\ i \in Acks /\ (i < MaxAcks => ackWaitList[i].free)
  /\ \A j \in Acks : j < i => ~ackWaitList[j].free

\* getNextFreeIndexOfAckWaitList finds record i.
IsFreeAck(i) ==
  /\ i \in Acks /\ ackWaitList[i].free
  /\ \A j \in Acks : j < i => ~ackWaitList[j].free

\* findIndexOfSubscriptionList finds entry n.
IsEntryOf(topic, n) ==
  LET matching == {m \in Entries : ~subscriptionList[m].free
                                   /\ subscriptionList[m].topic = topic}
  IN  n \in matching /\ \A m \in matching : n <= m

IsSubscriptionPresent(action) ==
  \A kind \in Kinds : \E n \in Entries : IsEntryOf(AckTopic(action, kind), n)

\* The first two free entries, or as many as there are.
FreeEntries == {n \in Entries : subscriptionList[n].free}
AreNextFree(a, r) ==
  /\ a \in FreeEntries /\ r \in FreeEntries /\ a < r
  /\ \A n \in FreeEntries : n = a \/ n >= r

\* The topics with a handler.  The handler holds a pointer to the Topic of the
\* entry: when the entry is reused while it has a handler, that follows.
Heard == {subscriptionList[n].topic : n \in handlers}

----------------------------------------------------------------------------
(* Requests: aws_iot_shadow_internal_action *)

MayStart(action) ==
  /\ requests < MaxRequests
  /\ \/ stack = <<>>
     \/ InCallback /\ action \in CallbackActions /\ Len(stack) < MaxDepth

Request(action, sticky, i) ==
  [op |-> "action", pc |-> "subscribe", action |-> action, sticky |-> sticky,
   ack |-> i, token |-> requests + 1, kind |-> "accepted", entry |-> 0, pair |-> <<0, 0>>,
   rc |-> "SUCCESS"]

\* No record is free: the request is refused before anything is sent.
RequestRefused(action) ==
  /\ MayStart(action) /\ ~\E i \in Acks : IsFreeAck(i)
  /\ requests' = requests + 1
  /\ UNCHANGED <<lists, stack, promised, answered, persistent, troubles, service>>

\* Publish the request and enter it into the record chosen at the start.
Publish(f, rest, failed) ==
  /\ stack' = rest
  /\ \/ /\ ackWaitList' = [ackWaitList EXCEPT ![f.ack] =
                             [free |-> FALSE, token |-> f.token, action |-> f.action]]
        /\ promised' = promised \cup {f.token}
        /\ persistent' = IF f.sticky THEN persistent \cup {f.action} ELSE persistent
        /\ service' = service \cup {[token |-> f.token, action |-> f.action]}
        /\ troubles' = troubles \cup failed
     \/ /\ "publish" \in Failures
        /\ troubles' = troubles \cup failed \cup {"publish"}
        /\ UNCHANGED <<ackWaitList, promised, persistent, service>>

\* Both topics are in the list: count the request and publish.
RequestCounted(action, sticky) ==
  /\ MayStart(action) /\ IsSubscriptionPresent(action)
  /\ requests' = requests + 1
  /\ subscriptionList' = [n \in Entries |->
       IF ~subscriptionList[n].free
          /\ subscriptionList[n].topic \in {AckTopic(action, kind) : kind \in Kinds}
       THEN [subscriptionList[n] EXCEPT !.count = (@ + 1) % CountModulus, !.sticky = sticky]
       ELSE subscriptionList[n]]
  /\ \E i \in Acks : IsFreeAck(i) /\ Publish(Request(action, sticky, i), stack, {})
  /\ UNCHANGED <<handlers, answered>>

\* subscribeToShadowActionAcks: reserve two entries, subscribe to accepted.
\* The entry for rejected keeps its old topic until its turn.
RequestSubscribes(action, sticky) ==
  /\ MayStart(action) /\ ~IsSubscriptionPresent(action)
  /\ requests' = requests + 1
  /\ \E i \in Acks, a, r \in Entries :
       /\ IsFreeAck(i) /\ AreNextFree(a, r)
       /\ stack' = Append(stack, [Request(action, sticky, i) EXCEPT !.entry = a,
                                                                    !.pair = <<a, r>>])
       /\ subscriptionList' =
            [subscriptionList EXCEPT ![a].free = FALSE, ![r].free = FALSE,
                                     ![a].topic = AckTopic(action, "accepted")]
  /\ UNCHANGED <<ackWaitList, handlers, promised, answered, persistent, troubles, service>>

\* Fewer than two free entries: nothing is subscribed and ret_val stays SUCCESS.
\* The entry found, if any, is given back, and the topic it had before is
\* unsubscribed when its old count is 1.
RequestUnheard(action, sticky) ==
  /\ MayStart(action) /\ ~IsSubscriptionPresent(action)
  /\ Cardinality(FreeEntries) < 2
  /\ requests' = requests + 1
  /\ \E i \in Acks : \E f \in {Request(action, sticky, i)} :
       /\ IsFreeAck(i)
       /\ \/ /\ \A n \in FreeEntries : subscriptionList[n].count # 1
             /\ Publish(f, stack, {"full"})
          \/ \E n \in FreeEntries :
               /\ subscriptionList[n].count = 1
               /\ stack' = Append(stack, [f EXCEPT !.pc = "undo", !.entry = n])
               /\ troubles' = troubles \cup {"full"}
               /\ UNCHANGED <<ackWaitList, promised, persistent, service>>
  /\ UNCHANGED <<subscriptionList, handlers, answered>>

\* The subscription to accepted is in place: subscribe to rejected.
SubscribeReturns ==
  /\ At("action", "subscribe") /\ Top.kind = "accepted"
  /\ handlers' = handlers \cup {Top.entry}
  /\ subscriptionList' = [subscriptionList EXCEPT ![Top.entry].count = 1,
       ![Top.entry].sticky = Top.sticky,
       ![Top.pair[2]].topic = AckTopic(Top.action, "rejected")]
  /\ stack' = WithTop([Top EXCEPT !.kind = "rejected", !.entry = Top.pair[2]])
  /\ UNCHANGED <<ackWaitList, history, service>>

\* Both are in place: publish.
BothSubscribed ==
  /\ At("action", "subscribe") /\ Top.kind = "rejected"
  /\ handlers' = handlers \cup {Top.entry}
  /\ subscriptionList' = [subscriptionList EXCEPT ![Top.entry].count = 1,
                                                  ![Top.entry].sticky = Top.sticky]
  /\ Publish(Top, Below, {})
  /\ UNCHANGED <<requests, answered>>

\* One of the subscriptions fails: both entries are given back, and accepted is
\* unsubscribed when the count of its entry is 1 (which may be an old count).
SubscribeFails ==
  /\ At("action", "subscribe") /\ "subscribe" \in Failures
  /\ subscriptionList' = [subscriptionList EXCEPT ![Top.pair[1]].free = TRUE,
                                                  ![Top.pair[2]].free = TRUE]
  /\ stack' = IF subscriptionList[Top.pair[1]].count = 1
              THEN WithTop([Top EXCEPT !.pc = "undo", !.entry = Top.pair[1], !.rc = "FAILURE"])
              ELSE Below
  /\ UNCHANGED <<ackWaitList, handlers, history, service>>

\* aws_iot_mqtt_unsubscribe: every handler of the topic goes, none is an error.
Unsubscribe(topic) ==
  /\ \E n \in handlers : subscriptionList[n].topic = topic
  /\ handlers' = {n \in handlers : subscriptionList[n].topic # topic}

UnsubscribeFailed(topic) ==
  /\ \/ ~\E n \in handlers : subscriptionList[n].topic = topic
     \/ "unsubscribe" \in Failures
  /\ UNCHANGED handlers

\* The clean-up ignores the result; a request that met a full list goes on.
\* It is no trouble when the topic had no handler to give up.
Undone ==
  /\ At("action", "undo")
  /\ \E topic \in {subscriptionList[Top.entry].topic}, failed \in {{}, {"unsubscribe"}} :
       /\ \/ failed = {} /\ Unsubscribe(topic)
          \/ failed = {"unsubscribe"} \cap (IF topic \in Heard THEN Failures ELSE {})
             /\ UnsubscribeFailed(topic)
       /\ IF Top.rc = "SUCCESS" THEN Publish(Top, Below, failed)
          ELSE /\ stack' = Below /\ troubles' = troubles \cup failed
               /\ UNCHANGED <<ackWaitList, promised, persistent, service>>
  /\ UNCHANGED <<subscriptionList, requests, answered>>

----------------------------------------------------------------------------
(* Answers and timeouts *)

Answering(op, pc, i) ==
  [op |-> op, pc |-> pc, action |-> ackWaitList[i].action, sticky |-> FALSE, ack |-> i,
   token |-> ackWaitList[i].token, kind |-> "accepted", entry |-> 0, pair |-> <<0, 0>>,
   rc |-> "SUCCESS"]

\* AckStatusCallback: find the record of the token and call its callback.
AckStatusCallback(r, kind) ==
  /\ Reading /\ r \in service /\ AckTopic(r.action, kind) \in Heard
  /\ service' = service \ {r}
  /\ LET waiting == {i \in Acks : ~ackWaitList[i].free /\ ackWaitList[i].token = r.token}
     IN  IF waiting = {} THEN UNCHANGED <<stack, answered>>
         ELSE \E i \in waiting :
                /\ \A j \in waiting : i <= j
                /\ stack' = Append(stack, Answering("ack", "callback", i))
                /\ answered' = [answered EXCEPT ![r.token] = @ + 1]
  /\ UNCHANGED <<lists, requests, promised, persistent, troubles>>

\* HandleExpiredResponseCallbacks, called by yield: a loop over the records.
YieldStarts ==
  /\ stack = <<>>
  /\ stack' = <<Answering("expire", "scan", 1)>>
  /\ UNCHANGED <<lists, history, service>>

FaultyExpires(i) ==  \* the loop starts behind the first record
  /\ At("expire", "scan") /\ Top.ack < i /\ ~ackWaitList[i].free
  /\ answered' = [answered EXCEPT ![ackWaitList[i].token] = @ + 1]
  /\ stack' = WithTop(Answering("expire", "callback", i))
  /\ UNCHANGED <<lists, requests, promised, persistent, troubles, service>>

Expires(i) ==
  /\ At("expire", "scan") /\ Top.ack <= i /\ ~ackWaitList[i].free
  /\ answered' = [answered EXCEPT ![ackWaitList[i].token] = @ + 1]
  /\ stack' = WithTop(Answering("expire", "callback", i))
  /\ UNCHANGED <<lists, requests, promised, persistent, troubles, service>>

NoneExpired ==
  /\ At("expire", "scan") /\ stack' = Below
  /\ UNCHANGED <<lists, history, service>>

FaultyCallbackReturns ==  \* the record of an expired request is not given back
  /\ InCallback
  /\ stack' = WithTop([Top EXCEPT !.pc = "release", !.action = ackWaitList[Top.ack].action])
  /\ UNCHANGED <<lists, history, service>>

\* The callback returns; an expired request gives its record back at once, an
\* answered one after its topics.
CallbackReturns ==
  /\ InCallback
  /\ ackWaitList' = [ackWaitList EXCEPT ![Top.ack].free = @ \/ Top.op = "expire"]
  /\ stack' = WithTop([Top EXCEPT !.pc = "release", !.action = ackWaitList[Top.ack].action])
  /\ UNCHANGED <<subscriptionList, handlers, history, service>>

\* unsubscribeFromAcceptedAndRejected goes on to rejected, or returns.
NextTopic ==
  \/ /\ Top.kind = "accepted"
     /\ stack' = WithTop([Top EXCEPT !.pc = "release", !.kind = "rejected"])
     /\ UNCHANGED ackWaitList
  \/ /\ Top.kind = "rejected" /\ Top.op = "ack"
     /\ stack' = Below
     /\ ackWaitList' = [ackWaitList EXCEPT ![Top.ack].free = TRUE]
  \/ /\ Top.kind = "rejected" /\ Top.op = "expire"
     /\ stack' = WithTop([Top EXCEPT !.pc = "scan", !.ack = @ + 1])
     /\ UNCHANGED ackWaitList

FaultyIsLastUse(n) ==  \* the count is not looked at
  ~subscriptionList[n].sticky

MissedIsLastUse(n) == ~subscriptionList[n].sticky /\ subscriptionList[n].count = 0

\* The last request that uses the entry, and nobody asked to keep it.
IsLastUse(n) == ~subscriptionList[n].sticky /\ subscriptionList[n].count = 1

ReleaseTopic == AckTopic(Top.action, Top.kind)

ReleaseUnsubscribes ==
  /\ stack # <<>> /\ Top.pc = "release"
  /\ \E n \in Entries :
       /\ IsEntryOf(ReleaseTopic, n) /\ IsLastUse(n)
       /\ stack' = WithTop([Top EXCEPT !.pc = "unsubscribe", !.entry = n])
  /\ UNCHANGED <<lists, history, service>>

FaultyReleaseCounts ==  \* each topic counts both entries down, below one too
  /\ stack # <<>> /\ Top.pc = "release"
  /\ ~\E n \in Entries : IsEntryOf(ReleaseTopic, n) /\ IsLastUse(n)
  /\ subscriptionList' = [n \in Entries |->
       IF \E kind \in Kinds : IsEntryOf(AckTopic(Top.action, kind), n)
       THEN [subscriptionList[n] EXCEPT !.count = @ - 1] ELSE subscriptionList[n]]
  /\ NextTopic
  /\ UNCHANGED <<handlers, history, service>>

ReleaseCounts ==
  /\ stack # <<>> /\ Top.pc = "release"
  /\ ~\E n \in Entries : IsEntryOf(ReleaseTopic, n) /\ IsLastUse(n)
  /\ subscriptionList' = [n \in Entries |->
       IF IsEntryOf(ReleaseTopic, n) /\ subscriptionList[n].count > 1
       THEN [subscriptionList[n] EXCEPT !.count = @ - 1] ELSE subscriptionList[n]]
  /\ NextTopic
  /\ UNCHANGED <<handlers, history, service>>

Unsubscribed ==
  /\ stack # <<>> /\ Top.pc = "unsubscribe"
  /\ \/ /\ Unsubscribe(ReleaseTopic) /\ UNCHANGED troubles
        /\ subscriptionList' = [subscriptionList EXCEPT ![Top.entry].free = TRUE]
     \/ /\ UnsubscribeFailed(ReleaseTopic) /\ troubles' = troubles \cup {"unsubscribe"}
        /\ UNCHANGED subscriptionList
  /\ NextTopic
  /\ UNCHANGED <<requests, promised, answered, persistent, service>>

----------------------------------------------------------------------------

RequestNext ==
  \/ \E action \in Actions : RequestRefused(action)
  \/ \E action \in Actions, sticky \in Stickiness :
       \/ RequestCounted(action, sticky) \/ RequestSubscribes(action, sticky)
       \/ RequestUnheard(action, sticky)
  \/ SubscribeReturns \/ BothSubscribed \/ SubscribeFails \/ Undone

AnswerNext ==
  \/ \E r \in service, kind \in Kinds : AckStatusCallback(r, kind)
  \/ YieldStarts \/ (\E i \in Acks : Expires(i)) \/ NoneExpired
  \/ CallbackReturns \/ ReleaseUnsubscribes \/ ReleaseCounts \/ Unsubscribed

Next == RequestNext \/ AnswerNext

Spec == Init /\ [][Next]_vars

=============================================================================
