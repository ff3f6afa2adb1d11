---------------------- MODULE ShadowRecordsProperties ----------------------
(* What the bookkeeping of shadow requests has to guarantee. *)
EXTENDS ShadowRecords

Frames ==
  [op : {"action", "ack", "expire"},
   pc : {"subscribe", "undo", "callback", "release", "unsubscribe", "scan"},
   action : Actions, sticky : BOOLEAN, ack : 1 .. MaxAcks + 1, token : 0 .. MaxRequests,
   kind : Kinds, entry : 0 .. MaxTopics, pair : (0 .. MaxTopics) \X (0 .. MaxTopics),
   rc : {"SUCCESS", "FAILURE"}]

(* Every variable holds a value of its type. *)
TypeOK ==
  /\ ackWaitList \in [Acks -> Records] /\ subscriptionList \in [Entries -> Subscriptions]
  /\ handlers \subseteq Entries /\ stack \in Seq(Frames)
  /\ requests \in 0 .. MaxRequests /\ promised \subseteq Tokens
  /\ answered \in [Tokens -> Nat] /\ persistent \subseteq Actions
  /\ troubles \subseteq {"publish", "unsubscribe", "full"}
  /\ service \subseteq [token : Tokens, action : Actions]

(* The callback of a request is called at most once: an answer that races the *)
(* timeout of its request (records.c:455-469) does not answer it again.       *)
AnsweredOnce == \A t \in Tokens : answered[t] <= 1

----------------------------------------------------------------------------
(* The inductive invariant behind AnsweredOnce and NoRequestForgotten, for an *)
(* application whose callbacks make no requests.                              *)

(* Where each function waits, and the record it works on.                     *)
FrameOK(f) ==
  /\ f.op = "action" => f.pc \in {"subscribe", "undo"} /\ f.token \in Tokens
  /\ f.op = "ack" => f.pc \in {"callback", "release", "unsubscribe"}
  /\ f.op = "expire" => f.pc \in {"callback", "release", "unsubscribe", "scan"}
  /\ f.pc # "scan" => f.ack \in Acks
  /\ f.pc = "subscribe" => f.entry \in Entries /\ f.pair \in Entries \X Entries

FramesOK == \A n \in 1 .. Len(stack) : FrameOK(stack[n])

(* A request or the expiry loop is at the bottom, answers nest above it, and  *)
(* all but the innermost wait where the client reads.                         *)
AnswersNest ==
  /\ \A n \in 2 .. Len(stack) : stack[n].op = "ack"
  /\ \A n \in 1 .. Len(stack) - 1 : stack[n].pc \in {"subscribe", "undo", "unsubscribe"}

(* The frame has called the callback of its record, and not yet given it back. *)
Holding(f) == f.op = "ack" \/ (f.op = "expire" /\ f.pc = "callback")

(* A record that is held has been answered once, and by one frame only.       *)
HeldOnce ==
  /\ \A n \in 1 .. Len(stack) : Holding(stack[n]) =>
       ~ackWaitList[stack[n].ack].free /\ answered[ackWaitList[stack[n].ack].token] = 1
  /\ \A m, n \in 1 .. Len(stack) :
       m < n /\ Holding(stack[m]) /\ Holding(stack[n]) => stack[m].ack # stack[n].ack

(* A record that is still taken after its answer is held by a frame.          *)
AnsweredHeld ==
  \A i \in Acks :
    ~ackWaitList[i].free /\ answered[ackWaitList[i].token] # 0 =>
      \E n \in 1 .. Len(stack) : Holding(stack[n]) /\ stack[n].ack = i

(* The service has used up its answer to a request whose record waits for its *)
(* topics to be released.                                                     *)
AnswerUsed ==
  \A n \in 1 .. Len(stack), r \in service :
    stack[n].op = "ack" => r.token # ackWaitList[stack[n].ack].token

(* Tokens are handed out in order and belong to one record.                   *)
TokensInOrder ==
  /\ \A i \in Acks : ~ackWaitList[i].free => ackWaitList[i].token \in 1 .. requests
  /\ \A i, j \in Acks :
       ~ackWaitList[i].free /\ ~ackWaitList[j].free /\ i # j
         => ackWaitList[i].token # ackWaitList[j].token
  /\ \A r, s \in service : r.token \in 1 .. requests /\ (r.token = s.token => r = s)
  /\ \A t \in Tokens : t > requests => answered[t] = 0

(* A request that is being made has a free record and a token of its own.     *)
RequestFresh ==
  \A n \in 1 .. Len(stack) : stack[n].op = "action" =>
    /\ stack[n].token = requests /\ requests \in Tokens
    /\ ackWaitList[stack[n].ack].free /\ answered[requests] = 0
    /\ \A i \in Acks : ~ackWaitList[i].free => ackWaitList[i].token # requests
    /\ \A r \in service : r.token # requests

HoldersInv == HeldOnce /\ AnsweredHeld /\ AnswerUsed

RecordInv ==
  /\ TypeOK /\ FramesOK /\ AnswersNest /\ HoldersInv
  /\ TokensInOrder /\ RequestFresh /\ AnsweredOnce

----------------------------------------------------------------------------
Outstanding(i) == ~ackWaitList[i].free /\ answered[ackWaitList[i].token] = 0

(* A record is given back, or taken for another request, only after the       *)
(* callback of its request has been called: no request is forgotten.          *)
NoRequestForgotten ==
  [][\A i \in Acks :
       ~ackWaitList[i].free /\ ackWaitList'[i] # ackWaitList[i]
         => answered'[ackWaitList[i].token] > 0]_vars

(* While a request waits for its answer the topics of the answer stay         *)
(* subscribed, however many requests share them and end before it, unless an  *)
(* unsubscription failed or the list of subscriptions was full.               *)
AnswerHeard ==
  troubles \subseteq {"publish"} =>
    \A i \in Acks, kind \in Kinds :
      Outstanding(i) => AckTopic(ackWaitList[i].action, kind) \in Heard

(* When no request is left, one-off requests leave no subscription behind     *)
(* (aws_iot_shadow_interface.h:188), unless a call failed.                    *)
NothingLeft ==
  troubles = {} /\ stack = <<>> /\ (\A i \in Acks : ackWaitList[i].free) =>
    \A topic \in Heard : \E action \in persistent, kind \in Kinds :
      topic = AckTopic(action, kind)

----------------------------------------------------------------------------
(* The inductive invariant behind AnswerHeard and NothingLeft, for callbacks  *)
(* that make no requests: the count of a topic and the requests that use it.  *)

(* A request waits for its answer.                                            *)
Waits(token, action) ==
  \E i \in Acks :
    Outstanding(i) /\ ackWaitList[i].token = token /\ ackWaitList[i].action = action

(* A request was answered and its topics are given up, first that of accepted, *)
(* then that of rejected.                                                     *)
Releasing(f) == f.op # "action" /\ f.pc # "scan"
Releases(token, action, kind) ==
  \E n \in 1 .. Len(stack) :
    /\ Releasing(stack[n]) /\ stack[n].token = token
    /\ stack[n].action = action /\ stack[n].kind = kind

(* The requests that use both topics of the action; whether one uses the topic *)
(* of rejected only.                                                          *)
Users(action) == {t \in Tokens : Waits(t, action) \/ Releases(t, action, "accepted")}
HasHalf(action) == \E t \in Tokens : Releases(t, action, "rejected")

(* A request that waits for its subscriptions is at the bottom of the stack.  *)
Requesting(pc) == stack # <<>> /\ stack[1].op = "action" /\ stack[1].pc = pc
Reserved == IF Requesting("subscribe") THEN {stack[1].pair[1], stack[1].pair[2]} ELSE {}

(* The entries whose subscription is complete.                                *)
Live == {n \in Entries : ~subscriptionList[n].free /\ n \notin Reserved}
LiveOf(action, kind) == {n \in Live : subscriptionList[n].topic = AckTopic(action, kind)}

(* A count is not lower than the number of users, and not higher unless the   *)
(* action was persistent or a publish failed.                                 *)
Counts(entry, users, action) ==
  /\ 1 <= entry.count /\ users <= entry.count /\ entry.count <= requests
  /\ troubles = {} => /\ entry.count <= users + 1
                      /\ action \notin persistent => entry.count = users /\ ~entry.sticky

(* Both topics of an action are in use, with one count, or none is.           *)
Settled(action) ==
  \/ LiveOf(action, "accepted") = {} /\ LiveOf(action, "rejected") = {} /\ Users(action) = {}
  \/ \E a \in LiveOf(action, "accepted"), r \in LiveOf(action, "rejected") :
       /\ subscriptionList[a].count = subscriptionList[r].count
       /\ subscriptionList[a].sticky = subscriptionList[r].sticky
       /\ Counts(subscriptionList[r], Cardinality(Users(action)), action)

(* accepted has been given up and rejected not yet: what is left of accepted  *)
(* is what will be left of rejected.                                          *)
HalfReleased(action) ==
  \E r \in LiveOf(action, "rejected") :
    /\ Counts(subscriptionList[r], Cardinality(Users(action)) + 1, action)
    /\ \/ IsLastUse(r) /\ LiveOf(action, "accepted") = {}
       \/ \E a \in LiveOf(action, "accepted") :
            /\ ~IsLastUse(r) /\ subscriptionList[a].sticky = subscriptionList[r].sticky
            /\ subscriptionList[a].count =
                 IF subscriptionList[r].count = 1 THEN 1 ELSE subscriptionList[r].count - 1

PairCounted(action) == IF HasHalf(action) THEN HalfReleased(action) ELSE Settled(action)
PairsCounted == \A action \in Actions : PairCounted(action)

(* An entry whose subscription is complete is the first with its topic: what  *)
(* free entries, and the second of two reserved ones, still say lies behind.  *)
LiveFirst ==
  \A m \in Live :
    /\ subscriptionList[m].topic \in Topics
    /\ \A n \in Entries : subscriptionList[n].topic = subscriptionList[m].topic => m <= n

(* A function that waits for its unsubscribe is the last user of the topic.   *)
LastUser(f) ==
  /\ f.entry \in LiveOf(f.action, f.kind) /\ IsLastUse(f.entry)
  /\ \A t \in Tokens : ~Waits(t, f.action)

UnsubscribesLast ==
  \A n \in 1 .. Len(stack) : \A f \in {stack[n]} :
    f.pc = "unsubscribe" =>
      /\ LastUser(f)
      /\ \A m \in 1 .. Len(stack) :
           m # n /\ Releasing(stack[m]) => stack[m].action # f.action

(* A request that waits for its subscriptions is the first user of its topics. *)
Unused(action) ==
  Users(action) = {} /\ \A kind \in Kinds : LiveOf(action, kind) = {}

ReservedFirst ==
  Requesting("subscribe") =>
    \E f \in {stack[1]} : \E a \in {f.pair[1]}, r \in {f.pair[2]} :
      /\ Unused(f.action) /\ a < r /\ f.entry = (IF f.kind = "accepted" THEN a ELSE r)
      /\ ~subscriptionList[a].free /\ ~subscriptionList[r].free
      /\ subscriptionList[a].topic = AckTopic(f.action, "accepted")
      /\ \A n \in Entries :
           /\ subscriptionList[n].topic = AckTopic(f.action, "accepted") => a <= n
           /\ subscriptionList[n].topic = AckTopic(f.action, "rejected") => r <= n
      /\ f.kind = "rejected" =>
           /\ subscriptionList[r].topic = AckTopic(f.action, "rejected")
           /\ a \in handlers /\ subscriptionList[a].count = 1
           /\ subscriptionList[a].sticky = f.sticky

UndoneAlone ==
  Requesting("undo") =>
    /\ Unused(stack[1].action) /\ stack[1].rc = "FAILURE" /\ stack[1].entry \in Entries
    /\ subscriptionList[stack[1].entry].topic = AckTopic(stack[1].action, "accepted")

(* The client listens to the complete subscriptions, and to the one that is   *)
(* being completed or undone.                                                 *)
Pending ==
  IF Requesting("undo") THEN {stack[1].entry}
  ELSE IF Requesting("subscribe") /\ stack[1].kind = "rejected" THEN {stack[1].pair[1]}
  ELSE {}

ListensToLive == Live \subseteq handlers /\ handlers \subseteq Live \cup Pending

(* A function keeps what it knows of its record, and its request is answered; *)
(* publishing fails only where it may.                                        *)
FramesKnow ==
  /\ "publish" \in troubles => "publish" \in Failures
  /\ \A n \in 1 .. Len(stack) : Releasing(stack[n]) =>
       /\ stack[n].token \in Tokens /\ answered[stack[n].token] # 0
       /\ Holding(stack[n]) => ackWaitList[stack[n].ack].action = stack[n].action

ListInv ==
  /\ LiveFirst /\ PairsCounted /\ UnsubscribesLast
  /\ ReservedFirst /\ UndoneAlone /\ ListensToLive

(* Counts do not wrap around: there are fewer requests than a count can hold, or *)
(* none fails to be published and the records are fewer.                      *)
CountSuffices ==
  \/ MaxRequests < CountModulus
  \/ "publish" \notin Failures /\ MaxAcks + 1 < CountModulus

UseInv == FramesKnow /\ (troubles \subseteq {"publish"} => ListInv)

(* Both inductive invariants: the records, and the counted subscriptions.     *)
ShadowInv == RecordInv /\ UseInv

----------------------------------------------------------------------------
(* Fairness: the thread keeps running, callbacks return, the application      *)
(* keeps calling yield, and a record that yield visits again and again is     *)
(* found expired in the end.                                                  *)
Fairness ==
  /\ WF_vars(stack # <<>> /\ Next)
  /\ WF_vars(YieldStarts)
  /\ \A i \in Acks : SF_vars(Expires(i))

FairSpec == Spec /\ Fairness

(* Every request that was accepted gets an answer: accepted, rejected or      *)
(* timeout, even when calls fail and the service stays silent.                *)
AllAnswered == \A t \in Tokens : t \in promised ~> answered[t] > 0

=============================================================================
