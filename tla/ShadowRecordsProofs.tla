------------------------ MODULE ShadowRecordsProofs ------------------------
(* For all actions, tables and failures: the variables keep their types; and  *)
(* when callbacks make no requests, no callback is called twice, no request is *)
(* forgotten, topics are heard as long as a request needs them, and no topic  *)
(* stays subscribed when none does.                                           *)
EXTENDS ShadowRecordsProperties, FiniteSetTheorems, TLAPS

USE ConstantsAssumption

TypeInv == TypeOK /\ FramesOK

----------------------------------------------------------------------------
(* The stack *)

(* A return takes the top frame away. *)
LEMMA BelowSeq ==
  ASSUME stack \in Seq(Frames), stack # <<>>
  PROVE  /\ Len(stack) \in Nat \ {0} /\ Top \in Frames
         /\ Below \in Seq(Frames) /\ Len(Below) = Len(stack) - 1
         /\ \A n \in 1 .. Len(stack) - 1 : Below[n] = stack[n]
<1>1. Len(stack) \in Nat \ {0}
  OBVIOUS
<1>2. Below \in [1 .. Len(stack) - 1 -> Frames] /\ Len(stack) - 1 \in Nat
  BY <1>1 DEF Below
<1>3. Below \in Seq(Frames) /\ Len(Below) = Len(stack) - 1
  BY <1>2 DEF Below
<1> QED
  BY <1>1, <1>3 DEF Below, Top

(* Replacing the top frame changes no other. *)
LEMMA WithTopSeq ==
  ASSUME stack \in Seq(Frames), stack # <<>>, NEW f \in Frames
  PROVE  /\ WithTop(f) \in Seq(Frames) /\ Len(WithTop(f)) = Len(stack)
         /\ WithTop(f)[Len(stack)] = f
         /\ \A n \in 1 .. Len(stack) - 1 : WithTop(f)[n] = stack[n]
  BY DEF WithTop

(* A new frame goes on top. *)
LEMMA AppendSeq ==
  ASSUME stack \in Seq(Frames), NEW f \in Frames
  PROVE  /\ Append(stack, f) \in Seq(Frames) /\ Len(Append(stack, f)) = Len(stack) + 1
         /\ Append(stack, f)[Len(stack) + 1] = f
         /\ \A n \in 1 .. Len(stack) : Append(stack, f)[n] = stack[n]
  OBVIOUS

StackTypes == stack \in Seq(Frames) /\ FramesOK

LEMMA TopTypes ==
  ASSUME TypeInv, stack # <<>>
  PROVE  Top \in Frames /\ FrameOK(Top)
  BY BelowSeq DEF TypeInv, TypeOK, FramesOK, Top

LEMMA PopTypes ==
  ASSUME TypeInv, stack # <<>>, stack' = Below
  PROVE  StackTypes'
  BY BelowSeq DEF TypeInv, TypeOK, FramesOK, StackTypes, FrameOK

LEMMA TopBecomesTypes ==
  ASSUME TypeInv, stack # <<>>, NEW f \in Frames, FrameOK(f), stack' = WithTop(f)
  PROVE  StackTypes'
<1>1. stack \in Seq(Frames) /\ Len(stack) \in Nat \ {0}
  BY BelowSeq DEF TypeInv, TypeOK
<1>2. /\ stack' \in Seq(Frames) /\ Len(stack') = Len(stack)
      /\ stack'[Len(stack)] = f
      /\ \A n \in 1 .. Len(stack) - 1 : stack'[n] = stack[n]
  BY <1>1, WithTopSeq
<1>3. \A n \in 1 .. Len(stack) : FrameOK(stack'[n])
  BY <1>1, <1>2 DEF TypeInv, FramesOK
<1> QED
  BY <1>2, <1>3 DEF StackTypes, FramesOK, FrameOK

LEMMA PushTypes ==
  ASSUME TypeInv, NEW f \in Frames, FrameOK(f), stack' = Append(stack, f)
  PROVE  StackTypes'
<1>1. stack \in Seq(Frames) /\ Len(stack) \in Nat
  BY DEF TypeInv, TypeOK
<1>2. /\ stack' \in Seq(Frames) /\ Len(stack') = Len(stack) + 1
      /\ stack'[Len(stack) + 1] = f
      /\ \A n \in 1 .. Len(stack) : stack'[n] = stack[n]
  BY <1>1, AppendSeq
<1>3. \A n \in 1 .. Len(stack) + 1 : FrameOK(stack'[n])
  BY <1>1, <1>2 DEF TypeInv, FramesOK
<1> QED
  BY <1>2, <1>3 DEF StackTypes, FramesOK, FrameOK

LEMMA SameTypes ==
  ASSUME TypeInv, stack' = stack
  PROVE  StackTypes'
  BY DEF TypeInv, TypeOK, FramesOK, StackTypes, FrameOK

(* A frame stays a frame when fields change within their types. *)
LEMMA ChangedType ==
  ASSUME NEW f \in Frames, NEW e \in 0 .. MaxTopics, NEW r \in 0 .. MaxTopics,
         NEW kind \in Kinds
  PROVE  /\ [f EXCEPT !.entry = e, !.pair = <<e, r>>] \in Frames
         /\ [f EXCEPT !.kind = kind, !.entry = e] \in Frames
         /\ [f EXCEPT !.pc = "undo", !.entry = e] \in Frames
         /\ [f EXCEPT !.pc = "undo", !.entry = e, !.rc = "FAILURE"] \in Frames
         /\ [f EXCEPT !.pc = "release", !.kind = kind] \in Frames
         /\ [f EXCEPT !.pc = "unsubscribe", !.entry = e] \in Frames
         /\ \A action \in Actions : [f EXCEPT !.pc = "release", !.action = action] \in Frames
         /\ \A i \in 1 .. MaxAcks + 1 : [f EXCEPT !.pc = "scan", !.ack = i] \in Frames
  BY DEF Frames

(* A request as it is published. *)
RequestOK(f) == f \in Frames /\ f.op = "action" /\ f.token \in Tokens /\ f.ack \in Acks

LEMMA RequestType ==
  ASSUME TypeInv, NEW action \in Actions, NEW sticky \in Stickiness, NEW i \in Acks,
         requests < MaxRequests
  PROVE  RequestOK(Request(action, sticky, i))
<1>1. requests + 1 \in 1 .. MaxRequests /\ 0 \in 0 .. MaxTopics /\ i \in 1 .. MaxAcks + 1
      /\ sticky \in BOOLEAN
  BY DEF TypeInv, TypeOK, Acks
<1>2. <<0, 0>> \in (0 .. MaxTopics) \X (0 .. MaxTopics)
  BY <1>1
<1> QED
  BY <1>1, <1>2 DEF Request, Frames, RequestOK, Kinds, Tokens

LEMMA AnsweringType ==
  ASSUME TypeInv, NEW op \in {"ack", "expire"}, NEW pc \in {"callback", "scan"}, NEW i \in Acks,
         pc = "scan" => op = "expire"
  PROVE  Answering(op, pc, i) \in Frames /\ FrameOK(Answering(op, pc, i))
<1>1. ackWaitList[i] \in Records
  BY DEF TypeInv, TypeOK
<1>2. 0 \in 0 .. MaxTopics /\ i \in 1 .. MaxAcks + 1
  BY DEF Acks
<1>3. <<0, 0>> \in (0 .. MaxTopics) \X (0 .. MaxTopics)
  BY <1>2
<1> QED
  BY <1>1, <1>2, <1>3 DEF Answering, Frames, FrameOK, Records, Kinds

----------------------------------------------------------------------------
(* Types *)

Troubles == {"publish", "unsubscribe", "full"}
AckTypes == ackWaitList \in [Acks -> Records]
ListTypes == subscriptionList \in [Entries -> Subscriptions] /\ handlers \subseteq Entries
HistoryTypes ==
  /\ promised \subseteq Tokens /\ persistent \subseteq Actions /\ troubles \subseteq Troubles
  /\ service \subseteq [token : Tokens, action : Actions]
CountTypes == requests \in 0 .. MaxRequests /\ answered \in [Tokens -> Nat]

LEMMA TypesTogether ==
  TypeInv <=> StackTypes /\ AckTypes /\ ListTypes /\ HistoryTypes /\ CountTypes
  BY DEF TypeInv, TypeOK, StackTypes, AckTypes, ListTypes, HistoryTypes, CountTypes, Troubles

LEMMA TypesNext ==
  ASSUME StackTypes', AckTypes', ListTypes', HistoryTypes', CountTypes'
  PROVE  TypeInv'
  BY DEF TypeInv, TypeOK, StackTypes, AckTypes, ListTypes, HistoryTypes, CountTypes, Troubles

(* The stack apart, nothing changes but what is named. *)
LEMMA SameLists ==
  ASSUME TypeInv
  PROVE  /\ UNCHANGED ackWaitList => AckTypes'
         /\ UNCHANGED <<subscriptionList, handlers>> => ListTypes'
         /\ UNCHANGED <<promised, persistent, troubles, service>> => HistoryTypes'
         /\ UNCHANGED <<requests, answered>> => CountTypes'
  BY TypesTogether DEF AckTypes, ListTypes, HistoryTypes, CountTypes, Records, Acks, Entries, Tokens,
                       Subscriptions, Topics, Troubles

(* A record that is published is entered whole. *)
LEMMA PublishTypes ==
  ASSUME TypeInv, NEW f, RequestOK(f), NEW rest,
         NEW failed \in SUBSET Troubles, Publish(f, rest, failed)
  PROVE  AckTypes' /\ HistoryTypes' /\ stack' = rest
<1>1. f.token \in Tokens /\ f.token \in 0 .. MaxRequests /\ f.action \in Actions /\ f.ack \in Acks
  BY DEF RequestOK, Frames, Tokens
<1>2. [free |-> FALSE, token |-> f.token, action |-> f.action] \in Records
  BY <1>1 DEF Records
<1>3. [token |-> f.token, action |-> f.action] \in [token : Tokens, action : Actions]
  BY <1>1
<1>4. AckTypes'
  <2>1. ackWaitList \in [Acks -> Records]
    BY TypesTogether DEF AckTypes
  <2>2. ackWaitList' = ackWaitList
        \/ ackWaitList' = [ackWaitList EXCEPT ![f.ack] =
                             [free |-> FALSE, token |-> f.token, action |-> f.action]]
    BY DEF Publish
  <2> QED
    BY <1>2, <2>1, <2>2 DEF AckTypes, Records, Acks
<1>5. HistoryTypes'
  <2>1. /\ promised' = promised \/ promised' = promised \cup {f.token}
        /\ persistent' = persistent \/ persistent' = persistent \cup {f.action}
        /\ \/ service' = service
           \/ service' = service \cup {[token |-> f.token, action |-> f.action]}
        /\ \/ troubles' = troubles \cup failed
           \/ troubles' = troubles \cup failed \cup {"publish"}
    BY DEF Publish
  <2>2. HistoryTypes
    BY TypesTogether
  <2> QED
    BY <1>1, <1>3, <2>1, <2>2 DEF HistoryTypes, Tokens, Troubles
<1> QED
  BY <1>4, <1>5 DEF Publish

(* What is written to an entry of the list keeps its type. *)
Lists == [Entries -> Subscriptions]

LEMMA SetField ==
  ASSUME NEW list \in Lists, NEW n
  PROVE  /\ \A free \in BOOLEAN : [list EXCEPT ![n].free = free] \in Lists
         /\ \A topic \in Topics : [list EXCEPT ![n].topic = topic] \in Lists
         /\ [list EXCEPT ![n].count = 1] \in Lists
         /\ \A sticky \in BOOLEAN : [list EXCEPT ![n].sticky = sticky] \in Lists
<1>1. 1 \in 0 .. CountModulus - 1
  OBVIOUS
<1>2. CASE n \in Entries
  <2>1. list[n] \in Subscriptions
    BY <1>2 DEF Lists
  <2>2. /\ \A free \in BOOLEAN : [list[n] EXCEPT !.free = free] \in Subscriptions
        /\ \A topic \in Topics : [list[n] EXCEPT !.topic = topic] \in Subscriptions
        /\ [list[n] EXCEPT !.count = 1] \in Subscriptions
        /\ \A sticky \in BOOLEAN : [list[n] EXCEPT !.sticky = sticky] \in Subscriptions
    BY <1>1, <2>1 DEF Subscriptions
  <2> QED
    BY <2>2 DEF Lists
<1>3. CASE n \notin Entries
  <2>1. \A v : [list EXCEPT ![n] = v] = list
    BY <1>3 DEF Lists
  <2> QED
    BY <2>1
<1> QED
  BY <1>2, <1>3

(* The counts stay within their byte. *)
LEMMA CountType ==
  ASSUME NEW s \in Subscriptions, NEW sticky \in BOOLEAN
  PROVE  /\ [s EXCEPT !.count = (@ + 1) % CountModulus, !.sticky = sticky] \in Subscriptions
         /\ s.count > 1 => [s EXCEPT !.count = @ - 1] \in Subscriptions
<1>1. s.count \in 0 .. CountModulus - 1
  BY DEF Subscriptions
<1>2. /\ (s.count + 1) % CountModulus \in 0 .. CountModulus - 1
      /\ s.count > 1 => s.count - 1 \in 0 .. CountModulus - 1
  BY <1>1
<1> QED
  BY <1>2 DEF Subscriptions

LEMMA ListsNext ==
  ASSUME subscriptionList' \in Lists, handlers' \subseteq Entries
  PROVE  ListTypes'
  BY DEF Lists, ListTypes, Subscriptions, Topics, Entries

(* A request takes the next token. *)
LEMMA CountGrows ==
  ASSUME TypeInv, requests < MaxRequests, requests' = requests + 1, UNCHANGED answered
  PROVE  CountTypes'
<1>1. requests \in 0 .. MaxRequests /\ answered \in [Tokens -> Nat]
  BY TypesTogether DEF CountTypes
<1> QED
  BY <1>1 DEF CountTypes, Tokens

LEMMA TopicType ==
  ASSUME NEW action \in Actions, NEW kind \in Kinds
  PROVE  AckTopic(action, kind) \in Topics
  BY DEF Topics

LEMMA RequestTypes == TypeInv /\ RequestNext => TypeInv'
<1> SUFFICES ASSUME TypeInv, RequestNext PROVE TypeInv'
  OBVIOUS
<1> USE TypesTogether, TypesNext
<1>0. subscriptionList \in Lists /\ handlers \subseteq Entries
  BY DEF ListTypes, Lists
<1>1. ASSUME NEW action \in Actions, RequestRefused(action) PROVE TypeInv'
  <2>1. StackTypes' /\ AckTypes' /\ ListTypes' /\ HistoryTypes'
    BY <1>1, SameTypes, SameLists DEF RequestRefused, lists
  <2>2. CountTypes'
    BY <1>1, CountGrows DEF RequestRefused, MayStart
  <2> QED
    BY <2>1, <2>2
<1>2. ASSUME NEW action \in Actions, NEW sticky \in Stickiness, RequestCounted(action, sticky)
      PROVE  TypeInv'
  <2>1. PICK i \in Acks : Publish(Request(action, sticky, i), stack, {})
    BY <1>2 DEF RequestCounted
  <2>2. requests < MaxRequests /\ requests' = requests + 1
    BY <1>2 DEF RequestCounted, MayStart
  <2>5. AckTypes' /\ HistoryTypes' /\ stack' = stack
    BY <2>1, <2>2, RequestType, PublishTypes DEF Troubles
  <2>6. StackTypes'
    BY <2>5, SameTypes
  <2>7. ListTypes'
    <3>1. \A n \in Entries : subscriptionList[n] \in Subscriptions
      BY <1>0 DEF Lists
    <3>2. \A n \in Entries :
            [subscriptionList[n] EXCEPT !.count = (@ + 1) % CountModulus, !.sticky = sticky]
              \in Subscriptions
      BY <3>1, CountType
    <3>3. subscriptionList' \in Lists
      BY <1>2, <3>1, <3>2 DEF RequestCounted, Lists
    <3> QED
      BY <1>0, <1>2, <3>3, ListsNext DEF RequestCounted
  <2>8. CountTypes'
    BY <1>2, <2>2, CountGrows DEF RequestCounted
  <2> QED
    BY <2>5, <2>6, <2>7, <2>8
<1>3. ASSUME NEW action \in Actions, NEW sticky \in Stickiness, RequestSubscribes(action, sticky)
      PROVE  TypeInv'
  <2>1. PICK i \in Acks, a \in Entries, r \in Entries :
          /\ stack' = Append(stack, [Request(action, sticky, i) EXCEPT !.entry = a,
                                                                       !.pair = <<a, r>>])
          /\ subscriptionList' =
               [subscriptionList EXCEPT ![a].free = FALSE, ![r].free = FALSE,
                                        ![a].topic = AckTopic(action, "accepted")]
    BY <1>3 DEF RequestSubscribes
  <2>2. requests < MaxRequests /\ requests' = requests + 1
    BY <1>3 DEF RequestSubscribes, MayStart
  <2>3. StackTypes'
    <3> DEFINE f == Request(action, sticky, i)
    <3>1. RequestOK(f) /\ f \in Frames
      BY <2>2, RequestType DEF RequestOK
    <3>6. f.pc = "subscribe"
      BY DEF Request
    <3> HIDE DEF f
    <3>2. a \in 0 .. MaxTopics /\ r \in 0 .. MaxTopics /\ "accepted" \in Kinds
      BY DEF Entries, Kinds
    <3>3. [f EXCEPT !.entry = a, !.pair = <<a, r>>] \in Frames
      BY <3>1, <3>2, ChangedType
    <3>4. FrameOK([f EXCEPT !.entry = a, !.pair = <<a, r>>])
      BY <3>1, <3>6 DEF FrameOK, Frames, RequestOK
    <3>5. stack' = Append(stack, [f EXCEPT !.entry = a, !.pair = <<a, r>>])
      BY <2>1 DEF f
    <3> QED
      BY <3>3, <3>4, <3>5, PushTypes
  <2>4. ListTypes'
    <3>1. AckTopic(action, "accepted") \in Topics
      BY TopicType DEF Kinds
    <3>2. [[subscriptionList EXCEPT ![a].free = FALSE] EXCEPT ![r].free = FALSE] \in Lists
      BY <1>0, SetField
    <3>3. [subscriptionList EXCEPT ![a].free = FALSE, ![r].free = FALSE,
                                   ![a].topic = AckTopic(action, "accepted")] =
          [[[subscriptionList EXCEPT ![a].free = FALSE] EXCEPT ![r].free = FALSE]
             EXCEPT ![a].topic = AckTopic(action, "accepted")]
      OBVIOUS
    <3>4. subscriptionList' \in Lists
      BY <2>1, <3>1, <3>2, <3>3, SetField
    <3> QED
      BY <1>0, <1>3, <3>4, ListsNext DEF RequestSubscribes
  <2>5. AckTypes' /\ HistoryTypes'
    BY <1>3, SameLists DEF RequestSubscribes
  <2>6. CountTypes'
    BY <1>3, <2>2, CountGrows DEF RequestSubscribes
  <2> QED
    BY <2>3, <2>4, <2>5, <2>6
<1>4. ASSUME NEW action \in Actions, NEW sticky \in Stickiness, RequestUnheard(action, sticky)
      PROVE  TypeInv'
  <2> DEFINE f(i) == Request(action, sticky, i)
  <2>1. requests < MaxRequests /\ requests' = requests + 1
    BY <1>4 DEF RequestUnheard, MayStart
  <2>2. \A i \in Acks : RequestOK(f(i)) /\ f(i) \in Frames
    BY <2>1, RequestType DEF RequestOK
  <2>3. PICK i \in Acks :
          \/ Publish(f(i), stack, {"full"})
          \/ \E n \in FreeEntries :
               /\ stack' = Append(stack, [f(i) EXCEPT !.pc = "undo", !.entry = n])
               /\ troubles' = troubles \cup {"full"}
               /\ UNCHANGED <<ackWaitList, promised, persistent, service>>
    BY <1>4 DEF RequestUnheard
  <2>4. ListTypes' /\ CountTypes'
    BY <1>4, <2>1, SameLists, CountGrows DEF RequestUnheard
  <2>5. CASE Publish(f(i), stack, {"full"})
    <3>1. AckTypes' /\ HistoryTypes' /\ stack' = stack
      BY <2>2, <2>5, PublishTypes DEF Troubles
    <3> QED
      BY <2>4, <3>1, SameTypes
  <2>6. ASSUME NEW n \in FreeEntries,
               stack' = Append(stack, [f(i) EXCEPT !.pc = "undo", !.entry = n]),
               troubles' = troubles \cup {"full"},
               UNCHANGED <<ackWaitList, promised, persistent, service>>
        PROVE  TypeInv'
    <3> HIDE DEF f
    <3>1. n \in 0 .. MaxTopics
      BY DEF FreeEntries, Entries
    <3>2. [f(i) EXCEPT !.pc = "undo", !.entry = n] \in Frames
      BY <2>2, <3>1, ChangedType DEF Kinds
    <3>3. FrameOK([f(i) EXCEPT !.pc = "undo", !.entry = n])
      BY <2>2 DEF FrameOK, Frames, RequestOK
    <3>4. StackTypes'
      BY <2>6, <3>2, <3>3, PushTypes
    <3>5. AckTypes' /\ HistoryTypes'
      BY <2>6, SameLists DEF HistoryTypes, Tokens, Troubles
    <3> QED
      BY <2>4, <3>4, <3>5
  <2> QED
    BY <2>3, <2>5, <2>6
<1>5. ASSUME SubscribeReturns PROVE TypeInv'
  <2>1. stack # <<>> /\ Top \in Frames /\ FrameOK(Top) /\ Top.pc = "subscribe"
    BY <1>5, TopTypes DEF SubscribeReturns, At
  <2>2. Top.entry \in Entries /\ Top.pair[2] \in Entries
    BY <2>1 DEF FrameOK
  <2>3. Top.pair[2] \in 0 .. MaxTopics /\ Top.action \in Actions /\ Top.sticky \in BOOLEAN
    BY <2>1 DEF Frames
  <2>4. StackTypes'
    <3>1. [Top EXCEPT !.kind = "rejected", !.entry = Top.pair[2]] \in Frames
      BY <2>1, <2>3, ChangedType DEF Kinds
    <3>2. FrameOK([Top EXCEPT !.kind = "rejected", !.entry = Top.pair[2]])
      BY <2>1, <2>2 DEF FrameOK, Frames
    <3> QED
      BY <1>5, <2>1, <3>1, <3>2, TopBecomesTypes DEF SubscribeReturns
  <2>5. ListTypes'
    <3> DEFINE e == Top.entry
               r == Top.pair[2]
               sticky == Top.sticky
               topic == AckTopic(Top.action, "rejected")
    <3>1. topic \in Topics /\ sticky \in BOOLEAN
      BY <2>3, TopicType DEF Kinds
    <3>2. subscriptionList' = [subscriptionList EXCEPT ![e].count = 1, ![e].sticky = sticky,
                                                       ![r].topic = topic]
      BY <1>5 DEF SubscribeReturns
    <3> HIDE DEF e, r, sticky, topic
    <3>3. [subscriptionList EXCEPT ![e].count = 1, ![e].sticky = sticky, ![r].topic = topic] =
          [[[subscriptionList EXCEPT ![e].count = 1] EXCEPT ![e].sticky = sticky]
             EXCEPT ![r].topic = topic]
      OBVIOUS
    <3>4. [[subscriptionList EXCEPT ![e].count = 1] EXCEPT ![e].sticky = sticky] \in Lists
      BY <1>0, <3>1, SetField
    <3>5. subscriptionList' \in Lists
      BY <3>1, <3>2, <3>3, <3>4, SetField
    <3> QED
      BY <1>0, <1>5, <2>2, <3>5, ListsNext DEF SubscribeReturns
  <2>6. AckTypes' /\ HistoryTypes' /\ CountTypes'
    BY <1>5, SameLists DEF SubscribeReturns, history
  <2> QED
    BY <2>4, <2>5, <2>6
<1>6. ASSUME BothSubscribed PROVE TypeInv'
  <2>1. /\ stack # <<>> /\ Top \in Frames /\ FrameOK(Top)
        /\ Top.op = "action" /\ Top.pc = "subscribe"
    BY <1>6, TopTypes DEF BothSubscribed, At
  <2>2. Top.entry \in Entries /\ Top.sticky \in BOOLEAN
    BY <2>1 DEF FrameOK, Frames
  <2>3. Publish(Top, Below, {})
    BY <1>6 DEF BothSubscribed
  <2>4. AckTypes' /\ HistoryTypes' /\ stack' = Below
    BY <2>1, <2>3, PublishTypes DEF Troubles, FrameOK, RequestOK
  <2>5. StackTypes'
    BY <2>1, <2>4, PopTypes
  <2>6. ListTypes'
    <3> DEFINE e == Top.entry
               sticky == Top.sticky
    <3>1. subscriptionList' = [subscriptionList EXCEPT ![e].count = 1, ![e].sticky = sticky]
      BY <1>6 DEF BothSubscribed
    <3>2. sticky \in BOOLEAN
      BY <2>2
    <3> HIDE DEF e, sticky
    <3>3. [subscriptionList EXCEPT ![e].count = 1, ![e].sticky = sticky] =
          [[subscriptionList EXCEPT ![e].count = 1] EXCEPT ![e].sticky = sticky]
      OBVIOUS
    <3>4. subscriptionList' \in Lists
      BY <1>0, <3>1, <3>2, <3>3, SetField
    <3> QED
      BY <1>0, <1>6, <2>2, <3>4, ListsNext DEF BothSubscribed
  <2>7. CountTypes'
    BY <1>6, SameLists DEF BothSubscribed
  <2> QED
    BY <2>4, <2>5, <2>6, <2>7
<1>7. ASSUME SubscribeFails PROVE TypeInv'
  <2>1. stack # <<>> /\ Top \in Frames /\ FrameOK(Top) /\ Top.op = "action"
    BY <1>7, TopTypes DEF SubscribeFails, At
  <2>2. Top.pair[1] \in 0 .. MaxTopics
    BY <2>1 DEF Frames
  <2>3. StackTypes'
    <3> DEFINE f == [Top EXCEPT !.pc = "undo", !.entry = Top.pair[1], !.rc = "FAILURE"]
    <3>1. stack' = WithTop(f) \/ stack' = Below
      BY <1>7 DEF SubscribeFails
    <3>2. f \in Frames
      BY <2>1, <2>2, ChangedType DEF Kinds
    <3>3. FrameOK(f)
      BY <2>1 DEF FrameOK, Frames
    <3> HIDE DEF f
    <3> QED
      BY <2>1, <3>1, <3>2, <3>3, TopBecomesTypes, PopTypes
  <2>4. ListTypes'
    <3> DEFINE a == Top.pair[1]
               r == Top.pair[2]
    <3>1. subscriptionList' = [subscriptionList EXCEPT ![a].free = TRUE, ![r].free = TRUE]
      BY <1>7 DEF SubscribeFails
    <3> HIDE DEF a, r
    <3>2. [subscriptionList EXCEPT ![a].free = TRUE, ![r].free = TRUE] =
          [[subscriptionList EXCEPT ![a].free = TRUE] EXCEPT ![r].free = TRUE]
      OBVIOUS
    <3>3. subscriptionList' \in Lists
      BY <1>0, <3>1, <3>2, SetField
    <3> QED
      BY <1>0, <1>7, <3>3, ListsNext DEF SubscribeFails
  <2>5. AckTypes' /\ HistoryTypes' /\ CountTypes'
    BY <1>7, SameLists DEF SubscribeFails, history
  <2> QED
    BY <2>3, <2>4, <2>5
<1>8. ASSUME Undone PROVE TypeInv'
  <2>1. stack # <<>> /\ Top \in Frames /\ FrameOK(Top) /\ Top.op = "action"
    BY <1>8, TopTypes DEF Undone, At
  <2>2. PICK failed \in {{}, {"unsubscribe"}} :
          \/ Publish(Top, Below, failed)
          \/ /\ stack' = Below /\ troubles' = troubles \cup failed
             /\ UNCHANGED <<ackWaitList, promised, persistent, service>>
    BY <1>8 DEF Undone
  <2>3. failed \in SUBSET Troubles
    BY DEF Troubles
  <2>4. AckTypes' /\ HistoryTypes' /\ stack' = Below
    <3>1. CASE Publish(Top, Below, failed)
      BY <2>1, <2>3, <3>1, PublishTypes DEF FrameOK, RequestOK
    <3>2. CASE /\ stack' = Below /\ troubles' = troubles \cup failed
               /\ UNCHANGED <<ackWaitList, promised, persistent, service>>
      BY <2>3, <3>2, SameLists DEF HistoryTypes, Tokens
    <3> QED
      BY <2>2, <3>1, <3>2
  <2>5. StackTypes'
    BY <2>1, <2>4, PopTypes
  <2>6. handlers' \subseteq handlers
    BY <1>8 DEF Undone, Unsubscribe, UnsubscribeFailed
  <2>7. ListTypes' /\ CountTypes'
    BY <1>0, <1>8, <2>6, ListsNext, SameLists DEF Undone
  <2> QED
    BY <2>4, <2>5, <2>7
<1> QED
  BY <1>1, <1>2, <1>3, <1>4, <1>5, <1>6, <1>7, <1>8 DEF RequestNext

(* unsubscribeFromAcceptedAndRejected goes on, whatever it did to the topic. *)
LEMMA NextTopicTypes ==
  ASSUME TypeInv, NextTopic, stack # <<>>, Top.pc \in {"release", "unsubscribe"}
  PROVE  StackTypes' /\ AckTypes'
<1>1. Top \in Frames /\ FrameOK(Top)
  BY TopTypes
<1>2. Top.ack \in Acks /\ Top.op \in {"ack", "expire"}
  BY <1>1 DEF FrameOK, Frames
<1>3. Top.ack + 1 \in 1 .. MaxAcks + 1 /\ Top.ack \in Nat
  BY <1>2 DEF Acks
<1>4. CASE /\ Top.kind = "accepted"
           /\ stack' = WithTop([Top EXCEPT !.pc = "release", !.kind = "rejected"])
           /\ UNCHANGED ackWaitList
  <2> DEFINE f == [Top EXCEPT !.pc = "release", !.kind = "rejected"]
  <2>1. f \in Frames
    BY <1>1 DEF Frames, Kinds
  <2>2. FrameOK(f)
    BY <1>1, <1>2 DEF FrameOK, Frames
  <2>3. stack' = WithTop(f)
    BY <1>4
  <2> HIDE DEF f
  <2> QED
    BY <1>4, <2>1, <2>2, <2>3, TopBecomesTypes, SameLists
<1>5. CASE /\ Top.kind = "rejected" /\ Top.op = "ack"
           /\ stack' = Below
           /\ ackWaitList' = [ackWaitList EXCEPT ![Top.ack].free = TRUE]
  <2>1. ackWaitList' \in [Acks -> Records]
    BY <1>2, <1>5, TypesTogether DEF AckTypes, Records
  <2> QED
    BY <1>5, <2>1, PopTypes DEF AckTypes, Acks, Records
<1>6. CASE /\ Top.kind = "rejected" /\ Top.op = "expire"
           /\ stack' = WithTop([Top EXCEPT !.pc = "scan", !.ack = @ + 1])
           /\ UNCHANGED ackWaitList
  <2> DEFINE f == [Top EXCEPT !.pc = "scan", !.ack = @ + 1]
  <2>1. f \in Frames
    BY <1>1, <1>3 DEF Frames
  <2>2. FrameOK(f)
    BY <1>1, <1>6 DEF FrameOK, Frames
  <2>3. stack' = WithTop(f)
    BY <1>6
  <2> HIDE DEF f
  <2> QED
    BY <1>6, <2>1, <2>2, <2>3, TopBecomesTypes, SameLists
<1> QED
  BY <1>4, <1>5, <1>6 DEF NextTopic

LEMMA AnswerTypes == TypeInv /\ AnswerNext => TypeInv'
<1> SUFFICES ASSUME TypeInv, AnswerNext PROVE TypeInv'
  OBVIOUS
<1> USE TypesTogether, TypesNext
<1>0. /\ subscriptionList \in Lists /\ handlers \subseteq Entries
      /\ ackWaitList \in [Acks -> Records] /\ answered \in [Tokens -> Nat]
      /\ service \subseteq [token : Tokens, action : Actions]
  BY DEF ListTypes, Lists, AckTypes, CountTypes, HistoryTypes
<1>1. ASSUME NEW r \in service, NEW kind \in Kinds, AckStatusCallback(r, kind) PROVE TypeInv'
  <2>1. \/ UNCHANGED <<stack, answered>>
        \/ \E i \in Acks : /\ stack' = Append(stack, Answering("ack", "callback", i))
                           /\ answered' = [answered EXCEPT ![r.token] = @ + 1]
    BY <1>1 DEF AckStatusCallback
  <2>2. StackTypes'
    BY <2>1, SameTypes, AnsweringType, PushTypes
  <2>3. answered' \in [Tokens -> Nat]
    BY <1>0, <2>1
  <2>4. AckTypes' /\ ListTypes' /\ HistoryTypes'
    BY <1>1, SameLists DEF AckStatusCallback, lists, HistoryTypes, Tokens
  <2>5. CountTypes'
    BY <1>1, <2>3 DEF AckStatusCallback, CountTypes, Tokens
  <2> QED
    BY <2>2, <2>4, <2>5
<1>2. ASSUME YieldStarts PROVE TypeInv'
  <2>1. 1 \in Acks
    BY DEF Acks
  <2>2. stack' = Append(stack, Answering("expire", "scan", 1))
    BY <1>2 DEF YieldStarts
  <2>3. StackTypes'
    BY <2>1, <2>2, AnsweringType, PushTypes
  <2>4. AckTypes' /\ ListTypes' /\ HistoryTypes' /\ CountTypes'
    BY <1>2, SameLists DEF YieldStarts, lists, history
  <2> QED
    BY <2>3, <2>4
<1>3. ASSUME NEW i \in Acks, Expires(i) PROVE TypeInv'
  <2>1. stack # <<>> /\ stack' = WithTop(Answering("expire", "callback", i))
    BY <1>3 DEF Expires, At
  <2>2. StackTypes'
    <3> DEFINE f == Answering("expire", "callback", i)
    <3>1. f \in Frames /\ FrameOK(f)
      BY AnsweringType
    <3> HIDE DEF f
    <3> QED
      BY <2>1, <3>1, TopBecomesTypes DEF f
  <2>3. answered' \in [Tokens -> Nat]
    <3> DEFINE t == ackWaitList[i].token
    <3>1. answered' = [answered EXCEPT ![t] = @ + 1]
      BY <1>3 DEF Expires
    <3> HIDE DEF t
    <3>2. t \in Tokens => answered[t] + 1 \in Nat
      BY <1>0
    <3> QED
      BY <1>0, <3>1, <3>2
  <2>4. AckTypes' /\ ListTypes' /\ HistoryTypes'
    BY <1>3, SameLists DEF Expires, lists
  <2>5. CountTypes'
    BY <1>3, <2>3 DEF Expires, CountTypes, Tokens
  <2> QED
    BY <2>2, <2>4, <2>5
<1>4. ASSUME NoneExpired PROVE TypeInv'
  <2>1. AckTypes' /\ ListTypes' /\ HistoryTypes' /\ CountTypes'
    BY <1>4, SameLists DEF NoneExpired, lists, history
  <2> QED
    BY <1>4, <2>1, PopTypes DEF NoneExpired, At
<1>5. ASSUME CallbackReturns PROVE TypeInv'
  <2>1. stack # <<>> /\ Top.pc = "callback" /\ Top \in Frames /\ FrameOK(Top)
    BY <1>5, TopTypes DEF CallbackReturns, InCallback
  <2>2. Top.ack \in Acks
    BY <2>1 DEF FrameOK
  <2>3. ackWaitList[Top.ack].action \in Actions
    BY <1>0, <2>2 DEF Records
  <2>4. StackTypes'
    <3> DEFINE a == ackWaitList[Top.ack].action
               f == [Top EXCEPT !.pc = "release", !.action = a]
    <3>1. f \in Frames
      BY <2>1, <2>3 DEF Frames
    <3>2. FrameOK(f)
      BY <2>1 DEF FrameOK, Frames
    <3>3. stack' = WithTop(f)
      BY <1>5 DEF CallbackReturns
    <3> HIDE DEF f
    <3> QED
      BY <2>1, <3>1, <3>2, <3>3, TopBecomesTypes
  <2>5. AckTypes'
    <3>1. (ackWaitList[Top.ack].free \/ Top.op = "expire") \in BOOLEAN
      OBVIOUS
    <3>2. ackWaitList' \in [Acks -> Records]
      BY <1>0, <1>5, <2>2, <3>1 DEF CallbackReturns, Records
    <3> QED
      BY <3>2 DEF AckTypes, Acks, Records
  <2>6. ListTypes' /\ HistoryTypes' /\ CountTypes'
    BY <1>5, SameLists DEF CallbackReturns, history
  <2> QED
    BY <2>4, <2>5, <2>6
<1>6. ASSUME ReleaseUnsubscribes PROVE TypeInv'
  <2>1. stack # <<>> /\ Top.pc = "release" /\ Top \in Frames /\ FrameOK(Top)
    BY <1>6, TopTypes DEF ReleaseUnsubscribes
  <2>2. PICK n \in Entries : stack' = WithTop([Top EXCEPT !.pc = "unsubscribe", !.entry = n])
    BY <1>6 DEF ReleaseUnsubscribes
  <2>3. StackTypes'
    <3> DEFINE f == [Top EXCEPT !.pc = "unsubscribe", !.entry = n]
    <3>1. n \in 0 .. MaxTopics /\ "accepted" \in Kinds
      BY DEF Entries, Kinds
    <3>3. f \in Frames
      BY <2>1, <3>1, ChangedType
    <3>2. FrameOK(f)
      BY <2>1 DEF FrameOK, Frames
    <3> HIDE DEF f
    <3> QED
      BY <2>1, <2>2, <3>2, <3>3, TopBecomesTypes DEF f
  <2>4. AckTypes' /\ ListTypes' /\ HistoryTypes' /\ CountTypes'
    BY <1>6, SameLists DEF ReleaseUnsubscribes, lists, history
  <2> QED
    BY <2>3, <2>4
<1>7. ASSUME ReleaseCounts PROVE TypeInv'
  <2>1. StackTypes' /\ AckTypes'
    BY <1>7, NextTopicTypes DEF ReleaseCounts
  <2>2. ListTypes'
    <3>1. \A n \in Entries : subscriptionList[n] \in Subscriptions
      BY <1>0 DEF Lists
    <3>2. \A n \in Entries : subscriptionList[n].count > 1 =>
            [subscriptionList[n] EXCEPT !.count = @ - 1] \in Subscriptions
      BY <3>1, CountType
    <3>3. subscriptionList' \in Lists
      BY <1>7, <3>1, <3>2 DEF ReleaseCounts, Lists
    <3> QED
      BY <1>0, <1>7, <3>3, ListsNext DEF ReleaseCounts
  <2>3. HistoryTypes' /\ CountTypes'
    BY <1>7, SameLists DEF ReleaseCounts, history
  <2> QED
    BY <2>1, <2>2, <2>3
<1>8. ASSUME Unsubscribed PROVE TypeInv'
  <2>1. StackTypes' /\ AckTypes'
    BY <1>8, NextTopicTypes DEF Unsubscribed
  <2>2. handlers' \subseteq Entries
    BY <1>0, <1>8 DEF Unsubscribed, Unsubscribe, UnsubscribeFailed
  <2>3. \/ subscriptionList' = subscriptionList
        \/ subscriptionList' = [subscriptionList EXCEPT ![Top.entry].free = TRUE]
    BY <1>8 DEF Unsubscribed
  <2>4. ListTypes'
    <3>1. [subscriptionList EXCEPT ![Top.entry].free = TRUE] \in Lists
      BY <1>0, SetField
    <3> QED
      BY <1>0, <2>2, <2>3, <3>1, ListsNext
  <2>5. HistoryTypes'
    BY <1>8 DEF Unsubscribed, HistoryTypes, Troubles, Tokens
  <2>6. CountTypes'
    BY <1>8, SameLists DEF Unsubscribed
  <2> QED
    BY <2>1, <2>4, <2>5, <2>6
<1> QED
  BY <1>1, <1>2, <1>3, <1>4, <1>5, <1>6, <1>7, <1>8 DEF AnswerNext

LEMMA InitTypes == Init => TypeInv
<1> SUFFICES ASSUME Init PROVE TypeInv
  OBVIOUS
<1>1. (CHOOSE a \in Actions : TRUE) \in Actions
  OBVIOUS
<1>2. AckTypes
  BY <1>1 DEF Init, AckTypes, Records
<1>3. ListTypes
  BY DEF Init, ListTypes, Subscriptions
<1>4. StackTypes /\ HistoryTypes /\ CountTypes
  BY DEF Init, StackTypes, FramesOK, HistoryTypes, CountTypes
<1> QED
  BY <1>2, <1>3, <1>4, TypesTogether

LEMMA StutterTypes == TypeInv /\ UNCHANGED vars => TypeInv'
  BY SameTypes, SameLists, TypesNext DEF vars, lists, history

(* The variables keep their types, also when callbacks make requests and      *)
(* every call may fail.                                                       *)
LEMMA TypesKept == Spec => []TypeInv
<1>1. TypeInv /\ [Next]_vars => TypeInv'
  BY RequestTypes, AnswerTypes, StutterTypes DEF Next
<1> QED
  BY InitTypes, <1>1, PTL DEF Spec

(* Every variable holds a value of its type; a function that waits for a      *)
(* subscription has an entry of the list (records.c:310-393).                 *)
THEOREM TypeCorrect == Spec => []TypeOK
<1>1. TypeInv => TypeOK
  BY DEF TypeInv
<1> QED
  BY <1>1, TypesKept, PTL

----------------------------------------------------------------------------
(* Answers.  Without requests from callbacks the invariant is disturbed in    *)
(* five ways only, one lemma each.                                            *)

Quiet == UNCHANGED <<ackWaitList, answered, requests, service>>

LEMMA InvFacts ==
  ASSUME RecordInv
  PROVE  /\ TypeInv /\ Len(stack) \in Nat
         /\ \A n \in 1 .. Len(stack) : stack[n] \in Frames /\ FrameOK(stack[n])
         /\ \A n \in 1 .. Len(stack) : Holding(stack[n]) => stack[n].ack \in Acks
         /\ \A i \in Acks : ackWaitList[i] \in Records
         /\ stack # <<>> => Top = stack[Len(stack)] /\ Len(stack) \in 1 .. Len(stack)
<1>1. TypeInv /\ Len(stack) \in Nat
  BY DEF RecordInv, TypeInv, TypeOK
<1>2. \A n \in 1 .. Len(stack) : stack[n] \in Frames /\ FrameOK(stack[n])
  BY <1>1 DEF TypeInv, TypeOK, FramesOK
<1>3. \A n \in 1 .. Len(stack) : Holding(stack[n]) => stack[n].ack \in Acks
  BY <1>2 DEF FrameOK, Holding
<1>4. \A i \in Acks : ackWaitList[i] \in Records
  BY <1>1 DEF TypeInv, TypeOK
<1>5. stack # <<>> => Top = stack[Len(stack)] /\ Len(stack) \in 1 .. Len(stack)
  BY <1>1, BelowSeq DEF TypeInv, TypeOK, Top
<1> QED
  BY <1>1, <1>2, <1>3, <1>4, <1>5

(* A request or the expiry loop that waits at the top is alone. *)
LEMMA BottomAlone ==
  ASSUME RecordInv, stack # <<>>, Top.op # "ack"
  PROVE  Len(stack) = 1
<1>1. Len(stack) \in Nat /\ Len(stack) \in 1 .. Len(stack) /\ Top = stack[Len(stack)]
  BY InvFacts
<1>2. \A k \in Nat : k \in 1 .. k /\ k # 1 => k \in 2 .. k
  OBVIOUS
<1>3. \A n \in 2 .. Len(stack) : stack[n].op = "ack"
  BY DEF RecordInv, AnswersNest
<1> QED
  BY <1>1, <1>2, <1>3

(* One: frames go on or return, and hold what they held. *)
LEMMA FramesGoOn ==
  ASSUME RecordInv, TypeInv', Quiet, Len(stack') <= Len(stack),
         \A n \in 1 .. Len(stack') :
           /\ stack'[n].op = stack[n].op
           /\ stack[n].op # "expire" => /\ stack'[n].ack = stack[n].ack
                                        /\ stack'[n].token = stack[n].token
           /\ Holding(stack'[n]) <=> Holding(stack[n])
           /\ Holding(stack[n]) => stack'[n].ack = stack[n].ack,
         \A n \in 1 .. Len(stack') - 1 : stack'[n].pc = stack[n].pc,
         \A n \in 1 .. Len(stack) : n > Len(stack') => ~Holding(stack[n])
  PROVE  RecordInv'
<1>1. Len(stack) \in Nat /\ Len(stack') \in Nat
  BY InvFacts DEF TypeInv, TypeOK
<1>2. \A n \in 1 .. Len(stack') : n \in 1 .. Len(stack)
  BY <1>1
<1>3. AnswersNest'
  BY <1>1, <1>2 DEF RecordInv, AnswersNest
<1>4. HeldOnce'
  <2>1. \A n \in 1 .. Len(stack') : Holding(stack'[n]) =>
          ~ackWaitList'[stack'[n].ack].free /\ answered'[ackWaitList'[stack'[n].ack].token] = 1
    BY <1>2 DEF RecordInv, HoldersInv, HeldOnce, Quiet
  <2>2. \A m, n \in 1 .. Len(stack') :
          m < n /\ Holding(stack'[m]) /\ Holding(stack'[n]) => stack'[m].ack # stack'[n].ack
    BY <1>2 DEF RecordInv, HoldersInv, HeldOnce
  <2> QED
    BY <2>1, <2>2 DEF HeldOnce, Holding
<1>5. AnsweredHeld'
  <2> SUFFICES ASSUME NEW i \in Acks, ~ackWaitList'[i].free,
                      answered'[ackWaitList'[i].token] # 0
               PROVE  \E n \in 1 .. Len(stack') : Holding(stack'[n]) /\ stack'[n].ack = i
    BY DEF AnsweredHeld, Holding, Acks
  <2>1. PICK n \in 1 .. Len(stack) : Holding(stack[n]) /\ stack[n].ack = i
    BY DEF RecordInv, HoldersInv, AnsweredHeld, Quiet
  <2>2. n \in 1 .. Len(stack')
    BY <1>1, <2>1
  <2> QED
    BY <2>1, <2>2
<1>6. AnswerUsed'
  <2>1. \A n \in 1 .. Len(stack') : stack'[n].op = "ack" =>
          stack[n].op = "ack" /\ stack'[n].ack = stack[n].ack
    OBVIOUS
  <2> QED
    BY <1>2, <2>1 DEF RecordInv, HoldersInv, AnswerUsed, Quiet
<1>7. TokensInOrder' /\ AnsweredOnce'
  BY DEF RecordInv, TokensInOrder, AnsweredOnce, Quiet, Acks, Tokens
<1>8. RequestFresh'
  <2>1. \A n \in 1 .. Len(stack') : stack'[n].op = "action" =>
          /\ stack[n].op = "action" /\ stack'[n].ack = stack[n].ack
          /\ stack'[n].token = stack[n].token
    OBVIOUS
  <2> QED
    BY <1>2, <2>1 DEF RecordInv, RequestFresh, Quiet, Acks, Tokens
<1> QED
  BY <1>3, <1>4, <1>5, <1>6, <1>7, <1>8 DEF RecordInv, HoldersInv, TypeInv

(* Two: the function at the top gives back the record it held. *)
LEMMA RecordGivenBack ==
  ASSUME RecordInv, TypeInv', UNCHANGED <<answered, requests, service>>,
         stack # <<>>, Holding(Top),
         ackWaitList' = [ackWaitList EXCEPT ![Top.ack].free = TRUE],
         Len(stack') \in {Len(stack), Len(stack) - 1},
         \A n \in 1 .. Len(stack') : n < Len(stack) => stack'[n] = stack[n],
         Len(stack') = Len(stack) =>
           stack'[Len(stack)].op = "expire" /\ Top.op = "expire" /\ ~Holding(stack'[Len(stack)])
  PROVE  RecordInv'
<1>1. /\ Len(stack) \in Nat /\ Len(stack') \in Nat
      /\ Top = stack[Len(stack)] /\ Len(stack) \in 1 .. Len(stack)
      /\ Top.ack \in Acks
      /\ \A i \in Acks : ackWaitList[i] \in Records
  BY InvFacts DEF TypeInv, TypeOK
<1>2. \A n \in 1 .. Len(stack') : n \in 1 .. Len(stack)
  BY <1>1
<1>3. \A i \in Acks :
        /\ ackWaitList'[i].token = ackWaitList[i].token
        /\ i # Top.ack => ackWaitList'[i].free = ackWaitList[i].free
        /\ i = Top.ack => ackWaitList'[i].free
  <2> DEFINE a == Top.ack
  <2>1. /\ ackWaitList \in [Acks -> Records] /\ a \in Acks
        /\ ackWaitList' = [ackWaitList EXCEPT ![a].free = TRUE]
    BY <1>1 DEF RecordInv, TypeOK
  <2> HIDE DEF a
  <2>2. \A i \in Acks :
          /\ i = a => ackWaitList'[i] = [ackWaitList[i] EXCEPT !.free = TRUE]
          /\ i # a => ackWaitList'[i] = ackWaitList[i]
    BY <2>1
  <2>3. \A i \in Acks : /\ [ackWaitList[i] EXCEPT !.free = TRUE].free
                       /\ [ackWaitList[i] EXCEPT !.free = TRUE].token = ackWaitList[i].token
    BY <2>1 DEF Records
  <2>4. \A i \in Acks :
          /\ ackWaitList'[i].token = ackWaitList[i].token
          /\ i # a => ackWaitList'[i].free = ackWaitList[i].free
          /\ i = a => ackWaitList'[i].free
    BY <2>2, <2>3, Zenon
  <2> QED
    BY <2>4 DEF a
<1>4. \A n \in 1 .. Len(stack') :
        Holding(stack'[n]) => n < Len(stack) /\ stack'[n] = stack[n]
  BY <1>1, <1>2
<1>5. \A n \in 1 .. Len(stack) :
        n < Len(stack) /\ Holding(stack[n]) => stack[n].ack \in Acks /\ stack[n].ack # Top.ack
  BY <1>1, InvFacts DEF RecordInv, HoldersInv, HeldOnce
<1>6. AnswersNest'
  <2>0. \A n \in 1 .. Len(stack') :
          n < Len(stack) \/ (n = Len(stack) /\ Len(stack') = Len(stack))
    BY <1>1, <1>2
  <2>1. \A n \in 1 .. Len(stack') : stack'[n].op = stack[n].op
    BY <1>1, <2>0
  <2>2. \A n \in 2 .. Len(stack') : n \in 2 .. Len(stack)
    BY <1>1
  <2>3. \A n \in 1 .. Len(stack') - 1 : n \in 1 .. Len(stack') /\ n \in 1 .. Len(stack) - 1
    BY <1>1
  <2>4. \A n \in 1 .. Len(stack') - 1 : stack'[n] = stack[n]
    BY <1>1, <2>3
  <2>5. /\ \A n \in 2 .. Len(stack) : stack[n].op = "ack"
        /\ \A n \in 1 .. Len(stack) - 1 : stack[n].pc \in {"subscribe", "undo", "unsubscribe"}
    BY DEF RecordInv, AnswersNest
  <2>6. \A n \in 2 .. Len(stack') : n \in 1 .. Len(stack') /\ stack'[n].op = "ack"
    BY <1>1, <2>1, <2>2, <2>5
  <2>7. \A n \in 1 .. Len(stack') - 1 : stack'[n].pc \in {"subscribe", "undo", "unsubscribe"}
    BY <2>3, <2>4, <2>5
  <2> QED
    BY <2>6, <2>7 DEF AnswersNest
<1>7. HeldOnce'
  <2>1. \A n \in 1 .. Len(stack') : Holding(stack'[n]) =>
          ~ackWaitList'[stack'[n].ack].free /\ answered'[ackWaitList'[stack'[n].ack].token] = 1
    BY <1>2, <1>3, <1>4, <1>5 DEF RecordInv, HoldersInv, HeldOnce
  <2>2. \A m, n \in 1 .. Len(stack') :
          m < n /\ Holding(stack'[m]) /\ Holding(stack'[n]) => stack'[m].ack # stack'[n].ack
    BY <1>2, <1>4 DEF RecordInv, HoldersInv, HeldOnce
  <2> QED
    BY <2>1, <2>2 DEF HeldOnce, Holding
<1>8. AnsweredHeld'
  <2> SUFFICES ASSUME NEW i \in Acks, ~ackWaitList'[i].free,
                      answered'[ackWaitList'[i].token] # 0
               PROVE  \E n \in 1 .. Len(stack') : Holding(stack'[n]) /\ stack'[n].ack = i
    BY DEF AnsweredHeld, Holding, Acks
  <2>1. i # Top.ack /\ ~ackWaitList[i].free /\ answered[ackWaitList[i].token] # 0
    BY <1>3
  <2>2. PICK n \in 1 .. Len(stack) : Holding(stack[n]) /\ stack[n].ack = i
    BY <2>1 DEF RecordInv, HoldersInv, AnsweredHeld
  <2>3. n < Len(stack)
    BY <1>1, <2>1, <2>2
  <2>4. n \in 1 .. Len(stack')
    BY <1>1, <2>3
  <2> QED
    BY <2>2, <2>3, <2>4
<1>9. \A n \in 1 .. Len(stack') : stack'[n].op # "expire" =>
        stack'[n] = stack[n] /\ n \in 1 .. Len(stack) /\ stack[n].ack \in Acks
  <2>1. \A n \in 1 .. Len(stack') : stack'[n].op # "expire" =>
          stack'[n] = stack[n] /\ n \in 1 .. Len(stack)
    BY <1>1, <1>2
  <2> QED
    BY <2>1, InvFacts DEF FrameOK, Frames
<1>10. AnswerUsed'
  BY <1>3, <1>9 DEF RecordInv, HoldersInv, AnswerUsed
<1>11. TokensInOrder' /\ AnsweredOnce'
  BY <1>3 DEF RecordInv, TokensInOrder, AnsweredOnce, Acks, Tokens
<1>12. RequestFresh'
  BY <1>3, <1>9 DEF RecordInv, RequestFresh, Acks, Tokens
<1> QED
  BY <1>6, <1>7, <1>8, <1>10, <1>11, <1>12 DEF RecordInv, HoldersInv, TypeInv

(* Three: the callback of record i is called, by the function at the top. *)
LEMMA CallbackCalled ==
  ASSUME RecordInv, TypeInv', UNCHANGED <<ackWaitList, requests>>, service' \subseteq service,
         NEW i \in Acks, ~ackWaitList[i].free, answered[ackWaitList[i].token] = 0,
         answered' = [answered EXCEPT ![ackWaitList[i].token] = @ + 1],
         NEW k \in Nat, Len(stack') = k + 1, Len(stack) \in {k, k + 1},
         \A n \in 1 .. k : stack'[n] = stack[n],
         Holding(stack'[k + 1]), stack'[k + 1].ack = i,
         Len(stack) = k + 1 => ~Holding(stack[k + 1]),
         stack'[k + 1].op = "ack" =>
           /\ \A r \in service' : r.token # ackWaitList[i].token
           /\ k > 0 => stack[k].pc \in {"subscribe", "undo", "unsubscribe"},
         stack'[k + 1].op = "expire" => k = 0
  PROVE  RecordInv'
<1>1. /\ Len(stack) \in Nat
      /\ \A n \in 1 .. k : n \in 1 .. Len(stack)
      /\ \A n \in 1 .. k + 1 : n \in 1 .. k \/ n = k + 1
      /\ ackWaitList[i] \in Records
  BY InvFacts
<1>2. ackWaitList[i].token \in Tokens
  <2>1. ackWaitList[i].token \in 1 .. requests /\ requests \in 0 .. MaxRequests
    BY DEF RecordInv, TokensInOrder, TypeOK
  <2> QED
    BY <2>1 DEF Tokens
<1>3. \A t \in Tokens : answered'[t] = IF t = ackWaitList[i].token THEN 1 ELSE answered[t]
  BY <1>2 DEF RecordInv, TypeOK
<1>4. \A j \in Acks : ~ackWaitList[j].free =>
        ackWaitList[j].token \in Tokens /\ (j # i => ackWaitList[j].token # ackWaitList[i].token)
  <2>1. \A j \in Acks : ~ackWaitList[j].free => ackWaitList[j].token \in 1 .. requests
    BY DEF RecordInv, TokensInOrder
  <2>2. requests \in 0 .. MaxRequests
    BY DEF RecordInv, TypeOK
  <2>3. \A j \in Acks : ~ackWaitList[j].free => ackWaitList[j].token \in Tokens
    BY <2>1, <2>2 DEF Tokens
  <2> QED
    BY <2>3 DEF RecordInv, TokensInOrder
<1>5. \A n \in 1 .. Len(stack) : Holding(stack[n]) =>
        /\ stack[n].ack \in Acks /\ stack[n].ack # i /\ n \in 1 .. k
        /\ ~ackWaitList[stack[n].ack].free /\ answered[ackWaitList[stack[n].ack].token] = 1
  <2>1. \A n \in 1 .. Len(stack) : Holding(stack[n]) =>
          /\ stack[n].ack \in Acks
          /\ ~ackWaitList[stack[n].ack].free /\ answered[ackWaitList[stack[n].ack].token] = 1
    BY InvFacts DEF RecordInv, HoldersInv, HeldOnce
  <2> QED
    BY <1>1, <2>1
<1>6. AnswersNest'
  <2>1. \A n \in 2 .. k + 1 : stack'[n].op = "ack"
    <3>1. stack'[k + 1].op \in {"ack", "expire"}
      BY DEF Holding
    <3>2. \A n \in 2 .. k : n \in 2 .. Len(stack) /\ stack'[n] = stack[n]
      BY <1>1
    <3>3. \A n \in 2 .. k : stack'[n].op = "ack"
      BY <3>2 DEF RecordInv, AnswersNest
    <3> QED
      BY <3>1, <3>3
  <2>2. \A n \in 1 .. k : stack'[n].pc \in {"subscribe", "undo", "unsubscribe"}
    <3>1. \A n \in 1 .. Len(stack) - 1 : stack[n].pc \in {"subscribe", "undo", "unsubscribe"}
      BY DEF RecordInv, AnswersNest
    <3>2. k > 0 => stack'[k + 1].op = "ack"
      BY DEF Holding
    <3>3. \A n \in 1 .. k : n \in 1 .. Len(stack) - 1 \/ n = k
      BY <1>1
    <3> QED
      BY <3>1, <3>2, <3>3
  <2> QED
    BY <2>1, <2>2 DEF AnswersNest
<1>7. HeldOnce'
  <2>1. \A n \in 1 .. Len(stack') : Holding(stack'[n]) =>
          ~ackWaitList'[stack'[n].ack].free /\ answered'[ackWaitList'[stack'[n].ack].token] = 1
    BY <1>1, <1>2, <1>3, <1>4, <1>5
  <2>2. \A m, n \in 1 .. Len(stack') :
          m < n /\ Holding(stack'[m]) /\ Holding(stack'[n]) => stack'[m].ack # stack'[n].ack
    <3> SUFFICES ASSUME NEW m \in 1 .. k + 1, NEW n \in 1 .. k + 1,
                        m < n, Holding(stack'[m]), Holding(stack'[n])
                 PROVE  stack'[m].ack # stack'[n].ack
      OBVIOUS
    <3>1. m \in 1 .. k /\ m \in 1 .. Len(stack)
      BY <1>1
    <3>2. CASE n = k + 1
      BY <1>5, <3>1, <3>2
    <3>3. CASE n \in 1 .. k
      BY <1>1, <3>1, <3>3 DEF RecordInv, HoldersInv, HeldOnce
    <3> QED
      BY <1>1, <3>2, <3>3
  <2> QED
    BY <2>1, <2>2 DEF HeldOnce, Holding
<1>8. AnsweredHeld'
  <2> SUFFICES ASSUME NEW j \in Acks, ~ackWaitList'[j].free,
                      answered'[ackWaitList'[j].token] # 0
               PROVE  \E n \in 1 .. Len(stack') : Holding(stack'[n]) /\ stack'[n].ack = j
    BY DEF AnsweredHeld, Holding, Acks
  <2>1. CASE j = i
    BY <2>1
  <2>2. CASE j # i
    <3>1. answered[ackWaitList[j].token] # 0
      BY <1>3, <1>4, <2>2
    <3>2. PICK n \in 1 .. Len(stack) : Holding(stack[n]) /\ stack[n].ack = j
      BY <3>1 DEF RecordInv, HoldersInv, AnsweredHeld
    <3>3. n \in 1 .. k /\ n \in 1 .. k + 1
      BY <1>5, <3>2
    <3> QED
      BY <3>2, <3>3
  <2> QED
    BY <2>1, <2>2
<1>9. AnswerUsed'
  BY <1>1 DEF RecordInv, HoldersInv, AnswerUsed
<1>10. TokensInOrder'
  <2>1. \A t \in Tokens : t > requests' => answered'[t] = 0
    <3>1. ackWaitList[i].token \in 1 .. requests /\ requests \in 0 .. MaxRequests
      BY DEF RecordInv, TokensInOrder, TypeOK
    <3> QED
      BY <1>3, <3>1 DEF RecordInv, TokensInOrder, Tokens
  <2> QED
    BY <2>1 DEF RecordInv, TokensInOrder, Acks, Tokens
<1>11. AnsweredOnce'
  BY <1>3 DEF RecordInv, AnsweredOnce, Tokens
<1>12. RequestFresh'
  <2> SUFFICES ASSUME NEW n \in 1 .. k + 1, stack'[n].op = "action"
               PROVE  /\ stack'[n].token = requests /\ requests \in Tokens
                      /\ ackWaitList[stack'[n].ack].free /\ answered'[requests] = 0
                      /\ \A j \in Acks : ~ackWaitList[j].free => ackWaitList[j].token # requests
                      /\ \A r \in service' : r.token # requests
    BY DEF RequestFresh, Acks, Tokens
  <2>1. n \in 1 .. Len(stack) /\ stack'[n] = stack[n]
    BY <1>1 DEF Holding
  <2>2. ackWaitList[i].token # requests
    BY <2>1 DEF RecordInv, RequestFresh
  <2> QED
    BY <1>3, <2>1, <2>2 DEF RecordInv, RequestFresh
<1> QED
  BY <1>6, <1>7, <1>8, <1>9, <1>10, <1>11, <1>12 DEF RecordInv, HoldersInv, TypeInv

(* A token that nothing refers to yet. *)
Fresh(t) ==
  /\ t \in Tokens /\ answered[t] = 0
  /\ \A i \in Acks : ~ackWaitList[i].free => ackWaitList[i].token # t
  /\ \A r \in service : r.token # t

LEMMA NextIsFresh ==
  ASSUME RecordInv, requests < MaxRequests
  PROVE  Fresh(requests + 1) /\ requests + 1 # requests
<1>1. requests \in 0 .. MaxRequests /\ requests + 1 \in Tokens /\ requests + 1 > requests
  BY DEF RecordInv, TypeOK, Tokens
<1>2. requests + 1 \notin 1 .. requests
  BY <1>1
<1> QED
  BY <1>1, <1>2 DEF RecordInv, TokensInOrder, Fresh

(* Four: a request begins, or ends without a record. *)
LEMMA RequestBegins ==
  ASSUME RecordInv, TypeInv', UNCHANGED <<ackWaitList, answered, service>>,
         requests' \in {requests, requests + 1},
         \A n \in 1 .. Len(stack) : ~Holding(stack[n]),
         \/ stack' = <<>>
         \/ /\ Len(stack') = 1 /\ stack'[1].op = "action"
            /\ stack'[1].token = requests' /\ Fresh(requests')
            /\ ackWaitList[stack'[1].ack].free
  PROVE  RecordInv'
<1>1. /\ Len(stack') \in {0, 1}
      /\ \A n \in 1 .. Len(stack') :
           /\ n = 1 /\ stack'[1].op = "action" /\ stack'[1].token = requests'
           /\ Fresh(requests') /\ ackWaitList[stack'[1].ack].free
  <2>1. CASE stack' = <<>>
    <3>1. Len(stack') = 0
      BY <2>1
    <3> QED
      BY <3>1
  <2>2. CASE /\ Len(stack') = 1 /\ stack'[1].op = "action"
             /\ stack'[1].token = requests' /\ Fresh(requests')
             /\ ackWaitList[stack'[1].ack].free
    BY <2>2
  <2> QED
    BY <2>1, <2>2
<1>2. AnswersNest' /\ HeldOnce'
  BY <1>1 DEF AnswersNest, HeldOnce, Holding
<1>3. AnsweredHeld'
  BY DEF RecordInv, HoldersInv, AnsweredHeld, Acks
<1>4. AnswerUsed'
  BY <1>1 DEF AnswerUsed
<1>5. AnsweredOnce'
  BY DEF RecordInv, AnsweredOnce, Tokens
<1>6. TokensInOrder'
  <2>1. requests \in Nat /\ requests' \in Nat /\ requests' >= requests
    BY DEF RecordInv, TypeOK, TypeInv
  <2>2. \A t \in Tokens : t \in Nat
    BY DEF Tokens
  <2> QED
    BY <2>1, <2>2 DEF RecordInv, TokensInOrder, Acks, Tokens
<1>7. RequestFresh'
  <2> SUFFICES ASSUME NEW n \in 1 .. Len(stack'), stack'[n].op = "action"
               PROVE  /\ stack'[n].token = requests' /\ requests' \in Tokens
                      /\ ackWaitList[stack'[n].ack].free /\ answered[requests'] = 0
                      /\ \A i \in Acks : ~ackWaitList[i].free => ackWaitList[i].token # requests'
                      /\ \A r \in service : r.token # requests'
    BY DEF RequestFresh, Acks, Tokens
  <2>1. n = 1 /\ Fresh(requests') /\ stack'[1].token = requests' /\ ackWaitList[stack'[1].ack].free
    BY <1>1
  <2> QED
    BY <2>1 DEF Fresh
<1> QED
  BY <1>2, <1>3, <1>4, <1>5, <1>6, <1>7 DEF RecordInv, HoldersInv, TypeInv

(* Five: a request is entered into its record. *)
LEMMA RequestEnters ==
  ASSUME RecordInv, TypeInv', UNCHANGED answered, requests' \in {requests, requests + 1},
         \A n \in 1 .. Len(stack) : ~Holding(stack[n]),
         stack' = <<>>, Fresh(requests'),
         NEW i \in Acks, ackWaitList[i].free, NEW a,
         ackWaitList' = [ackWaitList EXCEPT ![i] =
                           [free |-> FALSE, token |-> requests', action |-> a]],
         service' = service \cup {[token |-> requests', action |-> a]}
  PROVE  RecordInv'
<1>1. Len(stack') = 0 /\ 1 .. Len(stack') = {}
  OBVIOUS
<1>2. /\ ~ackWaitList'[i].free /\ ackWaitList'[i].token = requests'
      /\ \A j \in Acks : j # i => ackWaitList'[j] = ackWaitList[j]
  BY DEF RecordInv, TypeOK
<1>3. \A j \in Acks : ~ackWaitList[j].free => answered[ackWaitList[j].token] = 0
  BY DEF RecordInv, HoldersInv, AnsweredHeld
<1>4. AnswersNest' /\ HeldOnce' /\ AnswerUsed' /\ RequestFresh'
  BY <1>1 DEF AnswersNest, HeldOnce, AnswerUsed, RequestFresh
<1>5. AnsweredHeld'
  <2>1. \A j \in Acks : ~ackWaitList'[j].free => answered[ackWaitList'[j].token] = 0
    BY <1>2, <1>3 DEF Fresh
  <2> QED
    BY <2>1 DEF AnsweredHeld, Acks
<1>6. AnsweredOnce'
  BY DEF RecordInv, AnsweredOnce, Tokens
<1>7. TokensInOrder'
  <2>1. /\ requests \in Nat /\ requests' \in Nat /\ requests' >= requests
        /\ requests' \in 1 .. requests' /\ \A t \in 1 .. requests : t \in 1 .. requests'
    BY DEF RecordInv, TypeOK, TypeInv, Fresh, Tokens
  <2>2. \A t \in Tokens : t \in Nat
    BY DEF Tokens
  <2>3. \A j \in Acks : ~ackWaitList'[j].free => ackWaitList'[j].token \in 1 .. requests'
    BY <1>2, <2>1 DEF RecordInv, TokensInOrder
  <2>4. \A j, k \in Acks : ~ackWaitList'[j].free /\ ~ackWaitList'[k].free /\ j # k
                             => ackWaitList'[j].token # ackWaitList'[k].token
    BY <1>2 DEF RecordInv, TokensInOrder, Fresh
  <2>5. \A r, s \in service' : r.token \in 1 .. requests' /\ (r.token = s.token => r = s)
    BY <2>1 DEF RecordInv, TokensInOrder, Fresh
  <2>6. \A t \in Tokens : t > requests' => answered'[t] = 0
    BY <2>1, <2>2 DEF RecordInv, TokensInOrder
  <2> QED
    BY <2>3, <2>4, <2>5, <2>6 DEF TokensInOrder, Acks, Tokens
<1> QED
  BY <1>4, <1>5, <1>6, <1>7 DEF RecordInv, HoldersInv, TypeInv

(* A request that is published, or fails to be, leaves the stack empty. *)
LEMMA RequestEnds ==
  ASSUME RecordInv, TypeInv', UNCHANGED answered, requests' \in {requests, requests + 1},
         \A n \in 1 .. Len(stack) : ~Holding(stack[n]),
         NEW f, NEW failed, NEW rest, rest = <<>>, Publish(f, rest, failed),
         f.token = requests', Fresh(requests'), f.ack \in Acks, ackWaitList[f.ack].free
  PROVE  RecordInv'
<1>1. \/ /\ ackWaitList' = [ackWaitList EXCEPT ![f.ack] =
                              [free |-> FALSE, token |-> requests', action |-> f.action]]
         /\ service' = service \cup {[token |-> requests', action |-> f.action]}
      \/ UNCHANGED <<ackWaitList, service>>
  BY DEF Publish
<1>2. stack' = <<>>
  BY DEF Publish
<1> QED
  BY <1>1, <1>2, RequestBegins, RequestEnters

LEMMA StartsAtBottom ==
  ASSUME RecordInv, CallbackActions = {}, NEW action \in Actions, MayStart(action),
         requests' = requests + 1
  PROVE  /\ stack = <<>> /\ \A n \in 1 .. Len(stack) : ~Holding(stack[n])
         /\ requests' \in {requests, requests + 1} /\ Fresh(requests')
<1>1. stack = <<>> /\ requests < MaxRequests
  BY DEF MayStart
<1>2. 1 .. Len(stack) = {}
  BY <1>1
<1> QED
  BY <1>1, <1>2, NextIsFresh

(* The request at the top is alone, and its record and token are new. *)
LEMMA RequestAtTop ==
  ASSUME RecordInv, stack # <<>>, Top.op = "action"
  PROVE  /\ Len(stack) = 1 /\ Top = stack[1] /\ Below = <<>>
         /\ \A n \in 1 .. Len(stack) : ~Holding(stack[n])
         /\ Top.token = requests /\ Fresh(requests)
         /\ Top.ack \in Acks /\ ackWaitList[Top.ack].free /\ RequestOK(Top)
<1>1. Len(stack) = 1 /\ Top = stack[1] /\ stack[1] \in Frames /\ FrameOK(stack[1])
  <2>1. Len(stack) = 1
    BY BottomAlone
  <2>2. Top = stack[Len(stack)] /\ Len(stack) \in 1 .. Len(stack)
    BY InvFacts
  <2> QED
    BY <2>1, <2>2, InvFacts
<1>2. Below = <<>>
  <2>1. stack \in Seq(Frames)
    BY DEF RecordInv, TypeOK
  <2>2. Below \in Seq(Frames) /\ Len(Below) = 0
    BY <1>1, <2>1, BelowSeq
  <2> QED
    BY <2>2
<1>3. \A n \in 1 .. Len(stack) : ~Holding(stack[n])
  BY <1>1 DEF Holding
<1>4. 1 \in 1 .. Len(stack)
  BY <1>1
<1>5. /\ Top.token = requests /\ requests \in Tokens
      /\ ackWaitList[Top.ack].free /\ answered[requests] = 0
      /\ \A i \in Acks : ~ackWaitList[i].free => ackWaitList[i].token # requests
      /\ \A r \in service : r.token # requests
  BY <1>1, <1>4 DEF RecordInv, RequestFresh
<1>6. Top.ack \in Acks /\ Top.token \in Tokens
  BY <1>1 DEF FrameOK, Frames
<1> QED
  BY <1>1, <1>2, <1>3, <1>5, <1>6 DEF Fresh, RequestOK

LEMMA RequestKeeps ==
  ASSUME CallbackActions = {}, RecordInv, RequestNext, TypeInv'
  PROVE  RecordInv'
<1>1. ASSUME NEW action \in Actions, RequestRefused(action) PROVE RecordInv'
  <2>1. stack' = <<>> /\ requests' = requests + 1
    BY <1>1, StartsAtBottom DEF RequestRefused
  <2> QED
    BY <1>1, <2>1, StartsAtBottom, RequestBegins DEF RequestRefused, lists
<1>2. ASSUME NEW action \in Actions, NEW sticky \in Stickiness, RequestCounted(action, sticky)
      PROVE  RecordInv'
  <2>1. PICK i \in Acks : IsFreeAck(i) /\ Publish(Request(action, sticky, i), stack, {})
    BY <1>2 DEF RequestCounted
  <2>2. /\ stack = <<>> /\ \A n \in 1 .. Len(stack) : ~Holding(stack[n])
        /\ requests' \in {requests, requests + 1} /\ Fresh(requests')
    BY <1>2, StartsAtBottom DEF RequestCounted
  <2> DEFINE f == Request(action, sticky, i)
  <2>3. f.token = requests' /\ f.ack \in Acks /\ ackWaitList[f.ack].free
    BY <1>2, <2>1 DEF RequestCounted, Request, IsFreeAck
  <2>4. Publish(f, stack, {}) /\ UNCHANGED answered
    BY <1>2, <2>1 DEF RequestCounted
  <2> HIDE DEF f
  <2> QED
    BY <2>2, <2>3, <2>4, RequestEnds
<1>3. ASSUME NEW action \in Actions, NEW sticky \in Stickiness, RequestSubscribes(action, sticky)
      PROVE  RecordInv'
  <2>1. PICK i \in Acks, a \in Entries, r \in Entries :
          /\ IsFreeAck(i)
          /\ stack' = Append(stack, [Request(action, sticky, i) EXCEPT !.entry = a,
                                                                       !.pair = <<a, r>>])
    BY <1>3 DEF RequestSubscribes
  <2>2. /\ stack = <<>> /\ \A n \in 1 .. Len(stack) : ~Holding(stack[n])
        /\ requests' \in {requests, requests + 1} /\ Fresh(requests')
    BY <1>3, StartsAtBottom DEF RequestSubscribes
  <2> DEFINE f == [Request(action, sticky, i) EXCEPT !.entry = a, !.pair = <<a, r>>]
  <2>3. f.op = "action" /\ f.token = requests' /\ f.ack = i
    BY <1>3 DEF RequestSubscribes, Request
  <2>4. ackWaitList[i].free
    BY <2>1 DEF IsFreeAck
  <2>5. stack' = Append(stack, f)
    BY <2>1
  <2> HIDE DEF f
  <2>6. Len(stack') = 1 /\ stack'[1] = f
    BY <2>2, <2>5
  <2>7. UNCHANGED <<ackWaitList, answered, service>>
    BY <1>3 DEF RequestSubscribes
  <2> QED
    BY <2>2, <2>3, <2>4, <2>6, <2>7, RequestBegins
<1>4. ASSUME NEW action \in Actions, NEW sticky \in Stickiness, RequestUnheard(action, sticky)
      PROVE  RecordInv'
  <2>1. PICK i \in Acks :
          /\ IsFreeAck(i)
          /\ \/ Publish(Request(action, sticky, i), stack, {"full"})
             \/ \E n \in FreeEntries :
                  /\ stack' = Append(stack, [Request(action, sticky, i) EXCEPT !.pc = "undo",
                                                                               !.entry = n])
                  /\ UNCHANGED <<ackWaitList, service>>
    BY <1>4 DEF RequestUnheard
  <2>2. /\ stack = <<>> /\ \A n \in 1 .. Len(stack) : ~Holding(stack[n])
        /\ requests' \in {requests, requests + 1} /\ Fresh(requests')
    BY <1>4, StartsAtBottom DEF RequestUnheard
  <2>3. ackWaitList[i].free /\ UNCHANGED answered
    BY <1>4, <2>1 DEF RequestUnheard, IsFreeAck
  <2>4. CASE Publish(Request(action, sticky, i), stack, {"full"})
    <3> DEFINE f == Request(action, sticky, i)
    <3>1. f.token = requests' /\ f.ack \in Acks /\ ackWaitList[f.ack].free
      BY <1>4, <2>3 DEF RequestUnheard, Request
    <3>2. Publish(f, stack, {"full"})
      BY <2>4
    <3> HIDE DEF f
    <3> QED
      BY <2>2, <2>3, <3>1, <3>2, RequestEnds
  <2>5. ASSUME NEW n \in FreeEntries,
               stack' = Append(stack, [Request(action, sticky, i) EXCEPT !.pc = "undo",
                                                                         !.entry = n]),
               UNCHANGED <<ackWaitList, service>>
        PROVE  RecordInv'
    <3> DEFINE f == [Request(action, sticky, i) EXCEPT !.pc = "undo", !.entry = n]
    <3>1. f.op = "action" /\ f.token = requests' /\ f.ack = i
      BY <1>4 DEF RequestUnheard, Request
    <3>2. stack' = Append(stack, f)
      BY <2>5
    <3> HIDE DEF f
    <3>3. Len(stack') = 1 /\ stack'[1] = f
      BY <2>2, <3>2
    <3> QED
      BY <2>2, <2>3, <2>5, <3>1, <3>3, RequestBegins
  <2> QED
    BY <2>1, <2>4, <2>5
<1>5. ASSUME SubscribeReturns PROVE RecordInv'
  <2>1. stack # <<>> /\ Top.op = "action"
    BY <1>5 DEF SubscribeReturns, At
  <2> DEFINE f == [Top EXCEPT !.kind = "rejected", !.entry = Top.pair[2]]
  <2>2. f.op = "action" /\ f.token = requests /\ f.ack = Top.ack
    BY <2>1, RequestAtTop DEF RequestOK, Frames
  <2>3. stack' = WithTop(f)
    BY <1>5 DEF SubscribeReturns
  <2> HIDE DEF f
  <2>4. Len(stack') = 1 /\ stack'[1] = f
    BY <2>1, <2>3, RequestAtTop DEF WithTop, RecordInv, TypeOK
  <2>5. UNCHANGED <<ackWaitList, answered, service, requests>>
    BY <1>5 DEF SubscribeReturns, history
  <2> QED
    BY <2>1, <2>2, <2>4, <2>5, RequestAtTop, RequestBegins
<1>6. ASSUME BothSubscribed PROVE RecordInv'
  <2>1. stack # <<>> /\ Top.op = "action"
    BY <1>6 DEF BothSubscribed, At
  <2>2. Publish(Top, Below, {}) /\ UNCHANGED <<requests, answered>>
    BY <1>6 DEF BothSubscribed
  <2> QED
    BY <2>1, <2>2, RequestAtTop, RequestEnds
<1>7. ASSUME SubscribeFails PROVE RecordInv'
  <2>1. stack # <<>> /\ Top.op = "action"
    BY <1>7 DEF SubscribeFails, At
  <2> DEFINE f == [Top EXCEPT !.pc = "undo", !.entry = Top.pair[1], !.rc = "FAILURE"]
  <2>2. f.op = "action" /\ f.token = requests /\ f.ack = Top.ack
    BY <2>1, RequestAtTop DEF RequestOK, Frames
  <2>3. stack' = WithTop(f) \/ stack' = Below
    BY <1>7 DEF SubscribeFails
  <2> HIDE DEF f
  <2>4. stack' = <<>> \/ (Len(stack') = 1 /\ stack'[1] = f)
    BY <2>1, <2>3, RequestAtTop DEF WithTop, RecordInv, TypeOK
  <2>5. UNCHANGED <<ackWaitList, answered, service, requests>>
    BY <1>7 DEF SubscribeFails, history
  <2> QED
    BY <2>1, <2>2, <2>4, <2>5, RequestAtTop, RequestBegins
<1>8. ASSUME Undone PROVE RecordInv'
  <2>1. stack # <<>> /\ Top.op = "action"
    BY <1>8 DEF Undone, At
  <2>2. /\ \/ \E failed : Publish(Top, Below, failed)
           \/ stack' = Below /\ UNCHANGED <<ackWaitList, service>>
        /\ UNCHANGED <<requests, answered>>
    BY <1>8 DEF Undone
  <2> QED
    BY <2>1, <2>2, RequestAtTop, RequestBegins, RequestEnds
<1> QED
  BY <1>1, <1>2, <1>3, <1>4, <1>5, <1>6, <1>7, <1>8 DEF RequestNext

(* The function at the top goes on or returns; it holds no record, or the same. *)
LEMMA TopGoesOn ==
  ASSUME RecordInv, TypeInv', Quiet, stack # <<>>,
         \/ stack' = Below /\ ~Holding(Top)
         \/ \E f \in Frames :
              /\ stack' = WithTop(f) /\ f.op = Top.op
              /\ Top.op # "expire" => f.ack = Top.ack /\ f.token = Top.token
              /\ Holding(f) <=> Holding(Top)
              /\ Holding(Top) => f.ack = Top.ack
  PROVE  RecordInv'
<1>1. /\ stack \in Seq(Frames) /\ Len(stack) \in Nat \ {0}
      /\ Top = stack[Len(stack)] /\ Len(stack) \in 1 .. Len(stack)
  BY InvFacts, BelowSeq DEF RecordInv, TypeOK
<1>2. CASE stack' = Below /\ ~Holding(Top)
  <2>1. Len(stack') = Len(stack) - 1 /\ \A n \in 1 .. Len(stack') : stack'[n] = stack[n]
    BY <1>1, <1>2, BelowSeq
  <2>2. \A n \in 1 .. Len(stack) : n > Len(stack') => n = Len(stack)
    BY <1>1, <2>1
  <2>3. \A n \in 1 .. Len(stack') - 1 : n \in 1 .. Len(stack')
    BY <1>1, <2>1
  <2>4. \A n \in 1 .. Len(stack) : n > Len(stack') => ~Holding(stack[n])
    BY <1>1, <1>2, <2>2
  <2>5. Len(stack') <= Len(stack)
    BY <1>1, <2>1
  <2>6. \A n \in 1 .. Len(stack') :
           /\ stack'[n].op = stack[n].op
           /\ stack[n].op # "expire" => /\ stack'[n].ack = stack[n].ack
                                        /\ stack'[n].token = stack[n].token
           /\ Holding(stack'[n]) <=> Holding(stack[n])
           /\ Holding(stack[n]) => stack'[n].ack = stack[n].ack
    BY <2>1
  <2>7. \A n \in 1 .. Len(stack') - 1 : stack'[n].pc = stack[n].pc
    BY <2>1, <2>3
  <2> QED
    BY <2>4, <2>5, <2>6, <2>7, FramesGoOn
<1>3. ASSUME NEW f \in Frames,
             stack' = WithTop(f), f.op = Top.op,
             Top.op # "expire" => f.ack = Top.ack /\ f.token = Top.token,
             Holding(f) <=> Holding(Top),
             Holding(Top) => f.ack = Top.ack
      PROVE  RecordInv'
  <2>1. /\ Len(stack') = Len(stack) /\ stack'[Len(stack)] = f
        /\ \A n \in 1 .. Len(stack) - 1 : stack'[n] = stack[n]
    BY <1>1, <1>3, WithTopSeq
  <2>2. \A n \in 1 .. Len(stack') : n = Len(stack) \/ n \in 1 .. Len(stack) - 1
    BY <1>1, <2>1
  <2>3. Len(stack') <= Len(stack) /\ \A n \in 1 .. Len(stack) : ~(n > Len(stack'))
    BY <1>1, <2>1
  <2>4. \A n \in 1 .. Len(stack') :
           /\ stack'[n].op = stack[n].op
           /\ stack[n].op # "expire" => /\ stack'[n].ack = stack[n].ack
                                        /\ stack'[n].token = stack[n].token
           /\ Holding(stack'[n]) <=> Holding(stack[n])
           /\ Holding(stack[n]) => stack'[n].ack = stack[n].ack
    BY <1>1, <1>3, <2>1, <2>2
  <2>5. \A n \in 1 .. Len(stack') - 1 : stack'[n].pc = stack[n].pc
    BY <2>1
  <2> QED
    BY <2>3, <2>4, <2>5, FramesGoOn
<1> QED
  BY <1>2, <1>3

(* unsubscribeFromAcceptedAndRejected goes on, or returns to the answer, which *)
(* gives its record back.                                                     *)
LEMMA NextTopicKeeps ==
  ASSUME RecordInv, TypeInv', NextTopic, UNCHANGED <<answered, requests, service>>,
         stack # <<>>, Top.pc \in {"release", "unsubscribe"}
  PROVE  RecordInv'
<1>1. /\ Top \in Frames /\ FrameOK(Top) /\ Top.op \in {"ack", "expire"}
      /\ stack \in Seq(Frames) /\ Len(stack) \in Nat \ {0}
  <2>1. Top \in Frames /\ FrameOK(Top)
    BY InvFacts, TopTypes
  <2> QED
    BY <2>1, InvFacts, BelowSeq DEF FrameOK, Frames, RecordInv, TypeOK
<1>2. CASE /\ stack' = WithTop([Top EXCEPT !.pc = "release", !.kind = "rejected"])
           /\ UNCHANGED ackWaitList
  <2> DEFINE f == [Top EXCEPT !.pc = "release", !.kind = "rejected"]
  <2>1. f \in Frames /\ f.op = Top.op /\ f.ack = Top.ack /\ f.token = Top.token
    BY <1>1 DEF Frames, Kinds
  <2>2. Holding(f) <=> Holding(Top)
    BY <1>1 DEF Holding, Frames
  <2>3. stack' = WithTop(f)
    BY <1>2
  <2> HIDE DEF f
  <2> QED
    BY <1>2, <2>1, <2>2, <2>3, TopGoesOn DEF Quiet
<1>3. CASE /\ Top.op = "ack" /\ stack' = Below
           /\ ackWaitList' = [ackWaitList EXCEPT ![Top.ack].free = TRUE]
  <2>1. Len(stack') = Len(stack) - 1 /\ \A n \in 1 .. Len(stack') : stack'[n] = stack[n]
    BY <1>1, <1>3, BelowSeq
  <2>2. Len(stack') # Len(stack) /\ Holding(Top)
    BY <1>1, <1>3, <2>1 DEF Holding
  <2> QED
    BY <1>3, <2>1, <2>2, RecordGivenBack
<1>4. CASE /\ Top.op = "expire" /\ stack' = WithTop([Top EXCEPT !.pc = "scan", !.ack = @ + 1])
           /\ UNCHANGED ackWaitList
  <2> DEFINE f == [Top EXCEPT !.pc = "scan", !.ack = @ + 1]
  <2>1. Top.ack + 1 \in 1 .. MaxAcks + 1
    BY <1>1 DEF FrameOK, Acks
  <2>2. f \in Frames /\ f.op = Top.op
    BY <1>1, <2>1 DEF Frames
  <2>3. ~Holding(f) /\ ~Holding(Top)
    BY <1>1, <1>4 DEF Holding, Frames
  <2>4. stack' = WithTop(f)
    BY <1>4
  <2> HIDE DEF f
  <2> QED
    BY <1>4, <2>2, <2>3, <2>4, TopGoesOn DEF Quiet
<1> QED
  BY <1>2, <1>3, <1>4 DEF NextTopic

LEMMA AnswerKeeps ==
  ASSUME RecordInv, AnswerNext, TypeInv'
  PROVE  RecordInv'
<1>0. stack \in Seq(Frames) /\ Len(stack) \in Nat
  BY DEF RecordInv, TypeOK
<1>1. ASSUME NEW r \in service, NEW kind \in Kinds, AckStatusCallback(r, kind) PROVE RecordInv'
  <2>1. /\ UNCHANGED <<ackWaitList, requests>> /\ service' = service \ {r}
        /\ \/ UNCHANGED <<stack, answered>>
           \/ \E i \in Acks : /\ ~ackWaitList[i].free /\ ackWaitList[i].token = r.token
                              /\ stack' = Append(stack, Answering("ack", "callback", i))
                              /\ answered' = [answered EXCEPT ![r.token] = @ + 1]
    BY <1>1 DEF AckStatusCallback, lists
  <2>2. CASE UNCHANGED <<stack, answered>>
    <3>1. service' \subseteq service
      BY <2>1
    <3>2. AnswersNest' /\ AnsweredOnce'
      BY <2>1, <2>2 DEF RecordInv, AnswersNest, AnsweredOnce, Tokens
    <3>3. HeldOnce' /\ AnsweredHeld'
      BY <2>1, <2>2 DEF RecordInv, HoldersInv, HeldOnce, AnsweredHeld, Holding, Acks
    <3>4. AnswerUsed'
      BY <2>1, <2>2, <3>1 DEF RecordInv, HoldersInv, AnswerUsed
    <3>5. TokensInOrder'
      BY <2>1, <2>2, <3>1 DEF RecordInv, TokensInOrder, Acks, Tokens
    <3>6. RequestFresh'
      BY <2>1, <2>2, <3>1 DEF RecordInv, RequestFresh, Acks, Tokens
    <3> QED
      BY <3>2, <3>3, <3>4, <3>5, <3>6 DEF RecordInv, HoldersInv, TypeInv
  <2>3. ASSUME NEW i \in Acks, ~ackWaitList[i].free, ackWaitList[i].token = r.token,
               stack' = Append(stack, Answering("ack", "callback", i)),
               answered' = [answered EXCEPT ![r.token] = @ + 1]
        PROVE  RecordInv'
    <3> DEFINE f == Answering("ack", "callback", i)
    <3>1. f \in Frames /\ f.op = "ack" /\ f.ack = i
      BY InvFacts, AnsweringType DEF Answering
    <3>2. stack' = Append(stack, f)
      BY <2>3
    <3> HIDE DEF f
    <3>3. /\ Len(stack') = Len(stack) + 1 /\ stack'[Len(stack) + 1] = f
          /\ \A n \in 1 .. Len(stack) : stack'[n] = stack[n]
      BY <1>0, <3>1, <3>2, AppendSeq
    <3>4. Len(stack) > 0 => stack[Len(stack)].pc \in {"subscribe", "undo", "unsubscribe"}
      BY <1>0, <1>1 DEF AckStatusCallback, Reading, Top
    <3>5. \A n \in 1 .. Len(stack) : stack[n].pc \in {"subscribe", "undo", "unsubscribe"}
      <4>1. \A n \in 1 .. Len(stack) - 1 : stack[n].pc \in {"subscribe", "undo", "unsubscribe"}
        BY DEF RecordInv, AnswersNest
      <4>2. \A n \in 1 .. Len(stack) : Len(stack) > 0 /\ (n \in 1 .. Len(stack) - 1 \/ n = Len(stack))
        BY <1>0
      <4> QED
        BY <3>4, <4>1, <4>2
    <3>6. answered[ackWaitList[i].token] = 0
      <4> SUFFICES ASSUME answered[ackWaitList[i].token] # 0 PROVE FALSE
        OBVIOUS
      <4>1. PICK n \in 1 .. Len(stack) : Holding(stack[n]) /\ stack[n].ack = i
        BY <2>3 DEF RecordInv, HoldersInv, AnsweredHeld
      <4>2. stack[n].op = "ack"
        BY <3>5, <4>1 DEF Holding
      <4> QED
        BY <2>3, <4>1, <4>2 DEF RecordInv, HoldersInv, AnswerUsed
    <3>7. \A s \in service' : s.token # ackWaitList[i].token
      BY <2>1, <2>3 DEF RecordInv, TokensInOrder
    <3>8. Holding(f)
      BY <3>1 DEF Holding
    <3>9. service' \subseteq service /\ answered' = [answered EXCEPT ![ackWaitList[i].token] = @ + 1]
      BY <2>1, <2>3
    <3> DEFINE k == Len(stack)
    <3>10. /\ k \in Nat /\ Len(stack') = k + 1 /\ Len(stack) \in {k, k + 1}
           /\ f.op # "expire" /\ Len(stack) # k + 1 /\ stack'[k + 1] = f
           /\ \A n \in 1 .. k : stack'[n] = stack[n]
           /\ k > 0 => stack[k].pc \in {"subscribe", "undo", "unsubscribe"}
      BY <1>0, <3>1, <3>3, <3>4
    <3> HIDE DEF k
    <3>11. /\ UNCHANGED <<ackWaitList, requests>>
           /\ Holding(stack'[k + 1]) /\ stack'[k + 1].ack = i
           /\ Len(stack) = k + 1 => ~Holding(stack[k + 1])
           /\ stack'[k + 1].op = "ack" =>
                /\ \A s \in service' : s.token # ackWaitList[i].token
                /\ k > 0 => stack[k].pc \in {"subscribe", "undo", "unsubscribe"}
           /\ stack'[k + 1].op = "expire" => k = 0
      BY <2>1, <3>1, <3>7, <3>8, <3>10
    <3> QED
      BY <2>3, <3>6, <3>9, <3>10, <3>11, CallbackCalled
  <2> QED
    BY <2>1, <2>2, <2>3
<1>2. ASSUME YieldStarts PROVE RecordInv'
  <2>1. stack = <<>> /\ stack' = <<Answering("expire", "scan", 1)>>
    BY <1>2 DEF YieldStarts
  <2>2. Len(stack') = 1 /\ stack'[1].op = "expire" /\ stack'[1].pc = "scan" /\ 1 .. Len(stack) = {}
    BY <2>1 DEF Answering
  <2>3. \A n \in 1 .. Len(stack') : stack'[n].op = "expire" /\ ~Holding(stack'[n]) /\ n = 1
    BY <2>2 DEF Holding
  <2>4. UNCHANGED <<ackWaitList, answered, requests, service>>
    BY <1>2 DEF YieldStarts, lists, history
  <2>5. AnswersNest' /\ AnsweredOnce' /\ HeldOnce'
    BY <2>2, <2>3, <2>4 DEF RecordInv, AnswersNest, AnsweredOnce, HeldOnce, Holding, Tokens
  <2>6. AnsweredHeld'
    BY <2>2, <2>4 DEF RecordInv, HoldersInv, AnsweredHeld, Acks
  <2>7. AnswerUsed' /\ RequestFresh'
    BY <2>3 DEF AnswerUsed, RequestFresh
  <2>8. TokensInOrder'
    BY <2>4 DEF RecordInv, TokensInOrder, Acks, Tokens
  <2> QED
    BY <2>5, <2>6, <2>7, <2>8 DEF RecordInv, HoldersInv, TypeInv
<1>3. ASSUME NEW i \in Acks, Expires(i) PROVE RecordInv'
  <2>1. /\ stack # <<>> /\ Top.op = "expire" /\ Top.pc = "scan" /\ ~ackWaitList[i].free
        /\ UNCHANGED <<ackWaitList, requests>> /\ service' \subseteq service
    BY <1>3 DEF Expires, At, lists
  <2> DEFINE f == Answering("expire", "callback", i)
  <2>2. f \in Frames /\ f.op = "expire" /\ f.ack = i /\ f.pc = "callback"
    BY InvFacts, AnsweringType DEF Answering
  <2>3. stack' = WithTop(f) /\ answered' = [answered EXCEPT ![ackWaitList[i].token] = @ + 1]
    BY <1>3 DEF Expires
  <2> HIDE DEF f
  <2>4. Len(stack) = 1 /\ Top = stack[1]
    BY <2>1, BottomAlone, InvFacts
  <2>5. Len(stack') = 1 /\ stack'[1] = f
    BY <1>0, <2>1, <2>2, <2>3, <2>4, WithTopSeq
  <2>6. \A n \in 1 .. Len(stack) : ~Holding(stack[n])
    BY <2>1, <2>4 DEF Holding
  <2>7. answered[ackWaitList[i].token] = 0
    BY <2>1, <2>6 DEF RecordInv, HoldersInv, AnsweredHeld
  <2>8. Holding(f)
    BY <2>2 DEF Holding
  <2> DEFINE k == 0
  <2>9. /\ k \in Nat /\ Len(stack') = k + 1 /\ Len(stack) \in {k, k + 1}
        /\ stack'[k + 1] = f /\ ~Holding(stack[k + 1]) /\ k = 0
        /\ \A n \in 1 .. k : stack'[n] = stack[n]
    BY <2>4, <2>5, <2>6
  <2> HIDE DEF k
  <2> QED
    BY <2>1, <2>2, <2>3, <2>7, <2>8, <2>9, CallbackCalled
<1>4. ASSUME NoneExpired PROVE RecordInv'
  <2>1. stack # <<>> /\ Top.op = "expire" /\ Top.pc = "scan" /\ stack' = Below
    BY <1>4 DEF NoneExpired, At
  <2>2. ~Holding(Top)
    BY <2>1 DEF Holding
  <2>3. Quiet
    BY <1>4 DEF NoneExpired, lists, history, Quiet
  <2> QED
    BY <2>1, <2>2, <2>3, TopGoesOn
<1>5. ASSUME CallbackReturns PROVE RecordInv'
  <2>1. stack # <<>> /\ Top.pc = "callback" /\ Top \in Frames /\ FrameOK(Top)
    BY <1>5, InvFacts, TopTypes DEF CallbackReturns, InCallback
  <2>2. Top.op \in {"ack", "expire"} /\ Top.ack \in Acks
    BY <2>1 DEF FrameOK, Frames
  <2> DEFINE a == ackWaitList[Top.ack].action
             f == [Top EXCEPT !.pc = "release", !.action = a]
  <2>3. a \in Actions
    BY <2>2, InvFacts DEF Records
  <2>4. /\ f \in Frames /\ f.op = Top.op /\ f.ack = Top.ack /\ f.token = Top.token
        /\ f.pc = "release"
    BY <2>1, <2>3 DEF Frames
  <2>5. stack' = WithTop(f) /\ UNCHANGED <<answered, requests, service>>
    BY <1>5 DEF CallbackReturns, history
  <2> HIDE DEF f
  <2>6. CASE Top.op = "ack"
    <3>1. Holding(f) /\ Holding(Top)
      BY <2>4, <2>6 DEF Holding
    <3>2. ackWaitList' = ackWaitList
      <4>1. /\ ackWaitList \in [Acks -> Records]
            /\ (ackWaitList[Top.ack].free \/ Top.op = "expire") = ackWaitList[Top.ack].free
        BY <2>2, <2>6, InvFacts DEF RecordInv, TypeOK, Records
      <4>2. ackWaitList' = [ackWaitList EXCEPT ![Top.ack].free = ackWaitList[Top.ack].free]
        BY <1>5, <4>1 DEF CallbackReturns
      <4> QED
        BY <2>2, <4>1, <4>2 DEF Records
    <3> QED
      BY <2>1, <2>4, <2>5, <3>1, <3>2, TopGoesOn DEF Quiet
  <2>7. CASE Top.op = "expire"
    <3>1. ackWaitList' = [ackWaitList EXCEPT ![Top.ack].free = TRUE]
      BY <1>5, <2>7 DEF CallbackReturns
    <3>2. /\ Len(stack) = 1 /\ Len(stack') = 1 /\ stack'[1] = f
      BY <1>0, <2>1, <2>4, <2>5, <2>7, BottomAlone, WithTopSeq
    <3>3. Holding(Top) /\ ~Holding(f)
      BY <2>1, <2>4, <2>7 DEF Holding
    <3> QED
      BY <2>1, <2>4, <2>5, <2>7, <3>1, <3>2, <3>3, RecordGivenBack
  <2> QED
    BY <2>2, <2>6, <2>7
<1>6. ASSUME ReleaseUnsubscribes PROVE RecordInv'
  <2>1. stack # <<>> /\ Top.pc = "release" /\ Top \in Frames
    BY <1>6, InvFacts, TopTypes DEF ReleaseUnsubscribes
  <2>2. PICK n \in Entries : stack' = WithTop([Top EXCEPT !.pc = "unsubscribe", !.entry = n])
    BY <1>6 DEF ReleaseUnsubscribes
  <2> DEFINE f == [Top EXCEPT !.pc = "unsubscribe", !.entry = n]
  <2>3. n \in 0 .. MaxTopics
    BY DEF Entries
  <2>4. /\ f \in Frames /\ f.op = Top.op /\ f.ack = Top.ack /\ f.token = Top.token
        /\ f.pc = "unsubscribe"
    BY <2>1, <2>3 DEF Frames
  <2>5. stack' = WithTop(f)
    BY <2>2
  <2> HIDE DEF f
  <2>6. Holding(f) <=> Holding(Top)
    BY <2>1, <2>4 DEF Holding
  <2>7. Quiet
    BY <1>6 DEF ReleaseUnsubscribes, Quiet, lists, history
  <2> QED
    BY <2>1, <2>4, <2>5, <2>6, <2>7, TopGoesOn
<1>7. ASSUME ReleaseCounts PROVE RecordInv'
  BY <1>7, NextTopicKeeps DEF ReleaseCounts, history
<1>8. ASSUME Unsubscribed PROVE RecordInv'
  BY <1>8, NextTopicKeeps DEF Unsubscribed
<1> QED
  BY <1>1, <1>2, <1>3, <1>4, <1>5, <1>6, <1>7, <1>8 DEF AnswerNext

LEMMA InitHolds == Init => RecordInv
<1> SUFFICES ASSUME Init PROVE RecordInv
  OBVIOUS
<1>1. TypeOK /\ FramesOK
  BY InitTypes DEF TypeInv
<1>2. 1 .. Len(stack) = {} /\ 2 .. Len(stack) = {} /\ 1 .. Len(stack) - 1 = {}
  BY DEF Init
<1>3. AnswersNest /\ HeldOnce /\ AnswerUsed /\ RequestFresh
  BY <1>2 DEF AnswersNest, HeldOnce, AnswerUsed, RequestFresh
<1>4. AnsweredHeld /\ TokensInOrder /\ AnsweredOnce
  BY DEF Init, AnsweredHeld, TokensInOrder, AnsweredOnce
<1> QED
  BY <1>1, <1>3, <1>4 DEF RecordInv, HoldersInv

LEMMA StutterKeeps == RecordInv /\ UNCHANGED vars => RecordInv'
<1> SUFFICES ASSUME RecordInv, UNCHANGED vars PROVE RecordInv'
  OBVIOUS
<1>1. TypeInv' /\ Quiet /\ stack' = stack
  BY StutterTypes DEF RecordInv, TypeInv, vars, lists, history, Quiet
<1>2. /\ Len(stack') <= Len(stack)
      /\ \A n \in 1 .. Len(stack) : ~(n > Len(stack'))
  BY <1>1, InvFacts
<1> QED
  BY <1>1, <1>2, FramesGoOn

(* When the application's callbacks make no requests: a record that is taken  *)
(* after its answer is held by one function, which gives it back; a token     *)
(* belongs to one record (records.c:258-270, 395-430, 446-473).               *)
THEOREM RecordInvariance ==
  ASSUME CallbackActions = {}
  PROVE  Spec => []RecordInv
<1>1. RecordInv /\ [Next]_vars => RecordInv'
  <2> SUFFICES ASSUME RecordInv, [Next]_vars PROVE RecordInv'
    OBVIOUS
  <2>1. TypeInv'
    BY RequestTypes, AnswerTypes, StutterTypes DEF RecordInv, TypeInv, Next
  <2> QED
    BY <2>1, RequestKeeps, AnswerKeeps, StutterKeeps DEF Next
<1> QED
  BY InitHolds, <1>1, PTL DEF Spec

(* The callback of a request is called at most once: an answer that arrives   *)
(* while the record of the request waits for its topics to be released, or    *)
(* after its timeout, finds no record (records.c:258-270, 455-469).           *)
THEOREM CalledOnce ==
  ASSUME CallbackActions = {}
  PROVE  Spec => []AnsweredOnce
<1>1. RecordInv => AnsweredOnce
  BY DEF RecordInv
<1> QED
  BY <1>1, RecordInvariance, PTL

----------------------------------------------------------------------------
(* No request is forgotten *)

(* A step changes one record at most: a free one, or one that is held. *)
LEMMA RecordsChange ==
  ASSUME CallbackActions = {}, RecordInv, Next
  PROVE  \/ UNCHANGED ackWaitList
         \/ \E i \in Acks : /\ ackWaitList[i].free
                            /\ \A j \in Acks : j # i => ackWaitList'[j] = ackWaitList[j]
         \/ /\ stack # <<>> /\ Holding(Top) /\ UNCHANGED answered
            /\ \A j \in Acks : j # Top.ack => ackWaitList'[j] = ackWaitList[j]
<1>0. ackWaitList \in [Acks -> Records]
  BY DEF RecordInv, TypeOK
<1>1. ASSUME NEW f, NEW rest, NEW failed, Publish(f, rest, failed), f.ack \in Acks,
             ackWaitList[f.ack].free
      PROVE  \/ UNCHANGED ackWaitList
             \/ \E i \in Acks : /\ ackWaitList[i].free
                                /\ \A j \in Acks : j # i => ackWaitList'[j] = ackWaitList[j]
  BY <1>0, <1>1 DEF Publish
<1>2. ASSUME NEW action \in Actions, NEW sticky \in Stickiness, NEW i \in Acks, IsFreeAck(i),
             NEW failed, Publish(Request(action, sticky, i), stack, failed)
      PROVE  \/ UNCHANGED ackWaitList
             \/ \E n \in Acks : /\ ackWaitList[n].free
                                /\ \A j \in Acks : j # n => ackWaitList'[j] = ackWaitList[j]
  <2>1. Request(action, sticky, i).ack = i /\ ackWaitList[i].free
    BY <1>2 DEF Request, IsFreeAck
  <2> QED
    BY <1>1, <1>2, <2>1
<1>3. CASE \E action \in Actions : RequestRefused(action)
  BY <1>3 DEF RequestRefused, lists
<1>4. CASE \E action \in Actions, sticky \in Stickiness : RequestCounted(action, sticky)
  BY <1>2, <1>4 DEF RequestCounted
<1>5. CASE \E action \in Actions, sticky \in Stickiness : RequestSubscribes(action, sticky)
  BY <1>5 DEF RequestSubscribes
<1>6. CASE \E action \in Actions, sticky \in Stickiness : RequestUnheard(action, sticky)
  BY <1>2, <1>6 DEF RequestUnheard
<1>7. CASE SubscribeReturns
  BY <1>7 DEF SubscribeReturns
<1>8. CASE BothSubscribed
  <2>1. Top.ack \in Acks /\ ackWaitList[Top.ack].free
    BY <1>8, RequestAtTop DEF BothSubscribed, At
  <2> QED
    BY <1>1, <1>8, <2>1 DEF BothSubscribed
<1>9. CASE SubscribeFails
  BY <1>9 DEF SubscribeFails
<1>10. CASE Undone
  <2>1. Top.ack \in Acks /\ ackWaitList[Top.ack].free
    BY <1>10, RequestAtTop DEF Undone, At
  <2> QED
    BY <1>1, <1>10, <2>1 DEF Undone
<1>11. CASE CallbackReturns
  <2>1. stack # <<>> /\ Top.pc = "callback" /\ Top \in Frames /\ FrameOK(Top)
    BY <1>11, InvFacts, TopTypes DEF CallbackReturns, InCallback
  <2>2. Holding(Top)
    BY <2>1 DEF FrameOK, Frames, Holding
  <2> QED
    BY <1>0, <1>11, <2>1, <2>2 DEF CallbackReturns, history
<1>12. ASSUME NextTopic, stack # <<>>, UNCHANGED answered
       PROVE  \/ UNCHANGED ackWaitList
              \/ /\ stack # <<>> /\ Holding(Top) /\ UNCHANGED answered
                 /\ \A j \in Acks : j # Top.ack => ackWaitList'[j] = ackWaitList[j]
  BY <1>0, <1>12 DEF NextTopic, Holding
<1>13. CASE AnswerNext /\ ~CallbackReturns
  BY <1>12, <1>13 DEF AnswerNext, AckStatusCallback, YieldStarts, Expires, NoneExpired,
                      ReleaseUnsubscribes, ReleaseCounts, Unsubscribed, lists, history
<1> QED
  BY <1>3, <1>4, <1>5, <1>6, <1>7, <1>8, <1>9, <1>10, <1>11, <1>13 DEF Next, RequestNext

(* A record is given back, or taken for another request, only after the       *)
(* callback of its request has been called (records.c:258-270, 395-430,       *)
(* 455-473), when callbacks make no requests.                                 *)
THEOREM NothingForgotten ==
  ASSUME CallbackActions = {}
  PROVE  Spec => NoRequestForgotten
<1>1. ASSUME RecordInv, [Next]_vars
      PROVE  [\A i \in Acks : ~ackWaitList[i].free /\ ackWaitList'[i] # ackWaitList[i]
                                => answered'[ackWaitList[i].token] > 0]_vars
  <2> SUFFICES ASSUME Next, NEW i \in Acks,
                      ~ackWaitList[i].free, ackWaitList'[i] # ackWaitList[i]
               PROVE  answered'[ackWaitList[i].token] > 0
    BY <1>1
  <2>1. /\ stack # <<>> /\ Holding(Top) /\ UNCHANGED answered /\ i = Top.ack
    BY <1>1, RecordsChange
  <2>2. answered[ackWaitList[i].token] = 1
    BY <1>1, <2>1, InvFacts DEF RecordInv, HoldersInv, HeldOnce
  <2> QED
    BY <2>1, <2>2
<1> QED
  BY <1>1, RecordInvariance, PTL DEF Spec, NoRequestForgotten

----------------------------------------------------------------------------
(* The users of an action and their number *)

LEMMA UsersFinite ==
  ASSUME NEW action
  PROVE  /\ Users(action) \subseteq Tokens
         /\ IsFiniteSet(Users(action)) /\ Cardinality(Users(action)) \in Nat
         /\ Cardinality(Users(action)) = 0 <=> Users(action) = {}
<1>1. IsFiniteSet(Tokens)
  BY FS_Interval DEF Tokens
<1>2. Users(action) \subseteq Tokens
  BY DEF Users
<1>3. IsFiniteSet(Users(action))
  BY <1>1, <1>2, FS_Subset
<1> QED
  BY <1>2, <1>3, FS_EmptySet, FS_CardinalityType

(* One user more, or one less. *)
LEMMA UserComes ==
  ASSUME NEW action, NEW t, t \notin Users(action), Users(action)' = Users(action) \cup {t}
  PROVE  Cardinality(Users(action)') = Cardinality(Users(action)) + 1
  BY UsersFinite, FS_AddElement

LEMMA UserGoes ==
  ASSUME NEW action, NEW t \in Users(action), Users(action)' = Users(action) \ {t}
  PROVE  Cardinality(Users(action)') = Cardinality(Users(action)) - 1
  BY UsersFinite, FS_RemoveElement

(* When there is room for one user there is one at most. *)
LEMMA OnlyUser ==
  ASSUME NEW action, Cardinality(Users(action)) <= 1, NEW s \in Users(action),
         NEW t \in Users(action)
  PROVE  s = t
<1> SUFFICES ASSUME s # t PROVE FALSE
  OBVIOUS
<1>1. /\ IsFiniteSet(Users(action) \ {s}) /\ t \in Users(action) \ {s}
      /\ Cardinality(Users(action) \ {s}) = Cardinality(Users(action)) - 1
  BY UsersFinite, FS_RemoveElement
<1>2. Cardinality(Users(action) \ {s}) \in Nat /\ Cardinality(Users(action) \ {s}) # 0
  BY <1>1, FS_EmptySet, FS_CardinalityType
<1> QED
  BY <1>1, <1>2, UsersFinite

(* Before a request there are fewer users than records. *)
LEMMA UsersHaveRecords ==
  ASSUME TypeOK, stack = <<>>, NEW free \in Acks, ackWaitList[free].free, NEW action
  PROVE  Cardinality(Users(action)) <= MaxAcks - 1
<1> DEFINE S == {i \in Acks : /\ Outstanding(i) /\ ackWaitList[i].action = action
                              /\ ackWaitList[i].token \in Tokens}
           f == [i \in S |-> ackWaitList[i].token]
<1>1. IsFiniteSet(Acks) /\ Cardinality(Acks) = MaxAcks
  BY FS_Interval DEF Acks
<1>2. free \notin S /\ S \subseteq Acks \ {free}
  BY DEF Outstanding
<1>3. IsFiniteSet(Acks \ {free}) /\ Cardinality(Acks \ {free}) = MaxAcks - 1
  BY <1>1, FS_RemoveElement
<1>4. IsFiniteSet(S) /\ Cardinality(S) <= MaxAcks - 1
  BY <1>2, <1>3, FS_Subset
<1>5. Users(action) = {ackWaitList[i].token : i \in S}
  <2>1. 1 .. Len(stack) = {}
    OBVIOUS
  <2> QED
    BY <2>1 DEF Users, Waits, Releases
<1>6. f \in Surjection(S, Users(action))
  BY <1>5 DEF Surjection
<1>7. Cardinality(Users(action)) <= Cardinality(S)
  BY <1>4, <1>6, FS_Surjection
<1>8. Cardinality(S) \in Nat
  BY <1>4, FS_CardinalityType
<1> QED
  BY <1>4, <1>7, <1>8, UsersFinite

----------------------------------------------------------------------------
(* What a step leaves as it is *)

(* Requests are only added, and so are persistent actions and failures. *)
Grows ==
  /\ requests \in Nat /\ requests' \in Nat /\ requests <= requests'
  /\ persistent \subseteq persistent' /\ troubles \subseteq troubles'

LEMMA HistoryGrows ==
  ASSUME TypeOK, TypeOK', Next
  PROVE  Grows
<1>1. requests \in Nat /\ requests' \in Nat
  BY DEF TypeOK
<1>2. requests <= requests' /\ persistent \subseteq persistent' /\ troubles \subseteq troubles'
  <2>1. \A f, rest, failed : Publish(f, rest, failed) =>
          persistent \subseteq persistent' /\ troubles \subseteq troubles'
    BY DEF Publish
  <2>2. CASE RequestNext
    <3>1. requests' \in {requests, requests + 1}
      BY <2>2 DEF RequestNext, RequestRefused, RequestCounted, RequestSubscribes, RequestUnheard,
         SubscribeReturns, BothSubscribed, SubscribeFails, Undone, history
    <3>2. CASE UNCHANGED <<persistent, troubles>>
      BY <1>1, <3>1, <3>2
    <3>3. CASE UNCHANGED persistent /\ \E failed : troubles' = troubles \cup failed
      BY <1>1, <3>1, <3>3
    <3>4. CASE \E f, rest, failed : Publish(f, rest, failed)
      BY <1>1, <2>1, <3>1, <3>4
    <3>5. CASE \E action \in Actions, sticky \in Stickiness :
                 RequestCounted(action, sticky) \/ RequestUnheard(action, sticky)
      BY <3>3, <3>4, <3>5 DEF RequestCounted, RequestUnheard
    <3>6. CASE BothSubscribed \/ Undone
      BY <3>3, <3>4, <3>6 DEF BothSubscribed, Undone
    <3>7. CASE \/ \E action \in Actions : RequestRefused(action)
               \/ \E action \in Actions, sticky \in Stickiness : RequestSubscribes(action, sticky)
               \/ SubscribeReturns \/ SubscribeFails
      BY <3>2, <3>7 DEF RequestRefused, RequestSubscribes, SubscribeReturns, SubscribeFails, history
    <3> QED
      BY <2>2, <3>5, <3>6, <3>7 DEF RequestNext
  <2>3. CASE AnswerNext
    <3>1. requests' = requests /\ persistent' = persistent
      BY <2>3 DEF AnswerNext, AckStatusCallback, YieldStarts, Expires, NoneExpired,
         CallbackReturns, ReleaseUnsubscribes, ReleaseCounts, Unsubscribed, history
    <3>2. troubles' \in {troubles, troubles \cup {"unsubscribe"}}
      BY <2>3 DEF AnswerNext, AckStatusCallback, YieldStarts, Expires, NoneExpired,
         CallbackReturns, ReleaseUnsubscribes, ReleaseCounts, Unsubscribed, history
    <3> QED
      BY <1>1, <3>1, <3>2
  <2> QED
    BY <2>2, <2>3 DEF Next
<1> QED
  BY <1>1, <1>2 DEF Grows

(* The topics of an action stay in use by the same requests. *)
SameUse(action) ==
  /\ Users(action)' = Users(action) /\ (HasHalf(action)' <=> HasHalf(action))
  /\ \A kind \in Kinds : LiveOf(action, kind)' = LiveOf(action, kind)
  /\ \A kind \in Kinds : \A n \in LiveOf(action, kind) :
       subscriptionList'[n] = subscriptionList[n]

LEMMA PairKept ==
  ASSUME NEW action, TypeOK, PairCounted(action), SameUse(action), Grows
  PROVE  PairCounted(action)'
<1>1. /\ LiveOf(action, "accepted")' = LiveOf(action, "accepted")
      /\ LiveOf(action, "rejected")' = LiveOf(action, "rejected")
      /\ \A n \in LiveOf(action, "accepted") : subscriptionList'[n] = subscriptionList[n]
      /\ \A n \in LiveOf(action, "rejected") : subscriptionList'[n] = subscriptionList[n]
  BY DEF SameUse, Kinds
<1>2. \A r \in LiveOf(action, "rejected") :
        /\ subscriptionList[r].count \in Nat
        /\ IsLastUse(r)' <=> IsLastUse(r)
  BY <1>1 DEF LiveOf, Live, TypeOK, Subscriptions, IsLastUse
<1>3. CASE HasHalf(action)
  <2>1. PICK r \in LiveOf(action, "rejected") :
          /\ Counts(subscriptionList[r], Cardinality(Users(action)) + 1, action)
          /\ \/ IsLastUse(r) /\ LiveOf(action, "accepted") = {}
             \/ \E a \in LiveOf(action, "accepted") :
                  /\ ~IsLastUse(r) /\ subscriptionList[a].sticky = subscriptionList[r].sticky
                  /\ subscriptionList[a].count =
                       IF subscriptionList[r].count = 1 THEN 1 ELSE subscriptionList[r].count - 1
    BY <1>3 DEF PairCounted, HalfReleased
  <2>2. Counts(subscriptionList[r], Cardinality(Users(action)) + 1, action)'
    BY <1>1, <1>2, <2>1 DEF Counts, Grows, SameUse
  <2>3. \/ IsLastUse(r)' /\ LiveOf(action, "accepted")' = {}
        \/ \E a \in LiveOf(action, "accepted")' :
             /\ ~IsLastUse(r)' /\ subscriptionList'[a].sticky = subscriptionList'[r].sticky
             /\ subscriptionList'[a].count =
                  IF subscriptionList'[r].count = 1 THEN 1 ELSE subscriptionList'[r].count - 1
    BY <1>1, <1>2, <2>1
  <2>4. HalfReleased(action)'
    BY <1>1, <2>2, <2>3 DEF HalfReleased
  <2> QED
    BY <1>3, <2>4 DEF PairCounted, SameUse
<1>4. CASE ~HasHalf(action)
  <2>1. Settled(action)
    BY <1>4 DEF PairCounted
  <2>2. CASE LiveOf(action, "accepted") = {} /\ LiveOf(action, "rejected") = {}
             /\ Users(action) = {}
    BY <1>1, <1>4, <2>2 DEF PairCounted, SameUse, Settled
  <2>3. ASSUME NEW a \in LiveOf(action, "accepted"), NEW r \in LiveOf(action, "rejected"),
               subscriptionList[a].count = subscriptionList[r].count,
               subscriptionList[a].sticky = subscriptionList[r].sticky,
               Counts(subscriptionList[r], Cardinality(Users(action)), action)
        PROVE  PairCounted(action)'
    <3>1. Counts(subscriptionList[r], Cardinality(Users(action)), action)'
      BY <1>1, <1>2, <2>3 DEF Counts, Grows, SameUse
    <3>2. Settled(action)'
      BY <1>1, <2>3, <3>1 DEF Settled
    <3> QED
      BY <1>4, <3>2 DEF PairCounted, SameUse
  <2> QED
    BY <2>1, <2>2, <2>3 DEF Settled
<1> QED
  BY <1>3, <1>4

(* The bottom of the stack is still the same request, or still none. *)
SameRequest ==
  /\ \A pc \in {"subscribe", "undo"} : Requesting(pc)' <=> Requesting(pc)
  /\ \A pc \in {"subscribe", "undo"} : Requesting(pc) => stack'[1] = stack[1]

LEMMA SameReserved ==
  ASSUME SameRequest
  PROVE  Reserved' = Reserved /\ Pending' = Pending
<1>1. /\ Requesting("subscribe")' <=> Requesting("subscribe")
      /\ Requesting("undo")' <=> Requesting("undo")
      /\ Requesting("subscribe") => stack'[1] = stack[1]
      /\ Requesting("undo") => stack'[1] = stack[1]
  BY DEF SameRequest
<1> QED
  BY <1>1 DEF Reserved, Pending

(* A step that leaves the subscriptions alone. *)
SameTopics ==
  /\ UNCHANGED <<subscriptionList, handlers>> /\ SameRequest
  /\ \A action \in Actions : Users(action)' = Users(action)
  /\ \A action \in Actions : HasHalf(action)' <=> HasHalf(action)

LEMMA ListsKept ==
  ASSUME TypeOK, ListInv, FramesOK, Grows, SameTopics, UnsubscribesLast'
  PROVE  ListInv'
<1>1. Reserved' = Reserved /\ Pending' = Pending
  BY SameReserved DEF SameTopics
<1>2. Live' = Live /\ \A action, kind : LiveOf(action, kind)' = LiveOf(action, kind)
  BY <1>1 DEF Live, LiveOf, SameTopics
<1>3. LiveFirst' /\ ListensToLive'
  BY <1>1, <1>2 DEF ListInv, LiveFirst, ListensToLive, SameTopics, Topics, Entries
<1>4. PairsCounted'
  <2>1. \A action \in Actions : SameUse(action)
    BY <1>2 DEF SameUse, SameTopics
  <2> QED
    BY <2>1, PairKept DEF ListInv, PairsCounted
<1>5. \A action \in Actions : Unused(action)' <=> Unused(action)
  BY <1>2 DEF Unused, SameTopics, Kinds
<1>6. stack # <<>> => stack[1] \in Frames
  BY DEF TypeOK
<1>7. ReservedFirst'
  <2> SUFFICES ASSUME Requesting("subscribe")' PROVE ReservedFirst'
    BY DEF ReservedFirst
  <2>1. Requesting("subscribe") /\ stack'[1] = stack[1]
    BY DEF SameTopics, SameRequest
  <2>2. stack[1].action \in Actions
    BY <1>6, <2>1 DEF Requesting, Frames
  <2> QED
    BY <1>5, <2>1, <2>2 DEF ListInv, ReservedFirst, SameTopics
<1>8. UndoneAlone'
  <2> SUFFICES ASSUME Requesting("undo")' PROVE UndoneAlone'
    BY DEF UndoneAlone
  <2>1. Requesting("undo") /\ stack'[1] = stack[1]
    BY DEF SameTopics, SameRequest
  <2>2. stack[1].action \in Actions
    BY <1>6, <2>1 DEF Requesting, Frames
  <2> QED
    BY <1>5, <2>1, <2>2 DEF ListInv, UndoneAlone, SameTopics
<1> QED
  BY <1>3, <1>4, <1>7, <1>8 DEF ListInv

----------------------------------------------------------------------------
(* Who waits and who releases *)

(* Requests wait and release as before. *)
LEMMA SameUsers ==
  ASSUME NEW action,
         \A t \in Tokens : Waits(t, action)' <=> Waits(t, action),
         \A t \in Tokens, kind \in Kinds : Releases(t, action, kind)' <=> Releases(t, action, kind)
  PROVE  Users(action)' = Users(action) /\ (HasHalf(action)' <=> HasHalf(action))
<1>1. Tokens' = Tokens /\ "accepted" \in Kinds /\ "rejected" \in Kinds
  BY DEF Tokens, Kinds
<1> QED
  BY <1>1 DEF Users, HasHalf

(* The callback of a request is called: its topics are used until they are    *)
(* released.                                                                  *)
LEMMA CallbackUses ==
  ASSUME RecordInv, UNCHANGED ackWaitList,
         NEW i \in Acks, ~ackWaitList[i].free, answered[ackWaitList[i].token] = 0,
         answered' = [answered EXCEPT ![ackWaitList[i].token] = @ + 1],
         NEW k \in Nat, Len(stack') = k + 1, Len(stack) \in {k, k + 1},
         \A n \in 1 .. k : stack'[n] = stack[n],
         Releasing(stack'[k + 1]), Len(stack) = k + 1 => ~Releasing(stack[k + 1]),
         stack'[k + 1].token = ackWaitList[i].token,
         stack'[k + 1].action = ackWaitList[i].action, stack'[k + 1].kind = "accepted"
  PROVE  /\ \A action : Users(action)' = Users(action) /\ (HasHalf(action)' <=> HasHalf(action))
         /\ \A t, action : Waits(t, action)' => Waits(t, action)
         /\ ackWaitList[i].token \in Tokens
         /\ Waits(ackWaitList[i].token, ackWaitList[i].action)
<1> DEFINE token == ackWaitList[i].token
           act == ackWaitList[i].action
<1>1. token \in Tokens /\ answered \in [Tokens -> Nat]
  BY DEF RecordInv, TypeOK, TokensInOrder, Tokens
<1>2. Waits(token, act)
  BY DEF Outstanding, Waits
<1>3. \A j \in Acks : Outstanding(j)' <=> Outstanding(j) /\ j # i
  <2> SUFFICES ASSUME NEW j \in Acks PROVE Outstanding(j)' <=> Outstanding(j) /\ j # i
    OBVIOUS
  <2>1. CASE j = i
    BY <1>1, <2>1 DEF Outstanding
  <2>2. CASE j # i
    <3>1. ~ackWaitList[j].free => ackWaitList[j].token # token
                                  /\ ackWaitList[j].token \in Tokens
      BY <2>2 DEF RecordInv, TypeOK, TokensInOrder, Tokens
    <3> QED
      BY <1>1, <2>2, <3>1 DEF Outstanding
  <2> QED
    BY <2>1, <2>2
<1>4. \A t, action : Waits(t, action)' <=>
        \E j \in Acks : /\ Outstanding(j) /\ j # i /\ ackWaitList[j].token = t
                       /\ ackWaitList[j].action = action
  BY <1>3 DEF Waits, Acks
<1>5. \A t, action : Waits(t, action) <=> Waits(t, action)' \/ (t = token /\ action = act)
  BY <1>2, <1>4 DEF Waits
<1>6. \A t, action, kind : Releases(t, action, kind)' <=>
        Releases(t, action, kind) \/ (t = token /\ action = act /\ kind = "accepted")
  <2>1. \A n : n \in 1 .. k + 1 <=> n \in 1 .. k \/ n = k + 1
    OBVIOUS
  <2>2. \A n : n \in 1 .. Len(stack) <=> n \in 1 .. k \/ (Len(stack) = k + 1 /\ n = k + 1)
    OBVIOUS
  <2> QED
    BY <2>1, <2>2 DEF Releases, Releasing
<1>7. \A action : Users(action)' = Users(action) /\ (HasHalf(action)' <=> HasHalf(action))
  <2>1. Tokens' = Tokens
    BY DEF Tokens
  <2> QED
    BY <1>1, <1>5, <1>6, <2>1 DEF Users, HasHalf
<1> QED
  BY <1>1, <1>2, <1>5, <1>7

----------------------------------------------------------------------------
(* Steps that leave the subscriptions alone *)

LEMMA CallbackKeepsUse ==
  ASSUME RecordInv, UseInv, Grows,
         UNCHANGED <<ackWaitList, subscriptionList, handlers, requests, persistent, troubles>>,
         NEW i \in Acks, ~ackWaitList[i].free, answered[ackWaitList[i].token] = 0,
         answered' = [answered EXCEPT ![ackWaitList[i].token] = @ + 1],
         NEW k \in Nat, Len(stack') = k + 1, Len(stack) \in {k, k + 1},
         \A n \in 1 .. k : stack'[n] = stack[n],
         Len(stack) = k + 1 => stack[k + 1].op = "expire" /\ stack[k + 1].pc = "scan",
         stack'[k + 1].op # "action", stack'[k + 1].pc = "callback", stack'[k + 1].ack = i,
         stack'[k + 1].token = ackWaitList[i].token,
         stack'[k + 1].action = ackWaitList[i].action, stack'[k + 1].kind = "accepted"
  PROVE  UseInv'
<1>1. Releasing(stack'[k + 1]) /\ (Len(stack) = k + 1 => ~Releasing(stack[k + 1]))
  BY DEF Releasing
<1>2. /\ \A action : Users(action)' = Users(action) /\ (HasHalf(action)' <=> HasHalf(action))
      /\ \A t, action : Waits(t, action)' => Waits(t, action)
      /\ ackWaitList[i].token \in Tokens
      /\ Waits(ackWaitList[i].token, ackWaitList[i].action)
  BY <1>1, CallbackUses
<1>3. \A n : n \in 1 .. k + 1 <=> n \in 1 .. k \/ n = k + 1
  OBVIOUS
<1>4. \A n \in 1 .. k : n \in 1 .. Len(stack)
  OBVIOUS
<1>5. FramesKnow'
  <2>1. answered \in [Tokens -> Nat]
    BY DEF RecordInv, TypeOK
  <2>2. \A t \in Tokens : answered[t] # 0 => answered'[t] # 0
    BY <1>2, <2>1
  <2>3. answered'[ackWaitList[i].token] # 0
    BY <1>2, <2>1
  <2> QED
    BY <1>1, <1>2, <1>3, <1>4, <2>2, <2>3 DEF UseInv, FramesKnow, Releasing, Holding, Tokens
<1>6. ASSUME ListInv PROVE ListInv'
  <2>1. SameRequest
    <3>1. CASE k = 0
      <4>1. \A pc : ~Requesting(pc) /\ ~Requesting(pc)'
        BY <3>1 DEF Requesting
      <4> QED
        BY <4>1 DEF SameRequest
    <3>2. CASE k # 0
      <4>1. stack'[1] = stack[1] /\ stack # <<>> /\ stack' # <<>>
        BY <3>2, <1>4
      <4> QED
        BY <4>1 DEF SameRequest, Requesting
    <3> QED
      BY <3>1, <3>2
  <2>2. SameTopics
    BY <1>2, <2>1 DEF SameTopics
  <2>3. \A action, kind : LiveOf(action, kind)' = LiveOf(action, kind)
    BY <2>1, SameReserved DEF Live, LiveOf
  <2>4. UnsubscribesLast'
    <3> SUFFICES ASSUME NEW n \in 1 .. Len(stack'), NEW f, f = stack'[n], f.pc = "unsubscribe"
                 PROVE  /\ LastUser(f)'
                        /\ \A m \in 1 .. Len(stack') :
                             m # n /\ Releasing(stack'[m]) => stack'[m].action # f.action
      BY DEF UnsubscribesLast, Releasing
    <3>1. n \in 1 .. k /\ n \in 1 .. Len(stack) /\ f = stack[n]
      BY <1>3, <1>4
    <3>2. /\ LastUser(f)
          /\ \A m \in 1 .. Len(stack) :
               m # n /\ Releasing(stack[m]) => stack[m].action # f.action
      BY <1>6, <3>1 DEF ListInv, UnsubscribesLast
    <3>3. \A m \in 1 .. Len(stack') :
            m # n /\ Releasing(stack'[m]) => stack'[m].action # f.action
      BY <1>2, <1>3, <1>4, <3>1, <3>2 DEF LastUser
    <3>4. LastUser(f)'
      BY <1>2, <2>3, <3>2 DEF LastUser, IsLastUse, Tokens
    <3> QED
      BY <3>3, <3>4
  <2> QED
    BY <1>6, <2>2, <2>4, ListsKept DEF RecordInv
<1> QED
  BY <1>5, <1>6 DEF UseInv

(* The frames release the topics they released before. *)
SameReleases ==
  \A n \in Nat :
    /\ n \in 1 .. Len(stack') /\ Releasing(stack'[n]) <=> n \in 1 .. Len(stack) /\ Releasing(stack[n])
    /\ n \in 1 .. Len(stack) /\ Releasing(stack[n]) =>
         /\ stack'[n].token = stack[n].token /\ stack'[n].action = stack[n].action
         /\ stack'[n].kind = stack[n].kind

(* The same requests wait for their answers. *)
SameWaits ==
  /\ \A i \in Acks : Outstanding(i)' <=> Outstanding(i)
  /\ \A i \in Acks : Outstanding(i) => ackWaitList'[i] = ackWaitList[i]

LEMMA SameWaitsKept ==
  ASSUME SameWaits
  PROVE  \A t, action : Waits(t, action)' <=> Waits(t, action)
  BY DEF SameWaits, Waits, Acks

LEMMA SameReleasesKept ==
  ASSUME TypeOK, TypeOK', SameReleases
  PROVE  \A t, action, kind : Releases(t, action, kind)' <=> Releases(t, action, kind)
<1>1. Len(stack) \in Nat /\ Len(stack') \in Nat
  BY DEF TypeOK
<1>2. \A n : (n \in 1 .. Len(stack) => n \in Nat) /\ (n \in 1 .. Len(stack') => n \in Nat)
  BY <1>1
<1> QED
  BY <1>2 DEF SameReleases, Releases, Releasing

LEMMA QuietKeepsUse ==
  ASSUME RecordInv, UseInv, Grows, RecordInv',
         UNCHANGED <<subscriptionList, handlers, troubles>>,
         SameWaits, SameReleases, SameRequest, FramesKnow',
         \A n \in 1 .. Len(stack') : \A f \in {stack'[n]} :
           f.pc = "unsubscribe" =>
             \/ n \in 1 .. Len(stack) /\ stack[n] = f
             \/ ListInv => /\ LastUser(f)
                           /\ \A m \in 1 .. Len(stack) :
                                m # n /\ Releasing(stack[m]) => stack[m].action # f.action
  PROVE  UseInv'
<1>0. Len(stack) \in Nat /\ Len(stack') \in Nat
  BY DEF RecordInv, TypeOK
<1>1. \A t, action : Waits(t, action)' <=> Waits(t, action)
  BY SameWaitsKept
<1>2. \A t, action, kind : Releases(t, action, kind)' <=> Releases(t, action, kind)
  BY SameReleasesKept DEF RecordInv
<1>3. \A action : Users(action)' = Users(action) /\ (HasHalf(action)' <=> HasHalf(action))
  BY <1>1, <1>2, SameUsers
<1>4. ASSUME ListInv PROVE ListInv'
  <2>1. SameTopics
    BY <1>3 DEF SameTopics
  <2>2. \A action, kind : LiveOf(action, kind)' = LiveOf(action, kind)
    BY SameReserved DEF Live, LiveOf
  <2>3. UnsubscribesLast'
    <3> SUFFICES ASSUME NEW n \in 1 .. Len(stack'), NEW f, f = stack'[n], f.pc = "unsubscribe"
                 PROVE  /\ LastUser(f)'
                        /\ \A m \in 1 .. Len(stack') :
                             m # n /\ Releasing(stack'[m]) => stack'[m].action # f.action
      BY DEF UnsubscribesLast, Releasing
    <3>1. /\ LastUser(f)
          /\ \A m \in 1 .. Len(stack) :
               m # n /\ Releasing(stack[m]) => stack[m].action # f.action
      BY <1>4 DEF ListInv, UnsubscribesLast
    <3>2. LastUser(f)'
      BY <1>1, <2>2, <3>1 DEF LastUser, IsLastUse, Tokens
    <3>3. \A m \in 1 .. Len(stack') :
            m # n /\ Releasing(stack'[m]) => stack'[m].action # f.action
      BY <1>0, <3>1 DEF SameReleases
    <3> QED
      BY <3>2, <3>3
  <2> QED
    BY <1>4, <2>1, <2>3, ListsKept DEF RecordInv
<1> QED
  BY <1>4 DEF UseInv

----------------------------------------------------------------------------
(* The function at the top that releases topics *)

(* Nobody below the top releases topics of the same action. *)
LEMMA OthersElsewhere ==
  ASSUME RecordInv, UnsubscribesLast, stack # <<>>, Releasing(Top),
         NEW m \in 1 .. Len(stack), m # Len(stack), Releasing(stack[m])
  PROVE  stack[m].action # Top.action
<1>1. /\ Len(stack) \in Nat /\ Len(stack) \in 1 .. Len(stack) /\ Top = stack[Len(stack)]
      /\ stack[m] \in Frames /\ FrameOK(stack[m])
  BY InvFacts
<1>2. m \in 1 .. Len(stack) - 1
  BY <1>1
<1>3. stack[m].pc \in {"subscribe", "undo", "unsubscribe"}
  BY <1>2 DEF RecordInv, AnswersNest
<1>4. stack[m].pc = "unsubscribe"
  BY <1>1, <1>3 DEF FrameOK, Releasing, Frames
<1> QED
  BY <1>1, <1>4 DEF UnsubscribesLast

(* What the top is known to use. *)
LEMMA TopUses ==
  ASSUME RecordInv, FramesKnow, UnsubscribesLast, stack # <<>>, Releasing(Top)
  PROVE  /\ Top.action \in Actions /\ Top.token \in Tokens /\ Top.kind \in Kinds
         /\ ~Waits(Top.token, Top.action)
         /\ Top.kind = "accepted" => /\ Top.token \in Users(Top.action)
                                     /\ ~HasHalf(Top.action)
         /\ Top.kind = "rejected" => /\ HasHalf(Top.action)
                                     /\ \A t \in Users(Top.action) : Waits(t, Top.action)
         /\ \A t, kind : Releases(t, Top.action, kind) <=> t = Top.token /\ kind = Top.kind
<1>1. /\ Len(stack) \in Nat /\ Len(stack) \in 1 .. Len(stack) /\ Top = stack[Len(stack)]
      /\ Top \in Frames
  BY InvFacts
<1>2. Top.action \in Actions /\ Top.token \in Tokens /\ Top.kind \in Kinds
      /\ answered[Top.token] # 0
  BY <1>1 DEF Frames, FramesKnow
<1>3. ~Waits(Top.token, Top.action)
  BY <1>2 DEF Waits, Outstanding
<1>4. \A t, kind : Releases(t, Top.action, kind) <=> t = Top.token /\ kind = Top.kind
  <2>1. \A m \in 1 .. Len(stack) :
          Releasing(stack[m]) /\ stack[m].action = Top.action => m = Len(stack)
    BY OthersElsewhere
  <2> QED
    BY <1>1, <2>1 DEF Releases
<1> QED
  BY <1>2, <1>3, <1>4 DEF Users, HasHalf

(* The entry that is found for a topic in use. *)
LEMMA EntryIsLive ==
  ASSUME LiveFirst, NEW action, NEW kind, NEW m \in LiveOf(action, kind), NEW n,
         IsEntryOf(AckTopic(action, kind), n)
  PROVE  n = m
<1>1. /\ m \in Entries /\ ~subscriptionList[m].free
      /\ subscriptionList[m].topic = AckTopic(action, kind)
      /\ \A j \in Entries : subscriptionList[j].topic = AckTopic(action, kind) => m <= j
  BY DEF LiveFirst, LiveOf, Live
<1>2. n \in Entries /\ subscriptionList[n].topic = AckTopic(action, kind) /\ n <= m
  BY <1>1 DEF IsEntryOf
<1> QED
  BY <1>1, <1>2 DEF Entries

LEMMA LiveIsEntry ==
  ASSUME LiveFirst, NEW action, NEW kind, NEW m \in LiveOf(action, kind)
  PROVE  IsEntryOf(AckTopic(action, kind), m)
  BY DEF LiveFirst, LiveOf, Live, IsEntryOf

LEMMA OneLive ==
  ASSUME LiveFirst, NEW action, NEW kind, NEW m \in LiveOf(action, kind),
         NEW n \in LiveOf(action, kind)
  PROVE  m = n
  BY EntryIsLive, LiveIsEntry

(* The counts of the topics that the top releases. *)
LEMMA TopCounts ==
  ASSUME RecordInv, FramesKnow, ListInv, stack # <<>>, Releasing(Top)
  PROVE  LET users == Cardinality(Users(Top.action))
         IN  /\ users \in Nat
             /\ Top.kind = "accepted" =>
                  \E a \in LiveOf(Top.action, "accepted"), r \in LiveOf(Top.action, "rejected") :
                    /\ subscriptionList[a].count = subscriptionList[r].count
                    /\ subscriptionList[a].sticky = subscriptionList[r].sticky
                    /\ Counts(subscriptionList[r], users, Top.action)
             /\ Top.kind = "rejected" =>
                  \E r \in LiveOf(Top.action, "rejected") :
                    /\ Counts(subscriptionList[r], users + 1, Top.action)
                    /\ \/ IsLastUse(r) /\ LiveOf(Top.action, "accepted") = {}
                       \/ \E a \in LiveOf(Top.action, "accepted") :
                            /\ ~IsLastUse(r)
                            /\ subscriptionList[a].sticky = subscriptionList[r].sticky
                            /\ subscriptionList[a].count =
                                 IF subscriptionList[r].count = 1 THEN 1
                                 ELSE subscriptionList[r].count - 1
<1>1. PairCounted(Top.action) /\ UnsubscribesLast
  BY TopUses DEF ListInv, PairsCounted
<1> QED
  BY <1>1, TopUses, UsersFinite DEF PairCounted, Settled, HalfReleased

(* A topic is unsubscribed by its last user. *)
LEMMA TopIsLast ==
  ASSUME RecordInv, FramesKnow, ListInv, stack # <<>>, Releasing(Top),
         NEW n, IsEntryOf(ReleaseTopic, n), IsLastUse(n)
  PROVE  n \in LiveOf(Top.action, Top.kind) /\ \A t \in Tokens : ~Waits(t, Top.action)
<1> DEFINE users == Cardinality(Users(Top.action))
<1>0. LiveFirst /\ UnsubscribesLast /\ users \in Nat
  BY UsersFinite DEF ListInv
<1>1. CASE Top.kind = "accepted"
  <2>1. PICK a \in LiveOf(Top.action, "accepted"), r \in LiveOf(Top.action, "rejected") :
          /\ subscriptionList[a].count = subscriptionList[r].count
          /\ Counts(subscriptionList[r], users, Top.action)
    BY <1>1, TopCounts
  <2>2. n = a
    BY <1>0, <1>1, <2>1, EntryIsLive DEF ReleaseTopic
  <2>3. users <= 1
    BY <2>1, <2>2 DEF Counts, IsLastUse
  <2>4. ASSUME NEW t \in Tokens, Waits(t, Top.action) PROVE FALSE
    <3>1. t \in Users(Top.action) /\ Top.token \in Users(Top.action)
      BY <1>0, <1>1, <2>4, TopUses DEF Users
    <3>2. t = Top.token
      BY <2>3, <3>1, OnlyUser
    <3> QED
      BY <1>0, <2>4, <3>2, TopUses
  <2> QED
    BY <1>1, <2>2, <2>4
<1>2. CASE Top.kind = "rejected"
  <2>1. PICK r \in LiveOf(Top.action, "rejected") :
          Counts(subscriptionList[r], users + 1, Top.action)
    BY <1>2, TopCounts
  <2>2. n = r
    BY <1>0, <1>2, <2>1, EntryIsLive DEF ReleaseTopic
  <2>3. users + 1 <= 1
    BY <2>1, <2>2 DEF Counts, IsLastUse
  <2>4. Users(Top.action) = {}
    BY <1>0, <2>3, UsersFinite
  <2> QED
    BY <1>2, <2>2, <2>4 DEF Users
<1> QED
  BY <1>0, <1>1, <1>2, TopUses DEF Kinds

----------------------------------------------------------------------------
(* The steps of answers and timeouts that leave the subscriptions alone *)

(* A record that is held is no record that waits. *)
LEMMA HeldNotWaiting ==
  ASSUME RecordInv, stack # <<>>, Holding(Top)
  PROVE  Top.ack \in Acks /\ ~ackWaitList[Top.ack].free /\ ~Outstanding(Top.ack)
  BY InvFacts DEF RecordInv, HoldersInv, HeldOnce, Outstanding

(* The top frame goes on. *)
LEMMA TopSameReleases ==
  ASSUME RecordInv, stack # <<>>, NEW f \in Frames, stack' = WithTop(f),
         Releasing(f) <=> Releasing(Top),
         Releasing(Top) => f.token = Top.token /\ f.action = Top.action /\ f.kind = Top.kind
  PROVE  SameReleases
<1>1. /\ Len(stack) \in Nat /\ Len(stack) \in 1 .. Len(stack) /\ Top = stack[Len(stack)]
      /\ stack \in Seq(Frames)
  BY InvFacts DEF TypeInv, TypeOK
<1>2. /\ Len(stack') = Len(stack) /\ stack'[Len(stack)] = f
      /\ \A n \in 1 .. Len(stack) - 1 : stack'[n] = stack[n]
  BY <1>1, WithTopSeq
<1>3. \A n \in 1 .. Len(stack) : n = Len(stack) \/ stack'[n] = stack[n]
  BY <1>1, <1>2
<1> QED
  BY <1>1, <1>2, <1>3 DEF SameReleases

LEMMA AnswerSameRequest ==
  ASSUME RecordInv, stack # <<>>, Top.op # "action", NEW f \in Frames, f.op # "action",
         stack' = WithTop(f) \/ stack' = Below
  PROVE  SameRequest
<1>1. /\ Len(stack) \in Nat \ {0} /\ Len(stack) \in 1 .. Len(stack) /\ Top = stack[Len(stack)]
      /\ stack \in Seq(Frames)
  BY InvFacts DEF TypeInv, TypeOK
<1>2. /\ stack' \in Seq(Frames) /\ Len(stack') \in {Len(stack), Len(stack) - 1}
      /\ Len(stack') = Len(stack) => stack'[Len(stack)] = f
      /\ \A n \in 1 .. Len(stack) - 1 : stack'[n] = stack[n]
  <2>1. CASE stack' = WithTop(f)
    BY <1>1, <2>1, WithTopSeq
  <2>2. CASE stack' = Below
    BY <1>1, <2>2, BelowSeq
  <2> QED
    BY <2>1, <2>2
<1>5. CASE Len(stack) = 1
  <2>1. stack' = <<>> \/ stack'[1] = f
    BY <1>2, <1>5
  <2>2. \A pc : ~Requesting(pc) /\ ~Requesting(pc)'
    BY <1>1, <1>5, <2>1 DEF Requesting
  <2> QED
    BY <2>2 DEF SameRequest
<1>6. CASE Len(stack) # 1
  <2>0. \A k \in Nat \ {0} : k # 1 => 1 \in 1 .. k - 1 /\ k - 1 # 0
    OBVIOUS
  <2>1. 1 \in 1 .. Len(stack) - 1 /\ Len(stack') # 0
    BY <1>1, <1>2, <1>6, <2>0
  <2>2. stack'[1] = stack[1] /\ stack' # <<>>
    BY <1>2, <2>1
  <2> QED
    BY <2>2 DEF SameRequest, Requesting
<1> QED
  BY <1>5, <1>6

LEMMA CallbackReturnsKeepsUse ==
  ASSUME RecordInv, UseInv, Grows, RecordInv', CallbackReturns
  PROVE  UseInv'
<1>1. stack # <<>> /\ Top.pc = "callback" /\ Top \in Frames /\ FrameOK(Top)
  BY InvFacts, TopTypes DEF CallbackReturns, InCallback
<1>2. Top.op \in {"ack", "expire"} /\ Top.ack \in Acks
  BY <1>1 DEF FrameOK, Frames
<1>3. Holding(Top) /\ Releasing(Top)
  BY <1>1, <1>2 DEF Holding, Releasing
<1>4. /\ Len(stack) \in Nat /\ Len(stack) \in 1 .. Len(stack) /\ Top = stack[Len(stack)]
      /\ stack \in Seq(Frames) /\ ackWaitList \in [Acks -> Records]
  BY <1>1, InvFacts DEF TypeInv, TypeOK
<1>5. ackWaitList[Top.ack].action = Top.action
  BY <1>3, <1>4 DEF UseInv, FramesKnow
<1> DEFINE f == [Top EXCEPT !.pc = "release", !.action = Top.action]
<1>6. /\ f \in Frames /\ f.op = Top.op /\ f.ack = Top.ack /\ f.token = Top.token
      /\ f.pc = "release" /\ f.action = Top.action /\ f.kind = Top.kind
  BY <1>1 DEF Frames
<1>7. stack' = WithTop(f)
  BY <1>5 DEF CallbackReturns
<1> HIDE DEF f
<1>8. UNCHANGED <<subscriptionList, handlers, troubles, answered>>
  BY DEF CallbackReturns, history
<1>9. /\ \A j \in Acks : j # Top.ack => ackWaitList'[j] = ackWaitList[j]
      /\ ackWaitList'[Top.ack].action = ackWaitList[Top.ack].action
      /\ ackWaitList'[Top.ack].token = ackWaitList[Top.ack].token
      /\ ackWaitList'[Top.ack].free = (ackWaitList[Top.ack].free \/ Top.op = "expire")
  BY <1>2, <1>4 DEF CallbackReturns, Records
<1>10. SameWaits
  <2>1. ~Outstanding(Top.ack)
    BY <1>1, <1>3, HeldNotWaiting
  <2>2. \A i \in Acks : i = Top.ack => ~Outstanding(i)'
    BY <1>8, <1>9, <2>1 DEF Outstanding
  <2> QED
    BY <1>8, <1>9, <2>1, <2>2 DEF SameWaits, Outstanding
<1>11. Releasing(f)
  BY <1>3, <1>6 DEF Releasing
<1>12. SameReleases /\ SameRequest
  BY <1>1, <1>2, <1>3, <1>6, <1>7, <1>11, TopSameReleases, AnswerSameRequest
<1>13. /\ Len(stack') = Len(stack) /\ stack'[Len(stack)] = f
       /\ \A n \in 1 .. Len(stack) - 1 : stack'[n] = stack[n]
  BY <1>1, <1>4, <1>6, <1>7, WithTopSeq
<1>14. \A n \in 1 .. Len(stack') : n = Len(stack) \/ (n \in 1 .. Len(stack) /\ stack'[n] = stack[n])
  BY <1>4, <1>13
<1>15. FramesKnow'
  <2>1. "publish" \in troubles' => "publish" \in Failures
    BY <1>8 DEF UseInv, FramesKnow
  <2>2. ASSUME NEW n \in 1 .. Len(stack'), Releasing(stack'[n])
        PROVE  /\ stack'[n].token \in Tokens /\ answered'[stack'[n].token] # 0
               /\ Holding(stack'[n]) => ackWaitList'[stack'[n].ack].action = stack'[n].action
    <3>1. CASE n = Len(stack)
      BY <1>3, <1>4, <1>5, <1>6, <1>8, <1>9, <1>13, <3>1 DEF UseInv, FramesKnow
    <3>2. CASE n # Len(stack)
      <4>1. n \in 1 .. Len(stack) /\ stack'[n] = stack[n]
        BY <1>14, <3>2
      <4>2. Holding(stack[n]) => ackWaitList'[stack[n].ack].action = ackWaitList[stack[n].ack].action
        BY <1>9, <4>1, InvFacts
      <4> QED
        BY <1>8, <2>2, <4>1, <4>2 DEF UseInv, FramesKnow
    <3> QED
      BY <3>1, <3>2
  <2> QED
    BY <2>1, <2>2 DEF FramesKnow, Releasing, Holding, Tokens
<1>16. \A n \in 1 .. Len(stack') : \A g \in {stack'[n]} :
         g.pc = "unsubscribe" => n \in 1 .. Len(stack) /\ stack[n] = g
  BY <1>6, <1>13, <1>14
<1> QED
  BY <1>8, <1>10, <1>12, <1>15, <1>16, QuietKeepsUse

LEMMA ReleaseUnsubscribesKeepsUse ==
  ASSUME RecordInv, UseInv, Grows, RecordInv', ReleaseUnsubscribes
  PROVE  UseInv'
<1>1. stack # <<>> /\ Top.pc = "release" /\ Top \in Frames /\ FrameOK(Top)
  BY InvFacts, TopTypes DEF ReleaseUnsubscribes
<1>2. Top.op \in {"ack", "expire"}
  BY <1>1 DEF FrameOK, Frames
<1>3. Releasing(Top)
  BY <1>1, <1>2 DEF Releasing
<1>4. /\ Len(stack) \in Nat /\ Len(stack) \in 1 .. Len(stack) /\ Top = stack[Len(stack)]
      /\ stack \in Seq(Frames)
  BY <1>1, InvFacts DEF TypeInv, TypeOK
<1>5. PICK e \in Entries : /\ IsEntryOf(ReleaseTopic, e) /\ IsLastUse(e)
                           /\ stack' = WithTop([Top EXCEPT !.pc = "unsubscribe", !.entry = e])
  BY DEF ReleaseUnsubscribes
<1> DEFINE f == [Top EXCEPT !.pc = "unsubscribe", !.entry = e]
<1>6. /\ f \in Frames /\ f.op = Top.op /\ f.ack = Top.ack /\ f.token = Top.token
      /\ f.pc = "unsubscribe" /\ f.action = Top.action /\ f.kind = Top.kind /\ f.entry = e
  <2>1. e \in 0 .. MaxTopics
    BY DEF Entries
  <2> QED
    BY <1>1, <2>1 DEF Frames
<1>7. stack' = WithTop(f)
  BY <1>5
<1> HIDE DEF f
<1>8. UNCHANGED <<ackWaitList, subscriptionList, handlers, troubles, answered>>
  BY DEF ReleaseUnsubscribes, lists, history
<1>9. SameWaits
  BY <1>8 DEF SameWaits, Outstanding
<1>10. Releasing(f) /\ (Holding(f) => Holding(Top))
  BY <1>2, <1>6 DEF Releasing, Holding
<1>11. SameReleases /\ SameRequest
  BY <1>1, <1>2, <1>3, <1>6, <1>7, <1>10, TopSameReleases, AnswerSameRequest
<1>12. /\ Len(stack') = Len(stack) /\ stack'[Len(stack)] = f
       /\ \A n \in 1 .. Len(stack) - 1 : stack'[n] = stack[n]
  BY <1>1, <1>4, <1>6, <1>7, WithTopSeq
<1>13. \A n \in 1 .. Len(stack') : n = Len(stack) \/ (n \in 1 .. Len(stack) /\ stack'[n] = stack[n])
  BY <1>4, <1>12
<1>14. FramesKnow'
  <2>1. \A n \in 1 .. Len(stack') : Releasing(stack'[n]) =>
          /\ stack'[n].token \in Tokens /\ answered'[stack'[n].token] # 0
          /\ Holding(stack'[n]) => ackWaitList'[stack'[n].ack].action = stack'[n].action
    BY <1>3, <1>4, <1>6, <1>8, <1>10, <1>12, <1>13 DEF UseInv, FramesKnow
  <2> QED
    BY <1>8, <2>1 DEF UseInv, FramesKnow, Releasing, Holding, Tokens
<1>15. ListInv => LastUser(f)
  BY <1>1, <1>3, <1>5, <1>6, TopIsLast DEF LastUser, UseInv
<1>16. ListInv => \A m \in 1 .. Len(stack) :
                    m # Len(stack) /\ Releasing(stack[m]) => stack[m].action # f.action
  BY <1>1, <1>3, <1>6, OthersElsewhere DEF ListInv
<1>17. \A n \in 1 .. Len(stack') : \A g \in {stack'[n]} :
         g.pc = "unsubscribe" =>
           \/ n \in 1 .. Len(stack) /\ stack[n] = g
           \/ ListInv => /\ LastUser(g)
                         /\ \A m \in 1 .. Len(stack) :
                              m # n /\ Releasing(stack[m]) => stack[m].action # g.action
  BY <1>12, <1>13, <1>15, <1>16
<1> QED
  BY <1>8, <1>9, <1>11, <1>14, <1>17, QuietKeepsUse

LEMMA NoneExpiredKeepsUse ==
  ASSUME RecordInv, UseInv, Grows, RecordInv', NoneExpired
  PROVE  UseInv'
<1>1. stack # <<>> /\ Top.op = "expire" /\ Top.pc = "scan" /\ stack' = Below
  BY DEF NoneExpired, At
<1>2. Len(stack) = 1 /\ Top = stack[1] /\ stack' = <<>>
  <2>1. Len(stack) = 1 /\ Top = stack[1] /\ stack \in Seq(Frames)
    BY <1>1, BottomAlone, InvFacts DEF TypeInv, TypeOK
  <2>2. stack' \in Seq(Frames) /\ Len(stack') = 0
    BY <1>1, <2>1, BelowSeq
  <2> QED
    BY <2>1, <2>2
<1>3. UNCHANGED <<ackWaitList, subscriptionList, handlers, troubles, answered>>
  BY DEF NoneExpired, lists, history
<1>4. \A n : ~(n \in 1 .. Len(stack) /\ Releasing(stack[n])) /\ n \notin 1 .. Len(stack')
  BY <1>1, <1>2 DEF Releasing
<1>5. SameWaits /\ SameReleases
  BY <1>3, <1>4 DEF SameWaits, Outstanding, SameReleases
<1>6. SameRequest
  BY <1>1, <1>2 DEF SameRequest, Requesting
<1>7. FramesKnow'
  BY <1>3, <1>4 DEF UseInv, FramesKnow, Tokens
<1> QED
  BY <1>3, <1>4, <1>5, <1>6, <1>7, QuietKeepsUse

LEMMA YieldStartsKeepsUse ==
  ASSUME RecordInv, UseInv, Grows, RecordInv', YieldStarts
  PROVE  UseInv'
<1>1. stack = <<>> /\ stack' = <<Answering("expire", "scan", 1)>>
  BY DEF YieldStarts
<1>2. Len(stack') = 1 /\ stack'[1].op = "expire" /\ stack'[1].pc = "scan"
  BY <1>1 DEF Answering
<1>3. UNCHANGED <<ackWaitList, subscriptionList, handlers, troubles, answered>>
  BY DEF YieldStarts, lists, history
<1>4. \A n : ~(n \in 1 .. Len(stack') /\ Releasing(stack'[n])) /\ n \notin 1 .. Len(stack)
  BY <1>1, <1>2 DEF Releasing
<1>5. SameWaits /\ SameReleases
  BY <1>3, <1>4 DEF SameWaits, Outstanding, SameReleases
<1>6. SameRequest
  BY <1>1, <1>2 DEF SameRequest, Requesting
<1>7. FramesKnow'
  BY <1>3, <1>4 DEF UseInv, FramesKnow, Releasing, Tokens
<1>8. \A n \in 1 .. Len(stack') : stack'[n].pc # "unsubscribe"
  BY <1>2
<1> QED
  BY <1>3, <1>5, <1>6, <1>7, <1>8, QuietKeepsUse

LEMMA AckStatusCallbackKeepsUse ==
  ASSUME RecordInv, UseInv, Grows, RecordInv', NEW r \in service, NEW kind \in Kinds,
         AckStatusCallback(r, kind)
  PROVE  UseInv'
<1>1. /\ UNCHANGED <<ackWaitList, subscriptionList, handlers, requests, persistent, troubles>>
      /\ \/ UNCHANGED <<stack, answered>>
         \/ \E i \in Acks : /\ ~ackWaitList[i].free /\ ackWaitList[i].token = r.token
                            /\ stack' = Append(stack, Answering("ack", "callback", i))
                            /\ answered' = [answered EXCEPT ![r.token] = @ + 1]
  BY DEF AckStatusCallback, lists
<1>2. CASE UNCHANGED <<stack, answered>>
  <2>1. SameWaits /\ SameReleases /\ SameRequest
    BY <1>1, <1>2 DEF SameWaits, Outstanding, SameReleases, SameRequest, Requesting
  <2>2. FramesKnow'
    BY <1>1, <1>2 DEF UseInv, FramesKnow, Releasing, Holding, Tokens
  <2> QED
    BY <1>1, <1>2, <2>1, <2>2, QuietKeepsUse
<1>3. ASSUME NEW i \in Acks, ~ackWaitList[i].free, ackWaitList[i].token = r.token,
             stack' = Append(stack, Answering("ack", "callback", i)),
             answered' = [answered EXCEPT ![r.token] = @ + 1]
      PROVE  UseInv'
  <2> DEFINE f == Answering("ack", "callback", i)
             k == Len(stack)
  <2>1. /\ f \in Frames /\ f.op = "ack" /\ f.ack = i /\ f.pc = "callback" /\ f.kind = "accepted"
        /\ f.token = ackWaitList[i].token /\ f.action = ackWaitList[i].action
    BY InvFacts, AnsweringType DEF Answering
  <2>2. stack' = Append(stack, f) /\ stack \in Seq(Frames) /\ k \in Nat
    BY <1>3, InvFacts DEF TypeInv, TypeOK
  <2> HIDE DEF f
  <2>3. /\ Len(stack') = k + 1 /\ stack'[k + 1] = f
        /\ \A n \in 1 .. k : stack'[n] = stack[n]
    BY <2>1, <2>2, AppendSeq
  <2>4. answered[ackWaitList[i].token] = 0
    <3>1. /\ \A n \in 1 .. Len(stack') - 1 : stack'[n].pc \in {"subscribe", "undo", "unsubscribe"}
          /\ answered \in [Tokens -> Nat] /\ r.token \in Tokens
          /\ answered'[r.token] <= 1
      BY DEF RecordInv, TypeOK, AnswersNest, AnsweredOnce, Tokens
    <3> QED
      BY <1>3, <3>1
  <2> HIDE DEF k
  <2>5. /\ k \in Nat /\ Len(stack') = k + 1 /\ Len(stack) \in {k, k + 1}
        /\ Len(stack) # k + 1
    BY <2>2, <2>3 DEF k
  <2>6. answered' = [answered EXCEPT ![ackWaitList[i].token] = @ + 1]
    BY <1>3
  <2>7. \A n \in 1 .. k : stack'[n] = stack[n]
    BY <2>3
  <2>8. /\ stack'[k + 1].op # "action" /\ stack'[k + 1].pc = "callback" /\ stack'[k + 1].ack = i
        /\ stack'[k + 1].token = ackWaitList[i].token
        /\ stack'[k + 1].action = ackWaitList[i].action /\ stack'[k + 1].kind = "accepted"
    BY <2>1, <2>3
  <2> QED
    BY <1>1, <1>3, <2>4, <2>5, <2>6, <2>7, <2>8, CallbackKeepsUse
<1> QED
  BY <1>1, <1>2, <1>3

LEMMA ExpiresKeepsUse ==
  ASSUME RecordInv, UseInv, Grows, RecordInv', NEW i \in Acks, Expires(i)
  PROVE  UseInv'
<1>1. /\ stack # <<>> /\ Top.op = "expire" /\ Top.pc = "scan" /\ ~ackWaitList[i].free
      /\ UNCHANGED <<ackWaitList, subscriptionList, handlers, requests, persistent, troubles>>
      /\ answered' = [answered EXCEPT ![ackWaitList[i].token] = @ + 1]
  BY DEF Expires, At, lists
<1> DEFINE f == Answering("expire", "callback", i)
<1>2. /\ f \in Frames /\ f.op = "expire" /\ f.ack = i /\ f.pc = "callback" /\ f.kind = "accepted"
      /\ f.token = ackWaitList[i].token /\ f.action = ackWaitList[i].action
  BY InvFacts, AnsweringType DEF Answering
<1>3. stack' = WithTop(f)
  BY DEF Expires
<1> HIDE DEF f
<1>4. Len(stack) = 1 /\ Top = stack[1] /\ stack \in Seq(Frames)
  BY <1>1, BottomAlone, InvFacts DEF TypeInv, TypeOK
<1>5. Len(stack') = 1 /\ stack'[1] = f
  BY <1>1, <1>2, <1>3, <1>4, WithTopSeq
<1>6. answered[ackWaitList[i].token] = 0
  <2>1. answered \in [Tokens -> Nat] /\ answered' \in [Tokens -> Nat]
        /\ ackWaitList[i].token \in Tokens /\ answered'[ackWaitList[i].token] <= 1
    BY <1>1 DEF RecordInv, TypeOK, TokensInOrder, AnsweredOnce, Tokens
  <2> QED
    BY <1>1, <2>1
<1> DEFINE k == 0
<1>7. /\ k \in Nat /\ Len(stack') = k + 1 /\ Len(stack) \in {k, k + 1}
      /\ \A n \in 1 .. k : stack'[n] = stack[n]
      /\ stack[k + 1].op = "expire" /\ stack[k + 1].pc = "scan"
      /\ stack'[k + 1].op # "action" /\ stack'[k + 1].pc = "callback" /\ stack'[k + 1].ack = i
      /\ stack'[k + 1].token = ackWaitList[i].token
      /\ stack'[k + 1].action = ackWaitList[i].action /\ stack'[k + 1].kind = "accepted"
  BY <1>1, <1>2, <1>4, <1>5
<1> HIDE DEF k
<1> QED
  BY <1>1, <1>6, <1>7, CallbackKeepsUse

----------------------------------------------------------------------------
(* The steps that give a topic up *)

(* The function at the top goes on to its second topic, or returns. *)
GoesOn ==
  /\ stack # <<>> /\ Releasing(Top) /\ Top.pc \in {"release", "unsubscribe"}
  /\ NextTopic /\ UNCHANGED answered

LEMMA GoesOnFrames ==
  ASSUME RecordInv, RecordInv', GoesOn
  PROVE  /\ Len(stack) \in Nat /\ Len(stack) \in 1 .. Len(stack) /\ Top = stack[Len(stack)]
         /\ Len(stack') \in Nat
         /\ \A n \in 1 .. Len(stack) : n # Len(stack) => n \in 1 .. Len(stack')
                                                         /\ stack'[n] = stack[n]
         /\ \A n \in 1 .. Len(stack') : n \in 1 .. Len(stack)
         /\ Top.kind = "accepted" => Len(stack) \in 1 .. Len(stack') /\
              \E f \in {stack'[Len(stack)]} :
                /\ Releasing(f) /\ f.pc = "release" /\ f.kind = "rejected" /\ f.op = Top.op
                /\ f.token = Top.token /\ f.action = Top.action /\ f.ack = Top.ack
         /\ Top.kind = "rejected" => \A n \in 1 .. Len(stack') :
              n = Len(stack) => ~Releasing(stack'[n]) /\ stack'[n].op = "expire"
                                /\ stack'[n].pc = "scan"
         /\ SameRequest /\ SameWaits
<1>1. /\ Len(stack) \in Nat \ {0} /\ Len(stack) \in 1 .. Len(stack) /\ Top = stack[Len(stack)]
      /\ stack \in Seq(Frames) /\ Top \in Frames /\ FrameOK(Top)
      /\ ackWaitList \in [Acks -> Records]
  BY InvFacts DEF TypeInv, TypeOK, GoesOn
<1>2. Top.op \in {"ack", "expire"} /\ Top.ack \in Acks
  BY <1>1 DEF GoesOn, Releasing, FrameOK, Frames
<1>3. SameWaits
  <2>1. \/ UNCHANGED ackWaitList
        \/ Top.op = "ack" /\ ackWaitList' = [ackWaitList EXCEPT ![Top.ack].free = TRUE]
    BY DEF GoesOn, NextTopic
  <2>2. CASE UNCHANGED ackWaitList
    BY <2>2 DEF GoesOn, SameWaits, Outstanding
  <2>3. CASE Top.op = "ack" /\ ackWaitList' = [ackWaitList EXCEPT ![Top.ack].free = TRUE]
    <3>1. ~Outstanding(Top.ack)
      BY <2>3, HeldNotWaiting DEF Holding, GoesOn
    <3>2. /\ \A j \in Acks : j # Top.ack => ackWaitList'[j] = ackWaitList[j]
          /\ ackWaitList'[Top.ack].free
      BY <1>1, <1>2, <2>3 DEF Records
    <3> QED
      BY <3>1, <3>2 DEF GoesOn, SameWaits, Outstanding
  <2> QED
    BY <2>1, <2>2, <2>3
<1>4. CASE Top.kind = "accepted"
  <2> DEFINE f == [Top EXCEPT !.pc = "release", !.kind = "rejected"]
  <2>1. /\ f \in Frames /\ f.op = Top.op /\ f.ack = Top.ack /\ f.token = Top.token
        /\ f.pc = "release" /\ f.action = Top.action /\ f.kind = "rejected"
    BY <1>1 DEF Frames, Kinds
  <2>2. stack' = WithTop(f)
    BY <1>4 DEF GoesOn, NextTopic
  <2> HIDE DEF f
  <2>3. /\ Len(stack') = Len(stack) /\ stack'[Len(stack)] = f
        /\ \A n \in 1 .. Len(stack) - 1 : stack'[n] = stack[n]
    BY <1>1, <2>1, <2>2, WithTopSeq
  <2>4. SameRequest
    BY <1>1, <1>2, <2>1, <2>2, AnswerSameRequest
  <2> QED
    BY <1>1, <1>2, <1>3, <1>4, <2>1, <2>3, <2>4 DEF Releasing
<1>5. CASE Top.kind = "rejected"
  <2> DEFINE f == [Top EXCEPT !.pc = "scan", !.ack = @ + 1]
  <2>1. /\ f \in Frames /\ f.op = Top.op /\ f.pc = "scan"
    <3>1. Top.ack + 1 \in 1 .. MaxAcks + 1
      BY <1>2 DEF Acks
    <3> QED
      BY <1>1, <3>1 DEF Frames
  <2>2. stack' = Below \/ (stack' = WithTop(f) /\ Top.op = "expire")
    BY <1>5 DEF GoesOn, NextTopic
  <2> HIDE DEF f
  <2>3. /\ \A n \in 1 .. Len(stack) - 1 : stack'[n] = stack[n]
        /\ \/ Len(stack') = Len(stack) - 1
           \/ Len(stack') = Len(stack) /\ stack'[Len(stack)] = f /\ Top.op = "expire"
    <3>1. CASE stack' = Below
      BY <1>1, <3>1, BelowSeq
    <3>2. CASE stack' = WithTop(f) /\ Top.op = "expire"
      BY <1>1, <2>1, <3>2, WithTopSeq
    <3> QED
      BY <2>2, <3>1, <3>2
  <2>4. SameRequest
    BY <1>1, <1>2, <2>1, <2>2, AnswerSameRequest
  <2> QED
    BY <1>1, <1>2, <1>3, <1>5, <2>1, <2>3, <2>4 DEF Releasing
<1> QED
  BY <1>1, <1>4, <1>5 DEF Frames, Kinds

LEMMA GoesOnUses ==
  ASSUME RecordInv, FramesKnow, UnsubscribesLast, RecordInv', GoesOn
  PROVE  /\ \A action : action # Top.action =>
              Users(action)' = Users(action) /\ (HasHalf(action)' <=> HasHalf(action))
         /\ \A action : action = Top.action =>
              IF Top.kind = "accepted"
                THEN HasHalf(action)' /\ Users(action)' = Users(action) \ {Top.token}
                ELSE ~HasHalf(action)' /\ Users(action)' = Users(action)
         /\ \A t, action : Waits(t, action)' <=> Waits(t, action)
<1> USE GoesOnFrames
<1>1. \A t, action : Waits(t, action)' <=> Waits(t, action)
  BY SameWaitsKept
<1>2. /\ Top.kind \in Kinds /\ Top.token \in Tokens
      /\ Top.kind = "accepted" => Top.token \in Users(Top.action)
      /\ ~Waits(Top.token, Top.action)
      /\ Top.kind = "rejected" => \A t \in Users(Top.action) : Waits(t, Top.action)
      /\ \A t, kind : Releases(t, Top.action, kind) <=> t = Top.token /\ kind = Top.kind
  BY TopUses DEF GoesOn
<1>3. ASSUME NEW action, action # Top.action
      PROVE  \A t, kind : Releases(t, action, kind)' <=> Releases(t, action, kind)
  BY <1>2, <1>3 DEF Releases, Releasing, Kinds
<1>4. ASSUME NEW action, action = Top.action
      PROVE  \A t, kind : Releases(t, action, kind)' <=>
               Top.kind = "accepted" /\ t = Top.token /\ kind = "rejected"
  <2>1. \A m \in 1 .. Len(stack) :
          m # Len(stack) /\ Releasing(stack[m]) => stack[m].action # action
    BY <1>4, OthersElsewhere DEF GoesOn
  <2> QED
    BY <1>2, <1>4, <2>1 DEF Releases, Releasing, Kinds
<1>5. ASSUME NEW action, action # Top.action
      PROVE  Users(action)' = Users(action) /\ (HasHalf(action)' <=> HasHalf(action))
  BY <1>1, <1>3, <1>5, SameUsers
<1>6. ASSUME NEW action, action = Top.action
      PROVE  IF Top.kind = "accepted"
               THEN HasHalf(action)' /\ Users(action)' = Users(action) \ {Top.token}
               ELSE ~HasHalf(action)' /\ Users(action)' = Users(action)
  <2>0. Tokens' = Tokens
    BY DEF Tokens
  <2>1. CASE Top.kind = "accepted"
    BY <1>1, <1>2, <1>4, <1>6, <2>0, <2>1 DEF Users, HasHalf
  <2>2. CASE Top.kind = "rejected"
    BY <1>1, <1>2, <1>4, <1>6, <2>0, <2>2 DEF Users, HasHalf
  <2> QED
    BY <1>2, <2>1, <2>2 DEF Kinds
<1> QED
  BY <1>1, <1>5, <1>6

LEMMA TopicsDiffer ==
  \A action, kind, other, k :
    AckTopic(action, kind) = AckTopic(other, k) <=> action = other /\ kind = k
  BY DEF AckTopic

(* The entry of the topic that is given up, and no other, changes. *)
GivesUp(e) ==
  /\ e \in LiveOf(Top.action, Top.kind)
  /\ \A n \in Entries : n # e => subscriptionList'[n] = subscriptionList[n]
  /\ subscriptionList'[e].topic = subscriptionList[e].topic
  /\ \/ ~subscriptionList'[e].free /\ handlers' = handlers
     \/ /\ subscriptionList'[e].free
        /\ handlers' = {n \in handlers : subscriptionList[n].topic # ReleaseTopic}

LEMMA LiveAfter ==
  ASSUME RecordInv, RecordInv', GoesOn, NEW e, GivesUp(e)
  PROVE  /\ e \in Live /\ Reserved' = Reserved /\ Pending' = Pending
         /\ Live' = IF subscriptionList'[e].free THEN Live \ {e} ELSE Live
         /\ \A n \in Entries : subscriptionList'[n].topic = subscriptionList[n].topic
         /\ \A action, kind : LiveOf(action, kind)' =
              IF subscriptionList'[e].free THEN LiveOf(action, kind) \ {e}
              ELSE LiveOf(action, kind)
         /\ \A action, kind : e \in LiveOf(action, kind) =>
              action = Top.action /\ kind = Top.kind
<1>1. SameRequest
  BY GoesOnFrames
<1>2. Reserved' = Reserved /\ Pending' = Pending
  BY <1>1, SameReserved
<1>3. e \in Live /\ e \in Entries /\ ~subscriptionList[e].free
      /\ subscriptionList[e].topic = AckTopic(Top.action, Top.kind)
  BY DEF GivesUp, LiveOf, Live
<1>4. \A n \in Entries : subscriptionList'[n].topic = subscriptionList[n].topic
  BY DEF GivesUp
<1>5. Live' = IF subscriptionList'[e].free THEN Live \ {e} ELSE Live
  BY <1>2, <1>3 DEF GivesUp, Live, Entries
<1>6. Live \subseteq Entries
  BY DEF Live
<1>7. \A action, kind : LiveOf(action, kind)' =
              IF subscriptionList'[e].free THEN LiveOf(action, kind) \ {e}
              ELSE LiveOf(action, kind)
  BY <1>4, <1>5, <1>6 DEF LiveOf, AckTopic
<1>8. \A action, kind : e \in LiveOf(action, kind) => action = Top.action /\ kind = Top.kind
  BY <1>3, TopicsDiffer DEF LiveOf
<1> QED
  BY <1>2, <1>3, <1>4, <1>5, <1>7, <1>8

LEMMA GivesUpKeeps ==
  ASSUME RecordInv, FramesKnow, ListInv, RecordInv', Grows, GoesOn, NEW e, GivesUp(e),
         \A action : action = Top.action => PairCounted(action)'
  PROVE  ListInv'
<1> USE LiveAfter DEF ListInv
<1>1. LiveFirst'
  BY DEF LiveFirst, Topics, Entries, AckTopic, Live
<1>2. PairsCounted'
  <2> SUFFICES ASSUME NEW action \in Actions PROVE PairCounted(action)'
    BY DEF PairsCounted
  <2>1. CASE action # Top.action
    <3>1. Users(action)' = Users(action) /\ (HasHalf(action)' <=> HasHalf(action))
      BY <2>1, GoesOnUses
    <3>2. \A kind \in Kinds : /\ LiveOf(action, kind)' = LiveOf(action, kind)
                              /\ e \notin LiveOf(action, kind)
      BY <2>1
    <3>3. \A kind \in Kinds : \A n \in LiveOf(action, kind) :
            subscriptionList'[n] = subscriptionList[n]
      BY <3>2 DEF GivesUp, LiveOf, Live
    <3>4. SameUse(action)
      BY <3>1, <3>2, <3>3 DEF SameUse
    <3> QED
      BY <3>4, PairKept DEF PairsCounted, RecordInv
  <2> QED
    BY <2>1
<1>3. UnsubscribesLast'
  <2> SUFFICES ASSUME NEW n \in 1 .. Len(stack'), NEW f, f = stack'[n], f.pc = "unsubscribe"
               PROVE  /\ LastUser(f)'
                      /\ \A m \in 1 .. Len(stack') :
                           m # n /\ Releasing(stack'[m]) => stack'[m].action # f.action
    BY DEF UnsubscribesLast, Releasing
  <2>0. Top.kind \in Kinds
    BY TopUses DEF GoesOn
  <2>1. n \in 1 .. Len(stack) /\ n # Len(stack) /\ f = stack[n]
    BY <2>0, GoesOnFrames DEF Kinds
  <2>2. /\ LastUser(f)
        /\ \A m \in 1 .. Len(stack) :
             m # n /\ Releasing(stack[m]) => stack[m].action # f.action
    BY <2>1 DEF UnsubscribesLast
  <2>3. f.action # Top.action
    BY <2>1, <2>2, GoesOnFrames DEF GoesOn
  <2>4. LastUser(f)'
    <3>1. f.entry \in LiveOf(f.action, f.kind) /\ f.entry # e /\ f.entry \in Entries
      BY <2>2, <2>3 DEF LastUser, LiveOf, Live
    <3>2. f.entry \in LiveOf(f.action, f.kind)'
      BY <3>1
    <3>3. IsLastUse(f.entry)'
      BY <2>2, <3>1 DEF LastUser, IsLastUse, GivesUp
    <3>4. \A t \in Tokens : ~Waits(t, f.action)'
      BY <2>2, GoesOnUses DEF LastUser
    <3> QED
      BY <3>2, <3>3, <3>4 DEF LastUser, Tokens
  <2>5. \A m \in 1 .. Len(stack') :
          m # n /\ Releasing(stack'[m]) => stack'[m].action # f.action
    BY <2>0, <2>2, <2>3, GoesOnFrames DEF Kinds
  <2> QED
    BY <2>4, <2>5
<1>4. ASSUME NEW action, Unused(action)
      PROVE  action # Top.action /\ Unused(action)'
  <2>1. action # Top.action
    BY <1>4, TopUses DEF GivesUp, Unused, GoesOn
  <2> QED
    BY <1>4, <2>1, GoesOnUses DEF Unused, Kinds
<1>5. SameRequest
  BY GoesOnFrames
<1>6. ASSUME NEW f, f = stack[1], Requesting("subscribe")
      PROVE  /\ f.pair[1] # e /\ f.pair[2] # e
             /\ f.pair[1] \in Entries /\ f.pair[2] \in Entries
  <2>1. f.pair[1] \in Reserved /\ f.pair[2] \in Reserved
    BY <1>6 DEF Reserved
  <2>2. f.pair[1] \in Entries /\ f.pair[2] \in Entries
    BY <1>6, InvFacts DEF Requesting, FrameOK
  <2> QED
    BY <2>1, <2>2 DEF Live
<1>7. ReservedFirst'
  <2> SUFFICES ASSUME Requesting("subscribe")' PROVE ReservedFirst'
    BY DEF ReservedFirst
  <2>1. Requesting("subscribe") /\ stack'[1] = stack[1]
    BY <1>5 DEF SameRequest
  <2>2. PICK f, a, r :
          /\ f = stack[1] /\ a = f.pair[1] /\ r = f.pair[2]
          /\ Unused(f.action) /\ a < r /\ f.entry = (IF f.kind = "accepted" THEN a ELSE r)
          /\ ~subscriptionList[a].free /\ ~subscriptionList[r].free
          /\ subscriptionList[a].topic = AckTopic(f.action, "accepted")
          /\ \A n \in Entries :
               /\ subscriptionList[n].topic = AckTopic(f.action, "accepted") => a <= n
               /\ subscriptionList[n].topic = AckTopic(f.action, "rejected") => r <= n
          /\ f.kind = "rejected" =>
               /\ subscriptionList[r].topic = AckTopic(f.action, "rejected")
               /\ a \in handlers /\ subscriptionList[a].count = 1
               /\ subscriptionList[a].sticky = f.sticky
    BY <2>1 DEF ReservedFirst
  <2>3. /\ a # e /\ r # e /\ a \in Entries /\ r \in Entries
        /\ subscriptionList'[a] = subscriptionList[a] /\ subscriptionList'[r] = subscriptionList[r]
    BY <1>6, <2>1, <2>2 DEF GivesUp
  <2>4. Unused(f.action)' /\ f.action # Top.action
    BY <1>4, <2>2
  <2>5. f.kind = "rejected" => a \in handlers'
    BY <2>2, <2>3, <2>4, TopicsDiffer DEF GivesUp, ReleaseTopic
  <2>6. \A n \in Entries :
               /\ subscriptionList'[n].topic = AckTopic(f.action, "accepted") => a <= n
               /\ subscriptionList'[n].topic = AckTopic(f.action, "rejected") => r <= n
    BY <2>2
  <2>7. f = stack'[1]
    BY <2>1, <2>2
  <2>8. f.kind = "rejected" =>
          /\ subscriptionList'[r].topic = AckTopic(f.action, "rejected")
          /\ a \in handlers' /\ subscriptionList'[a].count = 1
          /\ subscriptionList'[a].sticky = f.sticky
    BY <2>2, <2>3, <2>5
  <2>9. /\ ~subscriptionList'[a].free /\ ~subscriptionList'[r].free
        /\ subscriptionList'[a].topic = AckTopic(f.action, "accepted")
    BY <2>2, <2>3
  <2> HIDE LiveAfter
  <2> QED
    BY <2>2, <2>4, <2>6, <2>7, <2>8, <2>9 DEF ReservedFirst, Entries, AckTopic
<1>8. UndoneAlone'
  <2> SUFFICES ASSUME Requesting("undo")' PROVE UndoneAlone'
    BY DEF UndoneAlone
  <2>1. Requesting("undo") /\ stack'[1] = stack[1]
    BY <1>5 DEF SameRequest
  <2>2. PICK f : f = stack[1] /\ Unused(f.action) /\ f.rc = "FAILURE" /\ f.entry \in Entries
                 /\ subscriptionList[f.entry].topic = AckTopic(f.action, "accepted")
    BY <2>1 DEF UndoneAlone
  <2>3. Unused(f.action)'
    BY <1>4, <2>2
  <2>4. subscriptionList'[f.entry].topic = AckTopic(f.action, "accepted")
    BY <2>2
  <2> QED
    BY <2>1, <2>2, <2>3, <2>4 DEF UndoneAlone, AckTopic
<1>9. ListensToLive'
  <2>1. \A n \in Live : n # e => subscriptionList[n].topic # ReleaseTopic
    <3>1. LiveFirst /\ Live \subseteq Entries /\ e \in Entries
          /\ subscriptionList[e].topic = ReleaseTopic
      BY DEF Live, GivesUp, LiveOf, ReleaseTopic
    <3>2. ASSUME NEW n \in Live, subscriptionList[n].topic = ReleaseTopic PROVE n = e
      BY <3>1, <3>2 DEF LiveFirst, Entries
    <3> QED
      BY <3>2
  <2>2. e \in handlers'  => ~subscriptionList'[e].free
    BY DEF GivesUp, LiveOf, ReleaseTopic
  <2> QED
    BY <2>1, <2>2 DEF ListensToLive, GivesUp
<1> QED
  BY <1>1, <1>2, <1>3, <1>7, <1>8, <1>9

(* The last use of accepted, or of rejected, is over. *)
LEMMA UnsubscribedPair ==
  ASSUME RecordInv, FramesKnow, ListInv, RecordInv', Grows, GoesOn, UNCHANGED requests,
         NEW e, GivesUp(e), IsLastUse(e), subscriptionList'[e].free,
         NEW action, action = Top.action
  PROVE  PairCounted(action)'
<1> USE LiveAfter DEF ListInv
<1> DEFINE users == Cardinality(Users(Top.action))
<1>9. PICK left : left = Cardinality(Users(action)')
  OBVIOUS
<1>0. /\ Top.kind \in Kinds /\ Top.token \in Tokens
      /\ Top.kind = "accepted" => Top.token \in Users(Top.action)
      /\ users \in Nat /\ left \in Nat
  <2>1. Cardinality(Users(action)') \in Nat
    <3>1. Users(action)' = Users(action) \/
            (Top.token \in Users(action) /\ Users(action)' = Users(action) \ {Top.token})
      BY TopUses, GoesOnUses DEF GoesOn
    <3>2. \A t : IsFiniteSet(Users(action) \ {t})
      BY UsersFinite, FS_Difference
    <3> QED
      BY <3>1, <3>2, UsersFinite, FS_CardinalityType
  <2> QED
    BY <1>9, <2>1, TopUses, UsersFinite DEF GoesOn
<1>1. CASE Top.kind = "accepted"
  <2>1. PICK a \in LiveOf(Top.action, "accepted"), r \in LiveOf(Top.action, "rejected") :
          /\ subscriptionList[a].count = subscriptionList[r].count
          /\ subscriptionList[a].sticky = subscriptionList[r].sticky
          /\ Counts(subscriptionList[r], users, Top.action)
    BY <1>1, TopCounts DEF GoesOn
  <2>2. a = e /\ r # e
    BY <1>1, OneLive DEF GivesUp
  <2>3. r \in LiveOf(action, "rejected")' /\ LiveOf(action, "accepted")' = {}
    BY <1>1, <2>1, <2>2, OneLive
  <2>4. r \in Entries /\ subscriptionList'[r] = subscriptionList[r]
    BY <2>2 DEF GivesUp, LiveOf, Live
  <2>5. IsLastUse(r)'
    BY <2>1, <2>2, <2>4 DEF IsLastUse
  <2>6. left = users - 1 /\ HasHalf(action)'
    BY <1>0, <1>1, <1>9, GoesOnUses, UserGoes
  <2>7. left + 1 = users
    BY <1>0, <2>6
  <2>8. Counts(subscriptionList[r], left + 1, action)'
    BY <1>0, <1>9, <2>1, <2>4, <2>7 DEF Counts, Grows
  <2>9. HalfReleased(action)'
    BY <1>9, <2>3, <2>5, <2>8 DEF HalfReleased
  <2> QED
    BY <2>6, <2>9 DEF PairCounted
<1>2. CASE Top.kind = "rejected"
  <2>1. PICK r \in LiveOf(Top.action, "rejected") :
          /\ Counts(subscriptionList[r], users + 1, Top.action)
          /\ (IsLastUse(r) /\ LiveOf(Top.action, "accepted") = {}) \/ ~IsLastUse(r)
    BY <1>2, TopCounts DEF GoesOn
  <2>2. r = e
    BY <1>2, OneLive DEF GivesUp
  <2>3. LiveOf(Top.action, "accepted") = {} /\ subscriptionList[r].count = 1
    BY <2>1, <2>2 DEF IsLastUse
  <2>4. users = 0
    BY <1>0, <2>1, <2>3 DEF Counts
  <2>5. LiveOf(action, "accepted")' = {} /\ LiveOf(action, "rejected")' = {}
    BY <1>2, <2>1, <2>2, <2>3, OneLive
  <2>6. Users(action)' = {} /\ ~HasHalf(action)'
    BY <1>2, <2>4, GoesOnUses, UsersFinite
  <2> QED
    BY <2>5, <2>6 DEF PairCounted, Settled
<1> QED
  BY <1>0, <1>1, <1>2 DEF Kinds

(* accepted, or rejected, is counted down, but never below one. *)
LEMMA CountedPair ==
  ASSUME RecordInv, FramesKnow, ListInv, RecordInv', Grows, GoesOn, UNCHANGED requests,
         NEW e, GivesUp(e), ~IsLastUse(e), ~subscriptionList'[e].free,
         subscriptionList'[e].sticky = subscriptionList[e].sticky,
         subscriptionList'[e].count =
           IF subscriptionList[e].count > 1 THEN subscriptionList[e].count - 1
           ELSE subscriptionList[e].count,
         NEW action, action = Top.action
  PROVE  PairCounted(action)'
<1> USE LiveAfter DEF ListInv
<1> DEFINE users == Cardinality(Users(Top.action))
<1>9. PICK left : left = Cardinality(Users(action)')
  OBVIOUS
<1>0. /\ Top.kind \in Kinds /\ Top.token \in Tokens
      /\ Top.kind = "accepted" => Top.token \in Users(Top.action)
      /\ users \in Nat /\ left \in Nat
  <2>1. Cardinality(Users(action)') \in Nat
    <3>1. Users(action)' = Users(action) \/
            (Top.token \in Users(action) /\ Users(action)' = Users(action) \ {Top.token})
      BY TopUses, GoesOnUses DEF GoesOn
    <3>2. \A t : IsFiniteSet(Users(action) \ {t})
      BY UsersFinite, FS_Difference
    <3> QED
      BY <3>1, <3>2, UsersFinite, FS_CardinalityType
  <2> QED
    BY <1>9, <2>1, TopUses, UsersFinite DEF GoesOn
<1>00. \A n \in Entries : subscriptionList[n].count \in Nat
  BY DEF RecordInv, TypeOK, Subscriptions
<1>1. CASE Top.kind = "accepted"
  <2>1. PICK a \in LiveOf(Top.action, "accepted"), r \in LiveOf(Top.action, "rejected") :
          /\ subscriptionList[a].count = subscriptionList[r].count
          /\ subscriptionList[a].sticky = subscriptionList[r].sticky
          /\ Counts(subscriptionList[r], users, Top.action)
    BY <1>1, TopCounts DEF GoesOn
  <2>2. a = e /\ r # e
    BY <1>1, OneLive DEF GivesUp
  <2>3. r \in LiveOf(action, "rejected")' /\ a \in LiveOf(action, "accepted")'
    OBVIOUS
  <2>4. r \in Entries /\ a \in Entries /\ subscriptionList'[r] = subscriptionList[r]
    BY <2>2 DEF GivesUp, LiveOf, Live
  <2>5. ~IsLastUse(r)' /\ subscriptionList'[a].sticky = subscriptionList'[r].sticky
    BY <2>1, <2>2, <2>4 DEF IsLastUse
  <2>6. left = users - 1 /\ HasHalf(action)'
    BY <1>0, <1>1, <1>9, GoesOnUses, UserGoes
  <2>7. left + 1 = users
    BY <1>0, <2>6
  <2>8. Counts(subscriptionList[r], left + 1, action)'
    BY <1>0, <1>9, <2>1, <2>4, <2>7 DEF Counts, Grows
  <2>9. subscriptionList'[a].count =
          IF subscriptionList'[r].count = 1 THEN 1 ELSE subscriptionList'[r].count - 1
    BY <1>00, <2>1, <2>2, <2>4 DEF Counts
  <2>10. HalfReleased(action)'
    BY <1>9, <2>3, <2>5, <2>8, <2>9 DEF HalfReleased
  <2> QED
    BY <2>6, <2>10 DEF PairCounted
<1>2. CASE Top.kind = "rejected"
  <2>1. PICK r \in LiveOf(Top.action, "rejected") :
          /\ Counts(subscriptionList[r], users + 1, Top.action)
          /\ \/ IsLastUse(r)
             \/ \E a \in LiveOf(Top.action, "accepted") :
                  /\ subscriptionList[a].sticky = subscriptionList[r].sticky
                  /\ subscriptionList[a].count =
                       IF subscriptionList[r].count = 1 THEN 1 ELSE subscriptionList[r].count - 1
    BY <1>2, TopCounts DEF GoesOn
  <2>2. r = e
    BY <1>2, OneLive DEF GivesUp
  <2>3. PICK a \in LiveOf(Top.action, "accepted") :
          /\ subscriptionList[a].sticky = subscriptionList[r].sticky
          /\ subscriptionList[a].count =
               IF subscriptionList[r].count = 1 THEN 1 ELSE subscriptionList[r].count - 1
    BY <2>1, <2>2
  <2>4. a # e
    BY <1>2
  <2>5. r \in Entries /\ a \in Entries /\ subscriptionList'[a] = subscriptionList[a]
    BY <2>4 DEF GivesUp, LiveOf, Live
  <2>6. r \in LiveOf(action, "rejected")' /\ a \in LiveOf(action, "accepted")'
    OBVIOUS
  <2>7. left = users /\ ~HasHalf(action)'
    BY <1>2, <1>9, GoesOnUses
  <2>8. /\ subscriptionList'[a].count = subscriptionList'[r].count
        /\ subscriptionList'[a].sticky = subscriptionList'[r].sticky
    BY <1>00, <2>1, <2>2, <2>3, <2>5 DEF Counts
  <2>9. /\ troubles' = {} => troubles = {}
        /\ action \notin persistent' => Top.action \notin persistent
        /\ requests' = requests /\ requests \in Nat
    BY DEF Grows
  <2>10. Counts(subscriptionList[r], left, action)'
    BY <1>0, <1>00, <2>1, <2>2, <2>5, <2>7, <2>9 DEF Counts, IsLastUse
  <2>11. Settled(action)'
    BY <1>9, <2>6, <2>8, <2>10 DEF Settled
  <2> QED
    BY <2>7, <2>11 DEF PairCounted
<1> QED
  BY <1>0, <1>1, <1>2 DEF Kinds

LEMMA GoesOnKnows ==
  ASSUME RecordInv, FramesKnow, RecordInv', GoesOn, troubles' \subseteq troubles \cup {"unsubscribe"}
  PROVE  FramesKnow'
<1> USE GoesOnFrames
<1>1. \A j \in Acks : ackWaitList'[j].action = ackWaitList[j].action
  <2>1. \/ UNCHANGED ackWaitList
        \/ ackWaitList' = [ackWaitList EXCEPT ![Top.ack].free = TRUE]
    BY DEF GoesOn, NextTopic
  <2>2. ackWaitList \in [Acks -> Records]
    BY DEF RecordInv, TypeOK
  <2> QED
    BY <2>1, <2>2 DEF Records
<1>2. Top.kind \in Kinds
  BY InvFacts DEF GoesOn, Frames
<1>3. ASSUME NEW n \in 1 .. Len(stack'), Releasing(stack'[n])
      PROVE  /\ stack'[n].token \in Tokens /\ answered'[stack'[n].token] # 0
             /\ Holding(stack'[n]) => ackWaitList'[stack'[n].ack].action = stack'[n].action
  <2>1. CASE n # Len(stack)
    <3>1. stack'[n] = stack[n] /\ n \in 1 .. Len(stack)
      BY <2>1
    <3>2. Holding(stack[n]) => stack[n].ack \in Acks
      BY <3>1, InvFacts
    <3> QED
      BY <1>1, <1>3, <3>1, <3>2 DEF FramesKnow, GoesOn
  <2>2. CASE n = Len(stack)
    <3>1. Top.kind = "accepted" /\ Top = stack[n] /\ n \in 1 .. Len(stack)
      BY <1>2, <1>3, <2>2 DEF Kinds
    <3>2. /\ stack'[n].token = Top.token /\ stack'[n].action = Top.action
          /\ stack'[n].ack = Top.ack /\ stack'[n].op = Top.op /\ stack'[n].pc = "release"
      BY <2>2, <3>1
    <3>3. Holding(stack'[n]) => Holding(Top) /\ Top.ack \in Acks
      BY <3>1, <3>2, InvFacts DEF Holding
    <3>4. Releasing(Top)
      BY DEF GoesOn
    <3> QED
      BY <1>1, <3>1, <3>2, <3>3, <3>4 DEF FramesKnow, GoesOn
  <2> QED
    BY <2>1, <2>2
<1> QED
  BY <1>3 DEF FramesKnow, Releasing, Holding, Tokens

LEMMA ReleaseCountsKeepsUse ==
  ASSUME RecordInv, UseInv, Grows, RecordInv', ReleaseCounts
  PROVE  UseInv'
<1>1. GoesOn /\ UNCHANGED <<handlers, requests, troubles>>
  <2>1. Top \in Frames /\ FrameOK(Top)
    BY InvFacts, TopTypes DEF ReleaseCounts
  <2> QED
    BY <2>1 DEF ReleaseCounts, GoesOn, Releasing, FrameOK, Frames, history
<1>2. FramesKnow'
  BY <1>1, GoesOnKnows DEF UseInv
<1>3. ASSUME ListInv PROVE ListInv'
  <2>0. UnsubscribesLast /\ LiveFirst /\ FramesKnow
    BY <1>3 DEF ListInv, UseInv
  <2>1. Top.kind \in Kinds
    BY <1>1, <2>0, TopUses DEF GoesOn
  <2>2. PICK e : e \in LiveOf(Top.action, Top.kind)
    BY <1>1, <1>3, <2>0, <2>1, TopCounts DEF GoesOn, Kinds
  <2>3. IsEntryOf(ReleaseTopic, e) /\ \A n : IsEntryOf(ReleaseTopic, n) => n = e
    BY <2>0, <2>2, LiveIsEntry, EntryIsLive DEF ReleaseTopic
  <2>4. ~IsLastUse(e) /\ e \in Entries
    BY <2>2, <2>3 DEF ReleaseCounts, LiveOf, Live
  <2>5. \A n \in Entries : subscriptionList[n] \in Subscriptions
    BY DEF RecordInv, TypeOK
  <2>6. /\ \A n \in Entries : n # e => subscriptionList'[n] = subscriptionList[n]
        /\ subscriptionList'[e] = IF subscriptionList[e].count > 1
                                  THEN [subscriptionList[e] EXCEPT !.count = @ - 1]
                                  ELSE subscriptionList[e]
    BY <2>3, <2>4 DEF ReleaseCounts
  <2>7. /\ subscriptionList'[e].free = subscriptionList[e].free
        /\ subscriptionList'[e].topic = subscriptionList[e].topic
        /\ subscriptionList'[e].sticky = subscriptionList[e].sticky
        /\ subscriptionList'[e].count =
             IF subscriptionList[e].count > 1 THEN subscriptionList[e].count - 1
             ELSE subscriptionList[e].count
    BY <2>4, <2>5, <2>6 DEF Subscriptions
  <2>8. GivesUp(e) /\ ~subscriptionList'[e].free
    BY <1>1, <2>2, <2>6, <2>7 DEF GivesUp, LiveOf, Live
  <2>9. \A action : action = Top.action => PairCounted(action)'
    BY <1>1, <1>3, <2>0, <2>4, <2>7, <2>8, CountedPair
  <2> QED
    BY <1>1, <1>3, <2>0, <2>8, <2>9, GivesUpKeeps
<1> QED
  BY <1>1, <1>2, <1>3 DEF UseInv

LEMMA UnsubscribedKeepsUse ==
  ASSUME RecordInv, UseInv, Grows, RecordInv', Unsubscribed
  PROVE  UseInv'
<1>0. stack # <<>> /\ Top \in Frames /\ FrameOK(Top) /\ Top.pc = "unsubscribe"
  BY InvFacts, TopTypes DEF Unsubscribed
<1>1. GoesOn /\ UNCHANGED requests
  BY <1>0 DEF Unsubscribed, GoesOn, Releasing, FrameOK, Frames
<1>2. FramesKnow'
  BY <1>1, GoesOnKnows DEF Unsubscribed, UseInv
<1>3. ASSUME troubles' \subseteq {"publish"} PROVE ListInv'
  <2>0. ListInv /\ UnsubscribesLast /\ LiveFirst /\ FramesKnow
    BY <1>3 DEF ListInv, UseInv, Grows
  <2>1. /\ Unsubscribe(ReleaseTopic)
        /\ subscriptionList' = [subscriptionList EXCEPT ![Top.entry].free = TRUE]
    BY <1>3 DEF Unsubscribed
  <2>2. LastUser(Top)
    BY <1>0, <2>0, InvFacts DEF UnsubscribesLast
  <2> DEFINE e == Top.entry
  <2>3. e \in LiveOf(Top.action, Top.kind) /\ IsLastUse(e) /\ e \in Entries
    BY <2>2 DEF LastUser, LiveOf, Live
  <2>4. subscriptionList \in [Entries -> Subscriptions]
    BY DEF RecordInv, TypeOK
  <2>5. /\ \A n \in Entries : n # e => subscriptionList'[n] = subscriptionList[n]
        /\ subscriptionList'[e].free /\ subscriptionList'[e].topic = subscriptionList[e].topic
    BY <2>1, <2>3, <2>4 DEF Subscriptions
  <2>6. GivesUp(e)
    BY <2>1, <2>3, <2>5 DEF GivesUp, Unsubscribe
  <2>7. \A action : action = Top.action => PairCounted(action)'
    BY <1>1, <2>0, <2>3, <2>5, <2>6, UnsubscribedPair
  <2> QED
    BY <1>1, <2>0, <2>6, <2>7, GivesUpKeeps
<1> QED
  BY <1>2, <1>3 DEF UseInv

LEMMA AnswerKeepsUse ==
  ASSUME RecordInv, UseInv, Grows, RecordInv', AnswerNext
  PROVE  UseInv'
  BY AckStatusCallbackKeepsUse, YieldStartsKeepsUse, ExpiresKeepsUse, NoneExpiredKeepsUse,
     CallbackReturnsKeepsUse, ReleaseUnsubscribesKeepsUse, ReleaseCountsKeepsUse,
     UnsubscribedKeepsUse DEF AnswerNext

----------------------------------------------------------------------------
(* The steps of a request *)

(* No answer is being worked on. *)
BottomOnly == \A n \in 1 .. Len(stack) : stack[n].op = "action"

LEMMA BottomReleasesNone ==
  /\ BottomOnly => \A t, action, kind : ~Releases(t, action, kind)
  /\ BottomOnly' => \A t, action, kind : ~Releases(t, action, kind)'
  BY DEF BottomOnly, Releases, Releasing

LEMMA BottomUses ==
  ASSUME BottomOnly, BottomOnly', NEW action,
         \A t \in Tokens : Waits(t, action)' <=> Waits(t, action)
  PROVE  Users(action)' = Users(action) /\ ~HasHalf(action) /\ ~HasHalf(action)'
<1>1. Tokens' = Tokens
  BY DEF Tokens
<1> QED
  BY <1>1, BottomReleasesNone DEF Users, HasHalf

LEMMA BottomKnows ==
  ASSUME BottomOnly', "publish" \in troubles' => "publish" \in Failures
  PROVE  FramesKnow'
  BY DEF BottomOnly, FramesKnow, Releasing, Tokens

LEMMA BottomUnsubscribesLast ==
  ASSUME BottomOnly', \A n \in 1 .. Len(stack') : stack'[n].pc # "unsubscribe"
  PROVE  UnsubscribesLast'
  BY DEF UnsubscribesLast

(* What a request does to the list concerns its own action. *)
LEMMA OthersCounted ==
  ASSUME TypeOK, PairsCounted, Grows, NEW action, PairCounted(action)',
         \A other : other # action => SameUse(other)
  PROVE  PairsCounted'
  BY PairKept DEF PairsCounted

(* A request is entered into its record, or it is not published. *)
LEMMA PublishWaits ==
  ASSUME RecordInv, NEW f, RequestOK(f), ackWaitList[f.ack].free, Fresh(f.token),
         NEW rest, NEW failed, Publish(f, rest, failed), UNCHANGED answered
  PROVE  /\ \A t, action : action # f.action => (Waits(t, action)' <=> Waits(t, action))
         /\ ~Waits(f.token, f.action)
         /\ \/ /\ \A t : Waits(t, f.action)' <=> Waits(t, f.action) \/ t = f.token
               /\ troubles' = troubles \cup failed
               /\ f.sticky => f.action \in persistent'
            \/ /\ \A t : Waits(t, f.action)' <=> Waits(t, f.action)
               /\ "publish" \in Failures /\ "publish" \in troubles'
               /\ troubles' = troubles \cup failed \cup {"publish"}
<1>1. /\ f.ack \in Acks /\ f.token \in Tokens /\ answered[f.token] = 0
      /\ \A i \in Acks : ~ackWaitList[i].free => ackWaitList[i].token # f.token
      /\ ackWaitList \in [Acks -> Records]
  BY DEF RequestOK, Fresh, RecordInv, TypeOK
<1>2. ~Waits(f.token, f.action) /\ ~Outstanding(f.ack)
  BY <1>1 DEF Waits, Outstanding
<1>3. CASE /\ ackWaitList' = [ackWaitList EXCEPT ![f.ack] =
                               [free |-> FALSE, token |-> f.token, action |-> f.action]]
           /\ troubles' = troubles \cup failed
           /\ persistent' = IF f.sticky THEN persistent \cup {f.action} ELSE persistent
  <2>1. /\ \A j \in Acks : j # f.ack => ackWaitList'[j] = ackWaitList[j]
        /\ ackWaitList'[f.ack] = [free |-> FALSE, token |-> f.token, action |-> f.action]
    BY <1>1, <1>3
  <2>2. \A i \in Acks : IF i = f.ack THEN Outstanding(i)' ELSE Outstanding(i)' <=> Outstanding(i)
    BY <1>1, <2>1 DEF Outstanding
  <2>3. \A t, action : Waits(t, action)' <=>
          Waits(t, action) \/ (t = f.token /\ action = f.action)
    BY <1>1, <1>2, <2>1, <2>2 DEF Waits, Acks
  <2> QED
    BY <1>2, <1>3, <2>3
<1>4. CASE /\ "publish" \in Failures /\ UNCHANGED ackWaitList
           /\ troubles' = troubles \cup failed \cup {"publish"}
  <2>1. \A t, action : Waits(t, action)' <=> Waits(t, action)
    BY <1>4 DEF Waits, Outstanding, Acks
  <2> QED
    BY <1>2, <1>4, <2>1
<1> QED
  BY <1>3, <1>4 DEF Publish

LEMMA StartsPaired ==
  ASSUME RecordInv, ListInv, stack = <<>>, NEW action \in Actions
  PROVE  /\ IsSubscriptionPresent(action) =>
              \E a \in LiveOf(action, "accepted"), r \in LiveOf(action, "rejected") :
                /\ subscriptionList[a].count = subscriptionList[r].count
                /\ subscriptionList[a].sticky = subscriptionList[r].sticky
                /\ Counts(subscriptionList[r], Cardinality(Users(action)), action)
         /\ ~IsSubscriptionPresent(action) => Unused(action)
         /\ Reserved = {} /\ Pending = {} /\ BottomOnly
<1>1. 1 .. Len(stack) = {}
  OBVIOUS
<1>2. BottomOnly /\ Reserved = {} /\ Pending = {}
  BY <1>1 DEF BottomOnly, Reserved, Pending, Requesting
<1>3. Settled(action)
  BY <1>2, BottomReleasesNone DEF ListInv, PairsCounted, PairCounted, HasHalf
<1>4. ASSUME IsSubscriptionPresent(action), NEW kind \in Kinds PROVE LiveOf(action, kind) # {}
  BY <1>2, <1>4 DEF IsSubscriptionPresent, IsEntryOf, LiveOf, Live
<1>5. LiveFirst
  BY DEF ListInv
<1>6. ASSUME NEW a \in LiveOf(action, "accepted"), NEW r \in LiveOf(action, "rejected")
      PROVE  IsSubscriptionPresent(action)
  <2>1. a \in Entries /\ r \in Entries
    BY DEF LiveOf, Live
  <2>2. IsEntryOf(AckTopic(action, "accepted"), a) /\ IsEntryOf(AckTopic(action, "rejected"), r)
    BY <1>5, LiveIsEntry
  <2> QED
    BY <2>1, <2>2 DEF IsSubscriptionPresent, Kinds
<1> QED
  BY <1>2, <1>3, <1>4, <1>6 DEF Settled, Unused, Kinds

LEMMA RequestRefusedKeepsUse ==
  ASSUME RecordInv, UseInv, Grows, RecordInv', NEW action, RequestRefused(action)
  PROVE  UseInv'
<1>1. UNCHANGED <<ackWaitList, subscriptionList, handlers, troubles, answered, stack>>
  BY DEF RequestRefused, lists
<1>2. SameWaits /\ SameReleases /\ SameRequest
  BY <1>1 DEF SameWaits, Outstanding, SameReleases, SameRequest, Requesting
<1>3. FramesKnow'
  BY <1>1 DEF UseInv, FramesKnow, Releasing, Holding, Tokens
<1> QED
  BY <1>1, <1>2, <1>3, QuietKeepsUse

(* A list that is full is a trouble. *)
LEMMA RequestUnheardKeepsUse ==
  ASSUME CallbackActions = {}, RecordInv, UseInv, Grows, RecordInv',
         NEW action \in Actions, NEW sticky \in Stickiness, RequestUnheard(action, sticky)
  PROVE  UseInv'
<1>1. stack = <<>>
  BY DEF RequestUnheard, MayStart
<1>2. PICK i \in Acks :
        \/ Publish(Request(action, sticky, i), stack, {"full"})
        \/ \E n : /\ stack' = Append(stack, [Request(action, sticky, i)
                                               EXCEPT !.pc = "undo", !.entry = n])
                  /\ troubles' = troubles \cup {"full"}
  BY DEF RequestUnheard
<1>3. "full" \in troubles' /\ ("publish" \in troubles' => "publish" \in Failures)
  BY <1>2 DEF Publish, UseInv, FramesKnow
<1>4. BottomOnly'
  <2>1. CASE stack' = stack
    BY <1>1, <2>1 DEF BottomOnly
  <2>2. ASSUME NEW n, stack' = Append(stack, [Request(action, sticky, i)
                                               EXCEPT !.pc = "undo", !.entry = n])
        PROVE  BottomOnly'
    <3> DEFINE f == [Request(action, sticky, i) EXCEPT !.pc = "undo", !.entry = n]
    <3>2. f.op = "action"
      BY DEF Request
    <3>3. stack' = Append(stack, f)
      BY <2>2
    <3> HIDE DEF f
    <3>1. Len(stack') = 1 /\ stack'[1].op = "action"
      BY <1>1, <3>2, <3>3
    <3> QED
      BY <3>1 DEF BottomOnly
  <2> QED
    BY <1>2, <2>1, <2>2 DEF Publish
<1> QED
  BY <1>3, <1>4, BottomKnows DEF UseInv

(* A count has room for one request more. *)
LEMMA CountHasRoom ==
  ASSUME CountSuffices, RecordInv, FramesKnow, troubles \subseteq {"publish"}, stack = <<>>,
         NEW i \in Acks, ackWaitList[i].free, NEW action, NEW entry, entry.count \in Nat,
         Counts(entry, Cardinality(Users(action)), action), requests < MaxRequests
  PROVE  entry.count + 1 < CountModulus
<1>0. requests \in Nat /\ TypeOK /\ Cardinality(Users(action)) \in Nat
  BY UsersFinite DEF RecordInv, TypeOK
<1>1. CASE MaxRequests < CountModulus
  BY <1>0, <1>1 DEF Counts
<1>2. CASE "publish" \notin Failures /\ MaxAcks + 1 < CountModulus
  <2>1. troubles = {}
    BY <1>2 DEF FramesKnow
  <2>2. entry.count <= Cardinality(Users(action)) + 1
    BY <2>1 DEF Counts
  <2>3. Cardinality(Users(action)) <= MaxAcks - 1
    BY <1>0, UsersHaveRecords
  <2> QED
    BY <1>0, <1>2, <2>2, <2>3
<1> QED
  BY <1>1, <1>2 DEF CountSuffices

LEMMA RequestCountedKeepsUse ==
  ASSUME CallbackActions = {}, CountSuffices, RecordInv, UseInv, Grows, RecordInv',
         NEW action \in Actions, NEW sticky \in Stickiness, RequestCounted(action, sticky)
  PROVE  UseInv'
<1>1. /\ stack = <<>> /\ requests < MaxRequests /\ IsSubscriptionPresent(action)
      /\ requests' = requests + 1 /\ UNCHANGED <<handlers, answered>>
  BY DEF RequestCounted, MayStart
<1>2. PICK i \in Acks : IsFreeAck(i) /\ Publish(Request(action, sticky, i), stack, {})
  BY DEF RequestCounted
<1>f. PICK f : f = Request(action, sticky, i)
  OBVIOUS
<1>3. /\ RequestOK(f) /\ f.ack = i /\ ackWaitList[f.ack].free /\ f.token = requests'
      /\ f.action = action /\ f.sticky = sticky /\ Fresh(f.token)
  <2>1. RequestOK(f)
    BY <1>1, <1>f, InvFacts, RequestType
  <2>2. f.ack = i /\ f.token = requests + 1 /\ f.action = action /\ f.sticky = sticky
    BY <1>f DEF Request
  <2>3. ackWaitList[i].free
    BY <1>2 DEF IsFreeAck
  <2> QED
    BY <1>1, <2>1, <2>2, <2>3, NextIsFresh
<1>4. Publish(f, stack, {})
  BY <1>2, <1>f
<1>5. /\ \A t, other : other # action => (Waits(t, other)' <=> Waits(t, other))
      /\ ~Waits(f.token, action)
      /\ \/ /\ \A t : Waits(t, action)' <=> Waits(t, action) \/ t = f.token
            /\ troubles' = troubles
            /\ sticky => action \in persistent'
         \/ /\ \A t : Waits(t, action)' <=> Waits(t, action)
            /\ "publish" \in Failures /\ troubles' = troubles \cup {"publish"}
  <2>1. troubles \cup {} = troubles
    OBVIOUS
  <2>2. /\ \A t, other : other # f.action => (Waits(t, other)' <=> Waits(t, other))
        /\ ~Waits(f.token, f.action)
        /\ \/ /\ \A t : Waits(t, f.action)' <=> Waits(t, f.action) \/ t = f.token
              /\ troubles' = troubles \cup {}
              /\ f.sticky => f.action \in persistent'
           \/ /\ \A t : Waits(t, f.action)' <=> Waits(t, f.action)
              /\ "publish" \in Failures /\ troubles' = troubles \cup {} \cup {"publish"}
    BY <1>1, <1>3, <1>4, PublishWaits
  <2> QED
    BY <1>3, <2>1, <2>2
<1>6. stack' = <<>> /\ BottomOnly' /\ BottomOnly
  <2>1. stack' = <<>>
    BY <1>1, <1>4 DEF Publish
  <2>2. 1 .. Len(stack) = {} /\ 1 .. Len(stack') = {}
    BY <1>1, <2>1
  <2> QED
    BY <2>1, <2>2 DEF BottomOnly
<1>7. FramesKnow'
  BY <1>5, <1>6, BottomKnows DEF UseInv, FramesKnow
<1>8. ASSUME troubles' \subseteq {"publish"} PROVE ListInv'
  <2>0. troubles \subseteq {"publish"} /\ ListInv /\ LiveFirst
    BY <1>8 DEF Grows, UseInv, ListInv
  <2>1. Reserved = {} /\ Pending = {}
    BY <1>1, <2>0, StartsPaired
  <2>2. PICK a \in LiveOf(action, "accepted"), r \in LiveOf(action, "rejected") :
          /\ subscriptionList[a].count = subscriptionList[r].count
          /\ subscriptionList[a].sticky = subscriptionList[r].sticky
          /\ Counts(subscriptionList[r], Cardinality(Users(action)), action)
    BY <1>1, <2>0, StartsPaired
  <2>3. /\ a \in Entries /\ ~subscriptionList[a].free
        /\ subscriptionList[a].topic = AckTopic(action, "accepted")
        /\ r \in Entries /\ ~subscriptionList[r].free
        /\ subscriptionList[r].topic = AckTopic(action, "rejected")
    BY <2>2 DEF LiveOf, Live
  <2>4. subscriptionList \in [Entries -> Subscriptions]
    BY DEF RecordInv, TypeOK
  <2>5. \A n \in Entries :
          /\ subscriptionList'[n].free = subscriptionList[n].free
          /\ subscriptionList'[n].topic = subscriptionList[n].topic
          /\ ~(~subscriptionList[n].free
               /\ subscriptionList[n].topic \in {AckTopic(action, kind) : kind \in Kinds})
               => subscriptionList'[n] = subscriptionList[n]
    BY <2>4 DEF RequestCounted, Subscriptions
  <2>6. \A n \in {a, r} :
          /\ subscriptionList'[n].count = (subscriptionList[n].count + 1) % CountModulus
          /\ subscriptionList'[n].sticky = sticky
    BY <2>3, <2>4 DEF RequestCounted, Subscriptions, Kinds
  <2>7. subscriptionList[r].count \in Nat
    BY <2>3, <2>4 DEF Subscriptions
  <2>8. subscriptionList[r].count + 1 < CountModulus
    BY <1>1, <1>3, <2>0, <2>2, <2>7, CountHasRoom DEF UseInv
  <2>9. \A k \in Nat : k < CountModulus => k % CountModulus = k
    OBVIOUS
  <2>10. /\ subscriptionList'[a].count = subscriptionList[r].count + 1
         /\ subscriptionList'[r].count = subscriptionList[r].count + 1
    BY <2>2, <2>6, <2>7, <2>8, <2>9
  <2>11. /\ \A pc : ~Requesting(pc) /\ ~Requesting(pc)'
         /\ Reserved' = {} /\ Pending' = {} /\ Live' = Live
         /\ \A other, kind : LiveOf(other, kind)' = LiveOf(other, kind)
    <3>1. \A pc : ~Requesting(pc) /\ ~Requesting(pc)'
      BY <1>1, <1>6 DEF Requesting
    <3>2. Reserved' = {} /\ Pending' = {}
      BY <3>1 DEF Reserved, Pending
    <3>3. Live' = Live /\ Live \subseteq Entries
      BY <2>1, <2>5, <3>2 DEF Live, Entries
    <3>4. \A other, kind : LiveOf(other, kind)' = LiveOf(other, kind)
      BY <2>5, <3>3 DEF LiveOf, AckTopic
    <3> QED
      BY <3>1, <3>2, <3>3, <3>4
  <2>12. PairCounted(action)'
    <3>1. PICK users : users = Cardinality(Users(action)')
      OBVIOUS
    <3>2. /\ ~HasHalf(action)'
          /\ \A t : ~Releases(t, action, "accepted") /\ ~Releases(t, action, "accepted")'
      BY <1>6, BottomReleasesNone DEF HasHalf
    <3>3. f.token \in Tokens /\ Tokens' = Tokens
      BY <1>3 DEF RequestOK, Tokens
    <3>4. /\ requests \in Nat /\ Cardinality(Users(action)) \in Nat
          /\ requests' = requests + 1
      BY <1>1, UsersFinite DEF Grows
    <3>5. Counts(subscriptionList[r], users, action)'
      <4>1. CASE /\ \A t : Waits(t, action)' <=> Waits(t, action) \/ t = f.token
                 /\ troubles' = troubles
                 /\ sticky => action \in persistent'
        <5>1. Users(action)' = Users(action) \cup {f.token} /\ f.token \notin Users(action)
          BY <1>5, <3>2, <3>3, <4>1 DEF Users
        <5>2. users = Cardinality(Users(action)) + 1
          BY <3>1, <5>1, UserComes
        <5> QED
          BY <2>2, <2>6, <2>7, <2>10, <3>4, <4>1, <5>2 DEF Counts, Grows
      <4>2. CASE /\ \A t : Waits(t, action)' <=> Waits(t, action)
                 /\ troubles' = troubles \cup {"publish"}
        <5>1. Users(action)' = Users(action)
          BY <3>2, <3>3, <4>2 DEF Users
        <5> QED
          BY <2>2, <2>7, <2>10, <3>1, <3>4, <4>2, <5>1 DEF Counts
      <4> QED
        BY <1>5, <4>1, <4>2
    <3>6. Settled(action)'
      BY <2>2, <2>6, <2>10, <2>11, <3>1, <3>5 DEF Settled
    <3> QED
      BY <3>2, <3>6 DEF PairCounted
  <2>13. PairsCounted'
    <3>1. ASSUME NEW other, other # action PROVE SameUse(other)
      <4>1. Users(other)' = Users(other) /\ ~HasHalf(other) /\ ~HasHalf(other)'
        BY <1>5, <1>6, <3>1, BottomUses
      <4>2. \A kind \in Kinds : \A n \in LiveOf(other, kind) :
              subscriptionList'[n] = subscriptionList[n]
        BY <2>5, <3>1, TopicsDiffer DEF LiveOf, Live
      <4> QED
        BY <2>11, <4>1, <4>2 DEF SameUse
    <3> QED
      BY <2>0, <2>12, <3>1, OthersCounted DEF ListInv, RecordInv
  <2>14. LiveFirst' /\ ListensToLive'
    BY <1>1, <2>0, <2>1, <2>5, <2>11
    DEF LiveFirst, ListInv, ListensToLive, Topics, Entries, AckTopic, Live
  <2>15. UnsubscribesLast'
    BY <1>6, BottomUnsubscribesLast
  <2> QED
    BY <2>11, <2>13, <2>14, <2>15 DEF ListInv, ReservedFirst, UndoneAlone
<1> QED
  BY <1>7, <1>8 DEF UseInv

LEMMA RequestSubscribesKeepsUse ==
  ASSUME CallbackActions = {}, RecordInv, UseInv, Grows, RecordInv',
         NEW action \in Actions, NEW sticky \in Stickiness, RequestSubscribes(action, sticky)
  PROVE  UseInv'
<1>1. /\ stack = <<>> /\ ~IsSubscriptionPresent(action)
      /\ UNCHANGED <<ackWaitList, handlers, troubles, answered>>
  BY DEF RequestSubscribes, MayStart
<1>2. PICK i \in Acks, a \in Entries, r \in Entries :
        /\ AreNextFree(a, r)
        /\ stack' = Append(stack, [Request(action, sticky, i) EXCEPT !.entry = a,
                                                                     !.pair = <<a, r>>])
        /\ subscriptionList' =
             [subscriptionList EXCEPT ![a].free = FALSE, ![r].free = FALSE,
                                      ![a].topic = AckTopic(action, "accepted")]
  BY DEF RequestSubscribes
<1>3. PICK f : f = [Request(action, sticky, i) EXCEPT !.entry = a, !.pair = <<a, r>>]
  OBVIOUS
<1>4. /\ f.op = "action" /\ f.pc = "subscribe" /\ f.action = action /\ f.kind = "accepted"
      /\ f.entry = a /\ f.pair = <<a, r>>
  BY <1>3 DEF Request
<1>5. stack' = <<f>> /\ Len(stack') = 1 /\ stack'[1] = f
  BY <1>1, <1>2, <1>3
<1>6. BottomOnly /\ BottomOnly' /\ \A n \in 1 .. Len(stack') : stack'[n].pc # "unsubscribe"
  BY <1>1, <1>4, <1>5 DEF BottomOnly
<1>7. FramesKnow'
  BY <1>1, <1>6, BottomKnows DEF UseInv, FramesKnow
<1>8. ASSUME ListInv PROVE ListInv'
  <2>0. LiveFirst /\ Unused(action) /\ Reserved = {} /\ Pending = {}
    BY <1>1, <1>8, StartsPaired DEF ListInv
  <2>1. /\ a \in FreeEntries /\ r \in FreeEntries /\ a < r
        /\ \A n \in FreeEntries : n = a \/ n >= r
    BY <1>2 DEF AreNextFree
  <2>2. subscriptionList \in [Entries -> Subscriptions]
    BY DEF RecordInv, TypeOK
  <2>3. /\ \A n \in Entries : n \notin {a, r} => subscriptionList'[n] = subscriptionList[n]
        /\ \A n \in {a, r} : ~subscriptionList'[n].free
        /\ subscriptionList'[a].topic = AckTopic(action, "accepted")
        /\ subscriptionList'[r].topic = subscriptionList[r].topic
    <3>1. a # r
      BY <2>1 DEF Entries
    <3> QED
      BY <1>2, <2>2, <3>1 DEF Subscriptions
  <2>4. /\ Requesting("subscribe")' /\ ~Requesting("undo")'
        /\ Reserved' = {a, r} /\ Pending' = {}
    BY <1>4, <1>5 DEF Requesting, Reserved, Pending
  <2>5. Live' = Live /\ Live \subseteq Entries /\ a \notin Live /\ r \notin Live
    BY <2>0, <2>1, <2>3, <2>4 DEF Live, FreeEntries, Entries
  <2>6. \A n \in Live : subscriptionList'[n] = subscriptionList[n]
    BY <2>3, <2>5
  <2>7. \A other, kind : LiveOf(other, kind)' = LiveOf(other, kind)
    BY <2>5, <2>6 DEF LiveOf, AckTopic
  <2>8. \A other : Users(other)' = Users(other) /\ ~HasHalf(other) /\ ~HasHalf(other)'
    <3>1. \A t, other : Waits(t, other)' <=> Waits(t, other)
      BY <1>1 DEF Waits, Outstanding, Acks
    <3> QED
      BY <1>6, <3>1, BottomUses
  <2>9. \A other : SameUse(other)
    BY <2>6, <2>7, <2>8 DEF SameUse, LiveOf
  <2>10. PairsCounted'
    BY <1>8, <2>9, PairKept DEF ListInv, PairsCounted, RecordInv
  <2>11. Unused(action)'
    BY <2>0, <2>7, <2>8 DEF Unused, Kinds
  <2>12. \A m \in Live : subscriptionList[m].topic # AckTopic(action, "accepted")
    BY <2>0 DEF Unused, LiveOf, Kinds
  <2>13. LiveFirst'
    <3>1. ASSUME NEW m \in Live, NEW n \in Entries,
                 subscriptionList'[n].topic = subscriptionList'[m].topic
          PROVE  m <= n
      BY <2>0, <2>3, <2>6, <2>12, <3>1 DEF LiveFirst
    <3> QED
      BY <2>0, <2>5, <2>6, <3>1 DEF LiveFirst, Topics, Entries, AckTopic
  <2>14. \A n \in Entries :
           /\ subscriptionList'[n].topic = AckTopic(action, "accepted") => a <= n
           /\ subscriptionList'[n].topic = AckTopic(action, "rejected") => r <= n
    <3> SUFFICES ASSUME NEW n \in Entries
                 PROVE  /\ subscriptionList'[n].topic = AckTopic(action, "accepted") => a <= n
                        /\ subscriptionList'[n].topic = AckTopic(action, "rejected") => r <= n
      OBVIOUS
    <3>0. a \in Nat /\ r \in Nat /\ n \in Nat
      BY DEF Entries
    <3>1. n \in {a, r} \/ n \in Live \/ n \in FreeEntries
      BY <2>0 DEF Live, FreeEntries
    <3>2. CASE n \in Live
      <4>1. \A kind \in Kinds : subscriptionList[n].topic # AckTopic(action, kind)
        BY <2>0, <3>2 DEF Unused, LiveOf
      <4> QED
        BY <2>6, <3>2, <4>1 DEF Kinds
    <3>3. CASE n \in FreeEntries \/ n \in {a, r}
      <4>1. AckTopic(action, "accepted") # AckTopic(action, "rejected")
        BY TopicsDiffer
      <4>2. n = a \/ n >= r
        BY <2>1, <3>0, <3>3
      <4> QED
        BY <2>1, <2>3, <3>0, <4>1, <4>2
    <3> QED
      BY <3>1, <3>2, <3>3
  <2>15. ReservedFirst'
    BY <1>4, <1>5, <2>1, <2>3, <2>11, <2>14 DEF ReservedFirst, Entries, AckTopic
  <2>16. UndoneAlone'
    BY <2>4 DEF UndoneAlone
  <2>17. ListensToLive'
    BY <1>1, <1>8, <2>0, <2>4, <2>5 DEF ListInv, ListensToLive
  <2>18. UnsubscribesLast'
    BY <1>6, BottomUnsubscribesLast
  <2> QED
    BY <2>10, <2>13, <2>15, <2>16, <2>17, <2>18 DEF ListInv
<1> QED
  BY <1>1, <1>7, <1>8 DEF UseInv

(* The request that waits for its subscriptions. *)
Reserving(f, a, r) ==
  /\ f = Top /\ f = stack[1] /\ stack # <<>> /\ Len(stack) = 1 /\ Below = <<>>
  /\ f \in Frames /\ f.op = "action" /\ f.pc = "subscribe" /\ f.action \in Actions
  /\ BottomOnly /\ ~Requesting("undo") /\ Requesting("subscribe")
  /\ a = f.pair[1] /\ r = f.pair[2] /\ a \in Entries /\ r \in Entries /\ a < r /\ a # r
  /\ Reserved = {a, r} /\ Pending = IF f.kind = "rejected" THEN {a} ELSE {}
  /\ f.entry = (IF f.kind = "accepted" THEN a ELSE r)
  /\ Unused(f.action) /\ ~subscriptionList[a].free /\ ~subscriptionList[r].free
  /\ subscriptionList[a].topic = AckTopic(f.action, "accepted")
  /\ \A n \in Entries :
       /\ subscriptionList[n].topic = AckTopic(f.action, "accepted") => a <= n
       /\ subscriptionList[n].topic = AckTopic(f.action, "rejected") => r <= n
  /\ f.kind = "rejected" =>
       /\ subscriptionList[r].topic = AckTopic(f.action, "rejected")
       /\ a \in handlers /\ subscriptionList[a].count = 1
       /\ subscriptionList[a].sticky = f.sticky
  /\ \A n \in Live : /\ n \in Entries /\ n # a /\ n # r
                     /\ \A kind \in Kinds : subscriptionList[n].topic # AckTopic(f.action, kind)

LEMMA RequestReserving ==
  ASSUME RecordInv, ListInv, At("action", "subscribe")
  PROVE  \E f, a, r : Reserving(f, a, r)
<1>1. PICK f : f = Top
  OBVIOUS
<1>2. /\ stack # <<>> /\ f.op = "action" /\ f.pc = "subscribe" /\ Len(stack) = 1 /\ f = stack[1]
      /\ Below = <<>>
  BY <1>1, RequestAtTop DEF At
<1>3. f \in Frames /\ FrameOK(f) /\ f.action \in Actions
  BY <1>1, <1>2, InvFacts DEF Frames
<1>4. BottomOnly /\ ~Requesting("undo") /\ Requesting("subscribe")
  BY <1>2 DEF BottomOnly, Requesting
<1>5. PICK a, r : a = f.pair[1] /\ r = f.pair[2]
  OBVIOUS
<1>6. a \in Entries /\ r \in Entries
  BY <1>2, <1>3, <1>5 DEF FrameOK
<1>7. Reserved = {a, r} /\ Pending = IF f.kind = "rejected" THEN {a} ELSE {}
  BY <1>2, <1>4, <1>5 DEF Reserved, Pending
<1>8. /\ Unused(f.action) /\ a < r /\ f.entry = (IF f.kind = "accepted" THEN a ELSE r)
      /\ ~subscriptionList[a].free /\ ~subscriptionList[r].free
      /\ subscriptionList[a].topic = AckTopic(f.action, "accepted")
      /\ \A n \in Entries :
           /\ subscriptionList[n].topic = AckTopic(f.action, "accepted") => a <= n
           /\ subscriptionList[n].topic = AckTopic(f.action, "rejected") => r <= n
      /\ f.kind = "rejected" =>
           /\ subscriptionList[r].topic = AckTopic(f.action, "rejected")
           /\ a \in handlers /\ subscriptionList[a].count = 1
           /\ subscriptionList[a].sticky = f.sticky
  BY <1>2, <1>4, <1>5 DEF ListInv, ReservedFirst
<1>9. \A n \in Live : /\ n \in Entries /\ n # a /\ n # r
                      /\ \A kind \in Kinds : subscriptionList[n].topic # AckTopic(f.action, kind)
  BY <1>7, <1>8 DEF Live, LiveOf, Unused
<1>10. a # r
  BY <1>6, <1>8 DEF Entries
<1>11. Reserving(f, a, r)
  BY <1>1, <1>2, <1>3, <1>4, <1>5, <1>6, <1>7, <1>8, <1>9, <1>10 DEF Reserving
<1> QED
  BY <1>11

(* While the request waits for its subscriptions nothing else of the list moves. *)
LEMMA OthersUse ==
  ASSUME BottomOnly, BottomOnly', UNCHANGED <<ackWaitList, answered>>, Live' = Live,
         \A n \in Live : subscriptionList'[n] = subscriptionList[n]
  PROVE  \A action : SameUse(action) /\ (Unused(action) => Unused(action)')
<1>1. \A t, action : Waits(t, action)' <=> Waits(t, action)
  BY DEF Waits, Outstanding, Acks
<1>2. \A action : Users(action)' = Users(action) /\ ~HasHalf(action) /\ ~HasHalf(action)'
  BY <1>1, BottomUses
<1>3. \A action, kind : LiveOf(action, kind)' = LiveOf(action, kind)
  BY DEF LiveOf, AckTopic
<1>4. \A action, kind : \A n \in LiveOf(action, kind) : subscriptionList'[n] = subscriptionList[n]
  BY DEF LiveOf
<1> QED
  BY <1>2, <1>3, <1>4 DEF SameUse, Unused, Kinds

LEMMA SubscribeReturnsKeepsUse ==
  ASSUME RecordInv, UseInv, Grows, RecordInv', SubscribeReturns
  PROVE  UseInv'
<1>1. /\ At("action", "subscribe") /\ Top.kind = "accepted"
      /\ UNCHANGED <<ackWaitList, answered, troubles>>
  BY DEF SubscribeReturns, history
<1>2. stack # <<>> /\ Top.op = "action" /\ Len(stack) = 1 /\ Top \in Frames /\ stack \in Seq(Frames)
  BY <1>1, RequestAtTop, InvFacts DEF At, TypeInv, TypeOK
<1>3. PICK g : g = [Top EXCEPT !.kind = "rejected", !.entry = Top.pair[2]]
  OBVIOUS
<1>4. /\ g.op = Top.op /\ g.pc = Top.pc /\ g.action = Top.action /\ g.kind = "rejected"
      /\ g.pair = Top.pair /\ g.entry = Top.pair[2] /\ g.sticky = Top.sticky
      /\ g \in Frames
  <2>1. "rejected" \in Kinds /\ Top.pair[2] \in 0 .. MaxTopics
    BY <1>2 DEF Frames, Kinds
  <2> QED
    BY <1>2, <1>3, <2>1 DEF Frames
<1>5. stack' = WithTop(g)
  BY <1>3 DEF SubscribeReturns
<1>6. stack' # <<>> /\ Len(stack') = 1 /\ stack'[1] = g
  BY <1>2, <1>4, <1>5, WithTopSeq
<1>7. BottomOnly' /\ \A n \in 1 .. Len(stack') : stack'[n].pc # "unsubscribe"
  BY <1>1, <1>2, <1>4, <1>6 DEF BottomOnly, At
<1>8. FramesKnow'
  BY <1>1, <1>7, BottomKnows DEF UseInv, FramesKnow
<1>9. ASSUME ListInv PROVE ListInv'
  <2>1. PICK f, a, r : Reserving(f, a, r)
    BY <1>1, <1>9, RequestReserving
  <2>2. f = Top /\ f.kind = "accepted" /\ f.entry = a /\ Pending = {} /\ f.pair[2] = r
        /\ f.pair[1] = a /\ Reserved = {a, r} /\ a \in Entries /\ r \in Entries /\ a # r
        /\ f.pc = "subscribe" /\ f.op = "action"
    BY <1>1, <2>1 DEF Reserving
  <2>3. subscriptionList \in [Entries -> Subscriptions]
    BY DEF RecordInv, TypeOK
  <2>4. /\ \A n \in Entries : n # a /\ n # r => subscriptionList'[n] = subscriptionList[n]
        /\ subscriptionList'[a].count = 1 /\ subscriptionList'[a].sticky = f.sticky
        /\ subscriptionList'[a].topic = subscriptionList[a].topic
        /\ subscriptionList'[r].topic = AckTopic(f.action, "rejected")
        /\ subscriptionList'[a].free = subscriptionList[a].free
        /\ subscriptionList'[r].free = subscriptionList[r].free
        /\ handlers' = handlers \cup {a}
    BY <2>2, <2>3 DEF SubscribeReturns, Subscriptions
  <2>5. /\ Requesting("subscribe")' /\ ~Requesting("undo")'
        /\ Reserved' = {a, r} /\ Pending' = {a}
    BY <1>4, <1>6, <2>2 DEF Requesting, Reserved, Pending
  <2>6. Live' = Live /\ \A n \in Live : subscriptionList'[n] = subscriptionList[n]
    BY <2>2, <2>4, <2>5 DEF Live, Entries
  <2>7. BottomOnly /\ Unused(f.action)
    BY <2>1 DEF Reserving
  <2>8. \A action : SameUse(action) /\ (Unused(action) => Unused(action)')
    BY <1>1, <1>7, <2>6, <2>7, OthersUse
  <2>9. PairsCounted'
    BY <1>9, <2>8, PairKept DEF ListInv, PairsCounted, RecordInv
  <2>10. \A n \in Live : /\ n \in Entries /\ n # a /\ n # r
                        /\ subscriptionList[n].topic # AckTopic(f.action, "rejected")
    BY <2>1 DEF Reserving, Kinds
  <2>11. LiveFirst'
    <3>1. ASSUME NEW m \in Live, NEW n \in Entries,
                 subscriptionList'[n].topic = subscriptionList'[m].topic
          PROVE  m <= n
      BY <1>9, <2>4, <2>6, <2>10, <3>1 DEF ListInv, LiveFirst
    <3> QED
      BY <1>9, <2>6, <3>1 DEF ListInv, LiveFirst, Topics, Entries, AckTopic
  <2>12. /\ a < r /\ ~subscriptionList'[a].free /\ ~subscriptionList'[r].free
         /\ subscriptionList'[a].topic = AckTopic(f.action, "accepted")
         /\ \A n \in Entries :
              /\ subscriptionList'[n].topic = AckTopic(f.action, "accepted") => a <= n
              /\ subscriptionList'[n].topic = AckTopic(f.action, "rejected") => r <= n
    <3>1. AckTopic(f.action, "accepted") # AckTopic(f.action, "rejected")
      BY TopicsDiffer
    <3> QED
      BY <2>1, <2>4, <3>1 DEF Reserving, Entries
  <2>13. ReservedFirst'
    BY <1>4, <1>6, <2>2, <2>4, <2>7, <2>8, <2>12 DEF ReservedFirst, Entries, AckTopic
  <2>14. UndoneAlone' /\ UnsubscribesLast'
    BY <1>7, <2>5, BottomUnsubscribesLast DEF UndoneAlone
  <2>15. ListensToLive'
    BY <1>9, <2>2, <2>4, <2>5, <2>6 DEF ListInv, ListensToLive
  <2> QED
    BY <2>9, <2>11, <2>13, <2>14, <2>15 DEF ListInv
<1> QED
  BY <1>1, <1>8, <1>9 DEF UseInv

LEMMA SubscribeFailsKeepsUse ==
  ASSUME RecordInv, UseInv, Grows, RecordInv', SubscribeFails
  PROVE  UseInv'
<1>1. At("action", "subscribe") /\ UNCHANGED <<ackWaitList, handlers, answered, troubles>>
  BY DEF SubscribeFails, history
<1>2. /\ stack # <<>> /\ Top.op = "action" /\ Len(stack) = 1 /\ Top \in Frames /\ FrameOK(Top)
      /\ stack \in Seq(Frames) /\ Below = <<>> /\ Top.pc = "subscribe"
  BY <1>1, RequestAtTop, InvFacts DEF At, TypeInv, TypeOK
<1>3. PICK g : g = [Top EXCEPT !.pc = "undo", !.entry = Top.pair[1], !.rc = "FAILURE"]
  OBVIOUS
<1>4. /\ g.op = "action" /\ g.pc = "undo" /\ g.action = Top.action /\ g.rc = "FAILURE"
      /\ g.entry = Top.pair[1] /\ g \in Frames
  <2>1. Top.pair[1] \in 0 .. MaxTopics
    BY <1>2 DEF Frames
  <2> QED
    BY <1>2, <1>3, <2>1 DEF Frames
<1>5. stack' = IF subscriptionList[Top.pair[1]].count = 1 THEN WithTop(g) ELSE <<>>
  BY <1>2, <1>3 DEF SubscribeFails
<1>6. IF subscriptionList[Top.pair[1]].count = 1
        THEN stack' # <<>> /\ Len(stack') = 1 /\ stack'[1] = g
        ELSE stack' = <<>> /\ Len(stack') = 0
  BY <1>2, <1>4, <1>5, WithTopSeq
<1>7. BottomOnly' /\ \A n \in 1 .. Len(stack') : stack'[n].pc # "unsubscribe"
  BY <1>4, <1>6 DEF BottomOnly
<1>8. FramesKnow'
  BY <1>1, <1>7, BottomKnows DEF UseInv, FramesKnow
<1>9. ASSUME ListInv PROVE ListInv'
  <2>1. PICK f, a, r : Reserving(f, a, r)
    BY <1>1, <1>9, RequestReserving
  <2>2. /\ f = Top /\ f.pair[2] = r /\ f.pair[1] = a /\ Reserved = {a, r}
        /\ a \in Entries /\ r \in Entries /\ a # r /\ f.kind \in Kinds
        /\ subscriptionList[a].topic = AckTopic(f.action, "accepted")
        /\ subscriptionList[a].count # 1 => Pending = {}
        /\ Pending \subseteq {a} /\ BottomOnly /\ Unused(f.action)
    BY <2>1 DEF Reserving, Frames
  <2>3. subscriptionList \in [Entries -> Subscriptions]
    BY DEF RecordInv, TypeOK
  <2>4. /\ \A n \in Entries : n # a /\ n # r => subscriptionList'[n] = subscriptionList[n]
        /\ \A n \in Entries : subscriptionList'[n].topic = subscriptionList[n].topic
        /\ subscriptionList'[a].free /\ subscriptionList'[r].free
    BY <2>2, <2>3 DEF SubscribeFails, Subscriptions
  <2>5. /\ ~Requesting("subscribe")' /\ (Requesting("undo")' <=> subscriptionList[a].count = 1)
        /\ Reserved' = {} /\ Pending' = IF subscriptionList[a].count = 1 THEN {a} ELSE {}
    BY <1>4, <1>6, <2>2 DEF Requesting, Reserved, Pending
  <2>6. Live' = Live /\ \A n \in Live : subscriptionList'[n] = subscriptionList[n]
    BY <2>2, <2>4, <2>5 DEF Live, Entries
  <2>7. \A action : SameUse(action) /\ (Unused(action) => Unused(action)')
    BY <1>1, <1>7, <2>2, <2>6, OthersUse
  <2>8. PairsCounted'
    BY <1>9, <2>7, PairKept DEF ListInv, PairsCounted, RecordInv
  <2>9. LiveFirst'
    BY <1>9, <2>4, <2>6 DEF ListInv, LiveFirst, Topics, Entries, AckTopic, Live
  <2>10. UndoneAlone'
    <3> SUFFICES ASSUME Requesting("undo")' PROVE UndoneAlone'
      BY DEF UndoneAlone
    <3>1. stack'[1] = g /\ g.action = f.action /\ g.entry = a /\ g.rc = "FAILURE"
      BY <1>4, <1>6, <2>2, <2>5
    <3>2. Unused(g.action)'
      BY <2>2, <2>7, <3>1
    <3> QED
      BY <2>2, <2>4, <3>1, <3>2 DEF UndoneAlone, Entries, AckTopic
  <2>11. ReservedFirst' /\ UnsubscribesLast'
    BY <1>7, <2>5, BottomUnsubscribesLast DEF ReservedFirst
  <2>12. ListensToLive'
    BY <1>1, <1>9, <2>2, <2>5, <2>6 DEF ListInv, ListensToLive
  <2> QED
    BY <2>8, <2>9, <2>10, <2>11, <2>12 DEF ListInv
<1> QED
  BY <1>1, <1>8, <1>9 DEF UseInv

LEMMA UndoneKeepsUse ==
  ASSUME RecordInv, UseInv, Grows, RecordInv', Undone
  PROVE  UseInv'
<1>1. PICK topic, failed :
        /\ topic = subscriptionList[Top.entry].topic /\ "publish" \notin failed
        /\ \/ failed = {} /\ Unsubscribe(topic)
           \/ failed = {"unsubscribe"} \cap (IF topic \in Heard THEN Failures ELSE {})
              /\ UnsubscribeFailed(topic)
        /\ IF Top.rc = "SUCCESS" THEN Publish(Top, Below, failed)
           ELSE /\ stack' = Below /\ troubles' = troubles \cup failed
                /\ UNCHANGED <<ackWaitList, promised, persistent, service>>
  BY DEF Undone
<1>2. /\ At("action", "undo") /\ stack # <<>> /\ Top.op = "action" /\ Top.pc = "undo"
      /\ UNCHANGED <<subscriptionList, answered>>
  BY DEF Undone, At
<1>3. Len(stack) = 1 /\ Top = stack[1] /\ Below = <<>> /\ Top \in Frames
  BY <1>2, RequestAtTop, InvFacts
<1>4. stack' = <<>> /\ BottomOnly' /\ BottomOnly
  <2>1. stack' = <<>>
    BY <1>1, <1>3 DEF Publish
  <2> QED
    BY <1>2, <1>3, <2>1 DEF BottomOnly
<1>5. FramesKnow'
  <2>1. "publish" \in troubles' => "publish" \in Failures
    BY <1>1 DEF Publish, UseInv, FramesKnow
  <2> QED
    BY <1>4, <2>1, BottomKnows
<1>6. ASSUME troubles' \subseteq {"publish"} PROVE ListInv'
  <2>0. ListInv
    BY <1>6 DEF UseInv, Grows
  <2>1. Requesting("undo") /\ ~Requesting("subscribe") /\ Reserved = {}
        /\ Pending = {Top.entry}
    BY <1>2, <1>3 DEF Requesting, Reserved, Pending
  <2>2. /\ Unused(Top.action) /\ Top.rc = "FAILURE" /\ Top.entry \in Entries
        /\ subscriptionList[Top.entry].topic = AckTopic(Top.action, "accepted")
    BY <1>3, <2>0, <2>1 DEF ListInv, UndoneAlone
  <2>3. troubles' = troubles \cup failed /\ UNCHANGED ackWaitList
    BY <1>1, <2>2
  <2>4. \A pc : ~Requesting(pc)'
    BY <1>4 DEF Requesting
  <2>5. Reserved' = {} /\ Pending' = {} /\ Live' = Live
    BY <1>2, <2>1, <2>4 DEF Reserved, Pending, Live
  <2>6. \A n \in Live : subscriptionList[n].topic # topic /\ n \in Entries
    BY <1>1, <2>2 DEF Unused, LiveOf, Kinds, Live
  <2>7. ListensToLive'
    <3>1. handlers \subseteq Live \cup {Top.entry} /\ Live \subseteq handlers
      BY <2>0, <2>1 DEF ListInv, ListensToLive
    <3>2. CASE Unsubscribe(topic)
      BY <1>1, <2>5, <2>6, <3>1, <3>2 DEF Unsubscribe, ListensToLive
    <3>3. CASE /\ failed = {"unsubscribe"} \cap (IF topic \in Heard THEN Failures ELSE {})
               /\ UnsubscribeFailed(topic)
      <4>1. topic \notin Heard
        BY <1>6, <2>3, <3>3 DEF UnsubscribeFailed, Heard
      <4>2. Top.entry \notin handlers
        BY <1>1, <4>1 DEF Heard
      <4> QED
        BY <2>5, <3>1, <3>3, <4>2 DEF UnsubscribeFailed, ListensToLive
    <3> QED
      BY <1>1, <3>2, <3>3
  <2>8. \A action : SameUse(action)
    BY <1>2, <1>4, <2>3, <2>5, OthersUse
  <2>9. PairsCounted'
    BY <2>0, <2>8, PairKept DEF ListInv, PairsCounted, RecordInv
  <2>10. LiveFirst'
    BY <1>2, <2>0, <2>5 DEF ListInv, LiveFirst, Topics, Entries, AckTopic
  <2>11. UnsubscribesLast' /\ ReservedFirst' /\ UndoneAlone'
    BY <1>4, <2>4, BottomUnsubscribesLast DEF ReservedFirst, UndoneAlone
  <2> QED
    BY <2>7, <2>9, <2>10, <2>11 DEF ListInv
<1> QED
  BY <1>5, <1>6 DEF UseInv

LEMMA BothSubscribedKeepsUse ==
  ASSUME RecordInv, UseInv, Grows, RecordInv', BothSubscribed
  PROVE  UseInv'
<1>1. /\ At("action", "subscribe") /\ Top.kind = "rejected" /\ UNCHANGED <<requests, answered>>
      /\ Publish(Top, Below, {})
  BY DEF BothSubscribed
<1>2. PICK f : f = Top
  OBVIOUS
<1>3. /\ stack # <<>> /\ f.op = "action" /\ Len(stack) = 1 /\ Below = <<>> /\ f.kind = "rejected"
      /\ RequestOK(f) /\ f.ack \in Acks /\ ackWaitList[f.ack].free /\ f.token = requests
      /\ Fresh(f.token)
  BY <1>1, <1>2, RequestAtTop DEF At
<1>4. Publish(f, <<>>, {})
  BY <1>1, <1>2, <1>3
<1>5. stack' = <<>> /\ BottomOnly'
  BY <1>4 DEF Publish, BottomOnly
<1>6. FramesKnow'
  <2>1. "publish" \in troubles' => "publish" \in Failures
    BY <1>4 DEF Publish, UseInv, FramesKnow
  <2> QED
    BY <1>5, <2>1, BottomKnows
<1>7. ASSUME troubles' \subseteq {"publish"} PROVE ListInv'
  <2>0. ListInv
    BY <1>7 DEF UseInv, Grows
  <2>1. PICK g, a, r : Reserving(g, a, r)
    BY <1>1, <2>0, RequestReserving
  <2>2. /\ g = f /\ f.entry = r /\ a \in Entries /\ r \in Entries /\ a # r
        /\ Reserved = {a, r} /\ Pending = {a} /\ BottomOnly /\ Unused(f.action)
        /\ f.action \in Actions /\ f.sticky \in BOOLEAN
        /\ subscriptionList[a].topic = AckTopic(f.action, "accepted")
        /\ subscriptionList[r].topic = AckTopic(f.action, "rejected")
        /\ a \in handlers /\ subscriptionList[a].count = 1
        /\ subscriptionList[a].sticky = f.sticky
        /\ ~subscriptionList[a].free /\ ~subscriptionList[r].free
    BY <1>2, <1>3, <2>1 DEF Reserving, Frames
  <2>3. subscriptionList \in [Entries -> Subscriptions]
    BY DEF RecordInv, TypeOK
  <2>4. /\ \A n \in Entries : n # r => subscriptionList'[n] = subscriptionList[n]
        /\ \A n \in Entries : subscriptionList'[n].topic = subscriptionList[n].topic
        /\ subscriptionList'[r].count = 1 /\ subscriptionList'[r].sticky = f.sticky
        /\ subscriptionList'[r].free = subscriptionList[r].free
        /\ handlers' = handlers \cup {r}
    BY <1>2, <2>2, <2>3 DEF BothSubscribed, Subscriptions
  <2>5. (\A pc : ~Requesting(pc)') /\ Reserved' = {} /\ Pending' = {}
    BY <1>5 DEF Requesting, Reserved, Pending
  <2>6. Live' = Live \cup {a, r} /\ Live \subseteq Entries
    BY <2>2, <2>4, <2>5 DEF Live, Entries
  <2>7. \A n \in Live : /\ n # a /\ n # r
                        /\ \A kind \in Kinds : subscriptionList[n].topic # AckTopic(f.action, kind)
    BY <2>1, <2>2 DEF Reserving
  <2>8. /\ LiveOf(f.action, "accepted")' = {a} /\ LiveOf(f.action, "rejected")' = {r}
        /\ \A other, kind : other # f.action => LiveOf(other, kind)' = LiveOf(other, kind)
    <3>1. \A other, kind : LiveOf(other, kind)' =
            {n \in Live \cup {a, r} : subscriptionList[n].topic = AckTopic(other, kind)}
      BY <2>2, <2>4, <2>6 DEF LiveOf, AckTopic
    <3>2. AckTopic(f.action, "accepted") # AckTopic(f.action, "rejected")
      BY TopicsDiffer
    <3>3. LiveOf(f.action, "accepted")' = {a} /\ LiveOf(f.action, "rejected")' = {r}
      BY <2>2, <2>7, <3>1, <3>2 DEF Kinds
    <3>4. ASSUME NEW other, NEW kind, other # f.action
          PROVE  LiveOf(other, kind)' = LiveOf(other, kind)
      <4>1. /\ subscriptionList[a].topic # AckTopic(other, kind)
            /\ subscriptionList[r].topic # AckTopic(other, kind)
        BY <2>2, <3>4, TopicsDiffer
      <4> QED
        BY <3>1, <4>1 DEF LiveOf
    <3> QED
      BY <3>3, <3>4
  <2>9. /\ \A t, other : other # f.action => (Waits(t, other)' <=> Waits(t, other))
        /\ \/ /\ \A t : Waits(t, f.action)' <=> Waits(t, f.action) \/ t = f.token
              /\ f.sticky => f.action \in persistent'
           \/ /\ \A t : Waits(t, f.action)' <=> Waits(t, f.action)
              /\ "publish" \in troubles'
    BY <1>1, <1>3, <1>4, PublishWaits
  <2>10. PairCounted(f.action)'
    <3>1. /\ ~HasHalf(f.action)' /\ \A t : ~Releases(t, f.action, "accepted")
          /\ \A t : ~Releases(t, f.action, "accepted")'
      BY <1>5, <2>2, BottomReleasesNone DEF HasHalf
    <3>2. f.token \in Tokens /\ Tokens' = Tokens
      BY <1>3 DEF RequestOK, Tokens
    <3>3. Users(f.action) = {} /\ \A t \in Tokens : ~Waits(t, f.action)
      BY <2>2 DEF Unused, Users
    <3>4. PICK users : users = Cardinality(Users(f.action)')
      OBVIOUS
    <3>5. requests' = requests /\ requests \in Nat /\ 1 <= requests
      BY <1>1, <1>3, <3>2 DEF Grows, Tokens
    <3>6. Counts(subscriptionList[r], users, f.action)'
      <4>1. CASE /\ \A t : Waits(t, f.action)' <=> Waits(t, f.action) \/ t = f.token
                 /\ f.sticky => f.action \in persistent'
        <5>1. Users(f.action)' = {f.token}
          BY <3>1, <3>2, <3>3, <4>1 DEF Users
        <5>2. users = 1
          BY <3>4, <5>1, FS_Singleton
        <5> QED
          BY <2>4, <3>5, <4>1, <5>2 DEF Counts
      <4>2. CASE /\ \A t : Waits(t, f.action)' <=> Waits(t, f.action)
                 /\ "publish" \in troubles'
        <5>1. Users(f.action)' = {}
          BY <3>1, <3>2, <3>3, <4>2 DEF Users
        <5>2. users = 0
          BY <3>4, <5>1, FS_EmptySet
        <5> QED
          BY <2>4, <3>5, <4>2, <5>2 DEF Counts
      <4> QED
        BY <2>9, <4>1, <4>2
    <3>7. /\ subscriptionList'[a].count = subscriptionList'[r].count
          /\ subscriptionList'[a].sticky = subscriptionList'[r].sticky
      BY <2>2, <2>4
    <3>8. Settled(f.action)'
      BY <2>8, <3>4, <3>6, <3>7 DEF Settled
    <3> QED
      BY <3>1, <3>8 DEF PairCounted
  <2>11. PairsCounted'
    <3>1. ASSUME NEW other, other # f.action PROVE SameUse(other)
      <4>1. Users(other)' = Users(other) /\ ~HasHalf(other) /\ ~HasHalf(other)'
        BY <1>5, <2>2, <2>9, <3>1, BottomUses
      <4>2. \A kind \in Kinds : \A n \in LiveOf(other, kind) :
              subscriptionList'[n] = subscriptionList[n]
        BY <2>4, <2>7 DEF LiveOf, Live
      <4> QED
        BY <2>8, <3>1, <4>1, <4>2 DEF SameUse
    <3> QED
      BY <2>0, <2>10, <3>1, OthersCounted DEF ListInv, RecordInv
  <2>12. LiveFirst'
    <3>1. \A n \in Entries :
            /\ subscriptionList[n].topic = AckTopic(f.action, "accepted") => a <= n
            /\ subscriptionList[n].topic = AckTopic(f.action, "rejected") => r <= n
      BY <2>1, <2>2 DEF Reserving
    <3>2. AckTopic(f.action, "accepted") \in Topics /\ AckTopic(f.action, "rejected") \in Topics
      BY <2>2, TopicType DEF Kinds
    <3>3. ASSUME NEW m \in Live \cup {a, r}
          PROVE  /\ subscriptionList[m].topic \in Topics
                 /\ \A n \in Entries : subscriptionList[n].topic = subscriptionList[m].topic => m <= n
      BY <2>0, <2>2, <3>1, <3>2 DEF ListInv, LiveFirst
    <3> QED
      BY <2>2, <2>4, <2>6, <3>3 DEF LiveFirst, Topics, Entries, AckTopic
  <2>13. ListensToLive'
    BY <2>0, <2>2, <2>4, <2>5, <2>6 DEF ListInv, ListensToLive
  <2>14. UnsubscribesLast' /\ ReservedFirst' /\ UndoneAlone'
    BY <1>5, <2>5, BottomUnsubscribesLast DEF ReservedFirst, UndoneAlone
  <2> QED
    BY <2>11, <2>12, <2>13, <2>14 DEF ListInv
<1> QED
  BY <1>6, <1>7 DEF UseInv

LEMMA RequestKeepsUse ==
  ASSUME CallbackActions = {}, CountSuffices, RecordInv, UseInv, Grows, RecordInv', RequestNext
  PROVE  UseInv'
  BY RequestRefusedKeepsUse, RequestCountedKeepsUse, RequestSubscribesKeepsUse,
     RequestUnheardKeepsUse, SubscribeReturnsKeepsUse, BothSubscribedKeepsUse,
     SubscribeFailsKeepsUse, UndoneKeepsUse DEF RequestNext

----------------------------------------------------------------------------
(* The topics of waiting requests *)

LEMMA InitUse == Init => UseInv
<1> SUFFICES ASSUME Init PROVE UseInv
  OBVIOUS
<1>1. /\ stack = <<>> /\ 1 .. Len(stack) = {} /\ handlers = {} /\ troubles = {}
      /\ \A n \in Entries : subscriptionList[n].free
      /\ \A i \in Acks : ackWaitList[i].free
  BY DEF Init
<1>2. /\ \A pc : ~Requesting(pc)
      /\ Reserved = {} /\ Pending = {} /\ Live = {} /\ \A action, kind : LiveOf(action, kind) = {}
  BY <1>1 DEF Requesting, Reserved, Pending, Live, LiveOf
<1>3. \A action : Users(action) = {} /\ ~HasHalf(action)
  BY <1>1 DEF Users, HasHalf, Waits, Outstanding, Releases
<1>4. PairsCounted
  BY <1>2, <1>3 DEF PairsCounted, PairCounted, Settled
<1>5. LiveFirst /\ UnsubscribesLast /\ ReservedFirst /\ UndoneAlone /\ ListensToLive
  BY <1>1, <1>2 DEF LiveFirst, UnsubscribesLast, ReservedFirst, UndoneAlone, ListensToLive
<1>6. FramesKnow
  BY <1>1 DEF FramesKnow
<1> QED
  BY <1>4, <1>5, <1>6 DEF UseInv, ListInv

LEMMA StutterUse ==
  ASSUME RecordInv, UseInv, RecordInv', UNCHANGED vars
  PROVE  UseInv'
<1>1. /\ UNCHANGED <<ackWaitList, subscriptionList, handlers, stack>>
      /\ UNCHANGED <<requests, answered, persistent, troubles>>
  BY DEF vars, lists, history
<1>2. SameWaits /\ SameReleases /\ SameRequest
  BY <1>1 DEF SameWaits, Outstanding, SameReleases, SameRequest, Requesting
<1>3. FramesKnow'
  BY <1>1 DEF UseInv, FramesKnow, Releasing, Holding, Tokens
<1>4. Grows
  BY <1>1 DEF Grows, RecordInv, TypeOK
<1> QED
  BY <1>1, <1>2, <1>3, <1>4, QuietKeepsUse

(* When callbacks make no requests and counts do not wrap around: the count   *)
(* of a topic covers the requests that use it, a function that unsubscribes a *)
(* topic is its last user, and the client listens to every topic in use       *)
(* (records.c:250-288, 304-401).                                              *)
THEOREM ShadowInvariance ==
  ASSUME CallbackActions = {}, CountSuffices
  PROVE  Spec => []ShadowInv
<1>1. ASSUME RecordInv, UseInv, RecordInv', [Next]_vars PROVE UseInv'
  <2>1. CASE Next
    <3>1. Grows
      BY <1>1, <2>1, HistoryGrows DEF RecordInv
    <3> QED
      BY <1>1, <2>1, <3>1, RequestKeepsUse, AnswerKeepsUse DEF Next
  <2>2. CASE UNCHANGED vars
    BY <1>1, <2>2, StutterUse
  <2> QED
    BY <1>1, <2>1, <2>2
<1> QED
  BY InitUse, <1>1, RecordInvariance, PTL DEF Spec, ShadowInv

(* A request that waits for its answer has both topics of the answer, however *)
(* many requests share them and end before it (records.c:250-288), unless an  *)
(* unsubscription failed or the list of subscriptions was full.               *)
THEOREM TopicsAreHeard ==
  ASSUME CallbackActions = {}, CountSuffices
  PROVE  Spec => []AnswerHeard
<1>1. ASSUME ShadowInv PROVE AnswerHeard
  <2> SUFFICES ASSUME troubles \subseteq {"publish"}, NEW i \in Acks, NEW kind \in Kinds,
                      Outstanding(i)
               PROVE  AckTopic(ackWaitList[i].action, kind) \in Heard
    BY DEF AnswerHeard
  <2>1. PICK action : action = ackWaitList[i].action
    OBVIOUS
  <2>2. action \in Actions /\ ackWaitList[i].token \in Tokens
    BY <1>1, <2>1 DEF ShadowInv, RecordInv, TypeOK, Records, Outstanding, TokensInOrder, Tokens
  <2>3. ackWaitList[i].token \in Users(action)
    BY <2>1, <2>2 DEF Users, Waits
  <2>4. Cardinality(Users(action)) \in Nat /\ Cardinality(Users(action)) # 0
    BY <2>3, UsersFinite
  <2>5. PairCounted(action) /\ Live \subseteq handlers
    BY <1>1, <2>2 DEF ShadowInv, UseInv, ListInv, PairsCounted, ListensToLive
  <2>6. LiveOf(action, "accepted") # {} /\ LiveOf(action, "rejected") # {}
    <3>1. CASE HasHalf(action)
      BY <2>4, <2>5, <3>1 DEF PairCounted, HalfReleased, Counts, IsLastUse
    <3>2. CASE ~HasHalf(action)
      BY <2>3, <2>5, <3>2 DEF PairCounted, Settled
    <3> QED
      BY <3>1, <3>2
  <2>7. PICK n \in LiveOf(action, kind) : TRUE
    BY <2>6 DEF Kinds
  <2> QED
    BY <2>1, <2>5, <2>7 DEF LiveOf, Heard
<1> QED
  BY <1>1, ShadowInvariance, PTL

(* When no request is left, requests that are not persistent leave no topic   *)
(* subscribed (aws_iot_shadow_interface.h:188), unless a call failed.         *)
THEOREM NothingStaysSubscribed ==
  ASSUME CallbackActions = {}, CountSuffices
  PROVE  Spec => []NothingLeft
<1>1. ASSUME ShadowInv PROVE NothingLeft
  <2> SUFFICES ASSUME troubles = {}, stack = <<>>, \A i \in Acks : ackWaitList[i].free,
                      NEW topic \in Heard
               PROVE  \E action \in persistent, kind \in Kinds : topic = AckTopic(action, kind)
    BY DEF NothingLeft
  <2>0. ListInv
    BY <1>1 DEF ShadowInv, UseInv
  <2>1. PICK n \in handlers : subscriptionList[n].topic = topic
    BY DEF Heard
  <2>2. Pending = {}
    BY DEF Pending, Requesting
  <2>3. n \in Live
    BY <2>0, <2>2 DEF ListInv, ListensToLive
  <2>4. PICK action \in Actions, kind \in Kinds : topic = AckTopic(action, kind)
    BY <2>0, <2>1, <2>3 DEF ListInv, LiveFirst, Topics
  <2>5. n \in LiveOf(action, kind)
    BY <2>1, <2>3, <2>4 DEF LiveOf
  <2>6. Users(action) = {} /\ ~HasHalf(action)
    <3>1. 1 .. Len(stack) = {}
      OBVIOUS
    <3> QED
      BY <3>1 DEF Users, HasHalf, Waits, Outstanding, Releases
  <2>7. Settled(action)
    BY <2>0, <2>6 DEF ListInv, PairsCounted, PairCounted
  <2>8. PICK r \in LiveOf(action, "rejected") :
          Counts(subscriptionList[r], Cardinality(Users(action)), action)
    BY <2>5, <2>7 DEF Settled, Kinds
  <2>9. Cardinality(Users(action)) = 0
    BY <2>6, UsersFinite
  <2>10. action \in persistent
    BY <2>8, <2>9 DEF Counts
  <2> QED
    BY <2>4, <2>10
<1> QED
  BY <1>1, ShadowInvariance, PTL

=============================================================================
