-------------------------- MODULE MqttClientProofs --------------------------
(***************************************************************************)
(* The invariant of the call stack, and what follows from it.  The lemmas  *)
(* of the first part say what each kind of change of the stack does to the *)
(* invariant; frames are compared field by field, because a step changes   *)
(* few of their fields.  The second part applies them to the actions.      *)
(***************************************************************************)
EXTENDS MqttClientTypes

----------------------------------------------------------------------------
(* Changes of the stack *)

(* The top frame moves on; operation, saved state and session stay.           *)
LEMMA TopMoves ==
  ASSUME StackInv, NEW n \in Nat \ {0}, Len(stack) = n, Len(stack') = n,
         \A i \in 1 .. n - 1 : stack'[i] = stack[i],
         stack'[n].op = stack[n].op, stack'[n].saved = stack[n].saved,
         stack'[n].live = stack[n].live,
         stack'[n].op = "yield" /\ stack'[n].pc \in {"handler", "reconnect"}
           => ~stack'[n].live,
         stack'[n].pc = "wait" =>
           stack'[n].op \in {"connect"} \cup (Restoring \ {"deliver"}),
         clientState' = clientState
  PROVE  StackInv'
<1>1. \A i \in 1 .. n : /\ stack'[i].op = stack[i].op
                        /\ stack'[i].saved = stack[i].saved
                        /\ stack'[i].live = stack[i].live
  OBVIOUS
<1>2. StateOwned'
  BY <1>1 DEF StackInv, StateOwned
<1>3. LiveAbove'
  BY <1>1 DEF StackInv, LiveAbove
<1>4. SavedOwned'
  BY <1>1 DEF StackInv, SavedOwned
<1>5. NoSession'
  BY <1>1 DEF StackInv, NoSession, IsConnected
<1>6. YieldDead'
  BY <1>1 DEF StackInv, YieldDead
<1>7. YieldCalls'
  BY <1>1 DEF StackInv, YieldCalls
<1>8. WaitsForAck'
  BY <1>1 DEF StackInv, WaitsForAck
<1>9. ConnectOnTop'
  BY <1>1 DEF StackInv, ConnectOnTop
<1> QED
  BY <1>2, <1>3, <1>4, <1>5, <1>6, <1>7, <1>8, <1>9 DEF StackInv

(* Sessions end: frames may go from the top, and no operation left is live.    *)
LEMMA SessionEnds ==
  ASSUME StackInv, NEW n \in Nat, NEW m \in Nat, n <= m, Len(stack) = m, Len(stack') = n,
         \A i \in 1 .. n : /\ stack'[i].op = stack[i].op
                           /\ stack'[i].op \in Owning => ~stack'[i].live,
         \A i \in 1 .. n - 1 : stack'[i].pc = stack[i].pc,
         n # 0 => stack'[n].pc = stack[n].pc \/ stack'[n].pc # "wait",
         clientState' \notin ConnectedStates
  PROVE  StackInv'
<1>1. StateOwned'
  BY DEF StateOwned, ConnectedStates
<1>2. LiveAbove'
  BY DEF LiveAbove
<1>3. SavedOwned'
  BY DEF SavedOwned, Owning
<1>4. NoSession'
  BY DEF NoSession
<1>5. YieldDead'
  BY DEF YieldDead, Owning
<1>6. YieldCalls'
  <2> SUFFICES ASSUME NEW i \in 1 .. n - 1, stack'[i].op = "yield"
               PROVE  /\ stack'[i].pc \in {"deliver", "handler", "reconnect"}
                      /\ stack'[i].pc = "deliver" => stack'[i + 1].op = "deliver"
    BY DEF YieldCalls
  <2>1. i \in 1 .. m - 1 /\ i \in 1 .. n /\ i + 1 \in 1 .. n
    OBVIOUS
  <2> QED
    BY <2>1 DEF StackInv, YieldCalls
<1>7. WaitsForAck'
  BY DEF StackInv, WaitsForAck
<1>8. ConnectOnTop'
  BY DEF StackInv, ConnectOnTop
<1> QED
  BY <1>1, <1>2, <1>3, <1>4, <1>5, <1>6, <1>7, <1>8 DEF StackInv

(* The top frame returns, to a state that is owned below it.                   *)
LEMMA Pops ==
  ASSUME StackInv, NEW n \in Nat, Len(stack) = n + 1, Len(stack') = n,
         \A i \in 1 .. n : stack'[i] = stack[i],
         clientState' \in Busy =>
           \E j \in 1 .. n : stack[j].live /\ Holds(stack[j].op) = clientState',
         clientState' \notin ConnectedStates =>
           \A j \in 1 .. n : stack[j].op \in Owning => ~stack[j].live
  PROVE  StackInv'
<1>1. StateOwned'
  BY DEF StateOwned
<1>2. LiveAbove'
  BY DEF StackInv, LiveAbove
<1>3. SavedOwned'
  BY DEF StackInv, SavedOwned
<1>4. NoSession'
  BY DEF NoSession, IsConnected
<1>5. YieldDead'
  BY DEF StackInv, YieldDead
<1>6. YieldCalls'
  <2> SUFFICES ASSUME NEW i \in 1 .. n - 1, stack'[i].op = "yield"
               PROVE  /\ stack'[i].pc \in {"deliver", "handler", "reconnect"}
                      /\ stack'[i].pc = "deliver" => stack'[i + 1].op = "deliver"
    BY DEF YieldCalls
  <2>1. i \in 1 .. n + 1 - 1 /\ i \in 1 .. n /\ i + 1 \in 1 .. n
    OBVIOUS
  <2> QED
    BY <2>1 DEF StackInv, YieldCalls
<1>7. WaitsForAck'
  BY DEF StackInv, WaitsForAck
<1>8. ConnectOnTop'
  BY DEF StackInv, ConnectOnTop
<1> QED
  BY <1>1, <1>2, <1>3, <1>4, <1>5, <1>6, <1>7, <1>8 DEF StackInv

(* An operation of the session, or a delivery, starts on top of a frame that may *)
(* make it: not a connect, and yield only where it calls.                      *)
LEMMA Pushes ==
  ASSUME StackInv, NEW n \in Nat, Len(stack) = n, Len(stack') = n + 1,
         \A i \in 1 .. n : /\ stack'[i].op = stack[i].op
                           /\ stack'[i].saved = stack[i].saved
                           /\ stack'[i].live = stack[i].live,
         \A i \in 1 .. n - 1 : stack'[i].pc = stack[i].pc,
         n # 0 => /\ stack[n].op # "connect"
                  /\ stack'[n].pc = stack[n].pc \/ stack'[n].pc = "deliver",
         n # 0 /\ stack[n].op = "yield" =>
           \/ stack'[n].pc = "deliver" /\ stack'[n + 1].op = "deliver"
           \/ stack'[n].pc = stack[n].pc /\ stack[n].pc \in {"handler", "reconnect"},
         stack'[n + 1].op \in Owning, stack'[n + 1].live,
         stack'[n + 1].op = "yield" => stack'[n + 1].pc = "loop",
         stack'[n + 1].pc = "wait" => stack'[n + 1].op \in Restoring \ {"deliver"},
         stack'[n + 1].saved = clientState,
         clientState' = Holds(stack'[n + 1].op)
  PROVE  StackInv'
<1>1. clientState' \in Busy
  BY DEF Holds, Busy, Owning, Restoring
<1>2. StateOwned'
  BY DEF StateOwned
<1>3. LiveAbove'
  <2> SUFFICES ASSUME NEW i \in 1 .. n + 1, NEW j \in 1 .. n + 1, i < j,
                      stack'[i].op \in Owning, stack'[i].live
               PROVE  stack'[j].live
    BY DEF LiveAbove
  <2>1. CASE j = n + 1
    BY <2>1
  <2>2. CASE j \in 1 .. n
    BY <2>2 DEF StackInv, LiveAbove
  <2> QED
    BY <2>1, <2>2
<1>4. SavedOwned'
  <2> SUFFICES ASSUME NEW i \in 1 .. n + 1, stack'[i].live, stack'[i].op \in Restoring
               PROVE  /\ stack'[i].saved \in Busy =>
                           \E j \in 1 .. i - 1 :
                             stack'[j].live /\ Holds(stack'[j].op) = stack'[i].saved
                      /\ stack'[i].saved \notin ConnectedStates =>
                           \A j \in 1 .. i - 1 : stack'[j].op \in Owning => ~stack'[j].live
    BY DEF SavedOwned
  <2>1. CASE i = n + 1
    BY <2>1 DEF StackInv, StateOwned, NoSession, IsConnected
  <2>2. CASE i \in 1 .. n
    BY <2>2 DEF StackInv, SavedOwned
  <2> QED
    BY <2>1, <2>2
<1>5. NoSession'
  BY <1>1 DEF NoSession, IsConnected, ConnectedStates
<1>6. YieldDead'
  <2> SUFFICES ASSUME NEW i \in 1 .. n + 1, stack'[i].op = "yield",
                      stack'[i].pc \in {"handler", "reconnect"}
               PROVE  ~stack'[i].live
    BY DEF YieldDead
  <2>1. i \in 1 .. n
    OBVIOUS
  <2> QED
    BY <2>1 DEF StackInv, YieldDead
<1>7. YieldCalls'
  <2> SUFFICES ASSUME NEW i \in 1 .. n, stack'[i].op = "yield"
               PROVE  /\ stack'[i].pc \in {"deliver", "handler", "reconnect"}
                      /\ stack'[i].pc = "deliver" => stack'[i + 1].op = "deliver"
    BY DEF YieldCalls
  <2>1. CASE i = n
    BY <2>1
  <2>2. CASE i \in 1 .. n - 1
    BY <2>2 DEF StackInv, YieldCalls
  <2> QED
    BY <2>1, <2>2
<1>8. WaitsForAck'
  <2> SUFFICES ASSUME NEW i \in 1 .. n + 1, stack'[i].pc = "wait"
               PROVE  stack'[i].op \in {"connect"} \cup (Restoring \ {"deliver"})
    BY DEF WaitsForAck
  <2>1. CASE i = n + 1
    BY <2>1
  <2>2. CASE i \in 1 .. n
    BY <2>2 DEF StackInv, WaitsForAck
  <2> QED
    BY <2>1, <2>2
<1>9. ConnectOnTop'
  BY DEF StackInv, ConnectOnTop
<1> QED
  BY <1>2, <1>3, <1>4, <1>5, <1>6, <1>7, <1>8, <1>9 DEF StackInv

(* A call starts without a session: connect, attempt_reconnect, or yield while *)
(* a reconnect is pending.                                                     *)
LEMMA PushesDead ==
  ASSUME StackInv, NEW n \in Nat, Len(stack) = n, Len(stack') = n + 1,
         \A i \in 1 .. n : /\ stack'[i].op = stack[i].op
                           /\ stack'[i].pc = stack[i].pc
                           /\ stack'[i].op \in Owning => ~stack'[i].live,
         n # 0 => /\ stack[n].op # "connect"
                  /\ stack[n].op = "yield" => stack[n].pc \in {"handler", "reconnect"},
         stack'[n + 1].op \in Owning => ~stack'[n + 1].live,
         stack'[n + 1].pc = "wait" => stack'[n + 1].op = "connect",
         clientState' \notin ConnectedStates
  PROVE  StackInv'
<1>1. \A i \in 1 .. n + 1 : stack'[i].op \in Owning => ~stack'[i].live
  OBVIOUS
<1>2. StateOwned'
  BY DEF StateOwned, ConnectedStates
<1>3. LiveAbove'
  BY <1>1 DEF LiveAbove
<1>4. SavedOwned'
  BY <1>1 DEF SavedOwned, Owning
<1>5. NoSession'
  BY <1>1 DEF NoSession
<1>6. YieldDead'
  BY <1>1 DEF YieldDead, Owning
<1>7. YieldCalls'
  <2> SUFFICES ASSUME NEW i \in 1 .. n, stack'[i].op = "yield"
               PROVE  /\ stack'[i].pc \in {"deliver", "handler", "reconnect"}
                      /\ stack'[i].pc = "deliver" => stack'[i + 1].op = "deliver"
    BY DEF YieldCalls
  <2>1. CASE i = n
    BY <2>1
  <2>2. CASE i \in 1 .. n - 1
    BY <2>2 DEF StackInv, YieldCalls
  <2> QED
    BY <2>1, <2>2
<1>8. WaitsForAck'
  <2> SUFFICES ASSUME NEW i \in 1 .. n + 1, stack'[i].pc = "wait"
               PROVE  stack'[i].op \in {"connect"} \cup (Restoring \ {"deliver"})
    BY DEF WaitsForAck
  <2>1. CASE i = n + 1
    BY <2>1
  <2>2. CASE i \in 1 .. n
    BY <2>2 DEF StackInv, WaitsForAck
  <2> QED
    BY <2>1, <2>2
<1>9. ConnectOnTop'
  BY DEF StackInv, ConnectOnTop
<1> QED
  BY <1>2, <1>3, <1>4, <1>5, <1>6, <1>7, <1>8, <1>9 DEF StackInv

(* yield on top takes over the session that its reconnect made.                *)
LEMMA Revives ==
  ASSUME StackInv, NEW n \in Nat \ {0}, Len(stack) = n, Len(stack') = n,
         \A i \in 1 .. n - 1 : stack'[i] = stack[i],
         stack[n].op = "yield", stack'[n].op = "yield", stack'[n].live,
         stack'[n].pc = "check", clientState' = "YIELD_IN_PROGRESS"
  PROVE  StackInv'
<1>1. StateOwned'
  BY DEF StateOwned, Holds
<1>2. LiveAbove'
  BY DEF StackInv, LiveAbove
<1>3. SavedOwned'
  <2> SUFFICES ASSUME NEW i \in 1 .. n - 1, stack'[i].live, stack'[i].op \in Restoring
               PROVE  /\ stack'[i].saved \in Busy =>
                           \E j \in 1 .. i - 1 :
                             stack'[j].live /\ Holds(stack'[j].op) = stack'[i].saved
                      /\ stack'[i].saved \notin ConnectedStates =>
                           \A j \in 1 .. i - 1 : stack'[j].op \in Owning => ~stack'[j].live
    BY DEF SavedOwned, Restoring
  <2> QED
    BY DEF StackInv, SavedOwned
<1>4. NoSession'
  BY DEF NoSession, IsConnected, ConnectedStates, Busy
<1>5. YieldDead'
  BY DEF StackInv, YieldDead
<1>6. YieldCalls'
  BY DEF StackInv, YieldCalls
<1>7. WaitsForAck'
  BY DEF StackInv, WaitsForAck
<1>8. ConnectOnTop'
  BY DEF StackInv, ConnectOnTop
<1> QED
  BY <1>1, <1>2, <1>3, <1>4, <1>5, <1>6, <1>7, <1>8 DEF StackInv

(* Neither the stack nor the state changes.                                    *)
LEMMA StackSame ==
  ASSUME StackInv, UNCHANGED <<stack, clientState>>
  PROVE  StackInv'
  BY DEF StackInv, StateOwned, LiveAbove, SavedOwned, NoSession, YieldDead, YieldCalls,
         WaitsForAck, ConnectOnTop, IsConnected

(* When the top of the stack is dead, so is every operation below it.          *)
LEMMA DeadBelow ==
  ASSUME StackInv, NEW n \in Nat \ {0}, Len(stack) = n, ~stack[n].live
  PROVE  \A i \in 1 .. n : stack[i].op \in Owning => ~stack[i].live
  BY DEF StackInv, LiveAbove

----------------------------------------------------------------------------
(* What the frame on top shows after a step *)

(* A frame that a return uncovers was making a call: it is not a connect, and  *)
(* it is a yield that delivers only if a delivery returned.                    *)
LEMMA Uncovers ==
  ASSUME StackInv, NEW n \in Nat, Len(stack) = n + 1, Len(stack') = n,
         \A i \in 1 .. n : stack'[i].op = stack[i].op /\ stack'[i].pc = stack[i].pc,
         stack[n + 1].op = "deliver" => ret' \notin Disconnections \cup {"NETWORK_RECONNECTED"},
         n = 0 => stack' = <<>>
  PROVE  ResultInv'
<1>1. CASE n = 0
  BY <1>1 DEF ResultInv, YieldResult, DeliverResult, ConnectWaits, At, Waiting
<1>2. CASE n # 0
  <2>1. n \in 1 .. n + 1 - 1 /\ n \in 1 .. n
    BY <1>2
  <2>2. stack'[n].op # "connect"
    BY <2>1 DEF StackInv, ConnectOnTop
  <2>3. stack'[n].op = "yield" =>
          /\ stack'[n].pc \in {"deliver", "handler", "reconnect"}
          /\ stack'[n].pc = "deliver" =>
               ret' \notin Disconnections \cup {"NETWORK_RECONNECTED"}
    BY <2>1 DEF StackInv, YieldCalls
  <2>4. Top' = stack'[n]
    BY DEF Top
  <2>5. YieldResult'
    BY <2>3, <2>4 DEF YieldResult, At
  <2>6. DeliverResult'
    BY <2>3, <2>4 DEF DeliverResult, At
  <2>7. ConnectWaits'
    BY <2>2, <2>4 DEF ConnectWaits, Waiting, At
  <2> QED
    BY <2>5, <2>6, <2>7 DEF ResultInv
<1> QED
  BY <1>1, <1>2

(* Nothing is claimed of other places.                                         *)
LEMMA Elsewhere ==
  ASSUME stack' # <<>> =>
           /\ Top'.op = "connect" => Top'.pc # "wait"
           /\ Top'.op = "yield" => Top'.pc \notin {"check", "deliver"}
  PROVE  ResultInv'
  BY DEF ResultInv, YieldResult, DeliverResult, ConnectWaits, At, Waiting

(* yield has an outcome to return.                                             *)
LEMMA Checks ==
  ASSUME stack' # <<>>, Top'.op = "yield", Top'.pc = "check",
         ret' \in Disconnections => ~Top'.live,
         ret' = "NETWORK_RECONNECTED" => clientState' = "YIELD_IN_PROGRESS"
  PROVE  ResultInv'
  BY DEF ResultInv, YieldResult, DeliverResult, ConnectWaits, At, Waiting

(* Where calls come from.                                                      *)
LEMMA CalledFrom ==
  ASSUME NEW op, AppCalls(op) \/ SdkCalls(op), stack # <<>>
  PROVE  \/ Top.op = "deliver" /\ Top.pc = "callback"
         \/ Top.op = "yield" /\ Top.pc \in {"handler", "reconnect"}
         \/ Top.op = "reconnect" /\ Top.pc \in {"connect", "resubscribe"}
  BY DEF AppCalls, SdkCalls, InMessageCallback, InDisconnectHandler, At

(* Returning to such a frame, or staying at it, claims nothing.                *)
LEMMA CallerStays ==
  ASSUME NEW op, AppCalls(op) \/ SdkCalls(op),
         stack' # <<>> => stack # <<>> /\ Top'.op = Top.op /\ Top'.pc = Top.pc
  PROVE  ResultInv'
<1>1. ASSUME stack' # <<>>
      PROVE  /\ Top'.op = "connect" => Top'.pc # "wait"
             /\ Top'.op = "yield" => Top'.pc \notin {"check", "deliver"}
  BY <1>1, CalledFrom
<1> QED
  BY <1>1, Elsewhere

----------------------------------------------------------------------------
(* Returns *)

(* A request or a delivery ends: it restores the state it saved if the state   *)
(* is still its own, and leaves the state of another session alone.            *)
LEMMA FinishInv ==
  ASSUME IInv, stack # <<>>, Top.op \in Restoring, NEW rc,
         rc \in {"SUCCESS", "FAILURE", "MQTT_REQUEST_TIMEOUT_ERROR"},
         Finish(rc)
  PROVE  StackInv' /\ ResultInv' /\ (UNCHANGED ssock => ConnectedHasSocket')
<1> DEFINE n == Len(stack) - 1
<1>1. /\ n \in Nat /\ Len(stack) = n + 1 /\ Len(stack') = n
      /\ \A i \in 1 .. n : stack'[i] = stack[i]
      /\ Top = stack[n + 1] /\ stack' \in Seq(Frames)
  BY BelowSeq DEF Finish, Return, IInv, TypeOK, Top
<1>2. Holds(Top.op) \in Busy
  BY DEF Holds, Busy, Restoring
<1>3. clientState' = IF clientState = Holds(Top.op) THEN Top.saved ELSE clientState
  BY DEF Finish, SetClientState
<1>4. ret' \notin Disconnections \cup {"NETWORK_RECONNECTED"}
  BY DEF Finish, Return, Disconnections
<1> HIDE DEF n
<1>5. CASE clientState = Holds(Top.op)
  <2>1. PICK j \in 1 .. n + 1 : stack[j].live /\ Holds(stack[j].op) = clientState
    BY <1>1, <1>2, <1>5 DEF IInv, StackInv, StateOwned
  <2>2. Top.live
    <3>1. CASE j = n + 1
      BY <2>1, <3>1, <1>1
    <3>2. CASE j # n + 1
      <4>1. stack[j].op \in Owning
        BY <2>1, <1>2, <1>5 DEF Holds, Owning, Restoring, Busy
      <4> QED
        BY <2>1, <3>2, <4>1, <1>1 DEF IInv, StackInv, LiveAbove
    <3> QED
      BY <3>1, <3>2
  <2>3. /\ Top.saved \in Busy =>
             \E k \in 1 .. n : stack[k].live /\ Holds(stack[k].op) = Top.saved
        /\ Top.saved \notin ConnectedStates =>
             \A k \in 1 .. n : stack[k].op \in Owning => ~stack[k].live
    BY <2>2, <1>1 DEF IInv, StackInv, SavedOwned
  <2>4. StackInv'
    BY <1>1, <1>3, <1>5, <2>3, Pops DEF IInv
  <2>5. UNCHANGED ssock => ConnectedHasSocket'
    BY <1>2, <1>5 DEF IInv, SocketInv, ConnectedHasSocket, IsConnected, ConnectedStates
  <2>6. ResultInv'
    BY <1>1, <1>4, Uncovers DEF IInv
  <2> QED
    BY <2>4, <2>5, <2>6
<1>6. CASE clientState # Holds(Top.op)
  <2>1. clientState' = clientState
    BY <1>3, <1>6
  <2>2. clientState' \in Busy =>
          \E j \in 1 .. n : stack[j].live /\ Holds(stack[j].op) = clientState'
    BY <1>1, <1>6, <2>1 DEF IInv, StackInv, StateOwned
  <2>3. clientState' \notin ConnectedStates =>
          \A j \in 1 .. n : stack[j].op \in Owning => ~stack[j].live
    BY <1>1, <2>1 DEF IInv, StackInv, NoSession, IsConnected
  <2>4. StackInv'
    BY <1>1, <2>2, <2>3, Pops DEF IInv
  <2>5. UNCHANGED ssock => ConnectedHasSocket'
    BY <2>1 DEF IInv, SocketInv, ConnectedHasSocket, IsConnected
  <2>6. ResultInv'
    BY <1>1, <1>4, Uncovers DEF IInv
  <2> QED
    BY <2>4, <2>5, <2>6
<1> QED
  BY <1>5, <1>6

(* yield ends: it gives up the state it holds, unless it reports a lost        *)
(* session, and then it owns nothing.                                          *)
LEMMA YieldReturnsInv ==
  ASSUME IInv, stack # <<>>, Top.op = "yield", NEW rc, YieldReturns(rc),
         rc \in Disconnections => ~Top.live, UNCHANGED ssock
  PROVE  StackInv' /\ ResultInv' /\ ConnectedHasSocket'
<1> DEFINE n == Len(stack) - 1
<1>1. /\ n \in Nat /\ Len(stack) = n + 1 /\ Len(stack') = n
      /\ \A i \in 1 .. n : stack'[i] = stack[i]
      /\ Top = stack[n + 1] /\ stack' \in Seq(Frames)
  BY BelowSeq DEF YieldReturns, Return, IInv, TypeOK, Top
<1> HIDE DEF n
<1>2. \/ clientState' = clientState
         /\ (~Top.live \/ clientState # "YIELD_IN_PROGRESS")
      \/ clientState = "YIELD_IN_PROGRESS" /\ clientState' = "IDLE"
  BY DEF YieldReturns, SetClientState, Holds
<1>3. Holds(Top.op) = "YIELD_IN_PROGRESS"
  BY DEF Holds
<1>4. clientState' \in Busy =>
        \E j \in 1 .. n : stack[j].live /\ Holds(stack[j].op) = clientState'
  <2> SUFFICES ASSUME clientState' \in Busy
               PROVE  \E j \in 1 .. n : stack[j].live /\ Holds(stack[j].op) = clientState'
    OBVIOUS
  <2>1. /\ clientState' = clientState
        /\ ~Top.live \/ clientState # "YIELD_IN_PROGRESS"
    BY <1>2 DEF Busy
  <2>2. PICK j \in 1 .. n + 1 : stack[j].live /\ Holds(stack[j].op) = clientState
    BY <1>1, <2>1 DEF IInv, StackInv, StateOwned
  <2>3. j # n + 1
    BY <1>1, <1>3, <2>1, <2>2
  <2>4. j \in 1 .. n
    BY <1>1, <2>3
  <2> QED
    BY <2>1, <2>2, <2>4
<1>5. clientState' \notin ConnectedStates =>
        \A j \in 1 .. n : stack[j].op \in Owning => ~stack[j].live
  BY <1>1, <1>2 DEF IInv, StackInv, NoSession, IsConnected, ConnectedStates
<1>6. StackInv'
  BY <1>1, <1>4, <1>5, Pops DEF IInv
<1>7. ResultInv'
  BY <1>1, Uncovers DEF IInv
<1>8. ConnectedHasSocket'
  BY <1>2 DEF IInv, SocketInv, ConnectedHasSocket, IsConnected, ConnectedStates, Busy
<1> QED
  BY <1>6, <1>7, <1>8

----------------------------------------------------------------------------
(* Calls *)

LEMMA CarriesSame ==
  ASSUME SocketCarries, UNCHANGED <<ssock, link, brokerUp, toClient>>
  PROVE  SocketCarries'
  BY DEF SocketCarries

LEMMA ConnectedSame ==
  ASSUME ConnectedHasSocket, UNCHANGED <<ssock, clientState>>
  PROVE  ConnectedHasSocket'
  BY DEF ConnectedHasSocket, IsConnected

(* A call that is answered at once.                                            *)
LEMMA Answers ==
  ASSUME IInv, NEW op, AppCalls(op) \/ SdkCalls(op), NEW rc, Answer(rc),
         UNCHANGED <<clientState, ssock, link, brokerUp, toClient>>
  PROVE  StackInv' /\ ResultInv' /\ SocketInv'
<1>1. StackInv'
  BY StackSame DEF IInv, Answer
<1>2. ResultInv'
  <2>1. UNCHANGED stack
    BY DEF Answer
  <2>2. stack' # <<>> => stack # <<>> /\ Top'.op = Top.op /\ Top'.pc = Top.pc
    BY <2>1 DEF Top
  <2> QED
    BY <2>2, CallerStays
<1>3. SocketInv'
  BY CarriesSame, ConnectedSame DEF IInv, SocketInv
<1> QED
  BY <1>1, <1>2, <1>3

(* A call that starts an operation of the session.                             *)
LEMMA Starts ==
  ASSUME IInv, NEW op, AppCalls(op) \/ SdkCalls(op), IsConnected,
         NEW f \in Frames, Push(f), f.op \in Owning, f.live, f.saved = clientState,
         f.op = "yield" => f.pc = "loop",
         f.pc = "wait" => f.op \in Restoring \ {"deliver"},
         clientState' = Holds(f.op), UNCHANGED <<ssock, link, brokerUp, toClient>>
  PROVE  StackInv' /\ ResultInv' /\ SocketInv'
<1> DEFINE n == Len(stack)
<1>1. /\ n \in Nat /\ Len(stack') = n + 1 /\ stack'[n + 1] = f
      /\ \A i \in 1 .. n : stack'[i] = stack[i]
      /\ stack' # <<>> /\ Top' = f
  BY DEF Push, IInv, TypeOK, Top
<1>2. n # 0 => /\ stack[n].op # "connect"
               /\ stack[n].op = "yield" => stack[n].pc \in {"handler", "reconnect"}
  <2>1. n # 0 => stack # <<>>
    OBVIOUS
  <2> QED
    BY <2>1, CalledFrom DEF Top
<1>3. StackInv'
  <2>1. Len(stack) = n
    OBVIOUS
  <2> HIDE DEF n
  <2>2. \A i \in 1 .. n : /\ stack'[i].op = stack[i].op
                          /\ stack'[i].saved = stack[i].saved
                          /\ stack'[i].live = stack[i].live
                          /\ stack'[i].pc = stack[i].pc
    BY <1>1
  <2>3. n # 0 => n \in 1 .. n
    BY <1>1
  <2>4. \A i \in 1 .. n - 1 : i \in 1 .. n
    BY <1>1
  <2> QED
    BY <1>1, <1>2, <2>1, <2>2, <2>3, <2>4, Pushes DEF IInv, IsConnected
<1>4. ResultInv'
  BY <1>1, Elsewhere DEF Owning, Restoring
<1>5. SocketInv'
  BY CarriesSame DEF IInv, SocketInv, ConnectedHasSocket
<1> QED
  BY <1>3, <1>4, <1>5

(* A call that starts without a session.                                       *)
LEMMA StartsDead ==
  ASSUME IInv, NEW op, AppCalls(op) \/ SdkCalls(op), ~IsConnected,
         NEW f \in Frames, Push(f), f.op \in Owning => ~f.live,
         f.op = "yield" => f.pc = "loop", f.op # "connect", f.pc # "wait",
         UNCHANGED <<clientState, ssock, link, brokerUp, toClient>>
  PROVE  StackInv' /\ ResultInv' /\ SocketInv'
<1> DEFINE n == Len(stack)
<1>1. /\ n \in Nat /\ Len(stack) = n /\ Len(stack') = n + 1 /\ stack'[n + 1] = f
      /\ \A i \in 1 .. n : stack'[i] = stack[i]
      /\ stack' # <<>> /\ Top' = f
  BY DEF Push, IInv, TypeOK, Top
<1>2. n # 0 => /\ stack[n].op # "connect"
               /\ stack[n].op = "yield" => stack[n].pc \in {"handler", "reconnect"}
  <2>1. n # 0 => stack # <<>>
    OBVIOUS
  <2> QED
    BY <2>1, CalledFrom DEF Top
<1> HIDE DEF n
<1>3. StackInv'
  <2>1. \A i \in 1 .. n : stack'[i].op \in Owning => ~stack'[i].live
    BY <1>1 DEF IInv, StackInv, NoSession
  <2> QED
    BY <1>1, <1>2, <2>1, PushesDead DEF IInv, IsConnected
<1>4. ResultInv'
  BY <1>1, Elsewhere
<1>5. SocketInv'
  BY CarriesSame, ConnectedSame DEF IInv, SocketInv
<1> QED
  BY <1>3, <1>4, <1>5

(* A call that ends every session at once.                                     *)
LEMMA CloseAll ==
  ASSUME IInv, NEW op, AppCalls(op) \/ SdkCalls(op), stack' = Orphaned(stack),
         clientState' \notin ConnectedStates, ~link', ~brokerUp', toClient' = <<>>
  PROVE  StackInv' /\ ResultInv' /\ SocketInv'
<1> DEFINE n == Len(stack)
<1>1. /\ n \in Nat /\ Len(stack) = n /\ Len(stack') = n
      /\ \A i \in 1 .. n : stack'[i] = [stack[i] EXCEPT !.live = FALSE] /\ stack[i] \in Frames
  BY OrphanedSeq DEF IInv, TypeOK
<1>2. \A i \in 1 .. n : /\ stack'[i].op = stack[i].op /\ stack'[i].pc = stack[i].pc
                        /\ ~stack'[i].live
  BY <1>1 DEF Frames
<1>3. stack' # <<>> => stack # <<>> /\ Top'.op = Top.op /\ Top'.pc = Top.pc
  BY <1>1, <1>2, OrphanedSeq DEF IInv, TypeOK, Top
<1> HIDE DEF n
<1>4. StackInv'
  BY <1>1, <1>2, SessionEnds DEF IInv
<1>5. ResultInv'
  BY <1>3, CallerStays
<1>6. SocketInv'
  BY DEF SocketInv, SocketCarries, ConnectedHasSocket, IsConnected
<1> QED
  BY <1>4, <1>5, <1>6

(* What an operation needs to start: a connected client, or connect's states.  *)
LEMMA AdmittedConnected ==
  ASSUME NEW op \in {"publish", "subscribe", "unsubscribe", "resubscribe", "disconnect"},
         Admission(op) = "SUCCESS"
  PROVE  IsConnected
  BY DEF Admission, AdmissionIf

LEMMA AdmittedYield ==
  ASSUME Admission("yield") = "SUCCESS"
  PROVE  clientState \in {"IDLE", "PENDING_RECONNECT"}
  BY DEF Admission, YieldAdmission, AdmissionIf

LEMMA AdmittedReconnect ==
  ASSUME Admission("reconnect") = "SUCCESS"
  PROVE  ~IsConnected
  BY DEF Admission

LEMMA AdmittedConnect ==
  ASSUME Admission("connect") = "SUCCESS"
  PROVE  ~IsConnected
  BY DEF Admission, ConnectValid, IsConnected, ConnectedStates, Busy

LEMMA SendCarries ==
  ASSUME NEW p, Send(p)
  PROVE  UNCHANGED <<link, brokerUp, toClient>>
  BY DEF Send

LEMMA CallInv ==
  ASSUME IInv, CallNext
  PROVE  StackInv' /\ ResultInv' /\ SocketInv'
<1> DEFINE Goal == StackInv' /\ ResultInv' /\ SocketInv'
<1> HIDE DEF Goal
<1>1. ASSUME NEW op \in CallOps, Rejected(op) PROVE Goal
  BY <1>1, Answers DEF Goal, Rejected, client, external
<1>2. ASSUME NEW status \in BOOLEAN, SetAutoReconnect(status) PROVE Goal
  BY <1>2, Answers DEF Goal, SetAutoReconnect, external
<1>3. ASSUME ConnectFails PROVE Goal
  BY <1>3, CloseAll DEF Goal, ConnectFails, Calls, ConnectedStates, Busy
<1>4. ASSUME ConnectSent PROVE Goal
  <2> DEFINE n == Len(stack)
             f == Frame("connect", "wait")
  <2>1. stack' = Append(Orphaned(stack), f) /\ f \in Frames
    BY <1>4, FrameType DEF ConnectSent, IInv, TypeOK, FrameOps, Places
  <2>2. f.op = "connect" /\ f.pc = "wait"
    BY DEF Frame
  <2> HIDE DEF f
  <2>3. /\ n \in Nat /\ Len(stack) = n /\ Len(Orphaned(stack)) = n
        /\ Orphaned(stack) \in Seq(Frames)
        /\ \A i \in 1 .. n : /\ Orphaned(stack)[i] = [stack[i] EXCEPT !.live = FALSE]
                            /\ stack[i] \in Frames
    BY OrphanedSeq DEF IInv, TypeOK
  <2>4. n # 0 => /\ stack[n].op # "connect"
                 /\ stack[n].op = "yield" => stack[n].pc \in {"handler", "reconnect"}
    <3>1. n # 0 => stack # <<>>
      OBVIOUS
    <3> QED
      BY <1>4, <3>1, CalledFrom DEF Top, ConnectSent, Calls
  <2> HIDE DEF n
  <2>5. /\ Len(stack') = n + 1 /\ stack'[n + 1] = f /\ stack' # <<>>
        /\ \A i \in 1 .. n : stack'[i] = Orphaned(stack)[i]
    <3> DEFINE s == Orphaned(stack)
    <3>1. s \in Seq(Frames) /\ Len(s) = n /\ stack' = Append(s, f)
      BY <2>1, <2>3
    <3> HIDE DEF s
    <3>2. /\ stack' \in Seq(Frames)
          /\ Len(stack') = Len(s) + 1 /\ stack'[Len(s) + 1] = f
          /\ \A i \in 1 .. Len(s) : stack'[i] = s[i]
      <4>1. /\ Append(s, f) \in Seq(Frames)
            /\ Len(Append(s, f)) = Len(s) + 1 /\ Append(s, f)[Len(s) + 1] = f
            /\ \A i \in 1 .. Len(s) : Append(s, f)[i] = s[i]
        BY <3>1, <2>1, AppendSeq
      <4> QED
        BY <3>1, <4>1, Zenon
    <3>3. stack' # <<>>
      BY <3>1, <3>2, <2>3
    <3> QED
      BY <3>1, <3>2, <3>3 DEF s
  <2>6. \A i \in 1 .. n : /\ stack'[i].op = stack[i].op /\ stack'[i].pc = stack[i].pc
                          /\ ~stack'[i].live
    BY <2>3, <2>5 DEF Frames
  <2>7. clientState' = "CONNECTING"
    BY <1>4 DEF ConnectSent
  <2>8. StackInv'
    BY <2>2, <2>3, <2>4, <2>5, <2>6, <2>7, PushesDead
       DEF IInv, Owning, Restoring, ConnectedStates, Busy
  <2>9. ResultInv'
    <3>1. Top' = f
      BY <2>5, <2>3 DEF Top
    <3>2. ConnectWaits'
      BY <1>4 DEF ConnectSent, ConnectWaits
    <3> QED
      BY <2>2, <3>1, <3>2 DEF ResultInv, YieldResult, DeliverResult, At
  <2>10. SocketInv'
    BY <1>4 DEF ConnectSent, SocketInv, SocketCarries, ConnectedHasSocket
  <2> QED
    BY <2>8, <2>9, <2>10 DEF Goal
<1>5. ASSUME ConnectUnsent PROVE Goal
  BY <1>5, CloseAll DEF Goal, ConnectUnsent, Calls, ConnectedStates, Busy
<1>6. ASSUME Disconnect PROVE Goal
  <2>1. IsConnected
    BY <1>6, AdmittedConnected DEF Disconnect, Calls
  <2>2. ssock = "open"
    BY <2>1 DEF IInv, SocketInv, ConnectedHasSocket
  <2>3. /\ stack' = Orphaned(stack) /\ clientState' = "DISCONNECTED_MANUALLY"
        /\ ~link' /\ ~brokerUp' /\ toClient' = <<>>
    BY <1>6, <2>2 DEF Disconnect, Destroy
  <2>4. AppCalls("disconnect") \/ SdkCalls("disconnect")
    BY <1>6 DEF Disconnect, Calls
  <2> QED
    BY <2>3, <2>4, CloseAll DEF Goal, ConnectedStates, Busy
<1>7. ASSUME NEW op, NEW rc, RequestRefused(op, rc) PROVE Goal
  BY <1>7, Answers DEF Goal, RequestRefused, Calls, client, external
<1>8. ASSUME NEW topic \in Topics, Subscribe(topic) PROVE Goal
  <2>1. CASE \E rc : RequestRefused("subscribe", rc)
    BY <2>1, <1>7
  <2>2. CASE ~\E rc : RequestRefused("subscribe", rc)
    <3>1. PICK free \in Slots :
            Push([Frame("subscribe", "wait") EXCEPT !.topic = topic, !.slot = free])
      BY <1>8, <2>2 DEF Subscribe
    <3>2. /\ Calls("subscribe")
          /\ Send(Packet("SUBSCRIBE", topic, 0)) /\ clientState' = Holds("subscribe")
          /\ UNCHANGED ssock
      BY <1>8, <2>2 DEF Subscribe
    <3> DEFINE g == Frame("subscribe", "wait")
               f == [g EXCEPT !.topic = topic, !.slot = free]
    <3>3. g \in Frames /\ topic \in Topics \cup {NULL} /\ free \in Nat
      BY FrameType DEF FrameOps, Places, Slots, IInv, TypeOK
    <3>4. g.op = "subscribe" /\ g.pc = "wait" /\ g.live /\ g.saved = clientState
      BY DEF Frame
    <3> HIDE DEF g
    <3>5. f \in Frames
      BY <3>3, ChangedType, Zenon
    <3>6. f.op = "subscribe" /\ f.pc = "wait" /\ f.live /\ f.saved = clientState
      <4>1. f.op = g.op /\ f.pc = g.pc /\ f.saved = g.saved /\ f.live = g.live
        BY <3>3 DEF Frames
      <4> QED
        BY <3>4, <4>1
    <3>7. Push(f)
      BY <3>1 DEF g
    <3>8. IsConnected /\ (AppCalls("subscribe") \/ SdkCalls("subscribe"))
      BY <3>2, AdmittedConnected DEF Calls
    <3> HIDE DEF f
    <3> QED
      BY <3>2, <3>5, <3>6, <3>7, <3>8, SendCarries, Starts DEF Goal, Owning, Restoring
  <2> QED
    BY <2>1, <2>2
<1>9. ASSUME NEW topic \in Topics, Unsubscribe(topic) PROVE Goal
  <2>1. CASE RequestRefused("unsubscribe", "FAILURE")
    BY <2>1, <1>7
  <2>2. CASE ~RequestRefused("unsubscribe", "FAILURE")
    <3> DEFINE g == Frame("unsubscribe", "wait")
               f == [g EXCEPT !.topic = topic]
    <3>1. /\ Calls("unsubscribe") /\ Push(f)
          /\ Send(Packet("UNSUBSCRIBE", topic, 0)) /\ clientState' = Holds("unsubscribe")
          /\ UNCHANGED ssock
      BY <1>9, <2>2 DEF Unsubscribe
    <3>2. g \in Frames /\ topic \in Topics \cup {NULL}
      BY FrameType DEF FrameOps, Places, IInv, TypeOK
    <3>3. g.op = "unsubscribe" /\ g.pc = "wait" /\ g.live /\ g.saved = clientState
      BY DEF Frame
    <3> HIDE DEF g
    <3>4. f \in Frames
      BY <3>2, ChangedType
    <3>5. f.op = "unsubscribe" /\ f.pc = "wait" /\ f.live /\ f.saved = clientState
      BY <3>2, <3>3 DEF Frames
    <3>6. IsConnected /\ (AppCalls("unsubscribe") \/ SdkCalls("unsubscribe"))
      BY <3>1, AdmittedConnected DEF Calls
    <3> HIDE DEF f
    <3> QED
      BY <3>1, <3>4, <3>5, <3>6, SendCarries, Starts DEF Goal, Owning, Restoring
  <2> QED
    BY <2>1, <2>2
<1>10. ASSUME NEW qos \in {0, 1}, Publish(qos) PROVE Goal
  <2>1. CASE RequestRefused("publish", "FAILURE")
    BY <2>1, <1>7
  <2>2. CASE ~RequestRefused("publish", "FAILURE")
    <3> DEFINE f == Frame("publish", "wait")
    <3>1. /\ Calls("publish") /\ Send(Packet("PUBLISH", NULL, qos))
          /\ IF qos = 0 THEN Answer("SUCCESS") /\ UNCHANGED clientState
             ELSE Push(f) /\ clientState' = Holds("publish")
          /\ UNCHANGED ssock
      BY <1>10, <2>2 DEF Publish
    <3>2. f \in Frames
      BY FrameType DEF FrameOps, Places, IInv, TypeOK
    <3>3. f.op = "publish" /\ f.pc = "wait" /\ f.live /\ f.saved = clientState
      BY DEF Frame
    <3>4. IsConnected /\ (AppCalls("publish") \/ SdkCalls("publish"))
      BY <3>1, AdmittedConnected DEF Calls
    <3> HIDE DEF f
    <3>5. CASE qos = 0
      BY <3>1, <3>4, <3>5, SendCarries, Answers DEF Goal
    <3>6. CASE qos # 0
      BY <3>1, <3>2, <3>3, <3>4, <3>6, SendCarries, Starts DEF Goal, Owning, Restoring
    <3> QED
      BY <3>5, <3>6
  <2> QED
    BY <2>1, <2>2
<1>11. ASSUME Resubscribe PROVE Goal
  <2>1. PICK free \in 0 .. NumHandlers :
          Push([Frame("resubscribe", "send") EXCEPT !.limit = free])
    BY <1>11 DEF Resubscribe
  <2> DEFINE g == Frame("resubscribe", "send")
             f == [g EXCEPT !.limit = free]
  <2>2. Push(f)
    BY <2>1
  <2>3. g \in Frames /\ free \in Nat
    BY FrameType DEF FrameOps, Places, IInv, TypeOK
  <2>4. g.op = "resubscribe" /\ g.pc = "send" /\ g.live /\ g.saved = clientState
    BY DEF Frame
  <2> HIDE DEF g
  <2>5. f \in Frames
    BY <2>3, ChangedType, Zenon
  <2>6. f.op = "resubscribe" /\ f.pc = "send" /\ f.live /\ f.saved = clientState
    BY <2>3, <2>4 DEF Frames
  <2>7. /\ IsConnected /\ (AppCalls("resubscribe") \/ SdkCalls("resubscribe"))
        /\ clientState' = Holds("resubscribe")
        /\ UNCHANGED <<ssock, link, brokerUp, toClient>>
    BY <1>11, AdmittedConnected DEF Resubscribe, Calls, external
  <2> HIDE DEF f
  <2> QED
    BY <2>2, <2>5, <2>6, <2>7, Starts DEF Goal, Owning, Restoring
<1>12. ASSUME Yield PROVE Goal
  <2> DEFINE g == Frame("yield", "loop")
             f == [g EXCEPT !.live = IsConnected]
  <2>1. /\ Calls("yield") /\ Push(f)
        /\ clientState' = IF clientState = "IDLE" THEN Holds("yield") ELSE clientState
        /\ UNCHANGED <<ssock, link, brokerUp, toClient>>
    BY <1>12 DEF Yield, external
  <2>2. g \in Frames /\ IsConnected \in BOOLEAN
    BY FrameType DEF FrameOps, Places, IInv, TypeOK, IsConnected
  <2>3. g.op = "yield" /\ g.pc = "loop" /\ g.saved = clientState
    BY DEF Frame
  <2> HIDE DEF g
  <2>4. f \in Frames
    BY <2>2, ChangedType
  <2>5. f.op = "yield" /\ f.pc = "loop" /\ f.live = IsConnected /\ f.saved = clientState
    BY <2>2, <2>3 DEF Frames
  <2>6. clientState \in {"IDLE", "PENDING_RECONNECT"}
    BY <2>1, AdmittedYield DEF Calls
  <2>7. AppCalls("yield") \/ SdkCalls("yield")
    BY <2>1 DEF Calls
  <2> HIDE DEF f
  <2>8. CASE clientState = "IDLE"
    <3>1. IsConnected
      BY <2>8 DEF IsConnected, ConnectedStates
    <3> QED
      BY <2>1, <2>4, <2>5, <2>7, <2>8, <3>1, Starts DEF Goal, Owning
  <2>9. CASE clientState = "PENDING_RECONNECT"
    <3>1. ~IsConnected
      BY <2>9 DEF IsConnected, ConnectedStates, Busy
    <3> QED
      BY <2>1, <2>4, <2>5, <2>7, <2>9, <3>1, StartsDead DEF Goal
  <2> QED
    BY <2>6, <2>8, <2>9
<1>13. ASSUME AttemptReconnect PROVE Goal
  <2> DEFINE f == Frame("reconnect", "connect")
  <2>1. /\ Calls("reconnect") /\ Push(f)
        /\ UNCHANGED <<clientState, ssock, link, brokerUp, toClient>>
    BY <1>13 DEF AttemptReconnect, client, external
  <2>2. f \in Frames
    BY FrameType DEF FrameOps, Places, IInv, TypeOK
  <2>3. f.op = "reconnect" /\ f.pc = "connect"
    BY DEF Frame
  <2>4. ~IsConnected /\ (AppCalls("reconnect") \/ SdkCalls("reconnect"))
    BY <2>1, AdmittedReconnect DEF Calls
  <2> HIDE DEF f
  <2> QED
    BY <2>1, <2>2, <2>3, <2>4, StartsDead DEF Goal, Owning, Restoring
<1> QED
  BY <1>1, <1>2, <1>3, <1>4, <1>5, <1>6, <1>8, <1>9, <1>10, <1>11, <1>12, <1>13
     DEF CallNext, Goal

----------------------------------------------------------------------------
(* Waiting *)

(* The top frame is replaced by one of the same operation.                     *)
LEMMA TopBecomes ==
  ASSUME IInv, stack # <<>>, NEW f \in Frames, stack' = WithTop(f),
         f.op = Top.op, f.saved = Top.saved, f.live = Top.live,
         f.op = "yield" /\ f.pc \in {"handler", "reconnect"} => ~f.live,
         f.pc = "wait" => f.op \in {"connect"} \cup (Restoring \ {"deliver"}),
         UNCHANGED clientState
  PROVE  StackInv' /\ stack' # <<>> /\ Top' = f
<1> DEFINE n == Len(stack)
<1>1. /\ n \in Nat \ {0} /\ Len(stack) = n /\ Len(stack') = n /\ stack' # <<>>
      /\ stack'[n] = f /\ Top = stack[n] /\ Top' = f
      /\ \A i \in 1 .. n - 1 : stack'[i] = stack[i]
  BY WithTopSeq, BelowSeq DEF IInv, TypeOK, Top
<1> HIDE DEF n
<1>2. StackInv'
  BY <1>1, TopMoves DEF IInv
<1> QED
  BY <1>1, <1>2

(* The top frame goes on to another place.                                     *)
LEMMA TopGoes ==
  ASSUME IInv, stack # <<>>, NEW pc \in Places, Goto(pc), pc # "wait",
         Top.op = "yield" /\ pc \in {"handler", "reconnect"} => ~Top.live,
         UNCHANGED clientState
  PROVE  /\ StackInv' /\ stack' # <<>>
         /\ Top'.op = Top.op /\ Top'.pc = pc /\ Top'.live = Top.live
<1> DEFINE f == [Top EXCEPT !.pc = pc]
<1>1. Top \in Frames
  BY BelowSeq DEF IInv, TypeOK
<1>2. f \in Frames /\ stack' = WithTop(f)
  BY <1>1, ChangedType DEF Goto
<1>3. f.op = Top.op /\ f.saved = Top.saved /\ f.live = Top.live /\ f.pc = pc
  BY <1>1 DEF Frames
<1> HIDE DEF f
<1>4. StackInv' /\ stack' # <<>> /\ Top' = f
  BY <1>2, <1>3, TopBecomes
<1> QED
  BY <1>3, <1>4

LEMMA ReadCarries ==
  ASSUME SocketCarries, toClient # <<>>, Read, UNCHANGED ssock
  PROVE  SocketCarries'
  BY DEF SocketCarries, Read

LEMMA WaitInv ==
  ASSUME IInv, WaitNext
  PROVE  StackInv' /\ ResultInv' /\ SocketInv'
<1> DEFINE Goal == StackInv' /\ ResultInv' /\ SocketInv'
<1> HIDE DEF Goal
<1>1. ASSUME ConnectAccepted PROVE Goal
  <2> DEFINE n == Len(stack) - 1
  <2>1. /\ n \in Nat /\ Len(stack) = n + 1 /\ Len(stack') = n
        /\ \A i \in 1 .. n : stack'[i] = stack[i]
        /\ Top = stack[n + 1] /\ stack' \in Seq(Frames)
    BY <1>1, BelowSeq DEF ConnectAccepted, Waiting, At, Return, IInv, TypeOK, Top
  <2> HIDE DEF n
  <2>2. clientState = "CONNECTING" /\ ssock = "open"
    BY <1>1 DEF ConnectAccepted, IInv, ResultInv, ConnectWaits
  <2>3. clientState' = "IDLE" /\ UNCHANGED ssock
    BY <1>1, <2>2 DEF ConnectAccepted, SetClientState
  <2>4. StackInv'
    BY <2>1, <2>3, Pops DEF IInv, ConnectedStates, Busy
  <2>5. ResultInv'
    BY <1>1, <2>1, Uncovers DEF IInv, ConnectAccepted, Waiting, At
  <2>6. SocketInv'
    BY <1>1, <2>2, <2>3, ReadCarries
       DEF ConnectAccepted, Incoming, IInv, SocketInv, ConnectedHasSocket
  <2> QED
    BY <2>4, <2>5, <2>6 DEF Goal
<1>2. ASSUME ConnectAbandoned PROVE Goal
  <2> DEFINE n == Len(stack) - 1
  <2>1. /\ n \in Nat /\ Len(stack) = n + 1 /\ Len(Below) = n /\ Below \in Seq(Frames)
        /\ \A i \in 1 .. n : Below[i] = stack[i]
        /\ Top = stack[n + 1] /\ stack' = Orphaned(Below)
    BY <1>2, BelowSeq DEF ConnectAbandoned, Waiting, At, IInv, TypeOK, Top
  <2> HIDE DEF n
  <2>2. /\ stack' \in Seq(Frames) /\ Len(stack') = n
        /\ \A i \in 1 .. n : stack'[i] = [Below[i] EXCEPT !.live = FALSE]
    BY <2>1, OrphanedSeq
  <2>3. \A i \in 1 .. n : /\ stack'[i].op = stack[i].op /\ stack'[i].pc = stack[i].pc
                          /\ ~stack'[i].live
    <3> TAKE i \in 1 .. n
    <3> DEFINE f == stack[i]
    <3>1. f \in Frames /\ stack'[i] = [f EXCEPT !.live = FALSE]
      BY <2>1, <2>2
    <3> HIDE DEF f
    <3>2. stack'[i].op = f.op /\ stack'[i].pc = f.pc /\ ~stack'[i].live
      BY <3>1 DEF Frames
    <3> QED
      BY <3>2 DEF f
  <2>4. clientState = "CONNECTING" /\ ssock = "open"
    BY <1>2 DEF ConnectAbandoned, IInv, ResultInv, ConnectWaits
  <2>5. clientState' = "DISCONNECTED_ERROR"
    BY <1>2, <2>4 DEF ConnectAbandoned, SetClientState
  <2>6. StackInv'
    <3>1. clientState' \notin ConnectedStates
      BY <2>5 DEF ConnectedStates, Busy
    <3>2. n + 1 \in Nat /\ n <= n + 1
      BY <2>1
    <3>3. n # 0 => stack'[n].pc = stack[n].pc
      BY <2>1, <2>3
    <3>4. \A i \in 1 .. n - 1 : stack'[i].pc = stack[i].pc
      BY <2>1, <2>3
    <3> QED
      BY <2>1, <2>2, <2>3, <3>1, <3>2, <3>3, <3>4, SessionEnds DEF IInv
  <2>7. ResultInv'
    BY <1>2, <2>1, <2>2, <2>3, Uncovers DEF IInv, ConnectAbandoned, Waiting, At
  <2>8. SocketInv'
    BY <1>2, <2>4, <2>5 DEF ConnectAbandoned, Destroy, SocketInv, SocketCarries,
                            ConnectedHasSocket, IsConnected, ConnectedStates, Busy
  <2> QED
    BY <2>6, <2>7, <2>8 DEF Goal
<1>3. ASSUME NEW rc, rc \in {"SUCCESS", "FAILURE", "MQTT_REQUEST_TIMEOUT_ERROR"},
             Finish(rc), UNCHANGED ssock, stack # <<>>, Top.op \in Restoring, SocketCarries' PROVE Goal
  BY <1>3, FinishInv DEF Goal, SocketInv
<1>4. ASSUME Subscribed PROVE Goal
  <2>1. SocketCarries'
    BY <1>4, ReadCarries DEF Subscribed, Incoming, IInv, SocketInv
  <2> QED
    BY <1>4, <2>1, <1>3 DEF Subscribed, Waiting, At, Restoring, Disconnections
<1>5. ASSUME Unsubscribed PROVE Goal
  <2>1. SocketCarries'
    BY <1>5, ReadCarries DEF Unsubscribed, Incoming, IInv, SocketInv
  <2> QED
    BY <1>5, <2>1, <1>3 DEF Unsubscribed, Waiting, At, Restoring, Disconnections
<1>6. ASSUME Published PROVE Goal
  <2>1. SocketCarries'
    BY <1>6, ReadCarries DEF Published, Incoming, IInv, SocketInv
  <2> QED
    BY <1>6, <2>1, <1>3 DEF Published, Waiting, At, Restoring, Disconnections
<1>7. ASSUME ResubscribeSend PROVE Goal
  <2>1. PICK i \in Slots :
          /\ Send(Packet("SUBSCRIBE", messageHandlers[i], 0))
          /\ stack' = WithTop([Top EXCEPT !.pc = "wait", !.slot = i])
    BY <1>7 DEF ResubscribeSend
  <2> DEFINE f == [Top EXCEPT !.pc = "wait", !.slot = i]
  <2>2. stack # <<>> /\ Top.op = "resubscribe" /\ Top \in Frames
    BY <1>7, BelowSeq DEF ResubscribeSend, At, IInv, TypeOK
  <2>3. f \in Frames
    <3>1. "wait" \in Places /\ i \in Nat
      BY DEF Places, Slots
    <3> QED
      BY <2>2, <3>1, ChangedType, Zenon
  <2>4. f.op = Top.op /\ f.pc = "wait" /\ f.saved = Top.saved /\ f.live = Top.live
    BY <2>2 DEF Frames
  <2>5. stack' = WithTop(f)
    BY <2>1
  <2> HIDE DEF f
  <2>6. StackInv' /\ stack' # <<>> /\ Top' = f
    BY <1>7, <2>2, <2>3, <2>4, <2>5, TopBecomes DEF ResubscribeSend, client, Restoring
  <2>7. ResultInv'
    BY <2>2, <2>4, <2>6, Elsewhere
  <2>8. SocketInv'
    BY <1>7, <2>1, SendCarries, CarriesSame, ConnectedSame
       DEF ResubscribeSend, client, IInv, SocketInv
  <2> QED
    BY <2>6, <2>7, <2>8 DEF Goal
<1>8. ASSUME ResubscribeNext PROVE Goal
  <2> DEFINE f == [Top EXCEPT !.pc = "send", !.slot = @ + 1]
  <2>1. stack # <<>> /\ Top.op = "resubscribe" /\ Top \in Frames
    BY <1>8, BelowSeq DEF ResubscribeNext, Waiting, At, IInv, TypeOK
  <2>2. f \in Frames
    <3>1. "send" \in Places /\ Top.slot + 1 \in Nat
      BY <2>1 DEF Places, Frames
    <3> QED
      BY <2>1, <3>1, ChangedType, Zenon
  <2>3. f.op = Top.op /\ f.pc = "send" /\ f.saved = Top.saved /\ f.live = Top.live
    BY <2>1 DEF Frames
  <2>4. stack' = WithTop(f)
    BY <1>8 DEF ResubscribeNext
  <2> HIDE DEF f
  <2>5. StackInv' /\ stack' # <<>> /\ Top' = f
    BY <1>8, <2>1, <2>2, <2>3, <2>4, TopBecomes DEF ResubscribeNext
  <2>6. ResultInv'
    BY <2>1, <2>3, <2>5, Elsewhere
  <2>7. SocketInv'
    BY <1>8, ReadCarries, ConnectedSame DEF ResubscribeNext, Incoming, IInv, SocketInv
  <2> QED
    BY <2>5, <2>6, <2>7 DEF Goal
<1>9. ASSUME ResubscribeEnds PROVE Goal
  <2>1. SocketCarries'
    BY <1>9, CarriesSame DEF ResubscribeEnds, external, IInv, SocketInv
  <2>2. PICK rc \in {"FAILURE", "SUCCESS"} : Finish(rc)
    BY <1>9 DEF ResubscribeEnds
  <2> QED
    BY <1>9, <2>1, <2>2, <1>3 DEF ResubscribeEnds, At, Restoring, Disconnections
<1>10. ASSUME RequestTimesOut PROVE Goal
  <2>1. SocketCarries'
    BY <1>10, CarriesSame DEF RequestTimesOut, external, IInv, SocketInv
  <2>2. Top.op \in Restoring
    <3>1. Len(stack) \in 1 .. Len(stack)
      BY <1>10, BelowSeq DEF RequestTimesOut, IInv, TypeOK
    <3> QED
      BY <1>10, <3>1 DEF RequestTimesOut, Top, IInv, StackInv, WaitsForAck
  <2> QED
    BY <1>10, <2>1, <2>2, <1>3 DEF RequestTimesOut, Disconnections
<1>11. ASSUME ReadOther PROVE Goal
  <2>1. SocketInv'
    BY <1>11, ReadCarries, ConnectedSame DEF ReadOther, IInv, SocketInv
  <2>2. CASE stack # <<>> /\ Top.pc = "wait" /\ ~WaitingFor(Head(toClient).type)
             /\ UNCHANGED stack
    <3>1. StackInv'
      BY <1>11, <2>2, StackSame DEF ReadOther, IInv
    <3>2. Top.op # "connect"
      BY <1>11, <2>2 DEF ReadOther, WaitingFor, Expected, IInv, ResultInv, ConnectWaits,
                         Waiting, At
    <3>3. Top' = Top
      BY <2>2 DEF Top
    <3>4. ResultInv'
      BY <2>2, <3>2, <3>3, Elsewhere
    <3> QED
      BY <2>1, <3>1, <3>4 DEF Goal
  <2>3. CASE Cycling /\ Goto("keepalive")
    <3>1. stack # <<>> /\ Top.op = "yield" /\ UNCHANGED clientState
      BY <1>11, <2>3 DEF ReadOther, Cycling, At
    <3>2. StackInv' /\ stack' # <<>> /\ Top'.op = "yield" /\ Top'.pc = "keepalive"
      BY <2>3, <3>1, TopGoes DEF Places
    <3> QED
      BY <2>1, <3>2, Elsewhere DEF Goal
  <2> QED
    BY <1>11, <2>2, <2>3 DEF ReadOther
<1>12. ASSUME ReadPublish PROVE Goal
  <2> DEFINE n == Len(stack)
             f == [Top EXCEPT !.pc = IF @ = "loop" THEN "deliver" ELSE @]
             g == [Frame("deliver", "scan") EXCEPT !.topic = Head(toClient).topic,
                                                   !.qos = Head(toClient).arg]
  <2>1. /\ toClient # <<>> /\ Head(toClient).type = "PUBLISH" /\ Read
        /\ stack # <<>> /\ Top \in Frames
        /\ Top.pc = "wait" \/ (Top.op = "yield" /\ Top.pc = "loop")
        /\ stack' = Append(WithTop(f), g) /\ clientState' = Holds("deliver")
        /\ UNCHANGED ssock
    <3>1. stack' = Append(WithTop(f), g)
      BY <1>12, Zenon DEF ReadPublish
    <3> HIDE DEF f, g
    <3>2. /\ toClient # <<>> /\ Head(toClient).type = "PUBLISH" /\ Read
          /\ stack # <<>>
          /\ Top.pc = "wait" \/ (Top.op = "yield" /\ Top.pc = "loop")
          /\ clientState' = Holds("deliver") /\ UNCHANGED ssock
      BY <1>12 DEF ReadPublish, Incoming, Cycling, At
    <3>3. Top \in Frames
      BY <3>2, BelowSeq DEF IInv, TypeOK
    <3> QED
      BY <3>1, <3>2, <3>3
  <2>2. f \in Frames
    BY <2>1 DEF Frames, Places
  <2>3. /\ f.op = Top.op /\ f.saved = Top.saved /\ f.live = Top.live
        /\ f.pc = IF Top.pc = "loop" THEN "deliver" ELSE Top.pc
    BY <2>1 DEF Frames
  <2>4. g \in Frames /\ g.op = "deliver" /\ g.pc = "scan" /\ g.live /\ g.saved = clientState
    <3> DEFINE h == Frame("deliver", "scan")
               topic == Head(toClient).topic
               qos == Head(toClient).arg
    <3>1. h \in Frames
      BY FrameType DEF FrameOps, Places, IInv, TypeOK
    <3>2. topic \in Topics \cup {NULL} /\ qos \in {0, 1}
      <4>1. Head(toClient) \in Packets
        BY <2>1, ReadType DEF IInv, TypeOK
      <4> QED
        BY <4>1 DEF Packets
    <3>3. h.op = "deliver" /\ h.pc = "scan" /\ h.live /\ h.saved = clientState
      BY DEF Frame
    <3>4. g = [h EXCEPT !.topic = topic, !.qos = qos]
      OBVIOUS
    <3> HIDE DEF g, h, topic, qos
    <3>5. g \in Frames
      BY <3>1, <3>2, <3>4, ChangedType, Zenon
    <3>6. g.op = h.op /\ g.pc = h.pc /\ g.live = h.live /\ g.saved = h.saved
      BY <3>1, <3>4 DEF Frames
    <3> QED
      BY <3>3, <3>5, <3>6
  <2> HIDE DEF f, g
  <2>5. /\ n \in Nat \ {0} /\ Len(stack) = n /\ Top = stack[n]
        /\ WithTop(f) \in Seq(Frames) /\ Len(WithTop(f)) = n /\ WithTop(f)[n] = f
        /\ \A i \in 1 .. n - 1 : WithTop(f)[i] = stack[i]
    BY <2>1, <2>2, WithTopSeq, BelowSeq DEF IInv, TypeOK, Top
  <2> HIDE DEF n
  <2>6. /\ Len(stack') = n + 1 /\ stack'[n + 1] = g /\ stack'[n] = f
        /\ \A i \in 1 .. n - 1 : stack'[i] = stack[i]
        /\ stack' # <<>>
    <3> DEFINE s == WithTop(f)
    <3>1. s \in Seq(Frames) /\ Len(s) = n /\ stack' = Append(s, g)
      BY <2>1, <2>5
    <3>2. /\ Append(s, g) \in Seq(Frames) /\ Len(Append(s, g)) = n + 1
          /\ Append(s, g)[n + 1] = g
          /\ \A i \in 1 .. n : Append(s, g)[i] = s[i]
      <4> HIDE DEF s
      <4> QED
        BY <3>1, <2>4, AppendSeq
    <3>3. \A i \in 1 .. n : s[i] = IF i = n THEN f ELSE stack[i]
      BY <2>5
    <3> HIDE DEF s
    <3>4. /\ stack' \in Seq(Frames) /\ Len(stack') = n + 1 /\ stack'[n + 1] = g
          /\ \A i \in 1 .. n : stack'[i] = IF i = n THEN f ELSE stack[i]
      BY <3>1, <3>2, <3>3, Zenon
    <3>5. stack' # <<>>
      BY <2>5, <3>4
    <3>6. n \in 1 .. n /\ \A i \in 1 .. n - 1 : i \in 1 .. n /\ i # n
      BY <2>5
    <3> QED
      BY <3>4, <3>5, <3>6
  <2>7. Top.op # "connect"
    BY <2>1 DEF IInv, ResultInv, ConnectWaits, Waiting, At
  <2>8. Top.op = "yield" => Top.pc = "loop"
    <3>1. n \in 1 .. n
      BY <2>5
    <3> QED
      BY <2>1, <2>5, <3>1 DEF IInv, StackInv, WaitsForAck, Restoring
  <2>9. StackInv'
    <3>1. \A i \in 1 .. n : /\ stack'[i].op = stack[i].op
                            /\ stack'[i].saved = stack[i].saved
                            /\ stack'[i].live = stack[i].live
      BY <2>3, <2>5, <2>6
    <3>2. \A i \in 1 .. n - 1 : stack'[i].pc = stack[i].pc
      BY <2>6
    <3>3. stack[n].op # "connect" /\ (stack'[n].pc = stack[n].pc \/ stack'[n].pc = "deliver")
      BY <2>3, <2>5, <2>6, <2>7
    <3>4. stack[n].op = "yield" => stack'[n].pc = "deliver" /\ stack'[n + 1].op = "deliver"
      BY <2>3, <2>4, <2>5, <2>6, <2>8
    <3>5. /\ stack'[n + 1].op = "deliver" /\ stack'[n + 1].pc = "scan"
          /\ stack'[n + 1].live /\ stack'[n + 1].saved = clientState
          /\ clientState' = Holds("deliver")
      BY <2>1, <2>4, <2>6
    <3>6. stack'[n + 1].op \in Owning
      BY <3>5 DEF Owning, Restoring
    <3>7. n \in Nat
      BY <2>5
    <3> QED
      BY <2>5, <2>6, <3>1, <3>2, <3>3, <3>4, <3>5, <3>6, <3>7, Pushes DEF IInv
  <2>10. ResultInv'
    <3>1. Top' = g
      BY <2>5, <2>6 DEF Top
    <3> QED
      BY <2>4, <3>1, Elsewhere
  <2>11. SocketInv'
    BY <2>1, ReadCarries DEF IInv, SocketInv, SocketCarries, ConnectedHasSocket
  <2> QED
    BY <2>9, <2>10, <2>11 DEF Goal
<1> QED
  BY <1>1, <1>2, <1>4, <1>5, <1>6, <1>7, <1>8, <1>9, <1>10, <1>11, <1>12
     DEF WaitNext, Goal

----------------------------------------------------------------------------
(* Delivering *)

LEMMA DeliverInv ==
  ASSUME IInv, DeliverNext
  PROVE  StackInv' /\ ResultInv' /\ SocketInv'
<1> DEFINE Goal == StackInv' /\ ResultInv' /\ SocketInv'
<1> HIDE DEF Goal
<1>1. ASSUME stack # <<>>, Top.op = "deliver", NEW f \in Frames, stack' = WithTop(f),
             f.op = Top.op, f.saved = Top.saved, f.live = Top.live, f.pc # "wait",
             UNCHANGED <<client, external>>
      PROVE Goal
  <2>1. StackInv' /\ stack' # <<>> /\ Top' = f
    BY <1>1, TopBecomes DEF client
  <2>2. ResultInv'
    BY <1>1, <2>1, Elsewhere
  <2>3. SocketInv'
    BY <1>1, CarriesSame, ConnectedSame DEF IInv, SocketInv, client, external
  <2> QED
    BY <2>1, <2>2, <2>3 DEF Goal
<1>2. ASSUME CallHandler PROVE Goal
  <2>1. PICK i \in Slots : stack' = WithTop([Top EXCEPT !.pc = "callback", !.slot = i])
    BY <1>2 DEF CallHandler
  <2> DEFINE f == [Top EXCEPT !.pc = "callback", !.slot = i]
  <2>2. stack # <<>> /\ Top.op = "deliver" /\ Top \in Frames
    BY <1>2, BelowSeq DEF CallHandler, At, IInv, TypeOK
  <2>3. f \in Frames
    <3>1. "callback" \in Places /\ i \in Nat
      BY DEF Places, Slots
    <3> QED
      BY <2>2, <3>1, ChangedType, Zenon
  <2>4. f.op = Top.op /\ f.pc = "callback" /\ f.saved = Top.saved /\ f.live = Top.live
    BY <2>2 DEF Frames
  <2>5. stack' = WithTop(f)
    BY <2>1
  <2> HIDE DEF f
  <2> QED
    BY <1>1, <1>2, <2>2, <2>3, <2>4, <2>5 DEF CallHandler
<1>3. ASSUME HandlerReturns PROVE Goal
  <2> DEFINE f == [Top EXCEPT !.pc = "scan", !.slot = @ + 1]
  <2>1. stack # <<>> /\ Top.op = "deliver" /\ Top \in Frames
    BY <1>3, BelowSeq DEF HandlerReturns, InMessageCallback, At, IInv, TypeOK
  <2>2. f \in Frames
    <3>1. "scan" \in Places /\ Top.slot + 1 \in Nat
      BY <2>1 DEF Places, Frames
    <3> QED
      BY <2>1, <3>1, ChangedType, Zenon
  <2>3. f.op = Top.op /\ f.pc = "scan" /\ f.saved = Top.saved /\ f.live = Top.live
    BY <2>1 DEF Frames
  <2>4. stack' = WithTop(f)
    BY <1>3 DEF HandlerReturns
  <2> HIDE DEF f
  <2> QED
    BY <1>1, <1>3, <2>1, <2>2, <2>3, <2>4 DEF HandlerReturns
<1>4. ASSUME NEW rc, rc \in {"SUCCESS", "FAILURE", "MQTT_REQUEST_TIMEOUT_ERROR"},
             Finish(rc), UNCHANGED ssock, stack # <<>>, Top.op = "deliver", SocketCarries' PROVE Goal
  BY <1>4, FinishInv DEF Goal, SocketInv, Restoring
<1>5. ASSUME Delivered PROVE Goal
  <2>1. SocketCarries'
    BY <1>5, CarriesSame DEF Delivered, external, IInv, SocketInv
  <2> QED
    BY <1>5, <2>1, <1>4 DEF Delivered, At, Disconnections
<1>6. ASSUME Acknowledge PROVE Goal
  <2>1. UNCHANGED <<link, brokerUp, toClient>>
    BY <1>6, SendCarries DEF Acknowledge, external
  <2>2. SocketCarries'
    BY <1>6, <2>1, CarriesSame DEF Acknowledge, IInv, SocketInv
  <2>3. PICK rc \in {"SUCCESS", "FAILURE"} : Finish(rc)
    BY <1>6 DEF Acknowledge
  <2> QED
    BY <1>6, <2>2, <2>3, <1>4 DEF Acknowledge, At, Disconnections
<1> QED
  BY <1>2, <1>3, <1>5, <1>6 DEF DeliverNext, Goal

----------------------------------------------------------------------------
(* yield and reconnect *)

LEMMA YieldInv ==
  ASSUME IInv, YieldNext
  PROVE  StackInv' /\ ResultInv' /\ SocketInv'
<1> DEFINE Goal == StackInv' /\ ResultInv' /\ SocketInv'
<1> HIDE DEF Goal
<1>1. ASSUME NEW rc, stack # <<>>, Top.op = "yield", YieldReturns(rc),
             rc \in Disconnections => ~Top.live, UNCHANGED <<ssock, external>>
      PROVE Goal
  <2>1. SocketCarries'
    BY <1>1, CarriesSame DEF external, IInv, SocketInv
  <2> QED
    BY <1>1, <2>1, YieldReturnsInv DEF Goal, SocketInv
<1>2. ASSUME NEW pc \in {"loop", "keepalive", "check"}, stack # <<>>, Top.op = "yield",
             Goto(pc), pc = "check" => ret' = "SUCCESS",
             UNCHANGED <<clientState, ssock, link, brokerUp, toClient>>
      PROVE Goal
  <2>1. /\ StackInv' /\ stack' # <<>>
        /\ Top'.op = "yield" /\ Top'.pc = pc
    BY <1>2, TopGoes DEF Places
  <2>2. ResultInv'
    <3>1. CASE pc = "check"
      BY <1>2, <2>1, <3>1, Checks DEF Disconnections
    <3>2. CASE pc # "check"
      BY <2>1, <3>2, Elsewhere
    <3> QED
      BY <3>1, <3>2
  <2>3. SocketInv'
    BY <1>2, CarriesSame, ConnectedSame DEF IInv, SocketInv
  <2> QED
    BY <2>1, <2>2, <2>3 DEF Goal
<1>3. ASSUME YieldExpires PROVE Goal
  <2>1. ret \in Disconnections => ~Top.live
    BY <1>3 DEF YieldExpires, IInv, ResultInv, YieldResult
  <2> QED
    BY <1>1, <1>3, <2>1 DEF YieldExpires, At
<1>4. ASSUME YieldLoops PROVE Goal
  BY <1>2, <1>4 DEF YieldLoops, At, client, external
<1>5. ASSUME YieldReadsNothing PROVE Goal
  BY <1>2, <1>5 DEF YieldReadsNothing, Cycling, At, client, external
<1>6. ASSUME YieldFails PROVE Goal
  <2>1. ASSUME At("yield", "deliver"), ret # "SUCCESS", YieldReturns(ret) PROVE Goal
    <3>1. ret \notin Disconnections
      BY <2>1 DEF IInv, ResultInv, DeliverResult
    <3> QED
      BY <1>1, <1>6, <2>1, <3>1 DEF YieldFails, At
  <2>2. ASSUME Cycling, YieldReturns("NULL_VALUE_ERROR") PROVE Goal
    BY <1>1, <1>6, <2>2 DEF YieldFails, Cycling, At, Disconnections
  <2> QED
    BY <1>6, <2>1, <2>2 DEF YieldFails
<1>7. ASSUME YieldDelivered PROVE Goal
  BY <1>2, <1>7 DEF YieldDelivered, At, client, external
<1>8. ASSUME KeepAliveNotDue PROVE Goal
  BY <1>2, <1>8 DEF KeepAliveNotDue, At, client, external
<1>9. ASSUME KeepAlivePing PROVE Goal
  BY <1>2, <1>9, SendCarries DEF KeepAlivePing, At
<1>10. ASSUME ConnectionLost PROVE Goal
  <2> DEFINE n == Len(stack)
             f == [Top EXCEPT !.pc = "handler"]
  <2>1. stack # <<>> /\ Top.op = "yield" /\ Top \in Frames
    BY <1>10, BelowSeq DEF ConnectionLost, Cycling, At, IInv, TypeOK
  <2>2. f \in Frames /\ f.op = "yield" /\ f.pc = "handler"
    <3>1. f \in Frames
      BY <2>1, ChangedType DEF Places
    <3> QED
      BY <2>1, <3>1 DEF Frames
  <2>3. stack' = Orphaned(WithTop(f))
    BY <1>10 DEF ConnectionLost
  <2> HIDE DEF f
  <2>4. /\ n \in Nat \ {0} /\ Len(stack) = n /\ Top = stack[n]
        /\ WithTop(f) \in Seq(Frames) /\ Len(WithTop(f)) = n /\ WithTop(f)[n] = f
        /\ \A i \in 1 .. n - 1 : WithTop(f)[i] = stack[i]
    BY <2>1, <2>2, WithTopSeq, BelowSeq DEF IInv, TypeOK, Top
  <2> HIDE DEF n
  <2>5. /\ stack' \in Seq(Frames) /\ Len(stack') = n
        /\ \A i \in 1 .. n : stack'[i] = [WithTop(f)[i] EXCEPT !.live = FALSE]
    BY <2>3, <2>4, OrphanedSeq
  <2>6. \A i \in 1 .. n : /\ stack'[i].op = WithTop(f)[i].op
                          /\ stack'[i].pc = WithTop(f)[i].pc
                          /\ ~stack'[i].live
    <3> TAKE i \in 1 .. n
    <3> DEFINE g == WithTop(f)[i]
    <3>1. g \in Frames /\ stack'[i] = [g EXCEPT !.live = FALSE]
      BY <2>4, <2>5
    <3> HIDE DEF g
    <3>2. stack'[i].op = g.op /\ stack'[i].pc = g.pc /\ ~stack'[i].live
      BY <3>1 DEF Frames
    <3> QED
      BY <3>2 DEF g
  <2>7. /\ \A i \in 1 .. n : stack'[i].op = stack[i].op /\ ~stack'[i].live
        /\ \A i \in 1 .. n - 1 : stack'[i].pc = stack[i].pc
        /\ stack'[n].op = "yield" /\ stack'[n].pc = "handler"
    <3>1. \A i \in 1 .. n : i = n \/ i \in 1 .. n - 1
      BY <2>4
    <3>2. n \in 1 .. n /\ \A i \in 1 .. n - 1 : i \in 1 .. n
      BY <2>4
    <3> QED
      BY <2>1, <2>2, <2>4, <2>6, <3>1, <3>2
  <2>8. clientState' \notin ConnectedStates
    BY <1>10 DEF ConnectionLost, ConnectedStates, Busy
  <2>9. StackInv'
    <3>1. n \in Nat /\ n <= n /\ (n # 0 => stack'[n].pc # "wait")
      BY <2>4, <2>7
    <3> QED
      BY <2>4, <2>5, <2>7, <2>8, <3>1, SessionEnds DEF IInv
  <2>10. ResultInv'
    <3>1. Top' = stack'[n]
      BY <2>5 DEF Top
    <3> QED
      BY <2>7, <3>1, Elsewhere
  <2>11. SocketInv'
    <3>1. Destroy
      BY <1>10 DEF ConnectionLost
    <3>2. SocketCarries'
      BY <3>1 DEF Destroy, external, IInv, SocketInv, SocketCarries
    <3> QED
      BY <2>8, <3>2 DEF SocketInv, ConnectedHasSocket, IsConnected
  <2> QED
    BY <2>9, <2>10, <2>11 DEF Goal
<1>11. ASSUME DisconnectHandlerReturns PROVE Goal
  <2> DEFINE n == Len(stack)
  <2>1. stack # <<>> /\ Top.op = "yield" /\ Top.pc = "handler" /\ Top \in Frames
    BY <1>11, BelowSeq DEF DisconnectHandlerReturns, InDisconnectHandler, At, IInv, TypeOK
  <2>2. n \in Nat \ {0} /\ Len(stack) = n /\ Top = stack[n]
    BY <2>1, BelowSeq DEF IInv, TypeOK, Top
  <2> HIDE DEF n
  <2>3. ~stack[n].live
    BY <2>1, <2>2 DEF IInv, StackInv, YieldDead
  <2>4. \A i \in 1 .. n : stack[i].op \in Owning => ~stack[i].live
    BY <2>2, <2>3, DeadBelow DEF IInv
  <2>5. clientState' \notin ConnectedStates
    BY <1>11 DEF DisconnectHandlerReturns, ConnectedStates, Busy
  <2>6. SocketInv'
    BY <1>11, <2>5, CarriesSame
       DEF DisconnectHandlerReturns, external, IInv, SocketInv, ConnectedHasSocket, IsConnected
  <2>7. CASE isAutoReconnectEnabled
    <3>1. Goto("check") /\ ret' = "NETWORK_ATTEMPTING_RECONNECT"
      BY <1>11, <2>7 DEF DisconnectHandlerReturns
    <3> DEFINE f == [Top EXCEPT !.pc = "check"]
    <3>2. f \in Frames /\ f.op = "yield" /\ f.pc = "check" /\ f.live = Top.live
      <4>1. f \in Frames
        BY <2>1, ChangedType DEF Places
      <4> QED
        BY <2>1, <4>1 DEF Frames
    <3>3. /\ stack' # <<>> /\ Len(stack') = n /\ stack'[n] = f
          /\ \A i \in 1 .. n - 1 : stack'[i] = stack[i]
      <4>1. stack' = WithTop(f)
        BY <3>1 DEF Goto
      <4> HIDE DEF f
      <4> QED
        BY <2>1, <2>2, <3>2, <4>1, WithTopSeq DEF IInv, TypeOK
    <3>4. Top' = f
      BY <3>3 DEF Top
    <3> HIDE DEF f
    <3>5. \A i \in 1 .. n : /\ stack'[i].op = stack[i].op
                            /\ stack'[i].op \in Owning => ~stack'[i].live
      <4>1. \A i \in 1 .. n : i = n \/ i \in 1 .. n - 1
        BY <2>2
      <4> QED
        BY <2>1, <2>2, <2>3, <2>4, <3>2, <3>3, <4>1
    <3>6. StackInv'
      <4>1. n \in Nat /\ n <= n /\ (n # 0 => stack'[n].pc # "wait")
        BY <2>2, <3>2, <3>3
      <4>2. \A i \in 1 .. n - 1 : stack'[i].pc = stack[i].pc
        BY <3>3
      <4> QED
        BY <2>2, <2>5, <3>3, <3>5, <4>1, <4>2, SessionEnds DEF IInv
    <3>7. ResultInv'
      BY <2>2, <2>3, <3>1, <3>2, <3>3, <3>4, Checks
    <3> QED
      BY <2>6, <3>6, <3>7 DEF Goal
  <2>8. CASE ~isAutoReconnectEnabled
    <3>1. stack' = Below
      BY <1>11, <2>8 DEF DisconnectHandlerReturns, Return
    <3> DEFINE m == n - 1
    <3>2. /\ m \in Nat /\ n = m + 1 /\ Len(stack') = m /\ stack' \in Seq(Frames)
          /\ \A i \in 1 .. m : stack'[i] = stack[i]
      BY <2>1, <2>2, <3>1, BelowSeq DEF IInv, TypeOK
    <3> HIDE DEF m
    <3>3. \A j \in 1 .. m : stack[j].op \in Owning => ~stack[j].live
      BY <2>4, <3>2
    <3>4. StackInv'
      BY <2>2, <2>5, <3>2, <3>3, Pops DEF IInv, ConnectedStates
    <3>5. ResultInv'
      BY <2>1, <2>2, <3>2, Uncovers DEF IInv
    <3> QED
      BY <2>6, <3>4, <3>5 DEF Goal
  <2> QED
    BY <2>7, <2>8
<1> QED
  BY <1>3, <1>4, <1>5, <1>6, <1>7, <1>8, <1>9, <1>10, <1>11 DEF YieldNext, Goal

LEMMA ReconnectInv ==
  ASSUME IInv, ReconnectNext
  PROVE  StackInv' /\ ResultInv' /\ SocketInv'
<1> DEFINE Goal == StackInv' /\ ResultInv' /\ SocketInv'
<1> HIDE DEF Goal
<1>1. ASSUME ReconnectPending
      PROVE  stack # <<>> /\ Top.op = "yield" /\ ~Top.live
  <2>1. stack # <<>> /\ Top.op = "yield" /\ clientState = "PENDING_RECONNECT"
    BY <1>1 DEF ReconnectPending, At
  <2>2. Len(stack) \in 1 .. Len(stack)
    BY <2>1, BelowSeq DEF IInv, TypeOK
  <2>3. Top.op \in Owning
    BY <2>1 DEF Owning
  <2> QED
    BY <2>1, <2>2, <2>3
       DEF Top, IInv, StackInv, NoSession, IsConnected, ConnectedStates, Busy
\* yield goes on with an outcome while no session of its own exists.
<1>2. ASSUME stack # <<>>, Top.op = "yield", ~Top.live, Goto("check"),
             ret' # "NETWORK_RECONNECTED",
             UNCHANGED <<clientState, ssock, link, brokerUp, toClient>>
      PROVE Goal
  <2>1. /\ StackInv' /\ stack' # <<>>
        /\ Top'.op = "yield" /\ Top'.pc = "check" /\ ~Top'.live
    BY <1>2, TopGoes DEF Places
  <2>2. ResultInv'
    BY <1>2, <2>1, Checks
  <2>3. SocketInv'
    BY <1>2, CarriesSame, ConnectedSame DEF IInv, SocketInv
  <2> QED
    BY <2>1, <2>2, <2>3 DEF Goal
\* attempt_reconnect returns.
<1>3. ASSUME stack # <<>>, Top.op = "reconnect", stack' = Below,
             \/ UNCHANGED clientState
             \/ ~IsConnected /\ clientState' \notin ConnectedStates,
             UNCHANGED <<ssock, external>>
      PROVE Goal
  <2> DEFINE n == Len(stack) - 1
  <2>1. /\ n \in Nat /\ Len(stack) = n + 1 /\ Len(stack') = n
        /\ \A i \in 1 .. n : stack'[i] = stack[i]
        /\ Top = stack[n + 1] /\ stack' \in Seq(Frames)
    BY <1>3, BelowSeq DEF IInv, TypeOK, Top
  <2> HIDE DEF n
  <2>2. clientState' \in Busy =>
          \E j \in 1 .. n : stack[j].live /\ Holds(stack[j].op) = clientState'
    <3> SUFFICES ASSUME clientState' \in Busy
                 PROVE  \E j \in 1 .. n :
                          stack[j].live /\ Holds(stack[j].op) = clientState'
      OBVIOUS
    <3>1. UNCHANGED clientState
      BY <1>3 DEF ConnectedStates
    <3>2. PICK j \in 1 .. n + 1 : stack[j].live /\ Holds(stack[j].op) = clientState
      BY <2>1, <3>1 DEF IInv, StackInv, StateOwned
    <3>3. Holds("reconnect") \notin Busy
      BY DEF Holds, Busy
    <3>4. j # n + 1
      BY <1>3, <2>1, <3>1, <3>2, <3>3
    <3>5. j \in 1 .. n
      BY <2>1, <3>4
    <3> QED
      BY <3>1, <3>2, <3>5
  <2>3. clientState' \notin ConnectedStates =>
          \A j \in 1 .. n : stack[j].op \in Owning => ~stack[j].live
    BY <1>3, <2>1 DEF IInv, StackInv, NoSession, IsConnected
  <2>4. StackInv'
    BY <2>1, <2>2, <2>3, Pops DEF IInv
  <2>5. ResultInv'
    BY <1>3, <2>1, Uncovers DEF IInv
  <2>6. SocketInv'
    BY <1>3, CarriesSame DEF external, IInv, SocketInv, ConnectedHasSocket, IsConnected
  <2> QED
    BY <2>4, <2>5, <2>6 DEF Goal
<1>4. ASSUME ReconnectTimedOut PROVE Goal
  <2>1. SocketCarries'
    BY <1>4, CarriesSame DEF ReconnectTimedOut, external, IInv, SocketInv
  <2>2. stack # <<>> /\ Top.op = "yield" /\ ~Top.live
    BY <1>1, <1>4 DEF ReconnectTimedOut
  <2> QED
    BY <1>4, <2>1, <2>2, YieldReturnsInv DEF ReconnectTimedOut, Goal, SocketInv
<1>5. ASSUME ReconnectDelayed PROVE Goal
  BY <1>1, <1>2, <1>5 DEF ReconnectDelayed, client, external
<1>6. ASSUME ReconnectDue PROVE Goal
  <2>1. /\ stack # <<>> /\ Top.op = "yield" /\ ~Top.live
        /\ UNCHANGED <<clientState, ssock, link, brokerUp, toClient>>
    BY <1>1, <1>6 DEF ReconnectDue, external
  <2>2. PICK code \in LinkCodes :
          IF code = "NETWORK_PHYSICAL_LAYER_CONNECTED"
          THEN Goto("reconnect") /\ ret' = "none" /\ UNCHANGED waitInterval
          ELSE BackOff(code)
    BY <1>6, Zenon DEF ReconnectDue
  <2>3. CASE Goto("reconnect")
    <3>1. /\ StackInv' /\ stack' # <<>>
          /\ Top'.op = "yield" /\ Top'.pc = "reconnect"
      BY <2>1, <2>3, TopGoes DEF Places
    <3>2. ResultInv'
      BY <3>1, Elsewhere
    <3>3. SocketInv'
      BY <2>1, CarriesSame, ConnectedSame DEF IInv, SocketInv
    <3> QED
      BY <3>1, <3>2, <3>3 DEF Goal
  <2>4. CASE BackOff(code)
    <3>1. Goto("check") /\ ret' # "NETWORK_RECONNECTED"
      BY <2>4, ConstantsAssumption DEF BackOff
    <3> QED
      BY <1>2, <2>1, <3>1
  <2> QED
    BY <2>2, <2>3, <2>4
<1>7. ASSUME ReconnectAttempted PROVE Goal
  <2> DEFINE n == Len(stack)
  <2>1. stack # <<>> /\ Top.op = "yield" /\ Top.pc = "reconnect" /\ Top \in Frames
    BY <1>7, BelowSeq DEF ReconnectAttempted, At, IInv, TypeOK
  <2>2. n \in Nat \ {0} /\ Len(stack) = n /\ Top = stack[n]
    BY <2>1, BelowSeq DEF IInv, TypeOK, Top
  <2> HIDE DEF n
  <2>3. ~Top.live
    BY <2>1, <2>2 DEF IInv, StackInv, YieldDead
  <2>4. UNCHANGED <<ssock, link, brokerUp, toClient>>
    BY <1>7 DEF ReconnectAttempted, external
  <2>5. CASE ret # "NETWORK_RECONNECTED"
    <3>1. BackOff(ret) /\ UNCHANGED clientState
      BY <1>7, <2>5, Zenon DEF ReconnectAttempted
    <3>2. Goto("check") /\ ret' # "NETWORK_RECONNECTED"
      BY <2>5, <3>1 DEF BackOff
    <3> QED
      BY <1>2, <2>1, <2>3, <2>4, <3>1, <3>2
  <2>6. CASE ret = "NETWORK_RECONNECTED" /\ clientState = "IDLE"
    <3> DEFINE f == [Top EXCEPT !.pc = "check", !.live = (clientState = "IDLE")]
    <3>1. /\ stack' = WithTop(f) /\ SetClientState("IDLE", Holds("yield"))
          /\ ret' = IF clientState = "IDLE" THEN ret ELSE "MQTT_UNEXPECTED_CLIENT_STATE_ERROR"
      BY <1>7, <2>6, Zenon DEF ReconnectAttempted
    <3>2. f \in Frames
      <4>1. "check" \in Places /\ (clientState = "IDLE") \in BOOLEAN
        BY DEF Places
      <4> QED
        BY <2>1, <4>1, ChangedType, Zenon
    <3>3. f.op = "yield" /\ f.pc = "check" /\ f.live
      BY <2>1, <2>6 DEF Frames
    <3>4. clientState' = "YIELD_IN_PROGRESS" /\ ret' = "NETWORK_RECONNECTED"
      BY <2>6, <3>1 DEF SetClientState, Holds
    <3> HIDE DEF f
    <3>5. /\ stack' # <<>> /\ Len(stack') = n /\ stack'[n] = f
          /\ \A i \in 1 .. n - 1 : stack'[i] = stack[i]
      BY <2>1, <2>2, <3>1, <3>2, WithTopSeq DEF IInv, TypeOK
    <3>6. Top' = f
      BY <3>5 DEF Top
    <3>7. StackInv'
      BY <2>1, <2>2, <3>3, <3>4, <3>5, Revives DEF IInv
    <3>8. ResultInv'
      BY <3>3, <3>4, <3>5, <3>6, Checks DEF Disconnections
    <3>9. SocketInv'
      BY <2>4, <2>6, CarriesSame
         DEF IInv, SocketInv, ConnectedHasSocket, IsConnected, ConnectedStates
    <3> QED
      BY <3>7, <3>8, <3>9 DEF Goal
  <2>7. CASE ret = "NETWORK_RECONNECTED" /\ clientState # "IDLE"
    <3> DEFINE f == [Top EXCEPT !.pc = "check", !.live = (clientState = "IDLE")]
    <3>1. /\ stack' = WithTop(f) /\ SetClientState("IDLE", Holds("yield"))
          /\ ret' = IF clientState = "IDLE" THEN ret ELSE "MQTT_UNEXPECTED_CLIENT_STATE_ERROR"
      BY <1>7, <2>7, Zenon DEF ReconnectAttempted
    <3>2. f \in Frames
      <4>1. "check" \in Places /\ (clientState = "IDLE") \in BOOLEAN
        BY DEF Places
      <4> QED
        BY <2>1, <4>1, ChangedType, Zenon
    <3>3. f.op = "yield" /\ f.pc = "check" /\ f.live = FALSE /\ f.saved = Top.saved
      BY <2>1, <2>7 DEF Frames
    <3>4. Top.live = FALSE
      BY <2>1, <2>3 DEF Frames
    <3>5. UNCHANGED clientState /\ ret' = "MQTT_UNEXPECTED_CLIENT_STATE_ERROR"
      BY <2>7, <3>1 DEF SetClientState
    <3> HIDE DEF f
    <3>6. StackInv' /\ stack' # <<>> /\ Top' = f
      BY <2>1, <3>1, <3>2, <3>3, <3>4, <3>5, TopBecomes
    <3>7. ResultInv'
      BY <3>3, <3>5, <3>6, Checks DEF Disconnections
    <3>8. SocketInv'
      BY <2>4, <3>5, CarriesSame, ConnectedSame DEF IInv, SocketInv
    <3> QED
      BY <3>6, <3>7, <3>8 DEF Goal
  <2> QED
    BY <2>5, <2>6, <2>7
<1>8. ASSUME ReconnectConnected PROVE Goal
  <2>1. stack # <<>> /\ Top.op = "reconnect" /\ UNCHANGED <<ssock, external>>
    BY <1>8 DEF ReconnectConnected, At
  <2>2. CASE clientState = "IDLE"
    <3>1. Goto("resubscribe") /\ UNCHANGED clientState
      BY <1>8, <2>2 DEF ReconnectConnected
    <3>2. /\ StackInv' /\ stack' # <<>> /\ Top'.op = "reconnect"
      BY <2>1, <3>1, TopGoes DEF Places
    <3>3. ResultInv'
      BY <3>2, Elsewhere
    <3>4. SocketInv'
      BY <2>1, <3>1, CarriesSame, ConnectedSame DEF external, IInv, SocketInv
    <3> QED
      BY <3>2, <3>3, <3>4 DEF Goal
  <2>3. CASE clientState # "IDLE"
    <3>1. /\ stack' = Below
          /\ SetClientState("DISCONNECTED_ERROR", "PENDING_RECONNECT")
      BY <1>8, <2>3 DEF ReconnectConnected, Return
    <3>2. \/ UNCHANGED clientState
          \/ ~IsConnected /\ clientState' \notin ConnectedStates
      BY <3>1 DEF SetClientState, IsConnected, ConnectedStates, Busy
    <3> QED
      BY <1>3, <2>1, <3>1, <3>2
  <2> QED
    BY <2>2, <2>3
<1>9. ASSUME ReconnectResubscribed PROVE Goal
  BY <1>3, <1>9 DEF ReconnectResubscribed, At, Return, client
<1> QED
  BY <1>4, <1>5, <1>6, <1>7, <1>8, <1>9 DEF ReconnectNext, Goal

----------------------------------------------------------------------------
(* The broker and the link *)

LEMMA ExternalInv ==
  ASSUME IInv, ExternalNext
  PROVE  StackInv' /\ ResultInv' /\ SocketInv'
<1>1. UNCHANGED <<clientState, ssock, stack, ret>>
  BY DEF ExternalNext, BrokerConnects, BrokerHandles, BrokerPublishes, LinkBreaks,
         client, calls
<1>2. StackInv'
  BY <1>1, StackSame DEF IInv
<1>3. /\ SocketCarries'
      /\ toClient # <<>> /\ Head(toClient).type = "CONNACK"
           => toClient' # <<>> /\ Head(toClient').type = "CONNACK"
      /\ toClient = <<>> /\ ~brokerUp =>
           \/ toClient' = <<>> /\ ~brokerUp'
           \/ toClient' # <<>> /\ Head(toClient').type = "CONNACK"
  <2> USE DEF IInv, TypeOK, ExternalTypes, SocketInv, SocketCarries
  <2>1. CASE BrokerConnects
    <3>1. PICK accepted \in {0, 1} :
            toClient' = Append(toClient, Packet("CONNACK", NULL, accepted))
      BY <2>1 DEF BrokerConnects
    <3> DEFINE p == Packet("CONNACK", NULL, accepted)
    <3>2. p \in Packets /\ p.type = "CONNACK"
      BY PacketType DEF Packet
    <3> HIDE DEF p
    <3>3. toClient' = Append(toClient, p)
      BY <3>1 DEF p
    <3>4. /\ toClient' # <<>>
          /\ toClient # <<>> => Head(toClient') = Head(toClient)
          /\ toClient = <<>> => Head(toClient') = p
      BY <3>2, <3>3
    <3>5. SocketCarries'
      BY <1>1, <2>1 DEF BrokerConnects
    <3> QED
      BY <3>2, <3>4, <3>5
  <2>2. CASE BrokerHandles
    <3>1. brokerUp
      BY <2>2 DEF BrokerHandles
    <3>2. ssock' = "open"
      BY <1>1, <3>1
    <3>3. \/ toClient' = toClient
          \/ \E p : toClient' = Append(toClient, p)
      BY <2>2 DEF BrokerHandles
    <3>4. toClient # <<>> => toClient' # <<>> /\ Head(toClient') = Head(toClient)
      BY <3>3
    <3> QED
      BY <3>1, <3>2, <3>4
  <2>3. CASE \E topic \in Topics, qos \in {0, 1} : BrokerPublishes(topic, qos)
    <3>1. brokerUp /\ \E p : toClient' = Append(toClient, p)
      BY <2>3 DEF BrokerPublishes
    <3>2. ssock' = "open"
      BY <1>1, <3>1
    <3>3. toClient # <<>> => toClient' # <<>> /\ Head(toClient') = Head(toClient)
      BY <3>1
    <3> QED
      BY <3>1, <3>2, <3>3
  <2>4. CASE LinkBreaks
    BY <1>1, <2>4 DEF LinkBreaks
  <2> QED
    BY <2>1, <2>2, <2>3, <2>4 DEF ExternalNext
<1>4. ResultInv'
  <2>1. YieldResult' /\ DeliverResult'
    BY <1>1 DEF IInv, ResultInv, YieldResult, DeliverResult, At, Top
  <2>2. ConnectWaits'
    <3>1. Waiting("connect")' => Waiting("connect")
      BY <1>1 DEF Waiting, At, Top
    <3> QED
      BY <1>1, <1>3, <3>1 DEF IInv, ResultInv, ConnectWaits
  <2> QED
    BY <2>1, <2>2 DEF ResultInv
<1>5. SocketInv'
  BY <1>1, <1>3, ConnectedSame DEF IInv, SocketInv
<1> QED
  BY <1>2, <1>4, <1>5

----------------------------------------------------------------------------
(* The theorems *)

LEMMA IInvInit == Init => IInv
<1> SUFFICES ASSUME Init PROVE IInv
  OBVIOUS
<1>1. StackInv
  <2>1. Len(stack) = 0 /\ clientState = "INITIALIZED"
    BY DEF Init
  <2> QED
    BY <2>1 DEF StackInv, StateOwned, LiveAbove, SavedOwned, NoSession, YieldDead,
                YieldCalls, WaitsForAck, ConnectOnTop, Busy
<1>2. ResultInv
  BY DEF Init, ResultInv, YieldResult, DeliverResult, ConnectWaits, Waiting, At
<1>3. SocketInv
  BY DEF Init, SocketInv, SocketCarries, ConnectedHasSocket, IsConnected, ConnectedStates, Busy
<1> QED
  BY <1>1, <1>2, <1>3, TypeInit DEF IInv

LEMMA IInvStep == IInv /\ [Next]_vars => IInv'
<1> SUFFICES ASSUME IInv, [Next]_vars PROVE IInv'
  OBVIOUS
<1>1. TypeOK'
  BY TypeStep DEF IInv
<1>2. StackInv' /\ ResultInv' /\ SocketInv'
  <2>1. CASE Next
    BY <2>1, CallInv, WaitInv, DeliverInv, YieldInv, ReconnectInv, ExternalInv DEF Next
  <2>2. CASE UNCHANGED vars
    <3>1. UNCHANGED <<clientState, ssock, stack, ret, link, brokerUp, toClient>>
      BY <2>2 DEF vars, client, calls, external
    <3>2. StackInv'
      BY <3>1, StackSame DEF IInv
    <3>3. SocketInv'
      BY <3>1, CarriesSame, ConnectedSame DEF IInv, SocketInv
    <3>4. ResultInv'
      BY <3>1 DEF IInv, ResultInv, YieldResult, DeliverResult, ConnectWaits, Waiting, At, Top
    <3> QED
      BY <3>2, <3>3, <3>4
  <2> QED
    BY <2>1, <2>2
<1> QED
  BY <1>1, <1>2 DEF IInv

(* The invariant that ties the client state to the frames of the call stack    *)
(* and to the sessions they belong to, whatever the callbacks call and however  *)
(* deep they nest.                                                              *)
THEOREM Invariance == Spec => []IInv
<1>1. Init => IInv
  BY IInvInit
<1>2. IInv /\ [Next]_vars => IInv'
  BY IInvStep
<1> QED
  BY <1>1, <1>2, PTL DEF Spec

(* An in-progress state is always that of an operation of the live session,     *)
(* which is still on the stack to give it back; none is left when the last call  *)
(* has returned.                                                                *)
THEOREM StateIsOwned == Spec => []StateOwned
<1>1. IInv => StateOwned
  BY DEF IInv, StackInv
<1> QED
  BY <1>1, Invariance, PTL

(* A client that calls itself connected has an open TLS connection.             *)
THEOREM ConnectedMeansSocket == Spec => []ConnectedHasSocket
<1>1. IInv => ConnectedHasSocket
  BY DEF IInv, SocketInv
<1> QED
  BY <1>1, Invariance, PTL

=============================================================================
