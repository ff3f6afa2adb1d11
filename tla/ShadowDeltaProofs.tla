-------------------------- MODULE ShadowDeltaProofs --------------------------
(* For all keys, values, tables and versions, and every order of calls and     *)
(* messages: no old delta is handled, the version is one that was told, a      *)
(* registration that succeeded is heard, and the registered variables hold     *)
(* what was told last.                                                         *)
EXTENDS ShadowDeltaProperties, TLAPS

USE DeltaAssumption

Readable(wish) == \A k \in DOMAIN wish : wish[k] \in Values \cup {Unreadable}

\* Every variable has its type.
DeltaTypes ==
  /\ connected \in BOOLEAN /\ handler \in BOOLEAN /\ subscribed \in BOOLEAN
  /\ registered \in BOOLEAN /\ steady \in BOOLEAN /\ deltaTopicSubscribedFlag \in BOOLEAN
  /\ tokenTable \in Seq(Keys)
  /\ shadowJsonVersionNum \in 0..MaxVersion /\ version \in 0..MaxVersion
  /\ value \in [Keys -> Values] /\ told \in [Keys -> Values]
  /\ \A m \in messages : m.version \in Versions /\ Readable(m.wish)
  /\ entry \in 0..Len(tokenTable) /\ Readable(current)
  /\ handled \in [Versions -> 0..2] /\ adopted \subseteq Versions

\* A delta that was handled is not newer than the version that is known.
HandledAreKnown == \A v \in Versions : handled[v] > 0 => v <= shadowJsonVersionNum

\* The flag of a subscription that nothing has cost is true of the client.
FlagIsTrue ==
  /\ registered => deltaTopicSubscribedFlag
  /\ deltaTopicSubscribedFlag /\ steady => connected /\ handler /\ subscribed

\* The entries the loop of shadow_delta_callback has still to look at.
Left(k) == \E i \in entry..Len(tokenTable) : tokenTable[i] = k

\* In the middle of the loop a variable differs from what was told exactly by
\* what its entry will do; with the tokens of another document, at most in the
\* entries that are left.
LoopInv ==
  /\ Idle => tokens = "delta" /\ value = told
  /\ ~Idle /\ tokens = "delta" =>
       \A k \in Keys : told[k] = IF k \in DOMAIN current /\ Left(k)
                                 THEN Parsed(value[k], current[k]) ELSE value[k]
  /\ ~Idle /\ tokens # "delta" => \A k \in Keys : ~Left(k) => told[k] = value[k]

DeltaInv == DeltaTypes /\ VersionWasTold /\ HandledAreKnown /\ FlagIsTrue /\ LoopInv

-----------------------------------------------------------------------------
LEMMA NoneType == None \in [Versions -> 0..2]
  BY DEF None

LEMMA DeltaInitial == Init => DeltaInv
<1> SUFFICES ASSUME Init PROVE DeltaInv
  OBVIOUS
<1>1. Readable(NoWish)
  BY DEF Readable, NoWish
<1>2. DeltaTypes
  <2>1. value \in [Keys -> Values] /\ told \in [Keys -> Values]
    BY DEF Init
  <2>2. tokenTable \in Seq(Keys) /\ entry \in 0..Len(tokenTable)
    BY DEF Init
  <2>3. handled \in [Versions -> 0..2] /\ adopted \subseteq Versions
    BY NoneType DEF Init
  <2>4. shadowJsonVersionNum \in 0..MaxVersion /\ version \in 0..MaxVersion
    BY DEF Init, DeltaAssumption
  <2>5. Readable(current) /\ \A m \in messages : m.version \in Versions /\ Readable(m.wish)
    BY <1>1 DEF Init
  <2>6. /\ connected \in BOOLEAN /\ handler \in BOOLEAN /\ subscribed \in BOOLEAN
        /\ registered \in BOOLEAN /\ steady \in BOOLEAN /\ deltaTopicSubscribedFlag \in BOOLEAN
    BY DEF Init
  <2> QED
    BY <2>1, <2>2, <2>3, <2>4, <2>5, <2>6 DEF DeltaTypes
<1>3. VersionWasTold /\ HandledAreKnown /\ FlagIsTrue /\ LoopInv
  BY DEF Init, VersionWasTold, HandledAreKnown, None, FlagIsTrue, LoopInv, Idle
<1> QED
  BY <1>2, <1>3 DEF DeltaInv

\* What the service and the network do changes the messages only.
LEMMA ServiceKeeps ==
  ASSUME DeltaInv,
         UNCHANGED <<callback, link, table, versionVars, value, history>>,
         version' \in 0..MaxVersion,
         \A m \in messages' : m.version \in Versions /\ Readable(m.wish)
  PROVE  DeltaInv'
<1> USE DEF DeltaInv, callback, link, table, versionVars, history
<1>1. DeltaTypes'
  BY DEF DeltaTypes, Readable, Versions
<1>2. VersionWasTold' /\ HandledAreKnown' /\ FlagIsTrue'
  BY DEF VersionWasTold, HandledAreKnown, FlagIsTrue
<1>3. LoopInv'
  BY DEF LoopInv, Idle, Left, Parsed
<1> QED
  BY <1>1, <1>2, <1>3

LEMMA PublishDeltaKeeps ==
  ASSUME DeltaInv, NEW wish \in Wishes, PublishDelta(wish)
  PROVE  DeltaInv'
<1>1. version' \in Versions
  BY DEF PublishDelta, DeltaInv, DeltaTypes, Versions
<1>2. Readable(wish)
  BY DEF Wishes, Readable
<1>3. \A m \in messages' : m.version \in Versions /\ Readable(m.wish)
  BY <1>1, <1>2 DEF PublishDelta, Sent, DeltaInv, DeltaTypes
<1> QED
  BY <1>1, <1>3, ServiceKeeps DEF PublishDelta, Versions

LEMMA AnswerKeeps ==
  ASSUME DeltaInv, NEW topic \in Topics, Answer(topic)
  PROVE  DeltaInv'
<1>1. version' \in Versions
  BY DEF Answer
<1>2. Readable(NoWish)
  BY DEF Readable, NoWish
<1>3. \A m \in messages' : m.version \in Versions /\ Readable(m.wish)
  BY <1>1, <1>2 DEF Answer, Sent, DeltaInv, DeltaTypes
<1> QED
  BY <1>1, <1>3, ServiceKeeps DEF Answer, Versions

LEMMA LoseKeeps ==
  ASSUME DeltaInv, NEW m \in messages, Lose(m)
  PROVE  DeltaInv'
<1>1. \A n \in messages' : n.version \in Versions /\ Readable(n.wish)
  BY DEF Lose, DeltaInv, DeltaTypes
<1>2. version' \in 0..MaxVersion
  BY DEF Lose, DeltaInv, DeltaTypes
<1> QED
  BY <1>1, <1>2, ServiceKeeps DEF Lose

-----------------------------------------------------------------------------
(* The calls of the program are made between two messages.                    *)

\* What a call leaves to the loop: nothing, when no delta is being handled.
LEMMA IdleLoop ==
  ASSUME DeltaInv, Idle, UNCHANGED <<callback, value, told>>
  PROVE  LoopInv'
  BY DEF DeltaInv, LoopInv, Idle, callback

LEMMA ShadowInitKeeps == ASSUME DeltaInv, ShadowInit PROVE DeltaInv'
<1>1. DeltaTypes'
  <2>1. tokenTable' \in Seq(Keys) /\ entry' \in 0..Len(tokenTable')
    BY DEF ShadowInit, callback, Idle
  <2>2. handled' \in [Versions -> 0..2] /\ adopted' \subseteq Versions
    BY NoneType DEF ShadowInit, Versions
  <2>3. shadowJsonVersionNum' \in 0..MaxVersion
    BY DEF ShadowInit
  <2> QED
    BY <2>1, <2>2, <2>3 DEF DeltaInv, DeltaTypes, ShadowInit, callback, service, Readable, Versions
<1>2. VersionWasTold' /\ HandledAreKnown' /\ FlagIsTrue'
  BY DEF ShadowInit, VersionWasTold, HandledAreKnown, FlagIsTrue, None
<1>3. LoopInv'
  BY IdleLoop DEF ShadowInit
<1> QED
  BY <1>1, <1>2, <1>3 DEF DeltaInv

LEMMA ConnectKeeps == ASSUME DeltaInv, Connect PROVE DeltaInv'
<1>1. DeltaTypes'
  BY DEF DeltaInv, DeltaTypes, Connect, callback, table, versionVars, service, history, Readable, Versions
<1>2. VersionWasTold' /\ HandledAreKnown' /\ FlagIsTrue'
  BY DEF DeltaInv, Connect, VersionWasTold, HandledAreKnown, FlagIsTrue, table, versionVars, history
<1>3. LoopInv'
  BY IdleLoop DEF Connect, history
<1> QED
  BY <1>1, <1>2, <1>3 DEF DeltaInv

LEMMA DisconnectKeeps == ASSUME DeltaInv, Disconnect PROVE DeltaInv'
<1>1. DeltaTypes'
  BY DEF DeltaInv, DeltaTypes, Disconnect, callback, table, versionVars, service, Readable, Versions
<1>2. VersionWasTold' /\ HandledAreKnown' /\ FlagIsTrue'
  BY DEF DeltaInv, Disconnect, VersionWasTold, HandledAreKnown, FlagIsTrue, table, versionVars
<1>3. LoopInv'
  BY IdleLoop DEF Disconnect
<1> QED
  BY <1>1, <1>2, <1>3 DEF DeltaInv

LEMMA ReconnectKeeps == ASSUME DeltaInv, Reconnect PROVE DeltaInv'
<1>1. DeltaTypes'
  BY DEF DeltaInv, DeltaTypes, Reconnect, callback, table, versionVars, service, Readable, Versions
<1>2. VersionWasTold' /\ HandledAreKnown'
  BY DEF DeltaInv, Reconnect, VersionWasTold, HandledAreKnown, versionVars
<1>3. FlagIsTrue'
  BY DEF DeltaInv, DeltaTypes, Reconnect, FlagIsTrue, table
<1>4. LoopInv'
  BY IdleLoop DEF Reconnect
<1> QED
  BY <1>1, <1>2, <1>3, <1>4 DEF DeltaInv

\* The first registration sets the flag, and what it costs to fail is recorded.
LEMMA RegisterKeeps == ASSUME DeltaInv, NEW key \in Keys, Register(key) PROVE DeltaInv'
<1>1. tokenTable' \in Seq(Keys) /\ entry' \in 0..Len(tokenTable')
  BY DEF DeltaInv, DeltaTypes, Register, callback, Idle
<1>2. handler' \in BOOLEAN /\ subscribed' \in BOOLEAN /\ steady' \in BOOLEAN /\ registered' \in BOOLEAN
  BY DEF DeltaInv, DeltaTypes, Register, SubscribeOnce
<1>3. DeltaTypes'
  BY <1>1, <1>2 DEF DeltaInv, DeltaTypes, Register, callback, versionVars, service, Readable, Versions
<1>4. VersionWasTold' /\ HandledAreKnown'
  BY DEF DeltaInv, Register, VersionWasTold, HandledAreKnown, versionVars
<1>5. FlagIsTrue'
  BY DEF DeltaInv, DeltaTypes, Register, SubscribeOnce, FlagIsTrue
<1>6. LoopInv'
  BY IdleLoop DEF Register
<1> QED
  BY <1>3, <1>4, <1>5, <1>6 DEF DeltaInv

LEMMA SetDiscardKeeps == ASSUME DeltaInv, NEW on, SetDiscard(on) PROVE DeltaInv'
<1>1. DeltaTypes'
  BY DEF DeltaInv, DeltaTypes, SetDiscard, callback, link, table, service, history, Readable, Versions
<1>2. VersionWasTold' /\ HandledAreKnown' /\ FlagIsTrue'
  BY DEF DeltaInv, SetDiscard, VersionWasTold, HandledAreKnown, FlagIsTrue, link, table, history
<1>3. LoopInv'
  BY IdleLoop DEF SetDiscard, history
<1> QED
  BY <1>1, <1>2, <1>3 DEF DeltaInv

LEMMA ResetVersionKeeps == ASSUME DeltaInv, ResetVersion PROVE DeltaInv'
<1>1. DeltaTypes'
  BY DEF DeltaInv, DeltaTypes, ResetVersion, callback, link, table, service, None, Readable, Versions
<1>2. VersionWasTold' /\ HandledAreKnown' /\ FlagIsTrue'
  BY DEF DeltaInv, ResetVersion, VersionWasTold, HandledAreKnown, FlagIsTrue, link, table, None
<1>3. LoopInv'
  BY IdleLoop DEF ResetVersion
<1> QED
  BY <1>1, <1>2, <1>3 DEF DeltaInv

-----------------------------------------------------------------------------
(* Messages.                                                                  *)

LEMMA ReceivedKeeps ==
  ASSUME DeltaInv, NEW m \in messages, Received(m)
  PROVE  /\ version' \in 0..MaxVersion
         /\ \A n \in messages' : n.version \in Versions /\ Readable(n.wish)
  BY DEF DeltaInv, DeltaTypes, Received

\* An answer brings a version, and only that of a get is taken over.
LEMMA DeliverAnswerKeeps ==
  ASSUME DeltaInv, NEW m \in messages, DeliverAnswer(m)
  PROVE  DeltaInv'
<1>1. m.version \in 1..MaxVersion
  BY DEF DeltaInv, DeltaTypes, Versions
<1>2. shadowJsonVersionNum' \in 0..MaxVersion /\ adopted' \subseteq Versions
  <2>1. shadowJsonVersionNum \in 0..MaxVersion /\ adopted \subseteq Versions
    BY DEF DeltaInv, DeltaTypes
  <2>2. shadowJsonVersionNum' \in {shadowJsonVersionNum, m.version}
    BY DEF DeliverAnswer
  <2>3. adopted' \in {adopted, adopted \cup {m.version}}
    BY DEF DeliverAnswer
  <2> QED
    BY <1>1, <2>1, <2>2, <2>3 DEF Versions
<1>3. DeltaTypes'
  BY <1>2, ReceivedKeeps
  DEF DeltaInv, DeltaTypes, DeliverAnswer, callback, link, table, Readable, Versions
<1>4. VersionWasTold'
  BY <1>1 DEF DeltaInv, DeltaTypes, DeliverAnswer, VersionWasTold, MovesVersion, IsNew, Versions
<1>5. HandledAreKnown'
  BY <1>1 DEF DeltaInv, DeltaTypes, DeliverAnswer, HandledAreKnown, IsNew, Versions
<1>6. FlagIsTrue'
  BY DEF DeltaInv, DeliverAnswer, FlagIsTrue, link, table
<1>7. LoopInv'
  BY IdleLoop DEF DeliverAnswer
<1> QED
  BY <1>3, <1>4, <1>5, <1>6, <1>7 DEF DeltaInv

\* What a delta tells of a key is a value.
LEMMA ToldType ==
  ASSUME DeltaInv, NEW m, Readable(m.wish)
  PROVE  Told(m) \in [Keys -> Values]
  BY DEF DeltaInv, DeltaTypes, Told, Parsed, Readable

\* Entering the loop: every key the message names is left to be looked at.
LEMMA HandleDeltaKeeps ==
  ASSUME DeltaInv, Idle, NEW m, Readable(m.wish), HandleDelta(m), UNCHANGED <<tokenTable, value>>
  PROVE  /\ LoopInv' /\ told' \in [Keys -> Values]
         /\ entry' \in 0..Len(tokenTable') /\ Readable(current')
<1>1. Readable(NoWish)
  BY DEF Readable, NoWish
<1>2. Readable(current')
  BY <1>1 DEF HandleDelta, CallbackEnds, CallbackAt
<1>3. value = told /\ tokenTable \in Seq(Keys)
  BY DEF DeltaInv, DeltaTypes, LoopInv
<1>4. CASE tokenTable = <<>>
  <2>1. told' = told
    BY <1>3, <1>4 DEF HandleDelta, Told, IsRegistered, Entries, DeltaInv, DeltaTypes
  <2> QED
    BY <1>2, <1>3, <1>4, <2>1 DEF HandleDelta, CallbackEnds, CallbackAt, LoopInv, Idle, DeltaInv, DeltaTypes
<1>5. CASE tokenTable # <<>>
  <2>1. current' = m.wish /\ entry' = 1 /\ tokens' = "delta" /\ told' = Told(m)
    BY <1>5 DEF HandleDelta, CallbackAt
  <2>2. Len(tokenTable) \in Nat /\ Len(tokenTable) # 0
    BY <1>3, <1>5
  <2>3. ASSUME NEW k \in Keys
        PROVE told'[k] = IF k \in DOMAIN current' /\ Left(k)'
                         THEN Parsed(value'[k], current'[k]) ELSE value'[k]
    <3>1. Left(k)' <=> IsRegistered(k)
      BY <2>1 DEF Left, IsRegistered, Entries
    <3> QED
      BY <1>3, <2>1, <3>1 DEF Told, Parsed
  <2>4. LoopInv'
    BY <2>1, <2>3 DEF LoopInv, Idle
  <2> QED
    BY <1>2, <2>1, <2>2, <2>4, ToldType
<1> QED
  BY <1>4, <1>5

LEMMA DeliverDeltaKeeps ==
  ASSUME DeltaInv, NEW m \in messages, DeliverDelta(m)
  PROVE  DeltaInv'
<1>1. m.version \in 1..MaxVersion /\ Readable(m.wish)
  BY DEF DeltaInv, DeltaTypes, Versions
<1>2. Idle /\ UNCHANGED <<tokenTable, value>>
  BY DEF DeliverDelta, table
<1>3. CASE HandleDelta(m)
            /\ shadowJsonVersionNum' = m.version /\ IsNew(m.version)
            /\ handled' = [handled EXCEPT ![m.version] = IF @ < 2 THEN @ + 1 ELSE @]
            /\ adopted' = adopted \cup {m.version}
  <2>1. LoopInv' /\ told' \in [Keys -> Values]
        /\ entry' \in 0..Len(tokenTable') /\ Readable(current')
    BY <1>1, <1>2, <1>3, HandleDeltaKeeps
  <2>2. handled' \in [Versions -> 0..2] /\ adopted' \subseteq Versions
    <3>1. handled \in [Versions -> 0..2] /\ adopted \subseteq Versions /\ m.version \in Versions
      BY DEF DeltaInv, DeltaTypes
    <3>2. handled[m.version] \in 0..2
      BY <3>1
    <3>3. (IF handled[m.version] < 2 THEN handled[m.version] + 1 ELSE handled[m.version]) \in 0..2
      BY <3>2
    <3> QED
      BY <1>3, <3>1, <3>3
  <2>3. DeltaTypes'
    BY <1>1, <1>3, <2>1, <2>2, ReceivedKeeps
    DEF DeltaInv, DeltaTypes, DeliverDelta, link, table, Versions
  <2>4. VersionWasTold'
    <3>1. \A v \in adopted : v <= shadowJsonVersionNum /\ v \in 1..MaxVersion
      BY DEF DeltaInv, DeltaTypes, VersionWasTold, Versions
    <3>2. shadowJsonVersionNum \in 0..MaxVersion /\ m.version > shadowJsonVersionNum
      BY <1>3 DEF DeltaInv, DeltaTypes, IsNew
    <3>3. \A v \in adopted : v <= m.version
      BY <1>1, <3>1, <3>2
    <3> QED
      BY <1>1, <1>3, <3>3 DEF VersionWasTold
  <2>5. HandledAreKnown'
    BY <1>1, <1>3 DEF DeltaInv, DeltaTypes, HandledAreKnown, IsNew, Versions
  <2>6. FlagIsTrue'
    BY DEF DeltaInv, DeliverDelta, FlagIsTrue, link, table
  <2> QED
    BY <2>1, <2>3, <2>4, <2>5, <2>6 DEF DeltaInv
<1>4. CASE HandleDelta(m) /\ UNCHANGED <<shadowJsonVersionNum, handled, adopted>>
  <2>1. LoopInv' /\ told' \in [Keys -> Values]
        /\ entry' \in 0..Len(tokenTable') /\ Readable(current')
    BY <1>1, <1>2, <1>4, HandleDeltaKeeps
  <2>2. DeltaTypes'
    BY <1>4, <2>1, ReceivedKeeps DEF DeltaInv, DeltaTypes, DeliverDelta, link, table, Versions
  <2>3. VersionWasTold' /\ HandledAreKnown' /\ FlagIsTrue'
    BY <1>4 DEF DeltaInv, DeliverDelta, VersionWasTold, HandledAreKnown, FlagIsTrue, link, table
  <2> QED
    BY <2>1, <2>2, <2>3 DEF DeltaInv
<1>5. CASE UNCHANGED <<callback, shadowJsonVersionNum, handled, adopted, told>>
  <2>1. LoopInv'
    BY <1>2, <1>5, IdleLoop
  <2>2. DeltaTypes'
    BY <1>5, ReceivedKeeps
    DEF DeltaInv, DeltaTypes, DeliverDelta, callback, link, table, Readable, Versions
  <2>3. VersionWasTold' /\ HandledAreKnown' /\ FlagIsTrue'
    BY <1>5 DEF DeltaInv, DeliverDelta, VersionWasTold, HandledAreKnown, FlagIsTrue, link, table
  <2> QED
    BY <2>1, <2>2, <2>3 DEF DeltaInv
<1> QED
  BY <1>3, <1>4, <1>5 DEF DeliverDelta, HandleIfNew, HandleAlways

-----------------------------------------------------------------------------
(* The loop.                                                                  *)

\* What the loop does not touch.
LEMMA LoopStep ==
  ASSUME DeltaInv, UNCHANGED <<link, table, versionVars, service, registered, steady, handled, adopted>>,
         value' \in [Keys -> Values], told' \in [Keys -> Values],
         entry' \in 0..Len(tokenTable), Readable(current'), LoopInv'
  PROVE  DeltaInv'
<1>1. DeltaTypes'
  BY DEF DeltaInv, DeltaTypes, link, table, versionVars, service, Versions
<1>2. VersionWasTold' /\ HandledAreKnown' /\ FlagIsTrue'
  BY DEF DeltaInv, VersionWasTold, HandledAreKnown, FlagIsTrue, link, table, versionVars
<1> QED
  BY <1>1, <1>2 DEF DeltaInv

\* The loop ends with the last entry, or goes on to the next.
LEMMA NextEntryTypes ==
  ASSUME DeltaInv, ~Idle, NEW whose, NextEntry(whose)
  PROVE  /\ entry \in 1..Len(tokenTable) /\ tokenTable[entry] \in Keys
         /\ entry' \in 0..Len(tokenTable) /\ Readable(current')
         /\ \/ entry = Len(tokenTable) /\ entry' = 0 /\ tokens' = "delta"
            \/ entry # Len(tokenTable) /\ entry' = entry + 1 /\ tokens' = whose /\ current' = current
<1>1. Readable(NoWish)
  BY DEF Readable, NoWish
<1>2. entry \in 1..Len(tokenTable) /\ tokenTable \in Seq(Keys) /\ Len(tokenTable) \in Nat
  BY DEF DeltaInv, DeltaTypes, Idle
<1>3. tokenTable[entry] \in Keys
  BY <1>2
<1>4. Readable(current)
  BY DEF DeltaInv, DeltaTypes
<1> QED
  BY <1>1, <1>2, <1>3, <1>4 DEF NextEntry, CallbackEnds, CallbackAt

\* One entry fewer is left: the one that was looked at, unless it comes again.
LEMMA LeftNext ==
  ASSUME DeltaInv, entry \in 1..Len(tokenTable), tokenTable' = tokenTable, NEW k
  PROVE  /\ entry = Len(tokenTable) => (Left(k) <=> k = tokenTable[entry])
         /\ entry' = entry + 1 => (Left(k) <=> k = tokenTable[entry] \/ Left(k)')
<1>1. Len(tokenTable) \in Nat
  BY DEF DeltaInv, DeltaTypes
<1>2. entry..Len(tokenTable) = {entry} \cup (entry + 1)..Len(tokenTable)
  BY <1>1
<1> QED
  BY <1>1, <1>2 DEF Left

LEMMA HandleEntryKeeps == ASSUME DeltaInv, HandleEntry PROVE DeltaInv'
<1> DEFINE key == tokenTable[entry]
<1>1. PICK whose : NextEntry(whose)
  BY DEF HandleEntry
<1>2. /\ entry \in 1..Len(tokenTable) /\ key \in Keys
      /\ entry' \in 0..Len(tokenTable) /\ Readable(current')
      /\ \/ entry = Len(tokenTable) /\ entry' = 0 /\ tokens' = "delta"
         \/ entry # Len(tokenTable) /\ entry' = entry + 1 /\ tokens' = whose /\ current' = current
  BY <1>1, NextEntryTypes DEF HandleEntry
<1>3. UNCHANGED <<tokenTable, told>> /\ ~Idle /\ tokens = "delta" /\ Readable(current)
      /\ value \in [Keys -> Values] /\ told \in [Keys -> Values]
  BY DEF HandleEntry, table, history, DeltaInv, DeltaTypes
<1>4. value' = IF key \in DOMAIN current
               THEN [value EXCEPT ![key] = Parsed(value[key], current[key])] ELSE value
  BY DEF HandleEntry
<1>5. value' \in [Keys -> Values]
  BY <1>2, <1>3, <1>4 DEF Parsed, Readable
<1>6. \A k \in Keys : told[k] = IF k \in DOMAIN current /\ Left(k)
                                THEN Parsed(value[k], current[k]) ELSE value[k]
  BY <1>3 DEF DeltaInv, LoopInv
<1>7. Left(key)
  BY <1>2, LeftNext DEF Left
<1>8. /\ told[key] = value'[key]
      /\ \A k \in Keys : k # key => value'[k] = value[k]
  BY <1>2, <1>3, <1>4, <1>6, <1>7
<1>9. ASSUME entry = Len(tokenTable) PROVE LoopInv'
  <2>1. \A k \in Keys : told[k] = value'[k]
    BY <1>2, <1>3, <1>6, <1>8, <1>9, LeftNext
  <2>2. value' = told'
    BY <1>3, <1>5, <2>1
  <2>3. entry' = 0 /\ tokens' = "delta"
    BY <1>2, <1>9
  <2> QED
    BY <2>2, <2>3 DEF LoopInv, Idle
<1>10. ASSUME entry # Len(tokenTable) PROVE LoopInv'
  <2>1. \A k \in Keys : told[k] = IF k \in DOMAIN current /\ Left(k)'
                                  THEN Parsed(value'[k], current[k]) ELSE value'[k]
    <3> SUFFICES ASSUME NEW k \in Keys
                 PROVE  told[k] = IF k \in DOMAIN current /\ Left(k)'
                                  THEN Parsed(value'[k], current[k]) ELSE value'[k]
      OBVIOUS
    <3>1. CASE k = key
      BY <1>2, <1>3, <1>4, <1>8, <3>1 DEF Parsed
    <3>2. CASE k # key
      <4>1. Left(k) <=> Left(k)'
        BY <1>2, <1>3, <1>10, <3>2, LeftNext
      <4> QED
        BY <1>6, <1>8, <3>2, <4>1
    <3> QED
      BY <3>1, <3>2
  <2>2. entry' # 0 /\ current' = current /\ told' = told
    BY <1>2, <1>3, <1>10
  <2>3. \A k \in Keys : told'[k] = IF k \in DOMAIN current' /\ Left(k)'
                                   THEN Parsed(value'[k], current'[k]) ELSE value'[k]
    BY <2>1, <2>2
  <2>4. \A k \in Keys : ~Left(k)' => told'[k] = value'[k]
    BY <2>3
  <2> QED
    BY <2>2, <2>3, <2>4 DEF LoopInv, Idle
<1>11. LoopInv'
  BY <1>9, <1>10
<1> QED
  BY <1>2, <1>3, <1>5, <1>11, LoopStep DEF HandleEntry, history

LEMMA HandleEntryAstrayKeeps == ASSUME DeltaInv, HandleEntryAstray PROVE DeltaInv'
<1> DEFINE key == tokenTable[entry]
<1>1. PICK v \in Values : /\ value' = [value EXCEPT ![key] = v]
                          /\ told' = [told EXCEPT ![key] = v]
  BY DEF HandleEntryAstray
<1>2. /\ entry \in 1..Len(tokenTable) /\ key \in Keys
      /\ entry' \in 0..Len(tokenTable) /\ Readable(current')
      /\ \/ entry = Len(tokenTable) /\ entry' = 0 /\ tokens' = "delta"
         \/ entry # Len(tokenTable) /\ entry' = entry + 1 /\ tokens' = "request" /\ current' = current
  BY NextEntryTypes DEF HandleEntryAstray
<1>3. tokenTable' = tokenTable /\ ~Idle /\ tokens # "delta"
      /\ value \in [Keys -> Values] /\ told \in [Keys -> Values]
  BY DEF HandleEntryAstray, table, DeltaInv, DeltaTypes
<1>4. value' \in [Keys -> Values] /\ told' \in [Keys -> Values]
  BY <1>1, <1>3
<1>5. \A k \in Keys : ~Left(k) => told[k] = value[k]
  BY <1>3 DEF DeltaInv, LoopInv
<1>6. \A k \in Keys : ~Left(k) \/ k = key => told'[k] = value'[k]
  BY <1>1, <1>2, <1>3, <1>5
<1>7. ASSUME entry = Len(tokenTable) PROVE LoopInv'
  <2>1. \A k \in Keys : told'[k] = value'[k]
    BY <1>2, <1>3, <1>6, <1>7, LeftNext
  <2>2. value' = told'
    BY <1>4, <2>1
  <2>3. entry' = 0 /\ tokens' = "delta"
    BY <1>2, <1>7
  <2> QED
    BY <2>2, <2>3 DEF LoopInv, Idle
<1>8. ASSUME entry # Len(tokenTable) PROVE LoopInv'
  <2>1. \A k \in Keys : ~Left(k)' => told'[k] = value'[k]
    BY <1>2, <1>3, <1>6, <1>8, LeftNext
  <2>2. entry' # 0 /\ tokens' = "request"
    BY <1>2, <1>8
  <2> QED
    BY <2>1, <2>2 DEF LoopInv, Idle
<1>9. LoopInv'
  BY <1>7, <1>8
<1> QED
  BY <1>2, <1>3, <1>4, <1>9, LoopStep DEF HandleEntryAstray

-----------------------------------------------------------------------------
LEMMA DeltaInductive == DeltaInv /\ [Next]_vars => DeltaInv'
<1> SUFFICES ASSUME DeltaInv, [Next]_vars PROVE DeltaInv'
  OBVIOUS
<1>1. CASE ShadowInit
  BY <1>1, ShadowInitKeeps
<1>2. CASE Connect
  BY <1>2, ConnectKeeps
<1>3. CASE Disconnect
  BY <1>3, DisconnectKeeps
<1>4. CASE Reconnect
  BY <1>4, ReconnectKeeps
<1>5. CASE ResetVersion
  BY <1>5, ResetVersionKeeps
<1>6. CASE \E key \in Keys : Register(key)
  BY <1>6, RegisterKeeps
<1>7. CASE \E on \in BOOLEAN : SetDiscard(on)
  BY <1>7, SetDiscardKeeps
<1>8. CASE \E wish \in Wishes : PublishDelta(wish)
  BY <1>8, PublishDeltaKeeps
<1>9. CASE \E topic \in Topics \ {"delta"} : Answer(topic)
  BY <1>9, AnswerKeeps
<1>10. CASE \E m \in messages : Lose(m) \/ DeliverAnswer(m) \/ DeliverDelta(m)
  BY <1>10, LoseKeeps, DeliverAnswerKeeps, DeliverDeltaKeeps
<1>11. CASE HandleEntry
  BY <1>11, HandleEntryKeeps
<1>12. CASE HandleEntryAstray
  BY <1>12, HandleEntryAstrayKeeps
<1>13. CASE UNCHANGED vars
  <2>1. UNCHANGED <<callback, link, table, versionVars, value, history>> /\ UNCHANGED service
    BY <1>13 DEF vars
  <2> QED
    BY <2>1, ServiceKeeps DEF service, DeltaInv, DeltaTypes
<1> QED
  BY <1>1, <1>2, <1>3, <1>4, <1>5, <1>6, <1>7, <1>8, <1>9, <1>10, <1>11, <1>12, <1>13 DEF Next

\* The inductive invariant of the delta side of the library.
THEOREM DeltaInvariance == Spec => []DeltaInv
  BY DeltaInitial, DeltaInductive, PTL DEF Spec

\* The version that old messages are measured by is the newest of those the code
\* takes over: from the answers to a get and from the deltas it handled while
\* discarding was on.
THEOREM VersionIsOneThatWasTold == Spec => []VersionWasTold
<1>1. DeltaInv => VersionWasTold
  BY DEF DeltaInv
<1> QED
  BY <1>1, DeltaInvariance, PTL

\* Between two deltas the registered variables hold what was told last,
\* whatever the table holds, duplicate registrations included.
THEOREM VariablesHoldWhatWasTold == Spec => []HoldsWhatWasTold
<1>1. DeltaInv => HoldsWhatWasTold
  BY DEF DeltaInv, LoopInv, HoldsWhatWasTold
<1> QED
  BY <1>1, DeltaInvariance, PTL

\* After a registration succeeded the delta is heard until a disconnect, or a
\* subscription that fails.
THEOREM SteadyRegistrationIsHeard == Spec => []SteadyIsHeard
<1>1. DeltaInv => SteadyIsHeard
  BY DEF DeltaInv, FlagIsTrue, SteadyIsHeard
<1> QED
  BY <1>1, DeltaInvariance, PTL

\* However messages are repeated and reordered, no delta is handled after a
\* newer one or a second time, until the version is reset.
THEOREM OldDeltasAreIgnored == Spec => NoOldDelta
<1> DEFINE Step == \A v \in Versions :
                     handled'[v] > handled[v] => \A w \in v..MaxVersion : handled[w] = 0
<1>1. ASSUME DeltaInv, [Next]_vars PROVE [Step]_vars
  <2> USE <1>1
  <2>0. handled \in [Versions -> 0..2]
    BY DEF DeltaInv, DeltaTypes
  <2>1. CASE handled' = handled
    BY <2>0, <2>1
  <2>2. CASE handled' = None
    BY <2>0, <2>2 DEF None
  <2>3. ASSUME NEW m \in messages, IsNew(m.version),
               handled' = [handled EXCEPT ![m.version] = IF @ < 2 THEN @ + 1 ELSE @]
        PROVE  Step
    <3>1. m.version \in Versions
      BY DEF DeltaInv, DeltaTypes
    <3>2. \A v \in Versions : v # m.version => handled'[v] = handled[v]
      BY <2>0, <2>3
    <3>3. ASSUME NEW w \in m.version..MaxVersion PROVE handled[w] = 0
      <4>1. w \in Versions /\ w > shadowJsonVersionNum
        BY <2>3, <3>1 DEF DeltaInv, DeltaTypes, IsNew, Versions
      <4>2. handled[w] \in 0..2 /\ ~(handled[w] > 0)
        BY <2>0, <4>1 DEF DeltaInv, DeltaTypes, HandledAreKnown, Versions
      <4> QED
        BY <4>2
    <3>4. \A v \in Versions : handled[v] \in 0..2
      BY <2>0
    <3> QED
      BY <3>2, <3>3, <3>4
  <2>4. CASE Next
    <3>1. \/ handled' = handled \/ handled' = None
          \/ \E m \in messages :
               /\ IsNew(m.version)
               /\ handled' = [handled EXCEPT ![m.version] = IF @ < 2 THEN @ + 1 ELSE @]
      BY <2>4 DEF Next, ShadowInit, Connect, Disconnect, Reconnect, ResetVersion, Register, SetDiscard,
                  PublishDelta, Answer, Lose, DeliverAnswer, DeliverDelta, HandleIfNew, HandleAlways,
                  HandleEntry, HandleEntryAstray, history
    <3> QED
      BY <2>1, <2>2, <2>3, <3>1
  <2> QED
    BY <2>4
<1> QED
  BY <1>1, DeltaInvariance, PTL DEF Spec, NoOldDelta

=============================================================================
