--------------------------- MODULE ThermostatProofs ---------------------------
(* For every period of the PWM, all readings and all wishes: what the heater is *)
(* told stays in the period, and between two passes it is what the program     *)
(* remembers, whenever the AWS thread runs.                                    *)
EXTENDS ThermostatProperties, WellFoundedInduction, TLAPS

\* The AWS thread, the service and the link touch no more of what the control
\* thread works with than the temperature that is asked for.
controlled == <<control, pwmDuty, temperatureVal, overwritten>>

LEMMA PeriodType == PwmPeriod \in Nat
  BY ThermostatAssumption

LEMMA InitInv == Init => IInv
  BY PeriodType DEF Init, IInv, InPass, HwFollowsDuty

\* A step that leaves the duty and the control thread alone keeps the invariant.
LEMMA UntouchedKeeps ==
  ASSUME IInv, UNCHANGED controlled
  PROVE  IInv'
  BY DEF IInv, InPass, HwFollowsDuty, controlled, control

\* The start of the AWS thread clears the duty under the control thread.
LEMMA StartKeeps ==
  ASSUME IInv, Start
  PROVE  IInv'
  BY PeriodType DEF IInv, InPass, HwFollowsDuty, Start, control

LEMMA AwsUntouched ==
  ASSUME AwsStep, ~Start
  PROVE  UNCHANGED controlled
<1>1. CASE Connect \/ Register
  BY <1>1 DEF Connect, Register, controlled, params
<1>2. CASE YieldReturns \/ YieldFindsLoss \/ YieldReconnects \/ YieldGivesUp
  BY <1>2 DEF YieldReturns, YieldFindsLoss, YieldReconnects, YieldGivesUp, controlled, params
<1>3. CASE Reported \/ ReportLost \/ ReportFails \/ Leave
  BY <1>3 DEF Reported, ReportLost, ReportFails, Leave, controlled, params
<1> QED
  BY <1>1, <1>2, <1>3 DEF AwsStep

LEMMA OthersUntouched ==
  ASSUME \/ LinkLost
         \/ \E wish \in Wishes : Ask(wish)
         \/ \E m \in messages : Deliver(m)
  PROVE  UNCHANGED controlled
<1>1. CASE LinkLost
  BY <1>1 DEF LinkLost, controlled, params
<1>2. CASE \E wish \in Wishes : Ask(wish)
  BY <1>2 DEF Ask, controlled, params
<1>3. CASE \E m \in messages : Deliver(m)
  BY <1>3 DEF Deliver, controlled
<1> QED
  BY <1>1, <1>2, <1>3

-----------------------------------------------------------------------------
(* The control thread, one lemma for each access to the shared structure.      *)

\* What a control action starts from.
LEMMA Ranges ==
  ASSUME IInv
  PROVE  /\ pwmDuty \in -50 .. (PwmPeriod + 50) /\ hwDuty \in 0 .. PwmPeriod
         /\ ctl # "clamp" => pwmDuty \in 0 .. PwmPeriod
  BY DEF IInv

LEMMA InitDevicesKeeps ==
  ASSUME IInv, InitDevices
  PROVE  IInv'
  BY PeriodType DEF IInv, InPass, HwFollowsDuty, InitDevices, params

LEMMA SenseKeeps ==
  ASSUME IInv, Sense
  PROVE  IInv'
  BY PeriodType DEF IInv, InPass, HwFollowsDuty, Sense

LEMMA SaveKeeps ==
  ASSUME IInv, Save
  PROVE  IInv'
  BY PeriodType DEF IInv, InPass, HwFollowsDuty, Save, params

\* A comparison reads a duty that is in the period and adds at most one step.
LEMMA BranchKeeps ==
  ASSUME IInv, Branch
  PROVE  IInv'
<1>1. /\ ctl \in {"cold", "hot", "cool", "warm"}
      /\ UNCHANGED <<pwmOpen, hwDuty, savePwmDuty, pwmDuty, overwritten>>
      /\ \/ ctl' = "store" /\ reg' \in {pwmDuty + 50, pwmDuty - 50, pwmDuty + 25, pwmDuty - 25}
         \/ ctl' \in {"hot", "cool", "warm", "clamp"}
  <2>1. CASE Compare("cold", "hot", Error < -2, 50)
    BY <2>1 DEF Compare, params
  <2>2. CASE Compare("hot", "cool", Error > 2, -50)
    <3>1. pwmDuty + (-50) = pwmDuty - 50
      BY Ranges, PeriodType
    <3> QED
      BY <2>2, <3>1 DEF Compare, params
  <2>3. CASE Compare("cool", "warm", Error < -1, 25)
    BY <2>3 DEF Compare, params
  <2>4. CASE Compare("warm", "clamp", Error > 1, -25)
    <3>1. pwmDuty + (-25) = pwmDuty - 25
      BY Ranges, PeriodType
    <3> QED
      BY <2>4, <3>1 DEF Compare, params
  <2> QED
    BY <2>1, <2>2, <2>3, <2>4 DEF Branch
<1>2. pwmDuty \in 0 .. PwmPeriod
  BY <1>1, Ranges
<1>3. CASE ctl' = "store" /\ reg' \in {pwmDuty + 50, pwmDuty - 50, pwmDuty + 25, pwmDuty - 25}
  <2>1. reg' \in -50 .. (PwmPeriod + 50)
    BY <1>2, <1>3, PeriodType
  <2> QED
    BY <1>1, <1>2, <1>3, <2>1, PeriodType DEF IInv, InPass, HwFollowsDuty
<1>4. CASE ctl' \in {"hot", "cool", "warm", "clamp"}
  BY <1>1, <1>2, <1>4, PeriodType DEF IInv, InPass, HwFollowsDuty
<1> QED
  BY <1>1, <1>3, <1>4

LEMMA StoreKeeps ==
  ASSUME IInv, Store
  PROVE  IInv'
  BY PeriodType DEF IInv, InPass, HwFollowsDuty, Store

\* The clamp brings any duty back into the period.
LEMMA ClampKeeps ==
  ASSUME IInv, Clamp
  PROVE  IInv'
<1>1. Clamped(pwmDuty) \in 0 .. PwmPeriod
  BY Ranges, PeriodType DEF Clamped
<1>2. /\ ctl = "clamp" /\ ctl' = "changed" /\ pwmDuty' = Clamped(pwmDuty)
      /\ UNCHANGED <<pwmOpen, hwDuty, savePwmDuty, overwritten>>
  BY DEF Clamp
<1> QED
  BY <1>1, <1>2, PeriodType DEF IInv, InPass, HwFollowsDuty

LEMMA ChangedKeeps ==
  ASSUME IInv, Changed
  PROVE  IInv'
  BY PeriodType DEF IInv, InPass, HwFollowsDuty, Changed

LEMMA SetDutyKeeps ==
  ASSUME IInv, SetDuty
  PROVE  IInv'
  BY PeriodType DEF IInv, InPass, HwFollowsDuty, SetDuty, params

-----------------------------------------------------------------------------
LEMMA NextKeeps == IInv /\ [Next]_vars => IInv'
<1> SUFFICES ASSUME IInv, [Next]_vars PROVE IInv'
  OBVIOUS
<1>1. CASE AwsStep
  BY <1>1, StartKeeps, AwsUntouched, UntouchedKeeps
<1>2. CASE ControlStep
  BY <1>2, InitDevicesKeeps, SenseKeeps, SaveKeeps, BranchKeeps, StoreKeeps, ClampKeeps,
     ChangedKeeps, SetDutyKeeps DEF ControlStep
<1>3. CASE \/ LinkLost
           \/ \E wish \in Wishes : Ask(wish)
           \/ \E m \in messages : Deliver(m)
  BY <1>3, OthersUntouched, UntouchedKeeps
<1>4. CASE UNCHANGED vars
  BY <1>4, UntouchedKeeps DEF vars, controlled, params
<1> QED
  BY <1>1, <1>2, <1>3, <1>4 DEF Next

\* The invariant of adjustPWM and pwmUpdate under the interference of the AWS
\* thread.
THEOREM Invariance == Spec => []IInv
  BY InitInv, NextKeeps, PTL DEF Spec

\* What the driver is told to apply never leaves the period, and what a report
\* can read leaves it by one step at most.
THEOREM DutyStaysInRange == Spec => []DutyInRange
<1>1. IInv => DutyInRange
  BY DEF IInv, DutyInRange
<1> QED
  BY <1>1, Invariance, PTL

\* Between two passes the heater runs at the duty the program remembers, unless
\* the start of the AWS thread has just cleared it.
THEOREM HeaterRunsAtDuty == Spec => []HwFollowsDuty
<1>1. IInv => HwFollowsDuty
  BY DEF IInv
<1> QED
  BY <1>1, Invariance, PTL

-----------------------------------------------------------------------------
(* The documents.  Induction first: a set of numbers has a least element.      *)

LEMMA LeastNumber ==
  ASSUME NEW T, T \subseteq Nat, T # {}
  PROVE  \E m \in T : \A n \in T : m <= n
<1>1. PICK R : R = {ss \in Nat \X Nat : ss[1] < ss[2]}
  OBVIOUS
<1>2. IsWellFoundedOn(R, Nat)
  BY <1>1, NatLessThanWellFounded DEF OpToRel
<1>3. PICK m \in T : \A n \in T : <<n, m>> \notin R
  BY <1>2, WFMin
<1>4. ASSUME NEW n \in T PROVE m <= n
  <2>1. <<n, m>> \in Nat \X Nat /\ <<n, m>>[1] = n /\ <<n, m>>[2] = m
    OBVIOUS
  <2> QED
    BY <1>1, <1>3, <2>1
<1> QED
  BY <1>4

\* A property that holds of 0, and of each number when it holds of the one
\* before, holds of all up to a bound.
LEMMA UpTo ==
  ASSUME NEW bound \in Nat, NEW S, 0 \in S,
         \A n \in 1 .. bound : n - 1 \in S => n \in S
  PROVE  \A n \in 0 .. bound : n \in S
<1> SUFFICES ASSUME NEW l \in 0 .. bound, l \notin S PROVE FALSE
  OBVIOUS
<1>0. (0 .. bound) \ S # {} /\ (0 .. bound) \ S \subseteq Nat
  OBVIOUS
<1>1. PICK m \in (0 .. bound) \ S : \A n \in (0 .. bound) \ S : m <= n
  BY <1>0, LeastNumber
<1>2. m \in 1 .. bound /\ m - 1 \in 0 .. bound /\ ~(m <= m - 1)
  BY <1>1
<1> QED
  BY <1>1, <1>2

-----------------------------------------------------------------------------
(* The two recursive definitions define functions.                             *)

IsFilling(f, doc, items, size, k) ==
  /\ f = [n \in 0 .. k |-> f[n]]
  /\ f[0] = doc
  /\ \A n \in 1 .. k : f[n] = AddItem(f[n - 1], items[n], size)

IsLength(f, items, k) ==
  /\ f = [n \in 0 .. k |-> f[n]]
  /\ f[0] = 0
  /\ \A n \in 1 .. k : f[n] = f[n - 1] + items[n].key + items[n].value

LEMMA FillingExists ==
  ASSUME NEW doc, NEW items, NEW size, NEW k \in Nat
  PROVE  \E f : IsFilling(f, doc, items, size, k)
<1> DEFINE S == {n \in Nat : \E f : IsFilling(f, doc, items, size, n)}
<1>1. 0 \in S
  <2>1. PICK f : f = [n \in 0 .. 0 |-> doc]
    OBVIOUS
  <2>2. IsFilling(f, doc, items, size, 0)
    BY <2>1 DEF IsFilling
  <2> QED
    BY <2>2
<1>2. ASSUME NEW n \in 1 .. k, n - 1 \in S PROVE n \in S
  <2>1. PICK f : IsFilling(f, doc, items, size, n - 1)
    BY <1>2
  <2>2. PICK last : last = AddItem(f[n - 1], items[n], size)
    OBVIOUS
  <2>3. PICK g : g = [m \in 0 .. n |-> IF m = n THEN last ELSE f[m]]
    OBVIOUS
  <2>4. g[n] = last /\ \A m \in 0 .. n - 1 : g[m] = f[m]
    BY <2>3
  <2>5. g[0] = doc
    BY <2>1, <2>4 DEF IsFilling
  <2>6. ASSUME NEW m \in 1 .. n PROVE g[m] = AddItem(g[m - 1], items[m], size)
    <3>1. CASE m = n
      BY <2>2, <2>4, <3>1
    <3>2. CASE m # n
      <4>1. m \in 1 .. n - 1 /\ m - 1 \in 0 .. n - 1 /\ m \in 0 .. n - 1
        BY <3>2
      <4>2. f[m] = AddItem(f[m - 1], items[m], size)
        BY <2>1, <4>1 DEF IsFilling
      <4> QED
        BY <2>4, <4>1, <4>2
    <3> QED
      BY <3>1, <3>2
  <2>7. g = [m \in 0 .. n |-> g[m]]
    BY <2>3
  <2>8. IsFilling(g, doc, items, size, n)
    BY <2>5, <2>6, <2>7 DEF IsFilling
  <2> QED
    BY <2>8
<1> HIDE DEF S
<1>3. k \in S
  BY <1>1, <1>2, UpTo
<1> QED
  BY <1>3 DEF S

LEMMA LengthExists ==
  ASSUME NEW items, NEW k \in Nat
  PROVE  \E f : IsLength(f, items, k)
<1> DEFINE S == {n \in Nat : \E f : IsLength(f, items, n)}
<1>1. 0 \in S
  <2>1. PICK f : f = [n \in 0 .. 0 |-> 0]
    OBVIOUS
  <2>2. IsLength(f, items, 0)
    BY <2>1 DEF IsLength
  <2> QED
    BY <2>2
<1>2. ASSUME NEW n \in 1 .. k, n - 1 \in S PROVE n \in S
  <2>1. PICK f : IsLength(f, items, n - 1)
    BY <1>2
  <2>2. PICK last : last = f[n - 1] + items[n].key + items[n].value
    OBVIOUS
  <2>3. PICK g : g = [m \in 0 .. n |-> IF m = n THEN last ELSE f[m]]
    OBVIOUS
  <2>4. g[n] = last /\ \A m \in 0 .. n - 1 : g[m] = f[m]
    BY <2>3
  <2>5. g[0] = 0
    BY <2>1, <2>4 DEF IsLength
  <2>6. ASSUME NEW m \in 1 .. n PROVE g[m] = g[m - 1] + items[m].key + items[m].value
    <3>1. CASE m = n
      BY <2>2, <2>4, <3>1
    <3>2. CASE m # n
      <4>1. m \in 1 .. n - 1 /\ m - 1 \in 0 .. n - 1 /\ m \in 0 .. n - 1
        BY <3>2
      <4>2. f[m] = f[m - 1] + items[m].key + items[m].value
        BY <2>1, <4>1 DEF IsLength
      <4> QED
        BY <2>4, <4>1, <4>2
    <3> QED
      BY <3>1, <3>2
  <2>7. g = [m \in 0 .. n |-> g[m]]
    BY <2>3
  <2>8. IsLength(g, items, n)
    BY <2>5, <2>6, <2>7 DEF IsLength
  <2> QED
    BY <2>8
<1> HIDE DEF S
<1>3. k \in S
  BY <1>1, <1>2, UpTo
<1> QED
  BY <1>3 DEF S

LEMMA FilledIsFilling ==
  ASSUME NEW doc, NEW items, NEW size, Len(items) \in Nat
  PROVE  \E f : IsFilling(f, doc, items, size, Len(items)) /\ Filled(doc, items, size) = f[Len(items)]
<1> DEFINE Step(f) == [n \in 0 .. Len(items) |-> IF n = 0 THEN doc ELSE AddItem(f[n - 1], items[n], size)]
<1>1. PICK g : IsFilling(g, doc, items, size, Len(items))
  BY FillingExists
<1>2. g = Step(g)
  <2>1. \A n \in 0 .. Len(items) : g[n] = IF n = 0 THEN doc ELSE AddItem(g[n - 1], items[n], size)
    BY <1>1 DEF IsFilling
  <2>2. [n \in 0 .. Len(items) |-> g[n]] = Step(g)
    BY <2>1
  <2> QED
    BY <1>1, <2>2 DEF IsFilling
<1>3. PICK f : f = CHOOSE filled : filled = Step(filled)
  OBVIOUS
<1>4. f = Step(f)
  BY <1>2, <1>3
<1>5. Filled(doc, items, size) = f[Len(items)]
  BY <1>3 DEF Filled
<1>6. IsFilling(f, doc, items, size, Len(items))
  <2>1. /\ \A n \in 0 .. Len(items) : f[n] = IF n = 0 THEN doc ELSE AddItem(f[n - 1], items[n], size)
        /\ f = [n \in 0 .. Len(items) |-> f[n]]
    BY <1>4
  <2>2. 0 \in 0 .. Len(items) /\ \A n \in 1 .. Len(items) : n \in 0 .. Len(items) /\ n # 0
    OBVIOUS
  <2> QED
    BY <2>1, <2>2 DEF IsFilling
<1> QED
  BY <1>5, <1>6

LEMMA SectionLengthIsLength ==
  ASSUME NEW items, Len(items) \in Nat
  PROVE  \E f : IsLength(f, items, Len(items)) /\ SectionLength(items) = f[Len(items)]
<1> DEFINE Step(f) == [n \in 0 .. Len(items) |->
                         IF n = 0 THEN 0 ELSE f[n - 1] + items[n].key + items[n].value]
<1>1. PICK g : IsLength(g, items, Len(items))
  BY LengthExists
<1>2. g = Step(g)
  <2>1. \A n \in 0 .. Len(items) :
          g[n] = IF n = 0 THEN 0 ELSE g[n - 1] + items[n].key + items[n].value
    BY <1>1 DEF IsLength
  <2>2. [n \in 0 .. Len(items) |-> g[n]] = Step(g)
    BY <2>1
  <2> QED
    BY <1>1, <2>2 DEF IsLength
<1>3. PICK f : f = CHOOSE sum : sum = Step(sum)
  OBVIOUS
<1>4. f = Step(f)
  BY <1>2, <1>3
<1>5. SectionLength(items) = f[Len(items)]
  BY <1>3 DEF SectionLength
<1>6. IsLength(f, items, Len(items))
  <2>1. /\ \A n \in 0 .. Len(items) :
             f[n] = IF n = 0 THEN 0 ELSE f[n - 1] + items[n].key + items[n].value
        /\ f = [n \in 0 .. Len(items) |-> f[n]]
    BY <1>4
  <2>2. 0 \in 0 .. Len(items) /\ \A n \in 1 .. Len(items) : n \in 0 .. Len(items) /\ n # 0
    OBVIOUS
  <2> QED
    BY <2>1, <2>2 DEF IsLength
<1> QED
  BY <1>5, <1>6

-----------------------------------------------------------------------------
(* What the calls do when there is room.                                       *)

ItemType == [key : Nat, value : Nat]

\* A document in which nothing went wrong: its length, and the room the next
\* call believes in.
Whole(len, rem) == [len |-> len, rem |-> rem, rc |-> "SUCCESS", past |-> FALSE]

LEMMA PrintedFits ==
  ASSUME NEW l, NEW r, NEW at \in Nat, NEW rem \in Nat, NEW n \in Nat, NEW size \in Nat,
         n < rem, at + n < size
  PROVE  Printed(Whole(l, r), at, rem, n, size) = Whole(at + n, rem)
<1>1. ~(n >= rem) /\ rem # 0 /\ ~(at + n + 1 > size)
  OBVIOUS
<1> QED
  BY <1>1 DEF Printed, Whole

\* A buffer whose size does not wrap.
IsSize(size) == size \in Nat /\ size < SizeModulus

LEMMA RoomIsWhatIsLeft ==
  ASSUME NEW l \in Nat, NEW r, NEW size \in Nat, IsSize(size), l <= size
  PROVE  Room(Whole(l, r), size) = size - l
<1>1. SizeModulus \in Nat /\ size - l \in 0 .. SizeModulus - 1
  BY JsonAssumption DEF IsSize
<1>2. (size - l) % SizeModulus = size - l
  BY <1>1
<1> QED
  BY <1>2 DEF Room, Whole

LEMMA AppendedFits ==
  ASSUME NEW l \in Nat, NEW r, NEW back \in Nat, NEW n \in Nat, NEW size \in Nat,
         IsSize(size), back <= l, l + n < size, l + 1 < size
  PROVE  Appended(Whole(l, r), back, n, size) = Whole(l - back + n, size - l)
<1>1. PICK rem \in Nat : rem = size - l
  OBVIOUS
<1>2. PICK at \in Nat : at = l - back
  OBVIOUS
<1>3. Room(Whole(l, r), size) = rem /\ ~(rem <= 1)
  BY <1>1, RoomIsWhatIsLeft
<1>4. Appended(Whole(l, r), back, n, size) = Printed(Whole(l, r), at, rem, n, size)
  BY <1>2, <1>3 DEF Appended, Whole
<1>5. n < rem /\ at + n < size
  BY <1>1, <1>2
<1>6. Printed(Whole(l, r), at, rem, n, size) = Whole(at + n, rem)
  BY <1>5, PrintedFits
<1> QED
  BY <1>1, <1>2, <1>4, <1>6

\* A key and its value; the next call believes in the room before the key.
LEMMA ItemFits ==
  ASSUME NEW l \in Nat, NEW r, NEW item, NEW k \in Nat, NEW v \in Nat, NEW size \in Nat,
         item.key = k, item.value = v, IsSize(size), l + k + v + 1 < size
  PROVE  AddItem(Whole(l, r), item, size) = Whole(l + k + v, size - l)
<1>1. PICK rem \in Nat : rem = size - l
  OBVIOUS
<1>2. PICK at \in Nat : at = l + k
  OBVIOUS
<1>3. Appended(Whole(l, r), 0, k, size) = Whole(at, rem)
  <2>1. l - 0 + k = at
    BY <1>2
  <2>2. Appended(Whole(l, r), 0, k, size) = Whole(l - 0 + k, size - l)
    BY AppendedFits
  <2> QED
    BY <1>1, <2>1, <2>2
<1>4. AddItem(Whole(l, r), item, size) = Printed(Whole(at, rem), at, rem, v, size)
  BY <1>3 DEF AddItem, WithValue, Whole
<1>5. v < rem /\ at + v < size
  BY <1>1, <1>2
<1>6. Printed(Whole(at, rem), at, rem, v, size) = Whole(at + v, rem)
  BY <1>5, PrintedFits
<1> QED
  BY <1>1, <1>2, <1>4, <1>6

-----------------------------------------------------------------------------
(* Sections.                                                                   *)

LEMMA ItemAt ==
  ASSUME NEW items \in Seq(ItemType), NEW n \in 1 .. Len(items)
  PROVE  /\ items[n] \in ItemType
         /\ \E k, v \in Nat : items[n].key = k /\ items[n].value = v
<1>1. items[n] \in ItemType
  OBVIOUS
<1> QED
  BY <1>1 DEF ItemType

\* Each item makes a section longer.
LEMMA LengthsGrow ==
  ASSUME NEW items \in Seq(ItemType), NEW f, NEW l \in Nat, l = Len(items), IsLength(f, items, l)
  PROVE  \A n \in 0 .. l : f[n] \in Nat /\ f[n] <= f[l]
<1>1. ASSUME NEW n \in 1 .. l, NEW before \in Nat, f[n - 1] = before
      PROVE  f[n] \in Nat /\ before <= f[n]
  <2>1. PICK k \in Nat, v \in Nat : items[n].key = k /\ items[n].value = v
    BY ItemAt
  <2>2. f[n] = before + k + v
    BY <1>1, <2>1 DEF IsLength
  <2> QED
    BY <2>1, <2>2
<1> DEFINE S == {n \in Nat : f[n] \in Nat}
<1>2. 0 \in S
  BY DEF IsLength
<1>3. \A n \in 1 .. l : n - 1 \in S => n \in S
  BY <1>1
<1> HIDE DEF S
<1>4. \A n \in 0 .. l : n \in S
  BY <1>2, <1>3, UpTo
<1> USE DEF S
<1>6. PICK top \in Nat : top = f[l]
  BY <1>4
<1> DEFINE D == {n \in Nat : f[l - n] <= top}
<1>7. 0 \in D
  BY <1>6
<1>8. ASSUME NEW n \in 1 .. l, n - 1 \in D PROVE n \in D
  <2>1. PICK m \in 1 .. l : m = l - (n - 1) /\ m - 1 = l - n
    OBVIOUS
  <2>2. f[m] <= top
    BY <1>8, <2>1
  <2>3. PICK before \in Nat, after \in Nat : before = f[m - 1] /\ after = f[m]
    BY <1>4
  <2>4. before <= after
    BY <1>1, <2>3
  <2>5. before <= top
    BY <2>2, <2>3, <2>4
  <2> QED
    BY <2>1, <2>3, <2>5
<1> HIDE DEF D
<1>9. \A n \in 0 .. l : n \in D
  BY <1>7, <1>8, UpTo
<1>10. ASSUME NEW n \in 0 .. l PROVE f[n] <= top
  <2>1. PICK m \in 0 .. l : m = l - n /\ l - m = n
    OBVIOUS
  <2>2. f[l - m] <= top
    BY <1>9 DEF D
  <2> QED
    BY <2>1, <2>2
<1> QED
  BY <1>4, <1>6, <1>10

\* Items that have room for all of them and two characters are all there, and
\* the room that is believed in is at least the room that is left.
LEMMA ItemsFit ==
  ASSUME NEW l \in Nat, NEW r \in Nat, NEW items \in Seq(ItemType), NEW total, NEW size \in Nat,
         total = SectionLength(items),
         IsSize(size), r >= size - l, l + total + 2 < size
  PROVE  \E rem \in Nat : /\ Filled(Whole(l, r), items, size) = Whole(l + total, rem)
                          /\ rem >= size - (l + total)
<1>0. PICK last \in Nat : last = Len(items)
  OBVIOUS
<1>1. PICK f : /\ IsFilling(f, Whole(l, r), items, size, last)
               /\ Filled(Whole(l, r), items, size) = f[last]
  BY <1>0, FilledIsFilling
<1>2. PICK g : IsLength(g, items, last) /\ total = g[last]
  BY <1>0, SectionLengthIsLength
<1>3. \A n \in 0 .. last : g[n] \in Nat /\ g[n] <= g[last]
  BY <1>0, <1>2, LengthsGrow
<1> DEFINE S == {n \in Nat : \E rem \in Nat : f[n] = Whole(l + g[n], rem) /\ rem >= size - (l + g[n])}
<1>4. 0 \in S
  <2>1. f[0] = Whole(l, r) /\ g[0] = 0 /\ l + 0 = l
    BY <1>1, <1>2 DEF IsFilling, IsLength
  <2>2. f[0] = Whole(l + g[0], r) /\ r >= size - (l + g[0])
    BY <2>1
  <2> QED
    BY <2>2
<1>5. ASSUME NEW n \in 1 .. last, n - 1 \in S PROVE n \in S
  <2>1. PICK rem \in Nat, before \in Nat :
          before = g[n - 1] /\ f[n - 1] = Whole(l + before, rem) /\ rem >= size - (l + before)
    BY <1>3, <1>5
  <2>0. PICK item : item = items[n]
    OBVIOUS
  <2>2. PICK k \in Nat, v \in Nat : item.key = k /\ item.value = v
    BY <1>0, <2>0, ItemAt
  <2>3. f[n] = AddItem(Whole(l + before, rem), item, size) /\ g[n] = before + k + v
    BY <1>1, <1>2, <2>0, <2>1, <2>2 DEF IsFilling, IsLength
  <2>4. PICK after \in Nat : after = g[n] /\ after = before + k + v /\ after <= total
    BY <1>2, <1>3, <2>3
  <2>5. PICK len \in Nat : len = l + before
    OBVIOUS
  <2>6. total \in Nat
    BY <1>2, <1>3
  <2>7. len + k + v + 1 < size /\ len + k + v = l + after
    BY <2>4, <2>5, <2>6
  <2>8. AddItem(Whole(len, rem), item, size) = Whole(len + k + v, size - len)
    BY <2>2, <2>7, ItemFits
  <2>9. f[n] = Whole(l + g[n], size - len)
    BY <2>3, <2>4, <2>5, <2>7, <2>8
  <2>10. PICK room \in Nat : room = size - len /\ room >= size - (l + after)
    BY <2>4, <2>5, <2>7
  <2>11. f[n] = Whole(l + g[n], room) /\ room >= size - (l + g[n])
    BY <2>4, <2>9, <2>10
  <2> QED
    BY <2>11
<1> HIDE DEF S
<1>6. \A n \in 0 .. last : n \in S
  BY <1>4, <1>5, UpTo
<1> QED
  BY <1>1, <1>2, <1>6 DEF S

LEMMA SectionLengthType ==
  ASSUME NEW items \in Seq(ItemType)
  PROVE  SectionLength(items) \in Nat
<1>1. PICK l \in Nat : l = Len(items)
  OBVIOUS
<1>2. PICK g : IsLength(g, items, l) /\ SectionLength(items) = g[l]
  BY <1>1, SectionLengthIsLength
<1> QED
  BY <1>1, <1>2, LengthsGrow

\* The items of a section and the length they come to.
Adds(items, total) == items \in Seq(ItemType) /\ total = SectionLength(items)

LEMMA SectionFits ==
  ASSUME NEW l \in Nat, NEW r, NEW header \in Nat, NEW items,
         NEW total \in Nat, NEW size \in Nat, NEW end \in Nat, Adds(items, total),
         IsSize(size), l >= 1, end = l + header + total + 1, end + 1 < size
  PROVE  \E rem : WithSection(Whole(l, r), header, items, size) = Whole(end, rem)
<1>2. PICK len \in Nat, room \in Nat : len = l + header /\ room = size - l
  OBVIOUS
<1>3. Appended(Whole(l, r), 0, header, size) = Whole(len, room)
  <2>1. l - 0 + header = len
    BY <1>2
  <2>2. Appended(Whole(l, r), 0, header, size) = Whole(l - 0 + header, size - l)
    BY AppendedFits
  <2> QED
    BY <1>2, <2>1, <2>2
<1>4. room >= size - len /\ len + total + 2 < size
  BY <1>2
<1>5. PICK rem \in Nat : /\ Filled(Whole(len, room), items, size) = Whole(len + total, rem)
                         /\ rem >= size - (len + total)
  BY <1>4, ItemsFit DEF Adds
<1>6. PICK full \in Nat, at \in Nat : full = len + total /\ at = full - 1
  BY <1>2
<1>7. WithSection(Whole(l, r), header, items, size) = Printed(Whole(full, rem), at, rem, 2, size)
  <2>1. PICK filled : filled = Filled(Appended(Whole(l, r), 0, header, size), items, size)
    OBVIOUS
  <2>2. filled = Whole(full, rem)
    BY <1>3, <1>5, <1>6, <2>1
  <2>3. filled.rc = "SUCCESS" /\ filled.rem = rem /\ filled.len - 1 = at
    BY <1>6, <2>2 DEF Whole
  <2>4. WithSection(Whole(l, r), header, items, size) = Printed(filled, filled.len - 1, filled.rem, 2, size)
    BY <2>1, <2>3 DEF WithSection
  <2> QED
    BY <2>2, <2>3, <2>4
<1>8. 2 < rem /\ at + 2 < size /\ at + 2 = end
  BY <1>2, <1>4, <1>5, <1>6
<1>9. Printed(Whole(full, rem), at, rem, 2, size) = Whole(at + 2, rem)
  BY <1>8, PrintedFits
<1> QED
  BY <1>7, <1>8, <1>9

LEMMA EndFits ==
  ASSUME NEW l \in Nat, NEW r, NEW token \in Nat, NEW size \in Nat, NEW end \in Nat,
         IsSize(size), l >= 1, end = l + 19 + token, end < size
  PROVE  \E rem : Finalized(Whole(l, r), token, size) = Whole(end, rem)
<1>1. PICK a \in Nat, b \in Nat, c \in Nat : a = l + 17 /\ b = a + token /\ c = b + 2
  OBVIOUS
<1>2. Appended(Whole(l, r), 1, 18, size) = Whole(a, size - l)
  <2>1. l - 1 + 18 = a
    BY <1>1
  <2>2. Appended(Whole(l, r), 1, 18, size) = Whole(l - 1 + 18, size - l)
    BY AppendedFits
  <2> QED
    BY <2>1, <2>2
<1>3. Appended(Whole(a, size - l), 0, token, size) = Whole(b, size - a)
  <2>1. a - 0 + token = b
    BY <1>1
  <2>2. Appended(Whole(a, size - l), 0, token, size) = Whole(a - 0 + token, size - a)
    BY <1>1, AppendedFits
  <2> QED
    BY <2>1, <2>2
<1>4. Appended(Whole(b, size - a), 0, 2, size) = Whole(c, size - b)
  <2>1. b - 0 + 2 = c
    BY <1>1
  <2>2. Appended(Whole(b, size - a), 0, 2, size) = Whole(b - 0 + 2, size - b)
    BY <1>1, AppendedFits
  <2> QED
    BY <2>1, <2>2
<1>5. c = end
  BY <1>1
<1>6. Finalized(Whole(l, r), token, size) = Whole(c, size - b)
  BY <1>2, <1>3, <1>4 DEF Finalized
<1> QED
  BY <1>5, <1>6

LEMMA OpenedFits ==
  ASSUME NEW size \in Nat, 10 < size
  PROVE  Opened(size) = Whole(10, size)
<1>1. Opened(size) = Printed(Whole(0, size), 0, size, 10, size)
  BY DEF Opened, Whole
<1>2. Printed(Whole(0, size), 0, size, 10, size) = Whole(0 + 10, size)
  BY PrintedFits
<1> QED
  BY <1>1, <1>2

LEMMA ReportedFits ==
  ASSUME NEW r, NEW rl \in Nat, Adds(r, rl), NEW size \in Nat, IsSize(size),
         NEW a \in Nat, a = 10 + 12 + rl + 1, a + 1 < size
  PROVE  \E rem : WithSection(Whole(10, size), 12, r, size) = Whole(a, rem)
  BY SectionFits

LEMMA LengthsAddUp ==
  ASSUME NEW rl \in Nat, NEW dl \in Nat, NEW token \in Nat, NEW size \in Nat, NEW length \in Nat,
         length = 10 + 12 + 11 + rl + dl + 2 + 17 + token + 2, length < size
  PROVE  \E a, b \in Nat : /\ 10 < size
                           /\ a = 10 + 12 + rl + 1 /\ a >= 1 /\ a + 1 < size
                           /\ b = a + 11 + dl + 1 /\ b >= 1 /\ b + 1 < size
                           /\ length = b + 19 + token
<1>1. PICK a \in Nat : a = 10 + 12 + rl + 1
  OBVIOUS
<1>2. PICK b \in Nat : b = a + 11 + dl + 1
  OBVIOUS
<1> QED
  BY <1>1, <1>2

LEMMA DocumentFits ==
  ASSUME NEW r, NEW rl \in Nat, Adds(r, rl), NEW d, NEW dl \in Nat, Adds(d, dl),
         NEW token \in Nat, NEW size \in Nat, NEW length \in Nat,
         length = 10 + 12 + 11 + rl + dl + 2 + 17 + token + 2, length < size, IsSize(size)
  PROVE  \E rem :
           Finalized(WithDesired(WithReported(Opened(size), r, size), d, size), token, size)
             = Whole(length, rem)
<1>1. PICK a \in Nat, b \in Nat : /\ 10 < size
                                  /\ a = 10 + 12 + rl + 1 /\ a >= 1 /\ a + 1 < size
                                  /\ b = a + 11 + dl + 1 /\ b >= 1 /\ b + 1 < size
                                  /\ length = b + 19 + token
  BY LengthsAddUp
<1>2. Opened(size) = Whole(10, size)
  BY <1>1, OpenedFits
<1>3. PICK rem1 : WithSection(Whole(10, size), 12, r, size) = Whole(a, rem1)
  BY <1>1, ReportedFits
<1>4. PICK rem2 : WithSection(Whole(a, rem1), 11, d, size) = Whole(b, rem2)
  <2>1. PICK header \in Nat : header = 11
    OBVIOUS
  <2>2. a >= 1 /\ b = a + header + dl + 1 /\ b + 1 < size
    BY <1>1, <2>1
  <2>3. \E rem : WithSection(Whole(a, rem1), header, d, size) = Whole(b, rem)
    BY <2>2, SectionFits
  <2> QED
    BY <2>1, <2>3
<1>5. PICK rem3 : Finalized(Whole(b, rem2), token, size) = Whole(length, rem3)
  BY <1>1, EndFits
<1> QED
  BY <1>2, <1>3, <1>4, <1>5 DEF WithReported, WithDesired

\* Whatever is reported and desired: a buffer that is longer than the document
\* holds all of it, although the room is not counted again after a key.
THEOREM RoomyDocuments ==
  ASSUME NEW r, NEW rl \in Nat, Adds(r, rl), NEW d, NEW dl \in Nat, Adds(d, dl),
         NEW token \in Nat, NEW size \in Nat, NEW length \in Nat,
         length = 10 + 12 + 11 + rl + dl + 2 + 17 + token + 2, length < size, IsSize(size)
  PROVE  LET doc == Finalized(WithDesired(WithReported(Opened(size), r, size), d, size), token, size)
         IN doc.rc = "SUCCESS" /\ ~doc.past /\ doc.len = length
<1>1. \E rem : Finalized(WithDesired(WithReported(Opened(size), r, size), d, size), token, size)
                 = Whole(length, rem)
  BY DocumentFits
<1> QED
  BY <1>1 DEF Whole

\* The same of a document with what is reported only, as the program sends it.
LEMMA RoomyReports ==
  ASSUME NEW r, NEW rl \in Nat, Adds(r, rl), NEW token \in Nat, NEW size \in Nat,
         10 + 12 + rl + 1 + 19 + token < size, IsSize(size)
  PROVE  LET doc == Finalized(WithReported(Opened(size), r, size), token, size)
         IN doc.rc = "SUCCESS" /\ ~doc.past
<1>1. Opened(size) = Whole(10, size)
  BY OpenedFits
<1>2. PICK a \in Nat, end \in Nat : a = 10 + 12 + rl + 1 /\ end = a + 19 + token
  OBVIOUS
<1>3. PICK rem1 : WithSection(Whole(10, size), 12, r, size) = Whole(a, rem1)
  <2>1. a = 10 + 12 + rl + 1 /\ a + 1 < size
    BY <1>2
  <2> QED
    BY <2>1, ReportedFits
<1>4. PICK rem3 : Finalized(Whole(a, rem1), token, size) = Whole(end, rem3)
  <2>1. a >= 1 /\ end = a + 19 + token /\ end < size
    BY <1>2
  <2> QED
    BY <2>1, EndFits
<1> QED
  BY <1>1, <1>3, <1>4 DEF Whole, WithReported

-----------------------------------------------------------------------------
(* The documents of this program.                                              *)

LEMMA LengthOfTwo ==
  ASSUME NEW i \in ItemType, NEW j \in ItemType,
         NEW il \in Nat, il = i.key + i.value, NEW jl \in Nat, jl = j.key + j.value
  PROVE  SectionLength(<<i, j>>) = il + jl
<1>1. PICK items : items = <<i, j>>
  OBVIOUS
<1>2. Len(items) = 2 /\ items[1] = i /\ items[2] = j
  BY <1>1
<1>3. PICK f : IsLength(f, items, 2) /\ SectionLength(items) = f[2]
  <2>1. Len(items) \in Nat
    BY <1>2
  <2> QED
    BY <1>2, <2>1, SectionLengthIsLength
<1>4. \A n \in 1 .. 2 : f[n] = f[n - 1] + items[n].key + items[n].value
  BY <1>3 DEF IsLength
<1>5. PICK ik \in Nat, iv \in Nat, jk \in Nat, jv \in Nat :
        ik = i.key /\ iv = i.value /\ jk = j.key /\ jv = j.value
  BY DEF ItemType
<1>6. f[0] = 0
  BY <1>3 DEF IsLength
<1>7. f[1] = 0 + ik + iv
  BY <1>2, <1>4, <1>5, <1>6
<1>8. f[2] = f[1] + jk + jv
  BY <1>2, <1>4, <1>5
<1> QED
  BY <1>1, <1>3, <1>5, <1>7, <1>8

LEMMA LengthOfSix ==
  ASSUME NEW items, Len(items) = 6, NEW a \in [1 .. 6 -> Nat],
         \A n \in 1 .. 6 : items[n] \in ItemType /\ a[n] = items[n].key + items[n].value
  PROVE  SectionLength(items) = a[1] + a[2] + a[3] + a[4] + a[5] + a[6]
<1>1. PICK f : IsLength(f, items, 6) /\ SectionLength(items) = f[6]
  <2>1. Len(items) \in Nat
    OBVIOUS
  <2> QED
    BY <2>1, SectionLengthIsLength
<1>2. ASSUME NEW n \in 1 .. 6, NEW before \in Nat, f[n - 1] = before
      PROVE  f[n] = before + a[n]
  <2>1. PICK k \in Nat, v \in Nat : k = items[n].key /\ v = items[n].value
    BY DEF ItemType
  <2>2. f[n] = before + k + v /\ a[n] = k + v
    BY <1>1, <1>2, <2>1 DEF IsLength
  <2> QED
    BY <2>1, <2>2
<1>3. a[1] \in Nat /\ a[2] \in Nat /\ a[3] \in Nat /\ a[4] \in Nat /\ a[5] \in Nat /\ a[6] \in Nat
  OBVIOUS
<1>4. f[0] = 0 /\ f[1 - 1] = 0
  BY <1>1 DEF IsLength
<1>5. f[1] = a[1] /\ f[2 - 1] = a[1]
  BY <1>2, <1>3, <1>4
<1>6. f[2] = a[1] + a[2] /\ f[3 - 1] = a[1] + a[2]
  BY <1>2, <1>3, <1>5
<1>7. f[3] = a[1] + a[2] + a[3] /\ f[4 - 1] = a[1] + a[2] + a[3]
  BY <1>2, <1>3, <1>6
<1>8. f[4] = a[1] + a[2] + a[3] + a[4] /\ f[5 - 1] = a[1] + a[2] + a[3] + a[4]
  BY <1>2, <1>3, <1>7
<1>9. f[5] = a[1] + a[2] + a[3] + a[4] + a[5] /\ f[6 - 1] = a[1] + a[2] + a[3] + a[4] + a[5]
  BY <1>2, <1>3, <1>8
<1> QED
  BY <1>1, <1>2, <1>3, <1>9

LEMMA ReportsFit == ReportFits
<1> SUFFICES ASSUME NEW items \in ReportItems, NEW token \in {11, 21}
             PROVE LET doc == Finalized(WithReported(Opened(ReportBuffer), items, ReportBuffer),
                                        token, ReportBuffer)
                   IN doc.rc = "SUCCESS" /\ ~doc.past
  BY DEF ReportFits, Reports
<1>1. PICK t \in Item(14, {9, 13}), d \in Item(14, {2, 4}), x \in Item(7, {2, 5}),
           y \in Item(7, {2, 5}), z \in Item(7, {2, 5}), p \in Item(10, {2, 6}) :
        items = <<t, d, x, y, z, p>>
  BY DEF ReportItems
<1>2. /\ t \in ItemType /\ d \in ItemType /\ x \in ItemType
      /\ y \in ItemType /\ z \in ItemType /\ p \in ItemType
  BY DEF Item, ItemType
<1>3. items \in Seq(ItemType) /\ Len(items) = 6
  BY <1>1, <1>2
<1>4. /\ t.key + t.value \in 0 .. 27 /\ d.key + d.value \in 0 .. 18
      /\ x.key + x.value \in 0 .. 12 /\ y.key + y.value \in 0 .. 12
      /\ z.key + z.value \in 0 .. 12 /\ p.key + p.value \in 0 .. 16
  BY DEF Item
<1>5. PICK rl \in Nat : rl = SectionLength(items) /\ rl <= 97
  <2>1. PICK a : a = [n \in 1 .. 6 |-> items[n].key + items[n].value]
    OBVIOUS
  <2>2. /\ a[1] \in 0 .. 27 /\ a[2] \in 0 .. 18 /\ a[3] \in 0 .. 12
        /\ a[4] \in 0 .. 12 /\ a[5] \in 0 .. 12 /\ a[6] \in 0 .. 16
    BY <1>1, <1>4, <2>1
  <2>3. a \in [1 .. 6 -> Nat]
    <3>1. ASSUME NEW n \in 1 .. 6 PROVE a[n] \in Nat
      <4>1. n = 1 \/ n = 2 \/ n = 3 \/ n = 4 \/ n = 5 \/ n = 6
        OBVIOUS
      <4> QED
        BY <2>2, <4>1
    <3> QED
      BY <2>1, <3>1
  <2>4. ASSUME NEW n \in 1 .. 6 PROVE items[n] \in ItemType
    <3>1. n \in 1 .. Len(items)
      BY <1>3
    <3> QED
      BY <1>3, <3>1, ItemAt
  <2>6. \A n \in 1 .. 6 : a[n] = items[n].key + items[n].value
    BY <2>1
  <2>5. SectionLength(items) = a[1] + a[2] + a[3] + a[4] + a[5] + a[6]
    BY <1>3, <2>3, <2>4, <2>6, LengthOfSix
  <2> QED
    BY <2>2, <2>5
<1>6. /\ token \in Nat /\ ReportBuffer \in Nat /\ IsSize(ReportBuffer)
      /\ 10 + 12 + rl + 1 + 19 + token < ReportBuffer
  BY <1>5, JsonAssumption DEF ReportBuffer, IsSize
<1> QED
  BY <1>3, <1>5, <1>6, RoomyReports DEF Adds

LEMMA RoomyFits == RoomyDocumentComplete
<1> DEFINE Items == {[key |-> k, value |-> v] : k \in {4, 9}, v \in {2, 6}}
<1> SUFFICES ASSUME NEW r \in {<<i, j>> : i, j \in Items}, NEW d \in {<<i, j>> : i, j \in Items},
                    NEW length, length = 10 + 12 + 11 + SectionLength(r) + SectionLength(d) + 2 + 17 + 5 + 2,
                    NEW size \in (length + 1)..(length + 12)
             PROVE LET doc == Finalized(WithDesired(WithReported(Opened(size), r, size), d, size), 5, size)
                   IN doc.rc = "SUCCESS" /\ ~doc.past /\ doc.len = length
  BY DEF RoomyDocumentComplete
<1>1. ASSUME NEW s \in {<<i, j>> : i, j \in Items}
      PROVE  s \in Seq(ItemType) /\ SectionLength(s) \in 0 .. 30
  <2>1. PICK i \in Items, j \in Items : s = <<i, j>>
    OBVIOUS
  <2>2. i \in ItemType /\ j \in ItemType
    BY DEF ItemType
  <2>3. PICK il \in 0 .. 15, jl \in 0 .. 15 : il = i.key + i.value /\ jl = j.key + j.value
    <3>1. i.key + i.value \in 0 .. 15 /\ j.key + j.value \in 0 .. 15
      OBVIOUS
    <3> QED
      BY <3>1
  <2>4. SectionLength(s) = il + jl
    BY <2>1, <2>2, <2>3, LengthOfTwo
  <2> QED
    BY <2>1, <2>2, <2>4
<1> HIDE DEF Items
<1>2. /\ r \in Seq(ItemType) /\ d \in Seq(ItemType)
      /\ SectionLength(r) \in 0 .. 30 /\ SectionLength(d) \in 0 .. 30
  BY <1>1
<1>3. PICK rl, dl : rl = SectionLength(r) /\ dl = SectionLength(d)
  OBVIOUS
<1>4. rl \in 0 .. 30 /\ dl \in 0 .. 30 /\ Adds(r, rl) /\ Adds(d, dl)
  BY <1>2, <1>3 DEF Adds
<1>5. length = 10 + 12 + 11 + rl + dl + 2 + 17 + 5 + 2
  BY <1>3
<1>6. length \in 0 .. 140
  BY <1>4, <1>5
<1>7. size \in 0 .. 160 /\ length < size
  BY <1>6
<1>8. IsSize(size)
  BY <1>7, JsonAssumption DEF IsSize
<1>9. rl \in Nat /\ dl \in Nat /\ length \in Nat /\ size \in Nat
  BY <1>4, <1>6, <1>7
<1> QED
  BY <1>4, <1>5, <1>7, <1>8, <1>9, RoomyDocuments

\* Whatever the values are, a report that is sent is there to its last
\* character, and nothing is written beyond the buffer; and a buffer that is
\* longer than a document of both sections holds it.
THEOREM DocumentsAreWhole == Spec => []DocumentsFit
<1>1. DocumentsFit
  BY ReportsFit, RoomyFits DEF DocumentsFit
<1> QED
  BY <1>1, PTL

=============================================================================
