------------------------- MODULE PacketStreamProofs -------------------------
(* For every base of the length's coding, every buffer and all packets: no     *)
(* buffer is left, the broker stays in step, and the streams implement the     *)
(* channel of whole packets.                                                   *)
EXTENDS PacketStreamProperties, SequenceTheorems, WellFoundedInduction, TLAPS

-----------------------------------------------------------------------------
(* Induction: a set of numbers has a least element.                            *)

LEMMA LeastNumber ==
  ASSUME NEW T, T \subseteq Nat, T # {}
  PROVE  \E m \in T : \A n \in T : m <= n
<1>1. PICK R : R = {ss \in Nat \X Nat : ss[1] < ss[2]}
  OBVIOUS
<1>2. IsWellFoundedOn(R, Nat)
  BY <1>1, NatLessThanWellFounded DEF OpToRel
<1>3. PICK m \in T : \A n \in T : <<n, m>> \notin R
  BY <1>2, WFMin
<1>4. ASSUME NEW n \in T PROVE m <= n
  <2>1. <<n, m>> \in Nat \X Nat /\ <<n, m>>[1] = n /\ <<n, m>>[2] = m
    OBVIOUS
  <2> QED
    BY <1>1, <1>3, <2>1
<1> QED
  BY <1>4

(* A property of numbers that passes from the smaller ones to each holds of all. *)
LEMMA FromSmaller ==
  ASSUME NEW S, \A n \in Nat : (\A m \in Nat : m < n => m \in S) => n \in S
  PROVE  Nat \subseteq S
<1> SUFFICES ASSUME Nat \ S # {} PROVE FALSE
  OBVIOUS
<1>1. PICK m \in Nat \ S : \A n \in Nat \ S : m <= n
  BY LeastNumber
<1>2. \A n \in Nat : n < m => n \in S
  BY <1>1
<1> QED
  BY <1>1, <1>2

-----------------------------------------------------------------------------
(* Sums.                                                                       *)

(* The running sum of a sequence of lengths.                                   *)
IsSum(f, s) == f = [n \in 0 .. Len(s) |-> IF n = 0 THEN 0 ELSE f[n - 1] + s[n]]

IsSumTo(f, s, k) ==
  /\ f \in [0 .. k -> Int] /\ f[0] = 0
  /\ \A n \in 1 .. k : f[n] = f[n - 1] + s[n]

LEMMA SumExists ==
  ASSUME NEW s \in Seq(Int)
  PROVE  \E f : IsSum(f, s)
<1> DEFINE S == {k \in Nat : k <= Len(s) => \E f : IsSumTo(f, s, k)}
<1>1. ASSUME NEW k \in Nat, \A m \in Nat : m < k => m \in S
      PROVE  k \in S
  <2> SUFFICES ASSUME k <= Len(s) PROVE \E f : IsSumTo(f, s, k)
    OBVIOUS
  <2>1. CASE k = 0
    <3>1. IsSumTo([n \in 0 .. 0 |-> 0], s, 0)
      BY DEF IsSumTo
    <3> QED
      BY <2>1, <3>1
  <2>2. CASE k # 0
    <3>1. k - 1 \in Nat /\ k - 1 < k /\ k - 1 <= Len(s) /\ k \in 1 .. Len(s)
      BY <1>1, <2>2
    <3>2. PICK f : IsSumTo(f, s, k - 1)
      BY <1>1, <3>1
    <3>3. PICK g : g = [n \in 0 .. k |-> IF n = k THEN f[k - 1] + s[k] ELSE f[n]]
      OBVIOUS
    <3>4. f[k - 1] \in Int /\ s[k] \in Int
      BY <3>1, <3>2 DEF IsSumTo
    <3>5. g \in [0 .. k -> Int] /\ g[0] = 0
      BY <3>1, <3>2, <3>3, <3>4 DEF IsSumTo
    <3>6. ASSUME NEW n \in 1 .. k PROVE g[n] = g[n - 1] + s[n]
      <4>1. CASE n = k
        BY <3>1, <3>3, <4>1
      <4>2. CASE n # k
        BY <3>1, <3>2, <3>3, <4>2 DEF IsSumTo
      <4> QED
        BY <4>1, <4>2
    <3> QED
      BY <3>5, <3>6 DEF IsSumTo
  <2> QED
    BY <2>1, <2>2
<1> HIDE DEF S
<1>2. Nat \subseteq S
  BY <1>1, FromSmaller
<1> USE DEF S
<1>3. PICK f : IsSumTo(f, s, Len(s))
  BY <1>2
<1>4. f = [n \in 0 .. Len(s) |-> f[n]]
  BY <1>3 DEF IsSumTo
<1>5. \A n \in 0 .. Len(s) : f[n] = IF n = 0 THEN 0 ELSE f[n - 1] + s[n]
  BY <1>3 DEF IsSumTo
<1>6. [n \in 0 .. Len(s) |-> f[n]] = [n \in 0 .. Len(s) |-> IF n = 0 THEN 0 ELSE f[n - 1] + s[n]]
  BY <1>5
<1>7. IsSum(f, s)
  BY <1>4, <1>6 DEF IsSum
<1> QED
  BY <1>7

LEMMA SumIsSumTo ==
  ASSUME NEW s \in Seq(Int), NEW f, IsSum(f, s)
  PROVE  IsSumTo(f, s, Len(s))
<1>0. \A n \in 0 .. Len(s) : f[n] = IF n = 0 THEN 0 ELSE f[n - 1] + s[n]
  BY DEF IsSum
<1>1. f = [n \in 0 .. Len(s) |-> f[n]]
  BY DEF IsSum
<1> DEFINE S == {n \in Nat : n <= Len(s) => f[n] \in Int}
<1>2. ASSUME NEW n \in Nat, \A m \in Nat : m < n => m \in S
      PROVE  n \in S
  <2> SUFFICES ASSUME n <= Len(s) PROVE f[n] \in Int
    OBVIOUS
  <2>0. n \in 0 .. Len(s)
    OBVIOUS
  <2>1. CASE n = 0
    BY <1>0, <2>0, <2>1
  <2>2. CASE n # 0
    <3>1. n - 1 \in Nat /\ n - 1 < n /\ n - 1 <= Len(s) /\ n \in 1 .. Len(s)
      BY <2>2
    <3>2. f[n - 1] \in Int /\ s[n] \in Int
      BY <1>2, <3>1
    <3> QED
      BY <1>0, <2>0, <2>2, <3>2
  <2> QED
    BY <2>1, <2>2
<1> HIDE DEF S
<1>3. Nat \subseteq S
  BY <1>2, FromSmaller
<1> USE DEF S
<1>4. \A n \in 0 .. Len(s) : f[n] \in Int
  BY <1>3
<1>5. f \in [0 .. Len(s) -> Int]
  BY <1>1, <1>4
<1>6. 0 \in 0 .. Len(s) /\ \A n \in 1 .. Len(s) : n \in 0 .. Len(s) /\ n # 0
  OBVIOUS
<1> QED
  BY <1>0, <1>5, <1>6 DEF IsSumTo

LEMMA TotalIsSum ==
  ASSUME NEW s \in Seq(Int)
  PROVE  \E f : IsSumTo(f, s, Len(s)) /\ Total(s) = f[Len(s)]
<1>1. PICK g : IsSum(g, s)
  BY SumExists
<1>2. PICK f : f = CHOOSE sum : sum = [n \in 0 .. Len(s) |-> IF n = 0 THEN 0 ELSE sum[n - 1] + s[n]]
  OBVIOUS
<1>3. IsSum(f, s)
  BY <1>1, <1>2 DEF IsSum
<1>4. Total(s) = f[Len(s)]
  BY <1>2 DEF Total
<1>5. IsSumTo(f, s, Len(s))
  BY <1>3, SumIsSumTo
<1> QED
  BY <1>4, <1>5

LEMMA TotalType ==
  ASSUME NEW s \in Seq(Int)
  PROVE  Total(s) \in Int
<1>1. PICK f : IsSumTo(f, s, Len(s)) /\ Total(s) = f[Len(s)]
  BY TotalIsSum
<1>2. Len(s) \in 0 .. Len(s)
  OBVIOUS
<1> QED
  BY <1>1, <1>2 DEF IsSumTo

(* The running sums of sequences that begin alike begin alike.                 *)
LEMMA SumsAgree ==
  ASSUME NEW s, NEW t, NEW f, NEW g, NEW k \in Nat, NEW l \in Nat, k <= l,
         IsSumTo(f, s, k), IsSumTo(g, t, l), \A n \in 1 .. k : s[n] = t[n]
  PROVE  \A n \in 0 .. k : f[n] = g[n]
<1> DEFINE S == {n \in Nat : n <= k => f[n] = g[n]}
<1>1. ASSUME NEW n \in Nat, \A m \in Nat : m < n => m \in S
      PROVE  n \in S
  <2> SUFFICES ASSUME n <= k PROVE f[n] = g[n]
    OBVIOUS
  <2>1. CASE n = 0
    BY <2>1 DEF IsSumTo
  <2>2. CASE n # 0
    <3>1. n - 1 \in Nat /\ n - 1 < n /\ n - 1 <= k /\ n \in 1 .. k /\ n \in 1 .. l
      BY <1>1, <2>2
    <3>2. f[n - 1] = g[n - 1]
      BY <1>1, <3>1
    <3> QED
      BY <3>1, <3>2 DEF IsSumTo
  <2> QED
    BY <2>1, <2>2
<1> HIDE DEF S
<1>2. Nat \subseteq S
  BY <1>1, FromSmaller
<1> USE DEF S
<1> QED
  BY <1>2

LEMMA TotalEmpty == Total(<<>>) = 0
<1>1. PICK f : IsSumTo(f, <<>>, Len(<<>>)) /\ Total(<<>>) = f[Len(<<>>)]
  <2>1. <<>> \in Seq(Int)
    OBVIOUS
  <2> QED
    BY <2>1, TotalIsSum
<1> QED
  BY <1>1 DEF IsSumTo

(* One length more.                                                            *)
LEMMA TotalAppend ==
  ASSUME NEW k \in Nat, NEW s \in Seq(Int), NEW t \in Seq(Int), Len(s) = k, Len(t) = k + 1,
         \A n \in 1 .. k : s[n] = t[n]
  PROVE  Total(t) = Total(s) + t[k + 1] /\ Total(s) \in Int /\ t[k + 1] \in Int
<1>1. PICK f : IsSumTo(f, s, k) /\ Total(s) = f[k]
  BY TotalIsSum
<1>2. PICK g : IsSumTo(g, t, k + 1) /\ Total(t) = g[k + 1]
  BY TotalIsSum
<1>3. PICK l \in Nat : l = k + 1 /\ k <= l
  OBVIOUS
<1>4. \A n \in 0 .. k : f[n] = g[n]
  <2>1. IsSumTo(g, t, l)
    BY <1>2, <1>3
  <2> QED
    BY <1>1, <1>3, <2>1, SumsAgree
<1>5. g[k + 1] = g[k] + t[k + 1]
  BY <1>2 DEF IsSumTo
<1>6. f[k] \in Int /\ t[k + 1] \in Int
  BY <1>1 DEF IsSumTo
<1> QED
  BY <1>1, <1>2, <1>4, <1>5, <1>6

(* The sums of few lengths.                                                    *)
LEMMA TotalOne ==
  ASSUME NEW a \in Int
  PROVE  Total(<<a>>) = a
<1>1. PICK s : s = <<>>
  OBVIOUS
<1>2. PICK t : t = <<a>>
  OBVIOUS
<1>0. PICK k \in Nat : k = 0
  OBVIOUS
<1>3. /\ s \in Seq(Int) /\ Len(s) = k
      /\ t \in Seq(Int) /\ Len(t) = k + 1 /\ t[k + 1] = a
      /\ \A n \in 1 .. k : s[n] = t[n]
  BY <1>0, <1>1, <1>2
<1>4. Total(t) = Total(s) + t[k + 1]
  BY <1>3, TotalAppend
<1> QED
  BY <1>1, <1>2, <1>3, <1>4, TotalEmpty

LEMMA TotalTwo ==
  ASSUME NEW a \in Int, NEW b \in Int
  PROVE  Total(<<a, b>>) = a + b
<1>1. PICK s : s = <<a>>
  OBVIOUS
<1>2. PICK t : t = <<a, b>>
  OBVIOUS
<1>3. /\ s \in Seq(Int) /\ Len(s) = 1
      /\ t \in Seq(Int) /\ Len(t) = 1 + 1 /\ t[1 + 1] = b
      /\ \A n \in 1 .. 1 : s[n] = t[n]
  BY <1>1, <1>2
<1>4. Total(t) = Total(s) + t[1 + 1]
  BY <1>3, TotalAppend
<1> QED
  BY <1>1, <1>2, <1>3, <1>4, TotalOne

LEMMA TotalThree ==
  ASSUME NEW a \in Int, NEW b \in Int, NEW c \in Int
  PROVE  Total(<<a, b, c>>) = a + b + c
<1>1. PICK s : s = <<a, b>>
  OBVIOUS
<1>2. PICK t : t = <<a, b, c>>
  OBVIOUS
<1>3. /\ s \in Seq(Int) /\ Len(s) = 2
      /\ t \in Seq(Int) /\ Len(t) = 2 + 1 /\ t[2 + 1] = c
      /\ \A n \in 1 .. 2 : s[n] = t[n]
  BY <1>1, <1>2
<1>4. Total(t) = Total(s) + t[2 + 1]
  BY <1>3, TotalAppend
<1> QED
  BY <1>1, <1>2, <1>3, <1>4, TotalTwo

(* Lengths put behind one another.                                             *)
LEMMA TotalConcat ==
  ASSUME NEW s \in Seq(Int), NEW t \in Seq(Int)
  PROVE  Total(s \o t) = Total(s) + Total(t)
<1> DEFINE S == {k \in Nat : \A u \in Seq(Int) : Len(u) = k => Total(s \o u) = Total(s) + Total(u)}
<1>1. ASSUME NEW k \in Nat, \A m \in Nat : m < k => m \in S
      PROVE  k \in S
  <2> SUFFICES ASSUME NEW u \in Seq(Int), Len(u) = k
               PROVE Total(s \o u) = Total(s) + Total(u)
    OBVIOUS
  <2>1. Total(s) \in Int
    BY TotalType
  <2>2. CASE k = 0
    <3>1. u = <<>> /\ s \o u = s
      BY <2>2
    <3> QED
      BY <2>1, <3>1, TotalEmpty
  <2>3. CASE k # 0
    <3>1. PICK j \in Nat : k = j + 1 /\ j < k
      BY <2>3
    <3>9. PICK v : v = [n \in 1 .. j |-> u[n]]
      OBVIOUS
    <3>2. v \in Seq(Int) /\ Len(v) = j /\ \A n \in 1 .. j : v[n] = u[n]
      BY <3>1, <3>9
    <3>3. Total(s \o v) = Total(s) + Total(v)
      BY <1>1, <3>1, <3>2
    <3>4. Total(u) = Total(v) + u[j + 1] /\ Total(v) \in Int /\ u[j + 1] \in Int
      BY <3>1, <3>2, TotalAppend
    <3>5. PICK l, x, y : l = Len(s) + j /\ x = s \o v /\ y = s \o u
      OBVIOUS
    <3>7. /\ l \in Nat /\ x \in Seq(Int) /\ Len(x) = l
          /\ y \in Seq(Int) /\ Len(y) = l + 1
      BY <3>1, <3>2, <3>5
    <3>10. y[l + 1] = u[j + 1]
      <4>1. /\ Len(s) \in Nat /\ j + 1 \in 1 .. Len(u)
            /\ l + 1 = Len(s) + (j + 1)
        BY <3>1, <3>5
      <4>2. (s \o u)[Len(s) + (j + 1)] = u[j + 1]
        BY <4>1
      <4> QED
        BY <3>5, <4>1, <4>2
    <3>8. \A n \in 1 .. l : x[n] = y[n]
      BY <3>1, <3>2, <3>5
    <3>6. Total(y) = Total(x) + y[l + 1]
      BY <3>7, <3>8, TotalAppend
    <3> QED
      BY <2>1, <3>3, <3>4, <3>5, <3>6, <3>10
  <2> QED
    BY <2>2, <2>3
<1> HIDE DEF S
<1>2. Nat \subseteq S
  BY <1>1, FromSmaller
<1> QED
  BY <1>2 DEF S

-----------------------------------------------------------------------------
(* The coding of the remaining length.                                         *)

USE PacketAssumption

(* The digits of a number.                                                     *)
LEMMA Digits ==
  ASSUME NEW q \in Nat
  PROVE  /\ q % LengthBase \in 0 .. LengthBase - 1 /\ q \div LengthBase \in Nat
         /\ q = (q % LengthBase) + LengthBase * (q \div LengthBase)
         /\ (LengthBase + (q % LengthBase)) % LengthBase = q % LengthBase
  OBVIOUS

LEMMA FewerDigits ==
  ASSUME NEW q \in Nat, q >= LengthBase
  PROVE  q \div LengthBase < q /\ q \div LengthBase >= 1
<1>1. PICK d \in Nat, r \in 0 .. LengthBase - 1 : d = q \div LengthBase /\ q = r + LengthBase * d
  BY Digits
<1>2. d >= 1
  <2>1. CASE d = 0
    BY <1>1, <2>1
  <2> QED
    BY <2>1
<1>3. LengthBase * d >= 2 * d
  BY <1>2
<1> QED
  BY <1>1, <1>2, <1>3

LEMMA DigitsOrdered ==
  ASSUME NEW m \in Nat, NEW n \in Nat, m <= n
  PROVE  m \div LengthBase <= n \div LengthBase
<1>1. PICK d \in Nat, r \in 0 .. LengthBase - 1 : d = m \div LengthBase /\ m = r + LengthBase * d
  BY Digits
<1>2. PICK e \in Nat, t \in 0 .. LengthBase - 1 : e = n \div LengthBase /\ n = t + LengthBase * e
  BY Digits
<1>3. CASE d >= e + 1
  <2>1. LengthBase * d >= LengthBase * (e + 1)
    BY <1>3
  <2>2. LengthBase * (e + 1) = LengthBase * e + LengthBase
    OBVIOUS
  <2> QED
    BY <1>1, <1>2, <2>1, <2>2
<1> QED
  BY <1>1, <1>2, <1>3

(* One turn of the encoding loop, and what LengthBytes is up to k.             *)
Encoded(f, n) ==
  IF n < LengthBase THEN <<n>>
  ELSE <<LengthBase + (n % LengthBase)>> \o f[n \div LengthBase]

IsCoding(f, k) == f \in [0 .. k -> Seq(Nat)] /\ \A n \in 0 .. k : f[n] = Encoded(f, n)

LEMMA EncodedType ==
  ASSUME NEW n \in Nat, NEW f, n >= LengthBase => f[n \div LengthBase] \in Seq(Nat)
  PROVE  Encoded(f, n) \in Seq(Nat)
<1>1. CASE n < LengthBase
  BY <1>1 DEF Encoded
<1>2. CASE n >= LengthBase
  <2>1. LengthBase + (n % LengthBase) \in Nat
    BY Digits
  <2>2. <<LengthBase + (n % LengthBase)>> \in Seq(Nat)
    BY <2>1
  <2> QED
    BY <1>2, <2>2 DEF Encoded
<1> QED
  BY <1>1, <1>2

LEMMA CodingsAgree ==
  ASSUME NEW k \in Nat, NEW l \in Nat, NEW f, NEW g, IsCoding(f, k), IsCoding(g, l)
  PROVE  \A n \in Nat : n <= k /\ n <= l => f[n] = g[n]
<1> DEFINE S == {n \in Nat : n <= k /\ n <= l => f[n] = g[n]}
<1>1. ASSUME NEW n \in Nat, \A m \in Nat : m < n => m \in S
      PROVE  n \in S
  <2> SUFFICES ASSUME n <= k, n <= l PROVE f[n] = g[n]
    OBVIOUS
  <2>1. f[n] = Encoded(f, n) /\ g[n] = Encoded(g, n)
    BY DEF IsCoding
  <2>2. CASE n < LengthBase
    BY <2>1, <2>2 DEF Encoded
  <2>3. CASE n >= LengthBase
    <3>1. n \div LengthBase \in Nat /\ n \div LengthBase < n
      BY <2>3, FewerDigits, Digits
    <3>2. f[n \div LengthBase] = g[n \div LengthBase]
      BY <1>1, <3>1
    <3> QED
      BY <2>1, <3>2 DEF Encoded
  <2> QED
    BY <2>2, <2>3
<1> HIDE DEF S
<1>2. Nat \subseteq S
  BY <1>1, FromSmaller
<1> QED
  BY <1>2 DEF S

LEMMA CodingExists ==
  ASSUME NEW k \in Nat
  PROVE  \E f : IsCoding(f, k)
<1> DEFINE S == {n \in Nat : \E f : IsCoding(f, n)}
<1>1. ASSUME NEW n \in Nat, \A m \in Nat : m < n => m \in S
      PROVE  n \in S
  <2>1. CASE n = 0
    <3>1. PICK f : f = [i \in 0 .. 0 |-> <<i>>]
      OBVIOUS
    <3>2. f \in [0 .. 0 -> Seq(Nat)] /\ \A i \in 0 .. 0 : f[i] = Encoded(f, i)
      BY <3>1 DEF Encoded
    <3> QED
      BY <2>1, <3>2 DEF IsCoding
  <2>2. CASE n # 0
    <3>1. n - 1 \in Nat /\ n - 1 < n
      BY <2>2
    <3>2. PICK f : IsCoding(f, n - 1)
      BY <1>1, <3>1
    <3>3. PICK g : g = [i \in 0 .. n |-> IF i = n THEN Encoded(f, n) ELSE f[i]]
      OBVIOUS
    <3>4. \A i \in 0 .. n - 1 : g[i] = f[i] /\ f[i] \in Seq(Nat)
      BY <3>2, <3>3 DEF IsCoding
    <3>5. ASSUME NEW i \in 0 .. n, i >= LengthBase
          PROVE  i \div LengthBase \in 0 .. n - 1 /\ g[i \div LengthBase] = f[i \div LengthBase]
      <4>1. PICK d : d = i \div LengthBase
        OBVIOUS
      <4>3. d \in Nat /\ d < i
        BY <3>5, <4>1, FewerDigits, Digits
      <4>2. d \in 0 .. n - 1
        BY <4>3
      <4> QED
        BY <3>4, <4>1, <4>2
    <3>6. ASSUME NEW i \in 0 .. n PROVE Encoded(g, i) = Encoded(f, i)
      BY <3>5 DEF Encoded
    <3>7. g[n] = Encoded(f, n) /\ Encoded(f, n) \in Seq(Nat)
      <4>1. n \in 0 .. n
        OBVIOUS
      <4>2. n >= LengthBase => f[n \div LengthBase] \in Seq(Nat)
        BY <3>4, <3>5, <4>1
      <4> QED
        BY <3>3, <4>1, <4>2, EncodedType
    <3>8. \A i \in 0 .. n - 1 : f[i] = Encoded(f, i)
      BY <3>2 DEF IsCoding
    <3>9. ASSUME NEW i \in 0 .. n PROVE g[i] \in Seq(Nat) /\ g[i] = Encoded(g, i)
      <4>1. CASE i = n
        BY <3>6, <3>7, <4>1
      <4>2. CASE i # n
        BY <3>4, <3>6, <3>8, <4>2
      <4> QED
        BY <4>1, <4>2
    <3>10. g \in [0 .. n -> Seq(Nat)]
      BY <3>3, <3>9
    <3> QED
      BY <3>9, <3>10 DEF IsCoding
  <2> QED
    BY <2>1, <2>2
<1> HIDE DEF S
<1>2. Nat \subseteq S
  BY <1>1, FromSmaller
<1> QED
  BY <1>2 DEF S

(* The definition of LengthBytes defines a function.                           *)
LEMMA LengthBytesEncodes ==
  /\ LengthBytes \in [Nat -> Seq(Nat)]
  /\ \A n \in Nat : LengthBytes[n] = Encoded(LengthBytes, n)
<1>1. PICK F : F = [n \in Nat |-> CHOOSE f : IsCoding(f, n)]
  OBVIOUS
<1>2. \A n \in Nat : IsCoding(F[n], n)
  BY <1>1, CodingExists
<1>3. PICK L : L = [n \in Nat |-> F[n][n]]
  OBVIOUS
<1>4. ASSUME NEW n \in Nat PROVE L[n] = Encoded(L, n) /\ L[n] \in Seq(Nat)
  <2>1. L[n] = Encoded(F[n], n) /\ L[n] \in Seq(Nat)
    BY <1>2, <1>3 DEF IsCoding
  <2>2. CASE n < LengthBase
    BY <2>1, <2>2 DEF Encoded
  <2>3. CASE n >= LengthBase
    <3>1. PICK d \in Nat : d = n \div LengthBase /\ d < n
      BY <2>3, FewerDigits, Digits
    <3>2. IsCoding(F[n], n) /\ IsCoding(F[d], d)
      BY <1>2
    <3>3. F[n][d] = F[d][d]
      BY <3>1, <3>2, CodingsAgree
    <3>4. L[d] = F[n][d]
      BY <1>3, <3>3
    <3> QED
      BY <2>1, <3>1, <3>4 DEF Encoded
  <2> QED
    BY <2>2, <2>3
<1>5. L = [n \in Nat |-> IF n < LengthBase THEN <<n>>
                        ELSE <<LengthBase + (n % LengthBase)>> \o L[n \div LengthBase]]
  <2>1. L = [n \in Nat |-> L[n]]
    BY <1>3
  <2> QED
    BY <1>4, <2>1 DEF Encoded
<1>6. LengthBytes = [n \in Nat |-> IF n < LengthBase THEN <<n>>
                        ELSE <<LengthBase + (n % LengthBase)>> \o LengthBytes[n \div LengthBase]]
  BY <1>5, Zenon DEF LengthBytes
<1>7. \A n \in Nat : LengthBytes[n] = Encoded(LengthBytes, n)
  BY <1>6 DEF Encoded
<1> DEFINE S == {n \in Nat : LengthBytes[n] \in Seq(Nat)}
<1>8. ASSUME NEW n \in Nat, \A m \in Nat : m < n => m \in S
      PROVE  n \in S
  <2>1. n >= LengthBase => LengthBytes[n \div LengthBase] \in Seq(Nat)
    BY <1>8, FewerDigits, Digits
  <2> QED
    BY <1>7, <2>1, EncodedType
<1> HIDE DEF S
<1>9. Nat \subseteq S
  BY <1>8, FromSmaller
<1>10. \A n \in Nat : LengthBytes[n] \in Seq(Nat)
  BY <1>9 DEF S
<1>11. LengthBytes = [n \in Nat |-> LengthBytes[n]]
  BY <1>6
<1> QED
  BY <1>7, <1>10, <1>11

(* The bytes of a length: one for the last digit, one more for each other.     *)
LEMMA OneDigit ==
  ASSUME NEW n \in Nat, n < LengthBase
  PROVE  LengthBytes[n] = <<n>> /\ Len(LengthBytes[n]) = 1
<1>1. LengthBytes[n] = <<n>>
  BY LengthBytesEncodes DEF Encoded
<1>2. Len(<<n>>) = 1
  OBVIOUS
<1> QED
  BY <1>1, <1>2

LEMMA MoreDigits ==
  ASSUME NEW n \in Nat, n >= LengthBase, NEW d, d = n \div LengthBase,
         NEW r, r = LengthBase + (n % LengthBase)
  PROVE  /\ d \in Nat /\ d < n /\ r \in Nat
         /\ LengthBytes[n] = <<r>> \o LengthBytes[d]
         /\ Len(LengthBytes[d]) \in Nat /\ Len(LengthBytes[n]) = 1 + Len(LengthBytes[d])
<1>1. LengthBytes[n] = Encoded(LengthBytes, n)
  BY LengthBytesEncodes
<1>2. LengthBytes[n] = <<r>> \o LengthBytes[d]
  BY <1>1 DEF Encoded
<1>3. n \div LengthBase \in Nat /\ n \div LengthBase < n
  BY Digits, FewerDigits
<1>4. LengthBase + (n % LengthBase) \in Nat
  BY Digits
<1>5. d \in Nat /\ d < n /\ r \in Nat
  BY <1>3, <1>4
<1>6. LengthBytes[d] \in Seq(Nat)
  BY <1>5, LengthBytesEncodes
<1>7. Len(<<r>> \o LengthBytes[d]) = 1 + Len(LengthBytes[d]) /\ Len(LengthBytes[d]) \in Nat
  BY <1>5, <1>6
<1> QED
  BY <1>2, <1>5, <1>7

LEMMA DigitsType ==
  ASSUME NEW n \in Nat
  PROVE  LengthBytes[n] \in Seq(Nat) /\ Len(LengthBytes[n]) \in Nat \ {0}
<1>1. LengthBytes[n] \in Seq(Nat)
  BY LengthBytesEncodes
<1>2. Len(LengthBytes[n]) \in Nat
  BY <1>1
<1>3. Len(LengthBytes[n]) # 0
  <2>1. CASE n < LengthBase
    BY <2>1, OneDigit
  <2>2. CASE n >= LengthBase
    <3>1. PICK d : d = n \div LengthBase
      OBVIOUS
    <3>2. PICK r : r = LengthBase + (n % LengthBase)
      OBVIOUS
    <3>3. Len(LengthBytes[d]) \in Nat /\ Len(LengthBytes[n]) = 1 + Len(LengthBytes[d])
      BY <2>2, <3>1, <3>2, MoreDigits
    <3> QED
      BY <3>3
  <2> QED
    BY <2>1, <2>2
<1> QED
  BY <1>1, <1>2, <1>3

(* A smaller number has no more digits.                                        *)
LEMMA LengthGrows ==
  ASSUME NEW m \in Nat, NEW n \in Nat, m <= n
  PROVE  Len(LengthBytes[m]) <= Len(LengthBytes[n])
<1> DEFINE S == {k \in Nat : \A j \in Nat : j <= k => Len(LengthBytes[j]) <= Len(LengthBytes[k])}
<1>1. ASSUME NEW k \in Nat, \A i \in Nat : i < k => i \in S
      PROVE  k \in S
  <2> SUFFICES ASSUME NEW j \in Nat, j <= k PROVE Len(LengthBytes[j]) <= Len(LengthBytes[k])
    OBVIOUS
  <2>1. CASE j < LengthBase
    <3>1. Len(LengthBytes[j]) = 1
      BY <2>1, OneDigit
    <3>2. Len(LengthBytes[k]) \in Nat \ {0}
      BY DigitsType
    <3> QED
      BY <3>1, <3>2
  <2>2. CASE j >= LengthBase
    <3>1. PICK d : d = j \div LengthBase
      OBVIOUS
    <3>2. PICK e : e = k \div LengthBase
      OBVIOUS
    <3>3. k >= LengthBase /\ d \in Nat /\ e \in Nat /\ e < k
      BY <2>2, <3>1, <3>2, Digits, FewerDigits
    <3>4. d <= e
      BY <3>1, <3>2, DigitsOrdered
    <3>5. Len(LengthBytes[d]) <= Len(LengthBytes[e])
      BY <1>1, <3>3, <3>4
    <3>6. Len(LengthBytes[j]) = 1 + Len(LengthBytes[d])
      BY <2>2, <3>1, MoreDigits
    <3>7. Len(LengthBytes[k]) = 1 + Len(LengthBytes[e])
      BY <3>2, <3>3, MoreDigits
    <3>8. Len(LengthBytes[d]) \in Nat /\ Len(LengthBytes[e]) \in Nat
      BY <3>3, DigitsType
    <3> QED
      BY <3>5, <3>6, <3>7, <3>8
  <2> QED
    BY <2>1, <2>2
<1> HIDE DEF S
<1>2. Nat \subseteq S
  BY <1>1, FromSmaller
<1> QED
  BY <1>2 DEF S

(* How many digits numbers below a power of the base have.                     *)
Within(c, k) == \A m \in Nat : m < c => Len(LengthBytes[m]) <= k

LEMMA OneDigitMore ==
  ASSUME NEW k \in Nat, NEW c \in Nat, Within(c, k), NEW l, l = k + 1, NEW d, d = LengthBase * c
  PROVE  Within(d, l)
<1> SUFFICES ASSUME NEW n \in Nat, n < LengthBase * c PROVE Len(LengthBytes[n]) <= k + 1
  BY DEF Within
<1>1. CASE n < LengthBase
  <2>1. Len(LengthBytes[n]) = 1
    BY <1>1, OneDigit
  <2> QED
    BY <2>1
<1>2. CASE n >= LengthBase
  <2>1. PICK q : q = n \div LengthBase
    OBVIOUS
  <2>2. PICK r : r = n % LengthBase
    OBVIOUS
  <2>3. q \in Nat /\ r \in 0 .. LengthBase - 1 /\ n = r + LengthBase * q
    BY <2>1, <2>2, Digits
  <2>4. CASE q >= c
    <3>1. LengthBase * q >= LengthBase * c
      BY <2>3, <2>4
    <3> QED
      BY <2>3, <3>1
  <2>5. CASE q < c
    <3>1. Len(LengthBytes[q]) <= k /\ Len(LengthBytes[q]) \in Nat
      BY <2>3, <2>5, DigitsType DEF Within
    <3>2. Len(LengthBytes[n]) = 1 + Len(LengthBytes[q])
      BY <1>2, <2>1, MoreDigits
    <3> QED
      BY <3>1, <3>2
  <2> QED
    BY <2>3, <2>4, <2>5
<1> QED
  BY <1>1, <1>2

LEMMA FewDigits ==
  /\ Within(LengthBase, 1) /\ Within(LengthBase * LengthBase, 2)
  /\ Within(LengthBase * LengthBase * LengthBase, 3)
  /\ Within(LengthBase * LengthBase * LengthBase * LengthBase, 4)
<1>1. PICK c : c = LengthBase * LengthBase
  OBVIOUS
<1>2. PICK d : d = LengthBase * c
  OBVIOUS
<1>3. PICK e : e = LengthBase * d
  OBVIOUS
<1>4. LengthBase \in Nat /\ c \in Nat /\ d \in Nat
  BY <1>1, <1>2
<1>5. Within(LengthBase, 1)
  <2>1. ASSUME NEW m \in Nat, m < LengthBase PROVE Len(LengthBytes[m]) <= 1
    <3>1. Len(LengthBytes[m]) = 1
      BY <2>1, OneDigit
    <3> QED
      BY <3>1
  <2> QED
    BY <2>1 DEF Within
<1>6. Within(c, 2)
  <2>1. 1 \in Nat /\ 2 = 1 + 1
    OBVIOUS
  <2> QED
    BY <1>1, <1>4, <1>5, <2>1, OneDigitMore
<1>7. Within(d, 3)
  <2>1. 2 \in Nat /\ 3 = 2 + 1
    OBVIOUS
  <2> QED
    BY <1>2, <1>4, <1>6, <2>1, OneDigitMore
<1>8. Within(e, 4)
  <2>1. 3 \in Nat /\ 4 = 3 + 1
    OBVIOUS
  <2> QED
    BY <1>3, <1>4, <1>7, <2>1, OneDigitMore
<1>9. /\ LengthBase * LengthBase * LengthBase = d
      /\ LengthBase * LengthBase * LengthBase * LengthBase = e
  BY <1>1, <1>2, <1>3, <1>4
<1> QED
  BY <1>1, <1>5, <1>6, <1>7, <1>8, <1>9

-----------------------------------------------------------------------------
(* Headers.                                                                    *)

LEMMA NumbersOfTypes ==
  ASSUME NEW type \in DOMAIN MessageTypes
  PROVE  MessageTypes[type] \in 1 .. 14
BY DEF MessageTypes

LEMMA HeaderSays ==
  ASSUME NEW type \in DOMAIN MessageTypes, NEW qos \in {0, 1}
  PROVE  /\ HeaderByte(type, qos) \in Nat
         /\ HeaderType(HeaderByte(type, qos)) = MessageTypes[type]
         /\ HeaderQos(HeaderByte(type, qos)) = qos
<1>1. PICK m \in 1 .. 14 : m = MessageTypes[type]
  BY NumbersOfTypes
<1>2. PICK b : b = HeaderByte(type, qos)
  OBVIOUS
<1>3. b = m * 16 + (IF qos = 1 THEN 2 ELSE 0)
  BY <1>1, <1>2 DEF HeaderByte
<1>4. b \in Nat /\ (b \div 16) % 16 = m /\ (b \div 2) % 4 = qos
  <2>1. CASE qos = 0
    BY <1>3, <2>1
  <2>2. CASE qos = 1
    BY <1>3, <2>2
  <2> QED
    BY <2>1, <2>2
<1> QED
  BY <1>1, <1>2, <1>4 DEF HeaderType, HeaderQos

-----------------------------------------------------------------------------
(* The serialisers.                                                            *)

(* The room that is asked for is the length of the packet.                     *)
LEMMA RoomForAll ==
  ASSUME NEW declared \in Nat, FinalLength(declared) <= WriteBufSize
  PROVE  1 + Len(LengthBytes[declared]) + declared <= WriteBufSize
<1>1. PICK l : l = Len(LengthBytes[declared])
  OBVIOUS
<1>2. l \in Nat
  BY <1>1, DigitsType
<1>3. PICK c : c = LengthBase * LengthBase
  OBVIOUS
<1>4. PICK d : d = LengthBase * LengthBase * LengthBase
  OBVIOUS
<1>5. PICK e : e = LengthBase * LengthBase * LengthBase * LengthBase
  OBVIOUS
<1>6. c \in Nat /\ d \in Nat /\ e \in Nat
  <2>1. c \in Nat
    BY <1>3
  <2>2. d = c * LengthBase /\ e = c * LengthBase * LengthBase
    BY <1>3, <1>4, <1>5
  <2>3. d \in Nat
    BY <2>1, <2>2
  <2>4. e = d * LengthBase
    BY <2>2
  <2> QED
    BY <2>1, <2>3, <2>4
<1>7. /\ declared < LengthBase => l <= 1
      /\ declared < c => l <= 2
      /\ declared < d => l <= 3
      /\ declared < e => l <= 4
  BY <1>1, <1>3, <1>4, <1>5, FewDigits DEF Within
<1>8. declared + 1 + (IF declared + 1 < LengthBase THEN 1
                      ELSE IF declared + 1 < c THEN 2
                      ELSE IF declared + 1 < d THEN 3 ELSE 4) <= WriteBufSize
  BY <1>3, <1>4 DEF FinalLength
<1>9. WriteBufSize <= e /\ WriteBufSize \in Nat
  BY <1>5, StreamAssumption
<1> QED
  BY <1>1, <1>2, <1>6, <1>7, <1>8, <1>9

(* A packet says how long it is, and fits when its room does.                  *)
Sound(packet) ==
  /\ packet.declared \in Nat /\ Total(packet.fields) = packet.declared
  /\ packet.room <= WriteBufSize =>
       1 + Len(LengthBytes[packet.declared]) + packet.declared <= WriteBufSize

LEMMA SerializedSound ==
  ASSUME NEW declared \in Nat, NEW fields, Total(fields) = declared
  PROVE  Sound(Serialized(declared, fields))
BY RoomForAll DEF Sound, Serialized

LEMMA ConnectSound ==
  ASSUME NEW texts \in [1 .. 5 -> Nat]
  PROVE  Sound(ConnectPacket(texts))
<1>1. PICK a : a = <<Text(4), 1, 1, TwoBytes, Text(texts[1])>>
  OBVIOUS
<1>2. PICK b : b = IF texts[2] = 0 THEN <<>> ELSE <<Text(texts[2]), Text(texts[3])>>
  OBVIOUS
<1>3. PICK c : c = <<TextIf(texts[4]), TextIf(texts[5])>>
  OBVIOUS
<1>0. \A i \in 1 .. 5 : texts[i] \in Nat
  OBVIOUS
<1>4. a \in Seq(Int) /\ Total(a) = 12 + texts[1]
  <2>1. PICK x : x = <<Text(4), 1, 1>>
    OBVIOUS
  <2>2. PICK y : y = <<TwoBytes, Text(texts[1])>>
    OBVIOUS
  <2>3. Total(x) = 8 /\ x \in Seq(Int)
    BY <2>1, TotalThree DEF Text
  <2>4. Total(y) = 4 + texts[1] /\ y \in Seq(Int)
    BY <1>0, <2>2, TotalTwo DEF Text, TwoBytes
  <2>5. a = x \o y
    BY <1>1, <2>1, <2>2
  <2>6. Total(x \o y) = Total(x) + Total(y) /\ x \o y \in Seq(Int)
    BY <2>3, <2>4, TotalConcat
  <2> QED
    BY <1>0, <2>3, <2>4, <2>5, <2>6
<1>5. b \in Seq(Int) /\ Total(b) = IF texts[2] = 0 THEN 0 ELSE texts[2] + 2 + texts[3] + 2
  <2>1. CASE texts[2] = 0
    BY <1>2, <2>1, TotalEmpty
  <2>2. CASE texts[2] # 0
    BY <1>0, <1>2, <2>2, TotalTwo DEF Text
  <2> QED
    BY <2>1, <2>2
<1>6. c \in Seq(Int) /\ Total(c) = TextIf(texts[4]) + TextIf(texts[5])
  <2>1. TextIf(texts[4]) \in Int /\ TextIf(texts[5]) \in Int
    BY <1>0 DEF TextIf, Text
  <2> QED
    BY <1>3, <2>1, TotalTwo
<1>7. Total(a \o b \o c) = ConnectLength(texts)
  <2>1. Total(a \o b) = Total(a) + Total(b) /\ a \o b \in Seq(Int)
    BY <1>4, <1>5, TotalConcat
  <2>2. Total((a \o b) \o c) = Total(a \o b) + Total(c)
    BY <1>6, <2>1, TotalConcat
  <2>3. PICK u : u = IF texts[2] = 0 THEN 0 ELSE texts[2] + 2 + texts[3] + 2
    OBVIOUS
  <2>4. PICK v : v = IF texts[4] = 0 THEN 0 ELSE texts[4] + 2
    OBVIOUS
  <2>5. PICK w : w = IF texts[5] = 0 THEN 0 ELSE texts[5] + 2
    OBVIOUS
  <2>6. texts[1] \in Nat /\ u \in Nat /\ v \in Nat /\ w \in Nat
    BY <1>0, <2>3, <2>4, <2>5
  <2>7. Total(b) = u /\ TextIf(texts[4]) = v /\ TextIf(texts[5]) = w
    BY <1>0, <1>5, <2>3, <2>4, <2>5 DEF TextIf, Text
  <2>8. ConnectLength(texts) = 10 + texts[1] + 2 + u + v + w
    BY <2>3, <2>4, <2>5 DEF ConnectLength
  <2>9. Total(a \o b \o c) = (12 + texts[1] + u) + (v + w)
    BY <1>4, <1>6, <2>1, <2>2, <2>7
  <2>10. \A t \in Nat : (12 + t + u) + (v + w) = 10 + t + 2 + u + v + w
    BY <2>6
  <2> QED
    BY <2>6, <2>8, <2>9, <2>10
<1>8. ConnectLength(texts) \in Nat
  BY <1>0 DEF ConnectLength
<1>9. ConnectPacket(texts) = Serialized(ConnectLength(texts), a \o b \o c)
  BY <1>1, <1>2, <1>3 DEF ConnectPacket
<1> QED
  BY <1>7, <1>8, <1>9, SerializedSound

LEMMA PublishSound ==
  ASSUME NEW texts \in [1 .. 2 -> Nat], NEW qos \in {0, 1}
  PROVE  Sound(PublishPacket(texts, qos))
<1>0. texts[1] \in Nat /\ texts[2] \in Nat
  OBVIOUS
<1>1. PICK a : a = <<Text(texts[1])>>
  OBVIOUS
<1>2. PICK b : b = IF qos > 0 THEN <<TwoBytes>> ELSE <<>>
  OBVIOUS
<1>3. PICK c : c = <<texts[2]>>
  OBVIOUS
<1>4. a \in Seq(Int) /\ Total(a) = texts[1] + 2
  BY <1>0, <1>1, TotalOne DEF Text
<1>5. b \in Seq(Int) /\ Total(b) = IF qos > 0 THEN 2 ELSE 0
  BY <1>2, TotalOne, TotalEmpty DEF TwoBytes
<1>6. c \in Seq(Int) /\ Total(c) = texts[2]
  BY <1>0, <1>3, TotalOne
<1>7. Total(a \o b \o c) = texts[1] + texts[2] + 2 + (IF qos > 0 THEN 2 ELSE 0)
  <2>1. Total(a \o b) = Total(a) + Total(b) /\ a \o b \in Seq(Int)
    BY <1>4, <1>5, TotalConcat
  <2>2. Total((a \o b) \o c) = Total(a \o b) + Total(c)
    BY <1>6, <2>1, TotalConcat
  <2> QED
    BY <1>0, <1>4, <1>5, <1>6, <2>1, <2>2
<1> QED
  BY <1>0, <1>1, <1>2, <1>3, <1>7, SerializedSound DEF PublishPacket

LEMMA SubscribeSound ==
  ASSUME NEW texts \in [1 .. 1 -> Nat]
  PROVE  Sound(SubscribePacket(texts)) /\ Sound(UnsubscribePacket(texts))
<1>1. texts[1] \in Nat
  OBVIOUS
<1>2. Total(<<TwoBytes, Text(texts[1]), 1>>) = 2 + texts[1] + 2 + 1
  BY <1>1, TotalThree DEF TwoBytes, Text
<1>3. Total(<<TwoBytes, Text(texts[1])>>) = 2 + texts[1] + 2
  BY <1>1, TotalTwo DEF TwoBytes, Text
<1> QED
  BY <1>1, <1>2, <1>3, SerializedSound DEF SubscribePacket, UnsubscribePacket

LEMMA AckSound == Sound(AckPacket) /\ Sound(ZeroPacket)
<1>1. Len(LengthBytes[0]) = 1 /\ Len(LengthBytes[2]) = 1
  <2>1. 0 < LengthBase /\ 2 < LengthBase
    BY StreamAssumption DEF TwoBytes
  <2> QED
    BY <2>1, OneDigit
<1>2. Total(<<2>>) = 2 /\ Total(<<>>) = 0
  BY TotalOne, TotalEmpty
<1>3. Sound(AckPacket)
  <2>1. AckPacket.declared = 2 /\ AckPacket.room = 4 /\ AckPacket.fields = <<2>>
    BY DEF AckPacket, TwoBytes
  <2>2. 1 + Len(LengthBytes[2]) + 2 = 4
    BY <1>1
  <2> QED
    BY <1>2, <2>1, <2>2 DEF Sound
<1>4. Sound(ZeroPacket)
  <2>1. ZeroPacket.declared = 0 /\ ZeroPacket.room = 4 /\ ZeroPacket.fields = <<>>
    BY DEF ZeroPacket
  <2>2. 4 <= WriteBufSize => 1 + Len(LengthBytes[0]) + 0 <= WriteBufSize
    BY <1>1, PacketAssumption
  <2> QED
    BY <1>2, <2>1, <2>2 DEF Sound
<1> QED
  BY <1>3, <1>4

(* What is announced is what is written, and it fits the buffer.               *)
LEMMA PacketsSound ==
  ASSUME NEW request, Proper(request)
  PROVE  Sound(PacketOf(request))
<1> USE DEF Proper, TextsOf
<1>1. CASE request.kind = "CONNECT"
  BY <1>1, ConnectSound DEF PacketOf
<1>2. CASE request.kind = "PUBLISH"
  BY <1>2, PublishSound DEF PacketOf
<1>3. CASE request.kind = "SUBSCRIBE"
  BY <1>3, SubscribeSound DEF PacketOf
<1>4. CASE request.kind = "UNSUBSCRIBE"
  BY <1>4, SubscribeSound DEF PacketOf
<1>5. CASE request.kind = "PUBACK"
  BY <1>5, AckSound DEF PacketOf
<1>6. CASE request.kind \in {"PINGREQ", "DISCONNECT"}
  BY <1>6, AckSound DEF PacketOf
<1> QED
  BY <1>1, <1>2, <1>3, <1>4, <1>5, <1>6

-----------------------------------------------------------------------------
(* The invariant of the way out.                                               *)

WriterType ==
  /\ writer \in [pc : {"idle", "write"}, length : Nat, left : Nat, declared : Nat,
                kind : DOMAIN TextsOf \cup {"none"}, qos : {0, 1}]
  /\ owed \in Nat /\ garbled \in BOOLEAN /\ cut \in BOOLEAN

\* What is being written is as long as it announces, fits the buffer, and is
\* not at its end; a packet that fills the buffer is not begun.
WritesWhatItSays ==
  writer.pc = "write" =>
    /\ writer.kind \in DOMAIN TextsOf
    /\ writer.length = 1 + Len(LengthBytes[writer.declared]) + writer.declared
    /\ writer.length <= WriteBufSize
    /\ 0 < writer.left /\ writer.left <= writer.length
    /\ writer.length < WriteBufSize \/ writer.left = writer.length

\* The broker waits for what is left of the packet, if it has seen its start.
OwedIsLeft ==
  ~cut =>
    /\ ~garbled
    /\ owed = IF writer.pc = "write" /\ writer.left # writer.length THEN writer.left ELSE 0

NothingWritten == writer.pc = "idle" => writer = NoWriter

WriterInv == WriterType /\ WritesWhatItSays /\ OwedIsLeft /\ NothingWritten

-----------------------------------------------------------------------------
(* The invariant of the way in.                                                *)

ReaderType ==
  /\ reader \in [pc : {"idle", "length", "body", "drain"}, byte : Nat, rem : Nat,
                multiplier : Nat, left : Nat, head : Incoming \cup {NoPacket}]
  /\ unread \in Seq(Incoming) /\ at \in Nat /\ inStep \in BOOLEAN

\* A call that keeps its packet has room for it, one that drops it has not.
Chosen ==
  /\ reader.pc = "idle" => reader = Idle
  /\ reader.pc = "body" => reader.rem < ReadBufSize
  /\ reader.pc = "drain" => reader.rem >= ReadBufSize /\ reader.left > 0

\* A packet that is kept is longer than the buffer by its header and the bytes
\* of its length, less one, at most.
StoredWithin == read.stored <= ReadBufSize + Len(LengthBytes[ReadBufSize - 1])

\* How far what a call returned can go beyond the buffer and the array.
ReturnFits ==
  /\ read.stored \in Nat /\ StoredWithin
  /\ read.content.granted \in Nat /\ read.content.granted <= ExpectedCodes + 1

\* Out of step nothing is followed, between two packets nothing has been read.
AtAnEnd ==
  /\ ~inStep => unread = <<>> /\ at = 0
  /\ reader.pc = "idle" => at = 0

\* A call that is in step began with the header of its packet, and has returned
\* nothing.
BeganWithHead ==
  inStep /\ reader.pc # "idle" =>
    /\ reader.head \in Incoming
    /\ reader.byte = HeaderByte(reader.head.type, reader.head.qos)
    /\ read.content = NoContent

Completes(q, rem, sum, multiplier) == rem = sum + multiplier * q

\* The digits of q are what is left to read of the length: together with the sum
\* so far they are the length that was announced.
StillDigits(q) ==
  /\ Len(LengthBytes[q]) = Len(LengthBytes[reader.head.rem]) - (at - 1)
  /\ \A i \in 1 .. Len(LengthBytes[q]) :
       LengthBytes[reader.head.rem][at - 1 + i] = LengthBytes[q][i]
  /\ Completes(q, reader.head.rem, reader.rem, reader.multiplier)

InLength ==
  inStep /\ reader.pc = "length" =>
    /\ unread # <<>> /\ unread[1] = reader.head /\ at > 0
    /\ \E q \in 0 .. reader.head.rem : StillDigits(q)

\* Behind the length the call has the announced length and knows how much of
\* the packet is left.
InContent ==
  inStep /\ reader.pc \in {"body", "drain"} =>
    /\ reader.rem = reader.head.rem /\ reader.left <= reader.rem
    /\ reader.pc = "body" => reader.left = reader.rem
    /\ IF reader.left = 0
       THEN at = 0
       ELSE unread # <<>> /\ unread[1] = reader.head /\ at = Size(reader.head) - reader.left

ReaderInv ==
  ReaderType /\ Chosen /\ ReturnFits /\ AtAnEnd /\ BeganWithHead /\ InLength /\ InContent

IInv == WriterInv /\ ReaderInv

-----------------------------------------------------------------------------
(* The way out.                                                                *)

LEMMA WriterInit == Init => WriterInv
<1> SUFFICES ASSUME Init PROVE WriterInv
  OBVIOUS
<1>1. writer = NoWriter /\ owed = 0 /\ garbled = FALSE /\ cut = FALSE
  BY DEF Init
<1>2. writer.pc = "idle"
  BY <1>1 DEF NoWriter
<1>3. WriterType
  BY <1>1 DEF WriterType, NoWriter
<1>4. WritesWhatItSays /\ OwedIsLeft /\ NothingWritten
  BY <1>1, <1>2 DEF WritesWhatItSays, OwedIsLeft, NothingWritten
<1> QED
  BY <1>3, <1>4 DEF WriterInv

LEMMA WriterKept ==
  ASSUME WriterInv, UNCHANGED outgoing
  PROVE  WriterInv'
BY DEF outgoing, WriterInv, WriterType, WritesWhatItSays, OwedIsLeft, NothingWritten

LEMMA SerializeKeepsWriter ==
  ASSUME WriterInv, NEW request \in Requests, Serialize(request)
  PROVE  WriterInv'
<1>1. PICK packet : packet = PacketOf(request)
  OBVIOUS
<1>2. PICK length : length = PacketLength(packet)
  OBVIOUS
<1>3. Proper(request)
  BY ProtocolAssumption
<1>4. request.kind \in DOMAIN TextsOf /\ request.qos \in {0, 1}
  BY <1>3 DEF Proper
<1>5. /\ writer.pc = "idle" /\ packet.room <= WriteBufSize
      /\ writer' = [pc |-> "write", length |-> length, left |-> length,
                    declared |-> packet.declared, kind |-> request.kind, qos |-> request.qos]
      /\ UNCHANGED <<owed, garbled, cut>>
  BY <1>1, <1>2 DEF Serialize
<1>6. packet.declared \in Nat /\ length = 1 + Len(LengthBytes[packet.declared]) + packet.declared
      /\ length <= WriteBufSize
  BY <1>1, <1>2, <1>3, <1>5, PacketsSound DEF Sound, PacketLength
<1>7. length \in Nat /\ length > 0
  BY <1>6, DigitsType
<1>8. WriterType'
  BY <1>4, <1>5, <1>6, <1>7 DEF WriterInv, WriterType
<1>9. WritesWhatItSays'
  BY <1>4, <1>5, <1>6, <1>7 DEF WritesWhatItSays
<1>10. OwedIsLeft'
  BY <1>5 DEF WriterInv, OwedIsLeft
<1>11. NothingWritten'
  BY <1>5 DEF NothingWritten
<1> QED
  BY <1>8, <1>9, <1>10, <1>11 DEF WriterInv

LEMMA RefusalKeepsWriter ==
  ASSUME WriterInv, SendRefused
  PROVE  WriterInv'
<1>1. writer.pc = "write" /\ writer.length >= WriteBufSize /\ writer' = NoWriter
      /\ UNCHANGED <<owed, garbled, cut>>
  BY DEF SendRefused
<1> QED
  BY <1>1 DEF WriterInv, WriterType, WritesWhatItSays, OwedIsLeft, NothingWritten, NoWriter

(* A write: the broker takes the start of the packet for a start, and what      *)
(* follows for its rest.                                                        *)
LEMMA TakesAsMeant ==
  ASSUME WriterInv, writer.pc = "write", ~cut, NEW n \in 1 .. writer.left, Take(n)
  PROVE  owed' = writer.left - n /\ garbled' = FALSE
<1>1. /\ writer.left \in Nat /\ writer.length \in Nat /\ writer.left <= writer.length
      /\ 0 < writer.left /\ writer.kind \in DOMAIN TextsOf /\ writer.qos \in {0, 1}
      /\ writer.length = 1 + Len(LengthBytes[writer.declared]) + writer.declared
  BY DEF WriterInv, WriterType, WritesWhatItSays
<1>2. garbled = FALSE /\ owed = IF writer.left # writer.length THEN writer.left ELSE 0
  BY DEF WriterInv, WriterType, OwedIsLeft
<1>3. writer.kind \in DOMAIN MessageTypes
  BY <1>1 DEF TextsOf, MessageTypes
<1>4. Understood(HeaderByte(writer.kind, writer.qos))
  BY <1>1, <1>3, HeaderSays DEF Understood
<1>5. PICK expected : expected = IF owed = 0
                  THEN 1 + Len(LengthBytes[writer.declared]) + writer.declared ELSE owed
  OBVIOUS
<1>6. expected = writer.left
  BY <1>1, <1>2, <1>5
<1>7. PICK starts : starts = (owed = 0 /\ writer.left = writer.length)
  OBVIOUS
<1>8. owed # 0 \/ starts
  <2>1. owed # 0 \/ (owed = 0 /\ writer.left = writer.length)
    BY <1>1, <1>2
  <2> QED
    BY <1>7, <2>1, Zenon
<1>9. n <= expected
  BY <1>6
<1>10. /\ owed' = expected - n
       /\ garbled' = (garbled \/ ~TRUE)
  <2>1. PICK isMeant : isMeant =
          (/\ n <= expected
           /\ starts => Understood(HeaderByte(writer.kind, writer.qos))
           /\ owed # 0 \/ starts)
    OBVIOUS
  <2>2. isMeant = TRUE
    BY <1>4, <1>8, <1>9, <2>1
  <2>3. owed' = IF isMeant THEN expected - n ELSE 0
    BY <1>5, <1>7, <2>1 DEF Take
  <2>4. garbled' = (garbled \/ ~isMeant)
    BY <1>5, <1>7, <2>1 DEF Take
  <2> QED
    BY <2>2, <2>3, <2>4
<1> QED
  BY <1>2, <1>6, <1>10

LEMMA WriteKeepsWriter ==
  ASSUME WriterInv, Write
  PROVE  WriterInv'
<1>1. writer.pc = "write" /\ writer.length < WriteBufSize /\ UNCHANGED cut
  BY DEF Write
<1>2. PICK n \in {1, writer.left - 1, writer.left} \ {0} :
        /\ Take(n)
        /\ writer' = IF n = writer.left THEN NoWriter ELSE [writer EXCEPT !.left = @ - n]
  BY DEF Write
<1>3. /\ writer.left \in Nat /\ writer.left > 0 /\ writer.length \in Nat
      /\ writer.left <= writer.length /\ cut \in BOOLEAN
  BY <1>1 DEF WriterInv, WriterType, WritesWhatItSays
<1>4. n \in 1 .. writer.left
  BY <1>2, <1>3
<1>5. ~cut => owed' = writer.left - n /\ garbled' = FALSE
  BY <1>1, <1>2, <1>4, TakesAsMeant
<1>6. cut => UNCHANGED <<owed, garbled>>
  BY <1>2 DEF Take
<1>7. owed' \in Nat /\ garbled' \in BOOLEAN
  <2>1. CASE cut
    BY <1>6, <2>1 DEF WriterInv, WriterType
  <2>2. CASE ~cut
    <3>1. owed' = writer.left - n /\ garbled' = FALSE
      BY <1>5, <2>2
    <3>2. owed' \in Nat
      BY <1>3, <1>4, <3>1
    <3> QED
      BY <3>1, <3>2
  <2> QED
    BY <2>1, <2>2
<1>8. CASE n = writer.left
  <2>1. writer' = NoWriter
    BY <1>2, <1>8
  <2>2. ~cut => owed' = 0
    BY <1>3, <1>5, <1>8
  <2> QED
    BY <1>1, <1>5, <1>7, <2>1, <2>2
       DEF WriterInv, WriterType, WritesWhatItSays, OwedIsLeft, NothingWritten, NoWriter
<1>9. CASE n # writer.left
  <2>1. PICK left : left = writer.left - n
    OBVIOUS
  <2>2. left \in Nat /\ 0 < left /\ left < writer.left
    BY <1>3, <1>4, <1>9, <2>1
  <2>3. writer' = [writer EXCEPT !.left = left]
    BY <1>2, <1>9, <2>1
  <2>4. WriterType'
    BY <1>1, <1>7, <2>2, <2>3 DEF WriterInv, WriterType
  <2>5. /\ writer'.left = left /\ writer'.length = writer.length /\ writer'.pc = writer.pc
        /\ writer'.kind = writer.kind /\ writer'.declared = writer.declared
    BY <2>3 DEF WriterInv, WriterType
  <2>6. WritesWhatItSays'
    BY <1>1, <1>3, <2>2, <2>5 DEF WriterInv, WritesWhatItSays
  <2>7. OwedIsLeft'
    BY <1>1, <1>3, <1>5, <2>1, <2>2, <2>5 DEF OwedIsLeft
  <2>8. NothingWritten'
    BY <1>1, <2>5 DEF NothingWritten
  <2> QED
    BY <2>4, <2>6, <2>7, <2>8 DEF WriterInv
<1> QED
  BY <1>8, <1>9

LEMMA FailureKeepsWriter ==
  ASSUME WriterInv, WriteFails
  PROVE  WriterInv'
<1>1. /\ writer.pc = "write" /\ writer' = NoWriter /\ owed' = 0 /\ UNCHANGED garbled
      /\ cut' = (cut \/ writer.left # writer.length)
  BY DEF WriteFails
<1>2. cut' \in BOOLEAN /\ (~cut' => ~cut)
  BY <1>1 DEF WriterInv, WriterType
<1> QED
  BY <1>1, <1>2
     DEF WriterInv, WriterType, WritesWhatItSays, OwedIsLeft, NothingWritten, NoWriter

LEMMA ReconnectKeepsWriter ==
  ASSUME WriterInv, Reconnect
  PROVE  WriterInv'
<1>1. /\ writer.pc = "idle" /\ UNCHANGED writer
      /\ owed' = 0 /\ garbled' = FALSE /\ cut' = FALSE
  BY DEF Reconnect
<1> QED
  BY <1>1 DEF WriterInv, WriterType, WritesWhatItSays, OwedIsLeft, NothingWritten

LEMMA NextKeepsWriter ==
  ASSUME WriterInv, [Next]_vars
  PROVE  WriterInv'
<1>1. ASSUME NEW request \in Requests, Serialize(request) PROVE WriterInv'
  BY <1>1, SerializeKeepsWriter
<1>2. ASSUME \/ \E p \in Incoming : BrokerSends(p)
             \/ ReadHeader \/ ReadLength \/ ReadLengthTimesOut
             \/ Drain \/ DrainFails \/ ReadBody \/ ReadBodyTimesOut
      PROVE  UNCHANGED outgoing
  BY <1>2 DEF BrokerSends, ReadHeader, ReadLength, ReadLengthTimesOut, Drain, Drained,
     DrainFails, ReadBody, ReadBodyTimesOut
<1>3. CASE UNCHANGED outgoing
  BY <1>3, WriterKept
<1>4. CASE SendRefused
  BY <1>4, RefusalKeepsWriter
<1>5. CASE Write
  BY <1>5, WriteKeepsWriter
<1>6. CASE WriteFails
  BY <1>6, FailureKeepsWriter
<1>7. CASE Reconnect
  BY <1>7, ReconnectKeepsWriter
<1>8. CASE UNCHANGED vars
  BY <1>3, <1>8 DEF vars
<1> QED
  BY <1>1, <1>2, <1>3, <1>4, <1>5, <1>6, <1>7, <1>8 DEF Next

THEOREM WritesInOrder == Spec => []WriterInv
<1>1. WriterInv /\ [Next]_vars => WriterInv'
  BY NextKeepsWriter
<1> QED
  BY WriterInit, <1>1, PTL DEF Spec

(* The broker reads the requests as they were meant: the length announced is   *)
(* the length written, so it is at the start of a packet after each of them,   *)
(* unless a write was cut short on this connection                             *)
(* (aws_iot_mqtt_internal_send_packet).                                        *)
THEOREM RequestsAsMeant == Spec => []BrokerInStep
<1>1. WriterInv => BrokerInStep
  BY DEF WriterInv, OwedIsLeft, BrokerInStep
<1> QED
  BY WritesInOrder, <1>1, PTL

-----------------------------------------------------------------------------
(* The incoming stream.                                                        *)

LEMMA IncomingType ==
  ASSUME NEW p \in Incoming
  PROVE  p.rem \in Nat /\ p.rem < SizeModulus /\ p.type \in DOMAIN MessageTypes
         /\ p.qos \in {0, 1} /\ p.topic \in Nat
BY StreamAssumption, ProtocolAssumption DEF WellFormed, MessageTypes

LEMMA SizeType ==
  ASSUME NEW p \in Incoming
  PROVE  Size(p) \in Nat /\ Size(p) >= p.rem + 2
         /\ Size(p) = 1 + Len(LengthBytes[p.rem]) + p.rem
BY IncomingType, DigitsType DEF Size

(* The ends of the packets that wait.                                          *)
LEMMA EndNext ==
  ASSUME unread \in Seq(Incoming), NEW k \in Nat, NEW l, l = k + 1, l <= Len(unread)
  PROVE  End(k) \in Int /\ End(l) = End(k) + Size(unread[l])
<1>1. PICK s : s = [j \in 1 .. k |-> Size(unread[j])]
  OBVIOUS
<1>2. PICK t : t = [j \in 1 .. l |-> Size(unread[j])]
  OBVIOUS
<1>3. \A j \in 1 .. l : Size(unread[j]) \in Int
  <2>1. ASSUME NEW j \in 1 .. l PROVE Size(unread[j]) \in Int
    <3>1. unread[j] \in Incoming
      BY <2>1
    <3> QED
      BY <3>1, SizeType
  <2> QED
    BY <2>1
<1>4. /\ s \in Seq(Int) /\ Len(s) = k
      /\ t \in Seq(Int) /\ Len(t) = k + 1 /\ t[k + 1] = Size(unread[l])
      /\ \A n \in 1 .. k : s[n] = t[n]
  BY <1>1, <1>2, <1>3
<1>5. Total(t) = Total(s) + t[k + 1] /\ Total(s) \in Int
  BY <1>4, TotalAppend
<1> QED
  BY <1>1, <1>2, <1>4, <1>5 DEF End

LEMMA NoEnd == End(0) = 0
<1>1. [j \in 1 .. 0 |-> Size(unread[j])] = <<>>
  OBVIOUS
<1> QED
  BY <1>1, TotalEmpty DEF End

LEMMA EndsInOrder ==
  ASSUME unread \in Seq(Incoming), unread # <<>>
  PROVE  /\ End(1) = Size(unread[1]) /\ Size(unread[1]) \in Nat
         /\ \A k \in 2 .. Len(unread) : End(k) \in Int /\ End(k) > End(1)
<1>1. Len(unread) \in Nat /\ 1 <= Len(unread) /\ unread[1] \in Incoming
  OBVIOUS
<1>2. End(1) = Size(unread[1]) /\ Size(unread[1]) \in Nat
  <2>1. PICK l : l = 0 + 1
    OBVIOUS
  <2>2. l <= Len(unread)
    BY <1>1, <2>1
  <2>3. End(l) = End(0) + Size(unread[l])
    BY <2>1, <2>2, EndNext
  <2>4. Size(unread[1]) \in Nat
    BY <1>1, SizeType
  <2> QED
    BY <2>1, <2>3, <2>4, NoEnd
<1> DEFINE S == {k \in Nat : k \in 2 .. Len(unread) => End(k) \in Int /\ End(k) > End(1)}
<1>3. ASSUME NEW k \in Nat, \A m \in Nat : m < k => m \in S
      PROVE  k \in S
  <2> SUFFICES ASSUME k \in 2 .. Len(unread) PROVE End(k) \in Int /\ End(k) > End(1)
    OBVIOUS
  <2>1. PICK j \in Nat : k = j + 1
    OBVIOUS
  <2>2. End(j) \in Int /\ End(k) = End(j) + Size(unread[k])
    BY <2>1, EndNext
  <2>3. unread[k] \in Incoming
    OBVIOUS
  <2>4. Size(unread[k]) \in Nat /\ Size(unread[k]) > 0
    BY <2>3, SizeType, IncomingType
  <2>5. End(j) >= End(1)
    <3>1. CASE j = 1
      BY <1>2, <3>1
    <3>2. CASE j # 1
      <4>1. j \in S /\ j \in 2 .. Len(unread)
        BY <1>3, <2>1, <3>2
      <4> QED
        BY <1>2, <4>1
    <3> QED
      BY <3>1, <3>2
  <2> QED
    BY <1>2, <2>2, <2>4, <2>5
<1> HIDE DEF S
<1>4. Nat \subseteq S
  BY <1>3, FromSmaller
<1>5. \A k \in 2 .. Len(unread) : End(k) \in Int /\ End(k) > End(1)
  BY <1>4 DEF S
<1> QED
  BY <1>2, <1>5

(* A read inside the first packet: at its end the packet is gone.              *)
LEMMA Consumed ==
  ASSUME inStep, unread \in Seq(Incoming), at \in Nat, unread # <<>>, NEW n \in Nat,
         at + n <= Size(unread[1]), Consume(n)
  PROVE  IF at + n = Size(unread[1])
         THEN unread' = Tail(unread) /\ at' = 0
         ELSE unread' = unread /\ at' = at + n
<1>1. PICK T : T = {0} \cup {i \in 1 .. Len(unread) : End(i) <= at + n}
  OBVIOUS
<1>2. unread' = SubSeq(unread, Max(T) + 1, Len(unread)) /\ at' = at + n - End(Max(T))
  BY <1>1 DEF Consume
<1>3. End(1) = Size(unread[1]) /\ Size(unread[1]) \in Nat /\ Len(unread) \in Nat /\ Len(unread) >= 1
  BY EndsInOrder
<1>4. ASSUME NEW k \in 2 .. Len(unread) PROVE ~(End(k) <= at + n)
  <2>1. End(k) \in Int /\ End(k) > Size(unread[1])
    BY <1>3, EndsInOrder
  <2> QED
    BY <1>3, <2>1
<1>5. CASE at + n = Size(unread[1])
  <2>1. T = {0, 1}
    BY <1>1, <1>3, <1>4, <1>5
  <2>2. Max(T) = 1
    BY <2>1 DEF Max
  <2>3. Tail(unread) = SubSeq(unread, 2, Len(unread))
    BY TailIsSubSeq
  <2> QED
    BY <1>2, <1>3, <1>5, <2>2, <2>3
<1>6. CASE at + n # Size(unread[1])
  <2>1. T = {0}
    BY <1>1, <1>3, <1>4, <1>6
  <2>2. Max(T) = 0
    BY <2>1 DEF Max
  <2>3. SubSeq(unread, 1, Len(unread)) = unread
    BY SubSeqFull
  <2> QED
    BY <1>2, <1>6, <2>2, <2>3, NoEnd
<1> QED
  BY <1>5, <1>6

(* Nothing is read.                                                            *)
LEMMA NothingConsumed ==
  ASSUME inStep, unread \in Seq(Incoming), at = 0, Consume(0)
  PROVE  UNCHANGED stream
<1>1. CASE unread # <<>>
  <2>1. unread[1] \in Incoming
    BY <1>1
  <2>2. Size(unread[1]) \in Nat /\ Size(unread[1]) > 0
    BY <2>1, SizeType, IncomingType
  <2> QED
    BY <1>1, <2>2, Consumed DEF stream
<1>2. CASE unread = <<>>
  <2>1. PICK T : T = {0} \cup {i \in 1 .. Len(unread) : End(i) <= at + 0}
    OBVIOUS
  <2>2. unread' = SubSeq(unread, Max(T) + 1, Len(unread)) /\ at' = at + 0 - End(Max(T))
    BY <2>1 DEF Consume
  <2>3. T = {0}
    BY <1>2, <2>1
  <2>4. Max(T) = 0
    BY <2>3 DEF Max
  <2>5. SubSeq(unread, 1, Len(unread)) = unread
    BY SubSeqFull
  <2> QED
    BY <2>2, <2>4, <2>5, NoEnd DEF stream
<1> QED
  BY <1>1, <1>2

(* What is there to be read is a packet.                                       *)
LEMMA AvailableIsPacket ==
  ASSUME unread \in Seq(Incoming), at \in Nat, Available > 0
  PROVE  unread # <<>> /\ unread[1] \in Incoming
<1>1. unread # <<>>
  <2> SUFFICES ASSUME unread = <<>> PROVE FALSE
    OBVIOUS
  <2>1. Available = 0 - at
    BY NoEnd DEF Available
  <2> QED
    BY <2>1
<1> QED
  BY <1>1

(* One turn of the decoding loop: the last digit completes the length, another *)
(* one leaves the rest of the digits, and nothing overflows on the way.        *)
LEMMA AccumulatedType ==
  ASSUME NEW sum \in Nat, NEW byte \in Nat, NEW multiplier \in Nat
  PROVE  Accumulated(sum, byte, multiplier) \in Nat /\ Raised(multiplier) \in Nat
<1>1. byte % LengthBase \in Nat
  OBVIOUS
<1>2. PICK x : x = (byte % LengthBase) * multiplier
  OBVIOUS
<1>3. PICK y : y = multiplier * LengthBase
  OBVIOUS
<1>4. sum + x \in Nat /\ y \in Nat
  BY <1>1, <1>2, <1>3
<1>5. (sum + x) % SizeModulus \in Nat /\ y % SizeModulus \in Nat
  BY <1>4
<1> QED
  BY <1>2, <1>3, <1>5 DEF Accumulated, Raised

LEMMA LastDigit ==
  ASSUME NEW q \in Nat, q < LengthBase, NEW sum \in Nat, NEW multiplier \in Nat,
         NEW rem \in Nat, Completes(q, rem, sum, multiplier), rem < SizeModulus
  PROVE  /\ LengthBytes[q][1] = q /\ ~HasMore(q) /\ Len(LengthBytes[q]) = 1
         /\ Accumulated(sum, q, multiplier) = rem
<1>1. LengthBytes[q] = <<q>> /\ Len(LengthBytes[q]) = 1
  BY OneDigit
<1>2. q % LengthBase = q
  OBVIOUS
<1>3. rem % SizeModulus = rem
  OBVIOUS
<1>4. multiplier * q = q * multiplier
  OBVIOUS
<1>5. sum + (q % LengthBase) * multiplier = rem
  BY <1>2, <1>4 DEF Completes
<1>6. Accumulated(sum, q, multiplier) = rem
  BY <1>3, <1>5 DEF Accumulated
<1> QED
  BY <1>1, <1>6 DEF HasMore

OtherDigits(q, d) ==
  \A i \in 1 .. Len(LengthBytes[d]) : LengthBytes[q][i + 1] = LengthBytes[d][i]

LEMMA AnotherDigit ==
  ASSUME NEW q \in Nat, q >= LengthBase, NEW d, d = q \div LengthBase
  PROVE  /\ LengthBytes[q][1] \in Nat /\ HasMore(LengthBytes[q][1])
         /\ LengthBytes[q][1] % LengthBase = q % LengthBase
         /\ d \in Nat /\ d < q
         /\ Len(LengthBytes[q]) = 1 + Len(LengthBytes[d]) /\ Len(LengthBytes[d]) \in Nat \ {0}
         /\ OtherDigits(q, d)
<1>1. PICK digit : digit = q % LengthBase
  OBVIOUS
<1>2. PICK r : r = LengthBase + (q % LengthBase)
  OBVIOUS
<1>3. digit \in 0 .. LengthBase - 1 /\ r % LengthBase = digit
  BY <1>1, <1>2, Digits
<1>4. /\ d \in Nat /\ d < q /\ r \in Nat
      /\ LengthBytes[q] = <<r>> \o LengthBytes[d]
      /\ Len(LengthBytes[q]) = 1 + Len(LengthBytes[d])
  BY <1>2, MoreDigits
<1>5. LengthBytes[d] \in Seq(Nat) /\ Len(LengthBytes[d]) \in Nat \ {0}
  BY <1>4, DigitsType
<1>6. /\ LengthBytes[q][1] = r
      /\ \A i \in 1 .. Len(LengthBytes[d]) : LengthBytes[q][i + 1] = LengthBytes[d][i]
  BY <1>4, <1>5
<1>7. r = LengthBase + digit
  BY <1>1, <1>2
<1>8. r \in Nat /\ HasMore(r)
  <2>1. digit \in Nat
    BY <1>3
  <2> QED
    BY <1>7, <2>1 DEF HasMore
<1> QED
  BY <1>1, <1>3, <1>4, <1>5, <1>6, <1>8 DEF OtherDigits

LEMMA NothingOverflows ==
  ASSUME NEW q \in Nat, q >= LengthBase, NEW d \in Nat, d = q \div LengthBase,
         NEW sum \in Nat, NEW multiplier \in Nat, NEW rem \in Nat, rem < SizeModulus,
         Completes(q, rem, sum, multiplier), NEW byte, byte % LengthBase = q % LengthBase
  PROVE  Completes(d, rem, Accumulated(sum, byte, multiplier), Raised(multiplier))
<1>0. PICK digit : digit = q % LengthBase
  OBVIOUS
<1>1. digit \in Nat
  BY <1>0, Digits
<1>2. q = digit + LengthBase * d
  BY <1>0, Digits
<1>3. q # digit
  BY <1>0, Digits
<1>4. rem = sum + multiplier * q
  BY DEF Completes
<1>5. rem = Accumulated(sum, byte, multiplier) + Raised(multiplier) * d
  <2>1. PICK x : x = digit * multiplier
    OBVIOUS
  <2>2. PICK y : y = multiplier * LengthBase
    OBVIOUS
  <2>3. PICK z : z = y * d
    OBVIOUS
  <2>4. digit \in Nat /\ x \in Nat /\ y \in Nat /\ z \in Nat
    <3>1. digit \in Nat
      BY <1>1
    <3>2. x \in Nat
      BY <2>1, <3>1
    <3>3. y \in Nat
      BY <2>2
    <3>4. z \in Nat
      BY <2>3, <3>3
    <3> QED
      BY <3>1, <3>2, <3>3, <3>4
  <2>5. multiplier * q = x + z
    <3>1. multiplier * q = multiplier * (digit + LengthBase * d)
      BY <1>2
    <3>2. multiplier * (digit + LengthBase * d) = multiplier * digit + multiplier * (LengthBase * d)
      BY <2>4
    <3>3. multiplier * digit = x
      BY <2>1, <2>4
    <3>4. multiplier * (LengthBase * d) = z
      <4>1. \A a, b, c \in Nat : a * (b * c) = (a * b) * c
        OBVIOUS
      <4>2. multiplier * (LengthBase * d) = (multiplier * LengthBase) * d
        BY <4>1
      <4> QED
        BY <2>2, <2>3, <4>2
    <3> QED
      BY <3>1, <3>2, <3>3, <3>4
  <2>6. d >= 1
    <3>1. d # 0
      BY <1>1, <1>2, <1>3
    <3> QED
      BY <3>1
  <2>7. z >= y
    BY <2>3, <2>4, <2>6
  <2>8. rem = sum + x + z
    BY <1>4, <2>4, <2>5
  <2>9. (sum + x) % SizeModulus = sum + x /\ y % SizeModulus = y
    <3>1. sum + x \in Nat /\ sum + x < SizeModulus /\ y < SizeModulus
      BY <1>4, <2>4, <2>7, <2>8
    <3> QED
      BY <2>4, <3>1
  <2>10. Accumulated(sum, byte, multiplier) = sum + x
    BY <1>0, <2>1, <2>9 DEF Accumulated
  <2>11. Raised(multiplier) = y
    BY <2>2, <2>9 DEF Raised
  <2> QED
    BY <2>3, <2>8, <2>10, <2>11
<1> QED
  BY <1>5 DEF Completes

-----------------------------------------------------------------------------
(* The way in.                                                                 *)

LEMMA NextByteType ==
  ASSUME ReaderType, NEW byte \in NextBytes
  PROVE  /\ byte \in Nat
         /\ inStep => unread # <<>> /\ unread[1] \in Incoming /\ byte \in BytesAt(unread[1], at)
<1>0. Payload \subseteq Nat
  BY StreamAssumption
<1>1. CASE ~inStep
  BY <1>0, <1>1 DEF NextBytes
<1>2. CASE inStep
  <2>1. Available > 0 /\ byte \in BytesAt(unread[1], at)
    BY <1>2 DEF NextBytes
  <2>2. unread \in Seq(Incoming) /\ at \in Nat
    BY DEF ReaderType
  <2>3. unread # <<>> /\ unread[1] \in Incoming
    BY <2>1, <2>2, AvailableIsPacket
  <2>4. PICK p : p = unread[1]
    OBVIOUS
  <2>5. p.rem \in Nat /\ HeaderByte(p.type, p.qos) \in Nat
    BY <2>3, <2>4, IncomingType, HeaderSays
  <2>6. LengthBytes[p.rem] \in Seq(Nat)
    BY <2>5, DigitsType
  <2>7. BytesAt(p, at) \subseteq Nat
    <3>1. CASE at = 0
      BY <2>5, <3>1 DEF BytesAt
    <3>2. CASE at # 0 /\ at <= Len(LengthBytes[p.rem])
      <4>1. at \in 1 .. Len(LengthBytes[p.rem])
        BY <2>2, <2>6, <3>2
      <4>2. LengthBytes[p.rem][at] \in Nat
        BY <2>6, <4>1
      <4> QED
        BY <3>2, <4>2 DEF BytesAt
    <3>3. CASE at # 0 /\ ~(at <= Len(LengthBytes[p.rem]))
      BY <1>0, <3>3 DEF BytesAt
    <3> QED
      BY <3>1, <3>2, <3>3
  <2> QED
    BY <2>1, <2>3, <2>4, <2>7
<1> QED
  BY <1>1, <1>2

LEMMA ReaderInit == Init => ReaderInv
<1> SUFFICES ASSUME Init PROVE ReaderInv
  OBVIOUS
<1>1. unread = <<>> /\ at = 0 /\ reader = Idle /\ read = NoRead /\ inStep = TRUE
  BY DEF Init
<1>2. ReaderType
  BY <1>1 DEF ReaderType, Idle
<1>3. Chosen /\ AtAnEnd /\ BeganWithHead /\ InLength /\ InContent
  BY <1>1 DEF Idle, Chosen, AtAnEnd, BeganWithHead, InLength, InContent
<1>4. ReturnFits
  <2>1. read.stored = 0 /\ read.content.granted = 0
    BY <1>1 DEF NoRead, NoContent
  <2>2. ReadBufSize - 1 \in Nat
    BY StreamAssumption
  <2>3. Len(LengthBytes[ReadBufSize - 1]) \in Nat
    BY <2>2, DigitsType
  <2> QED
    BY <2>1, <2>2, <2>3, StreamAssumption DEF ReturnFits, StoredWithin
<1> QED
  BY <1>2, <1>3, <1>4 DEF ReaderInv

LEMMA ReaderKept ==
  ASSUME ReaderInv, UNCHANGED incoming
  PROVE  ReaderInv'
BY DEF incoming, stream, ReaderInv, ReaderType, Chosen, ReturnFits, StoredWithin, AtAnEnd,
   BeganWithHead, InLength, InContent, StillDigits

(* Nothing is returned yet, or no packet.                                      *)
LEMMA ReturnsNothing ==
  ASSUME NEW rc, read' = [rc |-> rc, content |-> NoContent, stored |-> 0]
  PROVE  ReturnFits' /\ read'.content = NoContent
<1>1. read'.stored = 0 /\ read'.content.granted = 0 /\ read'.content = NoContent
  BY DEF NoContent
<1>2. ReadBufSize - 1 \in Nat
  BY StreamAssumption
<1>3. Len(LengthBytes[ReadBufSize - 1]) \in Nat
  BY <1>2, DigitsType
<1> QED
  BY <1>1, <1>2, <1>3, StreamAssumption DEF ReturnFits, StoredWithin

LEMMA SendKeepsReader ==
  ASSUME ReaderInv, NEW p \in Incoming, BrokerSends(p)
  PROVE  ReaderInv'
<1>1. inStep /\ unread' = Append(unread, p) /\ UNCHANGED <<at, reader, read, inStep>>
  BY DEF BrokerSends
<1>2. unread \in Seq(Incoming)
  BY DEF ReaderInv, ReaderType
<1>3. unread' \in Seq(Incoming) /\ unread' # <<>> /\ (unread # <<>> => unread'[1] = unread[1])
  BY <1>1, <1>2
<1>4. ReaderType' /\ Chosen' /\ ReturnFits' /\ AtAnEnd' /\ BeganWithHead'
  BY <1>1, <1>3
     DEF ReaderInv, ReaderType, Chosen, ReturnFits, StoredWithin, AtAnEnd, BeganWithHead
<1>5. InLength'
  BY <1>1, <1>3 DEF ReaderInv, InLength, StillDigits
<1>6. InContent'
  BY <1>1, <1>3 DEF ReaderInv, InContent
<1> QED
  BY <1>4, <1>5, <1>6 DEF ReaderInv

LEMMA HeaderKeepsReader ==
  ASSUME ReaderInv, ReadHeader
  PROVE  ReaderInv'
<1>1. PICK byte \in NextBytes :
        reader' = [Idle EXCEPT !.pc = "length", !.byte = byte,
                               !.head = IF inStep THEN unread[1] ELSE NoPacket]
  BY DEF ReadHeader
<1>2. /\ reader.pc = "idle" /\ Consume(1) /\ UNCHANGED inStep
      /\ read' = [rc |-> "none", content |-> NoContent, stored |-> 0]
  BY DEF ReadHeader
<1>3. ReturnFits' /\ read'.content = NoContent
  BY <1>2, ReturnsNothing
<1>4. at = 0 /\ at \in Nat /\ unread \in Seq(Incoming) /\ inStep \in BOOLEAN
  BY <1>2 DEF ReaderInv, ReaderType, AtAnEnd
<1>5. byte \in Nat
  BY NextByteType DEF ReaderInv
<1>6. CASE inStep
  <2>1. PICK p : p = unread[1]
    OBVIOUS
  <2>2. unread # <<>> /\ p \in Incoming /\ byte \in BytesAt(p, at)
    BY <1>6, <2>1, NextByteType DEF ReaderInv
  <2>3. p.rem \in Nat /\ Size(p) \in Nat /\ Size(p) >= p.rem + 2
    BY <2>2, SizeType, IncomingType
  <2>4. unread' = unread /\ at' = 1
    BY <1>2, <1>4, <1>6, <2>1, <2>2, <2>3, Consumed
  <2>5. reader' = [pc |-> "length", byte |-> byte, rem |-> 0, multiplier |-> 1, left |-> 0,
                   head |-> p]
    BY <1>1, <1>6, <2>1 DEF Idle
  <2>6. byte = HeaderByte(p.type, p.qos)
    BY <1>4, <2>2 DEF BytesAt
  <2>7. ReaderType'
    BY <1>2, <1>4, <1>5, <2>2, <2>4, <2>5 DEF ReaderType
  <2>8. Chosen' /\ AtAnEnd' /\ BeganWithHead' /\ InContent'
    BY <1>2, <1>3, <1>6, <2>2, <2>5, <2>6 DEF Chosen, AtAnEnd, BeganWithHead, InContent
  <2>9. StillDigits(p.rem)'
    <3>1. LengthBytes[p.rem] \in Seq(Nat) /\ Len(LengthBytes[p.rem]) \in Nat
      BY <2>3, DigitsType
    <3>2. /\ Len(LengthBytes[p.rem]) = Len(LengthBytes[p.rem]) - (1 - 1)
          /\ \A i \in 1 .. Len(LengthBytes[p.rem]) :
               LengthBytes[p.rem][1 - 1 + i] = LengthBytes[p.rem][i]
          /\ Completes(p.rem, p.rem, 0, 1)
      BY <2>3, <3>1 DEF Completes
    <3>3. /\ reader'.head = p /\ reader'.rem = 0 /\ reader'.multiplier = 1
      BY <2>5
    <3> QED
      BY <2>4, <3>2, <3>3 DEF StillDigits
  <2>10. InLength'
    <3>1. p.rem \in 0 .. reader'.head.rem
      BY <2>3, <2>5
    <3> QED
      BY <2>1, <2>2, <2>4, <2>5, <2>9, <3>1 DEF InLength
  <2> QED
    BY <1>3, <2>7, <2>8, <2>10 DEF ReaderInv
<1>7. CASE ~inStep
  <2>1. UNCHANGED stream
    BY <1>2, <1>7 DEF Consume
  <2>2. reader' = [pc |-> "length", byte |-> byte, rem |-> 0, multiplier |-> 1, left |-> 0,
                   head |-> NoPacket]
    BY <1>1, <1>7 DEF Idle
  <2>3. ReaderType'
    BY <1>2, <1>4, <1>5, <2>1, <2>2 DEF ReaderType, stream
  <2>4. Chosen' /\ AtAnEnd' /\ BeganWithHead' /\ InContent' /\ InLength'
    BY <1>2, <1>7, <2>1, <2>2
       DEF ReaderInv, Chosen, AtAnEnd, BeganWithHead, InContent, InLength, stream
  <2> QED
    BY <1>3, <2>3, <2>4 DEF ReaderInv
<1> QED
  BY <1>6, <1>7

(* The call in step reads the next digit of the length.                        *)
LEMMA DigitInStep ==
  ASSUME ReaderInv, inStep, reader.pc = "length", NEW byte \in NextBytes,
         NEW q \in 0 .. reader.head.rem, StillDigits(q), NEW p, p = reader.head,
         NEW m, m = Len(LengthBytes[p.rem]), NEW l, l = Len(LengthBytes[q])
  PROVE  byte = LengthBytes[q][1]
<1>2. p \in Incoming /\ unread # <<>> /\ unread[1] = p /\ at \in Nat /\ at > 0
  BY DEF ReaderInv, ReaderType, BeganWithHead, InLength
<1>3. p.rem \in Nat
  BY <1>2, IncomingType
<1>4. m \in Nat /\ l \in Nat /\ l > 0
  <2>1. q \in Nat
    BY <1>3
  <2>2. Len(LengthBytes[p.rem]) \in Nat \ {0} /\ Len(LengthBytes[q]) \in Nat \ {0}
    BY <1>3, <2>1, DigitsType
  <2> QED
    BY <2>2
<1>5. l = m - (at - 1)
  BY DEF StillDigits
<1>6. at <= m /\ at = m - l + 1
  BY <1>2, <1>4, <1>5
<1>7. LengthBytes[p.rem][at] = LengthBytes[q][1]
  <2>1. \A i \in 1 .. l : LengthBytes[p.rem][at - 1 + i] = LengthBytes[q][i]
    BY DEF StillDigits
  <2>2. 1 \in 1 .. l /\ at - 1 + 1 = at
    BY <1>2, <1>4
  <2> QED
    BY <2>1, <2>2
<1>8. byte \in BytesAt(p, at)
  BY <1>2, NextByteType DEF ReaderInv
<1>9. BytesAt(p, at) = {LengthBytes[p.rem][at]}
  <2>1. at # 0
    BY <1>2
  <2>2. at <= Len(LengthBytes[p.rem])
    BY <1>6
  <2> QED
    BY <2>1, <2>2 DEF BytesAt
<1>10. byte = LengthBytes[p.rem][at]
  BY <1>8, <1>9
<1> QED
  BY <1>2, <1>4, <1>6, <1>7, <1>10

LEMMA LengthInStep ==
  ASSUME ReaderInv, inStep, ReadLength
  PROVE  /\ unread # <<>> /\ unread[1] = reader.head /\ at > 0
         /\ reader'.head = reader.head /\ reader'.byte = reader.byte
         /\ IF at' = 0 THEN unread' = Tail(unread) ELSE unread' = unread
         /\ ReaderType' /\ InLength' /\ InContent'
<1>1. PICK byte \in NextBytes :
        LET rem == Accumulated(reader.rem, byte, reader.multiplier)
        IN  reader' = [reader EXCEPT
              !.rem = rem, !.left = rem, !.multiplier = Raised(@),
              !.pc = IF HasMore(byte) THEN "length"
                     ELSE IF IsTooLong(rem) THEN "drain" ELSE "body"]
  BY DEF ReadLength
<1>2. reader.pc = "length" /\ Consume(1) /\ UNCHANGED <<read, inStep>>
  BY DEF ReadLength
<1>3. PICK p : p = reader.head
  OBVIOUS
<1>4. PICK q \in 0 .. p.rem : StillDigits(q)
  BY <1>2, <1>3 DEF ReaderInv, InLength
<1>5. PICK m : m = Len(LengthBytes[p.rem])
  OBVIOUS
<1>6. PICK l : l = Len(LengthBytes[q])
  OBVIOUS
<1>0. byte \in NextBytes /\ q \in 0 .. reader.head.rem
  BY <1>3, <1>4
<1>7. byte = LengthBytes[q][1]
  BY <1>0, <1>2, <1>3, <1>4, <1>5, <1>6, DigitInStep
<1>8. p \in Incoming /\ unread # <<>> /\ unread[1] = p /\ unread \in Seq(Incoming)
  BY <1>2, <1>3 DEF ReaderInv, ReaderType, BeganWithHead, InLength
<1>9. at \in Nat /\ at > 0 /\ m \in Nat /\ l \in Nat /\ l > 0 /\ at = m - l + 1
  <2>1. at \in Nat /\ at > 0
    BY <1>2 DEF ReaderInv, ReaderType, InLength
  <2>2. p.rem \in Nat /\ q \in Nat
    BY <1>4, <1>8, IncomingType
  <2>3. Len(LengthBytes[p.rem]) \in Nat \ {0} /\ Len(LengthBytes[q]) \in Nat \ {0}
    BY <2>2, DigitsType
  <2>4. m \in Nat /\ l \in Nat /\ l > 0
    BY <1>5, <1>6, <2>3
  <2>5. l = m - (at - 1)
    BY <1>3, <1>4, <1>5, <1>6 DEF StillDigits
  <2> QED
    BY <2>1, <2>4, <2>5
<1>10. p.rem \in Nat /\ p.rem < SizeModulus
  BY <1>8, IncomingType
<1>11. q \in Nat /\ q <= p.rem
  BY <1>10
<1>12. Size(p) \in Nat /\ Size(p) = 1 + m + p.rem
  BY <1>5, <1>8, SizeType
<1>13. reader.rem \in Nat /\ reader.multiplier \in Nat /\ reader.byte \in Nat
  BY DEF ReaderInv, ReaderType
<1>14. PICK rem : rem = Accumulated(reader.rem, byte, reader.multiplier)
  OBVIOUS
<1>15. PICK multiplier : multiplier = Raised(reader.multiplier)
  OBVIOUS
<1>16. Completes(q, p.rem, reader.rem, reader.multiplier)
  BY <1>3, <1>4 DEF StillDigits
<1>17. reader' = [pc |-> IF HasMore(byte) THEN "length"
                         ELSE IF IsTooLong(rem) THEN "drain" ELSE "body",
                  byte |-> reader.byte, rem |-> rem, multiplier |-> multiplier,
                  left |-> rem, head |-> p]
  BY <1>1, <1>3, <1>14, <1>15 DEF ReaderInv, ReaderType
<1>18. rem \in Nat /\ multiplier \in Nat
  <2>1. byte \in Nat
    BY NextByteType DEF ReaderInv
  <2> QED
    BY <1>13, <1>14, <1>15, <2>1, AccumulatedType
<1>19. /\ reader'.pc = (IF HasMore(byte) THEN "length"
                        ELSE IF IsTooLong(rem) THEN "drain" ELSE "body")
       /\ reader'.rem = rem /\ reader'.multiplier = multiplier /\ reader'.left = rem
       /\ reader'.head = p /\ reader'.byte = reader.byte
  BY <1>17
<1>20. unread' \in Seq(Incoming) /\ at' \in Nat => ReaderType'
  BY <1>2, <1>8, <1>13, <1>17, <1>18 DEF ReaderInv, ReaderType
<1>21. CASE q < LengthBase
  <2>1. LengthBytes[q][1] = q /\ ~HasMore(q) /\ Len(LengthBytes[q]) = 1
        /\ Accumulated(reader.rem, q, reader.multiplier) = p.rem
    BY <1>10, <1>11, <1>13, <1>16, <1>21, LastDigit
  <2>2. byte = q /\ ~HasMore(byte) /\ l = 1 /\ rem = p.rem
    BY <1>6, <1>7, <1>14, <2>1
  <2>3. at + 1 = Size(p) - p.rem
    BY <1>9, <1>10, <1>12, <2>2
  <2>4. IF p.rem = 0
        THEN unread' = Tail(unread) /\ at' = 0
        ELSE unread' = unread /\ at' = at + 1
    <3>1. at + 1 <= Size(p) /\ (at + 1 = Size(p) <=> p.rem = 0)
      BY <1>9, <1>10, <1>12, <2>3
    <3> QED
      BY <1>2, <1>8, <1>9, <3>1, Consumed
  <2>5. unread' \in Seq(Incoming) /\ at' \in Nat /\ (at' = 0 <=> p.rem = 0)
    BY <1>8, <1>9, <2>4
  <2>6. /\ reader'.pc \in {"body", "drain"} /\ reader'.rem = p.rem /\ reader'.left = p.rem
        /\ reader'.head = p
    BY <1>19, <2>2
  <2>7. InLength'
    <3>1. reader'.pc # "length"
      BY <2>6
    <3> QED
      BY <3>1 DEF InLength
  <2>8. InContent'
    <3>1. p.rem # 0 => unread' # <<>> /\ unread'[1] = p /\ at' = Size(p) - p.rem
      BY <1>8, <2>3, <2>4
    <3> QED
      BY <1>10, <2>4, <2>6, <3>1 DEF InContent, Size
  <2> QED
    BY <1>3, <1>8, <1>9, <1>19, <1>20, <2>4, <2>5, <2>7, <2>8
<1>22. CASE q >= LengthBase
  <2>1. PICK d : d = q \div LengthBase
    OBVIOUS
  <2>2. PICK k : k = Len(LengthBytes[d])
    OBVIOUS
  <2>3. /\ HasMore(byte) /\ d \in Nat /\ d < q /\ l = 1 + k /\ k \in Nat /\ k > 0
        /\ OtherDigits(q, d) /\ Completes(d, p.rem, rem, multiplier)
    <3>1. byte = LengthBytes[q][1]
      BY <1>7
    <3>2. /\ byte \in Nat /\ HasMore(byte) /\ byte % LengthBase = q % LengthBase
          /\ d \in Nat /\ d < q /\ Len(LengthBytes[q]) = 1 + Len(LengthBytes[d])
          /\ Len(LengthBytes[d]) \in Nat \ {0}
          /\ OtherDigits(q, d)
      <4>1. q \in Nat
        BY <1>11
      <4>2. q >= LengthBase
        BY <1>22
      <4>3. d = q \div LengthBase
        BY <2>1
      <4>4. LengthBytes[q][1] \in Nat /\ HasMore(LengthBytes[q][1])
        BY <4>1, <4>2, <4>3, AnotherDigit
      <4>5. LengthBytes[q][1] % LengthBase = q % LengthBase
        BY <4>1, <4>2, <4>3, AnotherDigit
      <4>6. d \in Nat /\ d < q
        BY <4>1, <4>2, <4>3, AnotherDigit
      <4>7. Len(LengthBytes[q]) = 1 + Len(LengthBytes[d]) /\ Len(LengthBytes[d]) \in Nat \ {0}
        BY <4>1, <4>2, <4>3, AnotherDigit
      <4>8. OtherDigits(q, d)
        BY <4>1, <4>2, <4>3, AnotherDigit
      <4> QED
        BY <3>1, <4>4, <4>5, <4>6, <4>7, <4>8, Zenon
    <3>3. k \in Nat \ {0}
      BY <2>2, <3>2
    <3>4. q \in Nat /\ d \in Nat /\ q >= LengthBase /\ d = q \div LengthBase
      BY <1>11, <1>22, <2>1, <3>2
    <3>5. Completes(d, p.rem, rem, multiplier)
      BY <1>10, <1>13, <1>14, <1>15, <1>16, <3>2, <3>4, NothingOverflows
    <3> QED
      BY <1>6, <2>2, <3>2, <3>3, <3>5
  <2>4. HasMore(byte) /\ d \in Nat /\ d < q /\ l = 1 + k /\ k \in Nat /\ k > 0
    BY <2>3
  <2>5. unread' = unread /\ at' = at + 1
    <3>1. at + 1 <= Size(p) /\ at + 1 # Size(p)
      BY <1>9, <1>10, <1>12, <2>4
    <3> QED
      BY <1>2, <1>8, <1>9, <3>1, Consumed
  <2>6. /\ reader'.pc = "length" /\ reader'.rem = rem /\ reader'.multiplier = multiplier
        /\ reader'.head = p
    BY <1>19, <2>4
  <2>7. unread' \in Seq(Incoming) /\ at' \in Nat /\ at' > 0
    BY <1>8, <1>9, <2>5
  <2>8. StillDigits(d)'
    <3>1. \A i \in 1 .. l : LengthBytes[p.rem][at - 1 + i] = LengthBytes[q][i]
      BY <1>3, <1>4, <1>6 DEF StillDigits
    <3>2. k = m - (at' - 1)
      BY <1>9, <2>4, <2>5
    <3>3. ASSUME NEW i \in 1 .. k
          PROVE  LengthBytes[p.rem][at' - 1 + i] = LengthBytes[d][i]
      <4>1. PICK j : j = i + 1
        OBVIOUS
      <4>2. j \in 1 .. l /\ at - 1 + j = at' - 1 + i
        BY <1>9, <2>4, <2>5, <4>1
      <4>3. LengthBytes[p.rem][at - 1 + j] = LengthBytes[q][j]
        BY <3>1, <4>2
      <4>4. LengthBytes[q][j] = LengthBytes[d][i]
        BY <2>2, <2>3, <4>1 DEF OtherDigits
      <4> QED
        BY <4>2, <4>3, <4>4
    <3>4. Completes(d, p.rem, rem, multiplier)
      BY <2>3
    <3> QED
      BY <1>5, <2>2, <2>6, <3>2, <3>3, <3>4 DEF StillDigits
  <2>9. InLength'
    <3>1. d \in 0 .. p.rem
      BY <1>10, <1>11, <2>4
    <3>2. unread' # <<>> /\ unread'[1] = p
      BY <1>8, <2>5
    <3> QED
      BY <2>6, <2>7, <2>8, <3>1, <3>2 DEF InLength
  <2>10. InContent'
    BY <2>6 DEF InContent
  <2> QED
    BY <1>3, <1>8, <1>9, <1>19, <1>20, <2>5, <2>7, <2>9, <2>10
<1> QED
  BY <1>11, <1>21, <1>22

LEMMA LengthKeepsReader ==
  ASSUME ReaderInv, ReadLength
  PROVE  ReaderInv'
<1>1. PICK byte \in NextBytes :
        LET rem == Accumulated(reader.rem, byte, reader.multiplier)
        IN  reader' = [reader EXCEPT
              !.rem = rem, !.left = rem, !.multiplier = Raised(@),
              !.pc = IF HasMore(byte) THEN "length"
                     ELSE IF IsTooLong(rem) THEN "drain" ELSE "body"]
  BY DEF ReadLength
<1>2. reader.pc = "length" /\ Consume(1) /\ UNCHANGED <<read, inStep>>
  BY DEF ReadLength
<1>3. PICK rem : rem = Accumulated(reader.rem, byte, reader.multiplier)
  OBVIOUS
<1>4. PICK multiplier : multiplier = Raised(reader.multiplier)
  OBVIOUS
<1>5. reader' = [pc |-> IF HasMore(byte) THEN "length"
                        ELSE IF IsTooLong(rem) THEN "drain" ELSE "body",
                 byte |-> reader.byte, rem |-> rem, multiplier |-> multiplier,
                 left |-> rem, head |-> reader.head]
  BY <1>1, <1>3, <1>4 DEF ReaderInv, ReaderType
<1>6. rem \in Nat /\ multiplier \in Nat
  <2>1. byte \in Nat /\ reader.rem \in Nat /\ reader.multiplier \in Nat
    BY NextByteType DEF ReaderInv, ReaderType
  <2> QED
    BY <1>3, <1>4, <2>1, AccumulatedType
<1>7. /\ reader'.pc \in {"length", "body", "drain"} /\ reader'.rem = rem /\ reader'.left = rem
      /\ reader'.pc = "body" => ~IsTooLong(rem)
      /\ reader'.pc = "drain" => IsTooLong(rem)
      /\ reader'.head = reader.head /\ reader'.byte = reader.byte
  BY <1>5
<1>8. Chosen'
  <2>1. ReadBufSize \in Nat /\ ReadBufSize > 0
    BY StreamAssumption
  <2> QED
    BY <1>6, <1>7, <2>1 DEF Chosen, IsTooLong
<1>9. ReturnFits' /\ BeganWithHead'
  BY <1>2, <1>7 DEF ReaderInv, ReturnFits, StoredWithin, BeganWithHead
<1>10. CASE inStep
  <2>1. ReaderType' /\ InLength' /\ InContent'
    BY <1>10, LengthInStep
  <2>2. AtAnEnd'
    BY <1>2, <1>7, <1>10 DEF AtAnEnd
  <2> QED
    BY <1>8, <1>9, <2>1, <2>2 DEF ReaderInv
<1>11. CASE ~inStep
  <2>1. UNCHANGED stream
    BY <1>2, <1>11 DEF Consume
  <2>2. ReaderType'
    BY <1>2, <1>5, <1>6, <2>1 DEF ReaderInv, ReaderType, stream
  <2>3. AtAnEnd' /\ InLength' /\ InContent'
    BY <1>2, <1>11, <2>1 DEF ReaderInv, AtAnEnd, InLength, InContent, stream
  <2> QED
    BY <1>8, <1>9, <2>2, <2>3 DEF ReaderInv
<1> QED
  BY <1>10, <1>11

(* A call that gives its packet up.                                            *)
LEMMA LossKeepsReader ==
  ASSUME ReaderInv, NEW rc, Returns(rc, NoContent, 0), LoseStep
  PROVE  ReaderInv'
<1>1. /\ reader' = Idle /\ read' = [rc |-> rc, content |-> NoContent, stored |-> 0]
      /\ inStep' = FALSE /\ unread' = <<>> /\ at' = 0
  BY DEF Returns, LoseStep
<1>2. ReturnFits'
  BY <1>1, ReturnsNothing
<1>3. ReaderType'
  <2>1. inStep' \in BOOLEAN
    BY <1>1
  <2>2. unread' \in Seq(Incoming) /\ at' \in Nat /\ reader' = Idle
    BY <1>1
  <2> QED
    BY <2>1, <2>2 DEF ReaderType, Idle
<1>4. Chosen' /\ AtAnEnd' /\ BeganWithHead' /\ InLength' /\ InContent'
  BY <1>1 DEF Idle, Chosen, AtAnEnd, BeganWithHead, InLength, InContent
<1> QED
  BY <1>2, <1>3, <1>4 DEF ReaderInv

(* A read of n of the bytes that are left.                                     *)
LEMMA ContentConsumed ==
  ASSUME ReaderInv, inStep, reader.pc \in {"body", "drain"}, NEW n \in Nat, Consume(n),
         n <= reader.left, reader.left > 0
  PROVE  /\ unread # <<>> /\ unread[1] = reader.head /\ at > 0
         /\ IF n = reader.left THEN unread' = Tail(unread) /\ at' = 0
            ELSE unread' = unread /\ at' = at + n
<1>1. PICK p : p = reader.head
  OBVIOUS
<1>2. PICK left : left = reader.left
  OBVIOUS
<1>3. unread # <<>> /\ unread[1] = p /\ at = Size(p) - left
  BY <1>1, <1>2 DEF ReaderInv, InContent
<1>4. p \in Incoming /\ unread \in Seq(Incoming)
  BY <1>1 DEF ReaderInv, ReaderType, BeganWithHead
<1>5. Size(p) \in Nat /\ Size(p) >= p.rem + 2 /\ p.rem \in Nat
  BY <1>4, SizeType, IncomingType
<1>6. left \in Nat /\ at \in Nat /\ left <= p.rem
  BY <1>1, <1>2 DEF ReaderInv, ReaderType, InContent
<1>7. at > 0 /\ at + n <= Size(p) /\ (at + n = Size(p) <=> n = left)
  BY <1>2, <1>3, <1>5, <1>6
<1>8. IF at + n = Size(unread[1])
      THEN unread' = Tail(unread) /\ at' = 0
      ELSE unread' = unread /\ at' = at + n
  BY <1>3, <1>4, <1>6, <1>7, Consumed
<1> QED
  BY <1>1, <1>2, <1>3, <1>7, <1>8

LEMMA PieceType ==
  ASSUME NEW left \in Nat, left > 0
  PROVE  {1, Piece(left) - 1, Piece(left)} \ {0} \subseteq 1 .. left
BY StreamAssumption DEF Piece

LEMMA DrainKeepsReader ==
  ASSUME ReaderInv, Drain
  PROVE  ReaderInv'
<1>1. PICK n \in {1, Piece(reader.left) - 1, Piece(reader.left)} \ {0} : Enough(n) /\ Drained(n)
  BY DEF Drain
<1>2. reader.pc = "drain" /\ Consume(n) /\ UNCHANGED inStep
  BY <1>1 DEF Drain, Drained
<1>3. reader.left \in Nat /\ reader.left > 0 /\ reader.rem >= ReadBufSize
  BY <1>2 DEF ReaderInv, ReaderType, Chosen
<1>4. n \in 1 .. reader.left
  BY <1>3, PieceType
<1>5. n \in Nat /\ n <= reader.left /\ n > 0
  BY <1>3, <1>4
<1>6. IF n = reader.left
      THEN reader' = Idle /\ read' = [rc |-> "MQTT_RX_BUFFER_TOO_SHORT_ERROR",
                                      content |-> NoContent, stored |-> 0]
      ELSE reader' = [reader EXCEPT !.left = @ - n] /\ UNCHANGED read
  BY <1>1 DEF Drained, Returns
<1>7. /\ unread \in Seq(Incoming) /\ at \in Nat /\ inStep \in BOOLEAN
      /\ ~inStep => unread = <<>> /\ at = 0
  BY DEF ReaderInv, ReaderType, AtAnEnd
<1>8. /\ ~inStep => UNCHANGED stream
      /\ inStep => IF n = reader.left THEN unread' = Tail(unread) /\ at' = 0
                   ELSE unread' = unread /\ at' = at + n
  <2>1. CASE ~inStep
    BY <1>2, <2>1 DEF Consume
  <2>2. CASE inStep
    BY <1>2, <1>3, <1>5, <2>2, ContentConsumed
  <2> QED
    BY <2>1, <2>2
<1>9. inStep => unread # <<>>
  BY <1>2, <1>3 DEF ReaderInv, InContent
<1>10. unread' \in Seq(Incoming) /\ at' \in Nat
  <2>1. CASE ~inStep
    BY <1>7, <1>8, <2>1 DEF stream
  <2>2. CASE inStep
    BY <1>5, <1>7, <1>8, <1>9, <2>2
  <2> QED
    BY <2>1, <2>2
<1>11. CASE n = reader.left
  <2>1. /\ reader' = Idle
        /\ read' = [rc |-> "MQTT_RX_BUFFER_TOO_SHORT_ERROR", content |-> NoContent, stored |-> 0]
    BY <1>6, <1>11
  <2>2. ReturnFits'
    BY <2>1, ReturnsNothing
  <2>3. ReaderType'
    BY <1>2, <1>7, <1>10, <2>1 DEF ReaderType, Idle
  <2>4. at' = 0 /\ (~inStep' => unread' = <<>>)
    BY <1>2, <1>7, <1>8, <1>11 DEF stream
  <2>5. Chosen' /\ AtAnEnd' /\ BeganWithHead' /\ InLength' /\ InContent'
    BY <2>1, <2>4 DEF Idle, Chosen, AtAnEnd, BeganWithHead, InLength, InContent
  <2> QED
    BY <2>2, <2>3, <2>5 DEF ReaderInv
<1>12. CASE n # reader.left
  <2>1. PICK left : left = reader.left - n
    OBVIOUS
  <2>2. left \in Nat /\ left > 0 /\ left < reader.left
    BY <1>3, <1>5, <1>12, <2>1
  <2>3. reader' = [reader EXCEPT !.left = left] /\ UNCHANGED read
    BY <1>6, <1>12, <2>1
  <2>4. ReaderType'
    BY <1>2, <1>7, <1>10, <2>2, <2>3 DEF ReaderInv, ReaderType
  <2>5. /\ reader'.pc = "drain" /\ reader'.left = left /\ reader'.rem = reader.rem
        /\ reader'.head = reader.head /\ reader'.byte = reader.byte
    BY <1>2, <2>3 DEF ReaderInv, ReaderType
  <2>6. Chosen' /\ ReturnFits' /\ AtAnEnd' /\ BeganWithHead' /\ InLength'
    BY <1>2, <1>3, <1>7, <1>8, <2>2, <2>3, <2>5
       DEF ReaderInv, Chosen, ReturnFits, StoredWithin, AtAnEnd, BeganWithHead, InLength, stream
  <2>7. InContent'
    <3> SUFFICES ASSUME inStep'
                 PROVE  InContent'
      BY DEF InContent
    <3>1. inStep
      BY <1>2
    <3>2. unread' = unread /\ at' = at + n
      BY <1>8, <1>12, <3>1
    <3>3. /\ reader.rem = reader.head.rem /\ reader.left <= reader.rem
          /\ unread # <<>> /\ unread[1] = reader.head /\ at = Size(reader.head) - reader.left
      BY <1>2, <1>3, <3>1 DEF ReaderInv, InContent
    <3>4. reader.head \in Incoming
      BY <1>2, <3>1 DEF ReaderInv, BeganWithHead
    <3>5. Size(reader.head) \in Nat /\ reader.head.rem \in Nat
      BY <3>4, SizeType, IncomingType
    <3>6. at' = Size(reader.head) - left /\ left <= reader.rem
      BY <1>3, <1>5, <2>1, <2>2, <3>2, <3>3, <3>5
    <3> QED
      BY <2>2, <2>5, <3>2, <3>3, <3>6 DEF InContent, Size
  <2> QED
    BY <2>4, <2>6, <2>7 DEF ReaderInv
<1> QED
  BY <1>11, <1>12

(* What the deserialisers store of a SUBACK.                                   *)
LEMMA GrantedBound ==
  ASSUME reader.rem \in Nat
  PROVE  Content.granted \in Nat /\ Content.granted <= ExpectedCodes + 1
<1>1. ExpectedCodes \in Nat
  BY StreamAssumption
<1>2. /\ PublishContent.granted = 0 /\ ConnackContent.granted = 0
      /\ AckContent.granted = 0 /\ NoContent.granted = 0
  BY DEF PublishContent, ConnackContent, AckContent, NoContent
<1>3. SubackContent.granted \in Nat /\ SubackContent.granted <= ExpectedCodes + 1
  <2>1. PICK codes : codes = reader.rem - TwoBytes
    OBVIOUS
  <2>2. codes \in Int
    BY <2>1 DEF TwoBytes
  <2>3. CASE codes < 0
    <3>1. SubackContent = [NoContent EXCEPT !.rc = "FAILURE"]
      BY <2>1, <2>3 DEF SubackContent
    <3> QED
      BY <1>1, <3>1 DEF NoContent
  <2>4. CASE codes >= 0
    <3>1. PICK m : m = Min({codes, ExpectedCodes + 1})
      OBVIOUS
    <3>2. m \in Nat /\ m <= ExpectedCodes + 1
      <4>1. codes \in Nat
        BY <2>2, <2>4
      <4>2. \E x \in {codes, ExpectedCodes + 1} : \A y \in {codes, ExpectedCodes + 1} : x <= y
        BY <1>1, <4>1
      <4>3. m \in {codes, ExpectedCodes + 1} /\ \A y \in {codes, ExpectedCodes + 1} : m <= y
        BY <3>1, <4>2 DEF Min
      <4> QED
        BY <1>1, <4>1, <4>3
    <3>3. SubackContent.granted = m
      BY <2>1, <2>2, <2>4, <3>1 DEF SubackContent, NoContent
    <3> QED
      BY <3>2, <3>3
  <2> QED
    BY <2>2, <2>3, <2>4
<1>4. PICK type : type = HeaderType(reader.byte)
  OBVIOUS
<1>5. PICK found : found = CASE type = MessageTypes.PUBLISH -> PublishContent
                 [] type = MessageTypes.CONNACK -> ConnackContent
                 [] type = MessageTypes.SUBACK -> SubackContent
                 [] type \in {MessageTypes.PUBACK, MessageTypes.UNSUBACK} -> AckContent
                 [] OTHER -> NoContent
  OBVIOUS
<1>6. found \in {PublishContent, ConnackContent, SubackContent, AckContent, NoContent}
  BY <1>5
<1>7. found.granted \in Nat /\ found.granted <= ExpectedCodes + 1
  BY <1>1, <1>2, <1>3, <1>6
<1>8. Content = [found EXCEPT !.type = type]
  BY <1>4, <1>5 DEF Content
<1>9. Content.granted = found.granted
  BY <1>8
<1> QED
  BY <1>7, <1>9

LEMMA StoredBound ==
  ASSUME NEW rem \in Nat, rem < ReadBufSize, NEW stored,
         stored = 1 + Len(LengthBytes[rem]) + rem
  PROVE  stored \in Nat /\ stored <= ReadBufSize + Len(LengthBytes[ReadBufSize - 1])
<1>1. ReadBufSize \in Nat /\ ReadBufSize - 1 \in Nat
  BY StreamAssumption
<1>2. rem <= ReadBufSize - 1
  BY <1>1
<1>3. Len(LengthBytes[rem]) <= Len(LengthBytes[ReadBufSize - 1])
  BY <1>1, <1>2, LengthGrows
<1>4. Len(LengthBytes[rem]) \in Nat /\ Len(LengthBytes[ReadBufSize - 1]) \in Nat
  BY <1>1, DigitsType
<1> QED
  BY <1>1, <1>2, <1>3, <1>4

(* The rest of the packet that is kept is read.                                *)
LEMMA BodyInStep ==
  ASSUME ReaderInv, inStep, ReadBody
  PROVE  /\ reader.head \in Incoming /\ reader.rem = reader.head.rem
         /\ IF at = 0
            THEN unread' = unread
            ELSE unread # <<>> /\ unread[1] = reader.head /\ unread' = Tail(unread)
         /\ unread' \in Seq(Incoming) /\ at' = 0
<1>1. reader.pc = "body" /\ Consume(reader.left)
  BY DEF ReadBody
<1>2. /\ unread \in Seq(Incoming) /\ at \in Nat /\ reader.left \in Nat
      /\ reader.head \in Incoming /\ reader.rem = reader.head.rem
  BY <1>1 DEF ReaderInv, ReaderType, BeganWithHead, InContent
<1>3. CASE reader.left = 0
  <2>1. at = 0
    BY <1>1, <1>3 DEF ReaderInv, InContent
  <2>2. UNCHANGED stream
    BY <1>1, <1>2, <1>3, <2>1, NothingConsumed
  <2> QED
    BY <1>2, <2>1, <2>2 DEF stream
<1>4. CASE reader.left # 0
  <2>1. reader.left > 0 /\ reader.left <= reader.left
    BY <1>2, <1>4
  <2>2. /\ unread # <<>> /\ unread[1] = reader.head /\ at > 0
        /\ unread' = Tail(unread) /\ at' = 0
    BY <1>1, <1>2, <2>1, ContentConsumed
  <2>3. Tail(unread) \in Seq(Incoming) /\ at # 0
    BY <1>2, <2>2
  <2> QED
    BY <1>2, <2>2, <2>3
<1> QED
  BY <1>3, <1>4

LEMMA BodyKeepsReader ==
  ASSUME ReaderInv, ReadBody
  PROVE  ReaderInv'
<1>1. reader.pc = "body" /\ Consume(reader.left) /\ UNCHANGED inStep
  BY DEF ReadBody
<1>2. PICK stored : stored = 1 + Len(LengthBytes[reader.rem]) + reader.rem
  OBVIOUS
<1>3. /\ unread \in Seq(Incoming) /\ at \in Nat /\ inStep \in BOOLEAN
      /\ ~inStep => unread = <<>> /\ at = 0
  BY DEF ReaderInv, ReaderType, AtAnEnd
<1>4. reader.rem \in Nat /\ reader.rem < ReadBufSize
  BY <1>1 DEF ReaderInv, ReaderType, Chosen
<1>5. stored \in Nat /\ stored <= ReadBufSize + Len(LengthBytes[ReadBufSize - 1])
  BY <1>2, <1>4, StoredBound
<1>6. reader' = Idle /\ ReturnFits'
  <2>1. CASE inStep
    <3>1. reader' = Idle /\ read' = [rc |-> "SUCCESS", content |-> Content, stored |-> stored]
      BY <1>2, <2>1 DEF ReadBody, Returns
    <3>2. Content.granted \in Nat /\ Content.granted <= ExpectedCodes + 1
      BY <1>4, GrantedBound
    <3> QED
      BY <1>5, <3>1, <3>2 DEF ReturnFits, StoredWithin
  <2>2. CASE ~inStep
    <3>1. PICK rc \in {"SUCCESS", "FAILURE"} : Returns(rc, NoContent, stored)
      BY <1>2, <2>2 DEF ReadBody
    <3>2. reader' = Idle /\ read' = [rc |-> rc, content |-> NoContent, stored |-> stored]
      BY <3>1 DEF Returns
    <3>3. NoContent.granted = 0 /\ ExpectedCodes \in Nat
      BY StreamAssumption DEF NoContent
    <3> QED
      BY <1>5, <3>2, <3>3 DEF ReturnFits, StoredWithin
  <2> QED
    BY <2>1, <2>2
<1>7. unread' \in Seq(Incoming) /\ at' = 0 /\ (~inStep => unread' = <<>>)
  <2>1. CASE inStep
    BY <2>1, BodyInStep
  <2>2. CASE ~inStep
    BY <1>1, <1>3, <2>2 DEF Consume, stream
  <2> QED
    BY <2>1, <2>2
<1>8. ReaderType'
  BY <1>1, <1>3, <1>6, <1>7 DEF ReaderType, Idle
<1>9. Chosen' /\ AtAnEnd' /\ BeganWithHead' /\ InLength' /\ InContent'
  BY <1>1, <1>6, <1>7 DEF Idle, Chosen, AtAnEnd, BeganWithHead, InLength, InContent
<1> QED
  BY <1>6, <1>8, <1>9 DEF ReaderInv

LEMMA ReconnectKeepsReader ==
  ASSUME ReaderInv, Reconnect
  PROVE  ReaderInv'
<1>1. /\ reader.pc = "idle" /\ reader' = reader
      /\ unread' = <<>> /\ at' = 0 /\ read' = NoRead /\ inStep' = TRUE
  BY DEF Reconnect
<1>2. reader' = Idle
  BY <1>1 DEF ReaderInv, Chosen
<1>3. ReturnFits'
  BY <1>1, ReturnsNothing DEF NoRead
<1>4. ReaderType'
  BY <1>1, <1>2 DEF ReaderType, Idle
<1>5. Chosen' /\ AtAnEnd' /\ BeganWithHead' /\ InLength' /\ InContent'
  BY <1>1, <1>2 DEF Idle, Chosen, AtAnEnd, BeganWithHead, InLength, InContent
<1> QED
  BY <1>3, <1>4, <1>5 DEF ReaderInv

LEMMA NextKeepsReader ==
  ASSUME ReaderInv, [Next]_vars
  PROVE  ReaderInv'
<1>1. ASSUME NEW p \in Incoming, BrokerSends(p) PROVE ReaderInv'
  BY <1>1, SendKeepsReader
<1>2. CASE ReadHeader
  BY <1>2, HeaderKeepsReader
<1>3. CASE ReadLength
  BY <1>3, LengthKeepsReader
<1>4. CASE ReadLengthTimesOut \/ DrainFails \/ ReadBodyTimesOut
  <2>1. \E rc : Returns(rc, NoContent, 0) /\ LoseStep
    BY <1>4 DEF ReadLengthTimesOut, DrainFails, ReadBodyTimesOut
  <2> QED
    BY <2>1, LossKeepsReader
<1>5. CASE Drain
  BY <1>5, DrainKeepsReader
<1>6. CASE ReadBody
  BY <1>6, BodyKeepsReader
<1>7. ASSUME \/ \E request \in Requests : Serialize(request)
             \/ SendRefused \/ Write \/ WriteFails \/ UNCHANGED vars
      PROVE  UNCHANGED incoming
  BY <1>7 DEF Serialize, SendRefused, Write, WriteFails, vars
<1>8. CASE UNCHANGED incoming
  BY <1>8, ReaderKept
<1>9. CASE Reconnect
  BY <1>9, ReconnectKeepsReader
<1> QED
  BY <1>1, <1>2, <1>3, <1>4, <1>5, <1>6, <1>7, <1>8, <1>9 DEF Next

THEOREM ReadsInOrder == Spec => []ReaderInv
<1>1. ReaderInv /\ [Next]_vars => ReaderInv'
  BY NextKeepsReader
<1> QED
  BY ReaderInit, <1>1, PTL DEF Spec

(* A serialiser never writes more than its buffer holds, although it checks    *)
(* the room for an estimate of the length only                                 *)
(* (aws_iot_mqtt_internal_get_final_packet_length_from_remaining_length).      *)
THEOREM WritesFit == Spec => []WriterFits
<1>1. WriterInv => WriterFits
  <2> SUFFICES ASSUME WriterInv PROVE writer.length <= WriteBufSize
    BY DEF WriterFits
  <2>1. CASE writer.pc = "write"
    BY <2>1 DEF WriterInv, WritesWhatItSays
  <2>2. CASE writer.pc = "idle"
    BY <2>2 DEF WriterInv, NothingWritten, NoWriter
  <2> QED
    BY <2>1, <2>2 DEF WriterInv, WriterType
<1> QED
  BY WritesInOrder, <1>1, PTL

(* How far a received packet can leave what it is stored in: a packet that is  *)
(* kept its buffer by the bytes of its length, and the codes of a SUBACK what  *)
(* subscribe expects by one, which the three places of its array hold          *)
(* (_aws_iot_mqtt_internal_read_packet, _aws_iot_mqtt_deserialize_suback).     *)
THEOREM OverrunsAreBounded ==
  Spec => [](StoredWithin /\ read.content.granted <= ExpectedCodes + 1)
<1>1. ReaderInv => StoredWithin /\ read.content.granted <= ExpectedCodes + 1
  BY DEF ReaderInv, ReturnFits
<1> QED
  BY ReadsInOrder, <1>1, PTL

-----------------------------------------------------------------------------
(* The refinement: the streams implement the channel of whole packets.         *)

(* What a packet that was read says, with the codes a subscribe expects.       *)
LEMMA ContentIsMeaning ==
  ASSUME ExpectedCodes = 1, NEW p \in Incoming, reader.head = p, reader.rem = p.rem,
         reader.byte = HeaderByte(p.type, p.qos)
  PROVE  Content = Meaning(p)
<1>1. /\ p.type \in {"CONNACK", "PUBLISH", "PUBACK", "SUBACK", "UNSUBACK", "PINGRESP"}
      /\ p.qos \in {0, 1} /\ p.topic \in Nat /\ p.rem \in Nat
      /\ p.type # "PUBLISH" => p.qos = 0 /\ p.topic = 0
      /\ p.type \in {"PUBACK", "UNSUBACK"} => p.rem >= 2
      /\ p.type = "SUBACK" => p.rem > 2
  BY ProtocolAssumption DEF WellFormed, TwoBytes
<1>2. HeaderType(reader.byte) = MessageTypes[p.type] /\ HeaderQos(reader.byte) = p.qos
  BY <1>1, IncomingType, HeaderSays
<1>3. PICK type : type = MessageTypes[p.type]
  OBVIOUS
<1>4. PICK found : found = CASE type = MessageTypes.PUBLISH -> PublishContent
                 [] type = MessageTypes.CONNACK -> ConnackContent
                 [] type = MessageTypes.SUBACK -> SubackContent
                 [] type \in {MessageTypes.PUBACK, MessageTypes.UNSUBACK} -> AckContent
                 [] OTHER -> NoContent
  OBVIOUS
<1>5. Content = [found EXCEPT !.type = type]
  BY <1>2, <1>3, <1>4 DEF Content
<1>6. CASE p.type = "PUBLISH"
  <2>1. PICK payload : payload = p.rem - Text(p.topic) - (IF p.qos = 1 THEN TwoBytes ELSE 0)
    OBVIOUS
  <2>2. found = PublishContent
    BY <1>3, <1>4, <1>6 DEF MessageTypes
  <2>3. found = [type |-> 0, qos |-> p.qos, topic |-> p.topic, payload |-> payload,
                 granted |-> 0, rc |-> "SUCCESS"]
    <3>1. PICK id : id = IF p.qos # 0 THEN TwoBytes ELSE 0
      OBVIOUS
    <3>2. id = IF p.qos = 1 THEN TwoBytes ELSE 0
      BY <1>1, <3>1
    <3>3. payload = p.rem - Text(p.topic) - id
      BY <2>1, <3>2
    <3>4. PublishContent = [NoContent EXCEPT !.rc = "SUCCESS", !.qos = p.qos,
                              !.topic = p.topic, !.payload = payload]
      BY <1>2, <3>1, <3>3 DEF PublishContent
    <3> QED
      BY <2>2, <3>4 DEF NoContent
  <2>4. Content = [type |-> type, qos |-> p.qos, topic |-> p.topic, payload |-> payload,
                   granted |-> 0, rc |-> "SUCCESS"]
    BY <1>5, <2>3
  <2>5. Meaning(p) = [type |-> type, qos |-> p.qos, topic |-> p.topic, payload |-> payload,
                      granted |-> 0, rc |-> "SUCCESS"]
    BY <1>3, <1>6, <2>1 DEF Meaning, Acceptable
  <2> QED
    BY <2>4, <2>5
<1>7. CASE p.type = "CONNACK"
  <2>1. PICK rc : rc = IF p.rem # 2 THEN "MQTT_DECODE_REMAINING_LENGTH_ERROR" ELSE "SUCCESS"
    OBVIOUS
  <2>2. found = ConnackContent
    BY <1>3, <1>4, <1>7 DEF MessageTypes
  <2>3. found = [type |-> 0, qos |-> 0, topic |-> 0, payload |-> 0, granted |-> 0, rc |-> rc]
    BY <2>1, <2>2 DEF ConnackContent, NoContent
  <2>4. Content = [type |-> type, qos |-> 0, topic |-> 0, payload |-> 0, granted |-> 0, rc |-> rc]
    BY <1>5, <2>3
  <2>5. Meaning(p) = [type |-> type, qos |-> 0, topic |-> 0, payload |-> 0, granted |-> 0, rc |-> rc]
    BY <1>1, <1>3, <1>7, <2>1 DEF Meaning, Acceptable
  <2> QED
    BY <2>4, <2>5
<1>8. CASE p.type = "SUBACK"
  <2>1. PICK codes : codes = p.rem - 2
    OBVIOUS
  <2>2. codes \in Nat /\ codes > 0
    BY <1>1, <1>8, <2>1
  <2>3. PICK granted : granted = Min({codes, 2})
    OBVIOUS
  <2>4. PICK rc : rc = IF codes > 2 THEN "FAILURE" ELSE "SUCCESS"
    OBVIOUS
  <2>5. found = SubackContent
    BY <1>3, <1>4, <1>8 DEF MessageTypes
  <2>6. ExpectedCodes + 1 = 2
    OBVIOUS
  <2>7. found = [NoContent EXCEPT !.granted = granted, !.rc = rc]
    BY <2>1, <2>2, <2>3, <2>4, <2>5, <2>6 DEF SubackContent, TwoBytes
  <2>8. found = [type |-> 0, qos |-> 0, topic |-> 0, payload |-> 0, granted |-> granted, rc |-> rc]
    BY <2>7 DEF NoContent
  <2>9. Content = [type |-> type, qos |-> 0, topic |-> 0, payload |-> 0,
                   granted |-> granted, rc |-> rc]
    BY <1>5, <2>8
  <2>10. rc = IF Acceptable(p) THEN "SUCCESS" ELSE "FAILURE"
    <3>1. Acceptable(p) <=> p.rem \in {3, 4}
      BY <1>8 DEF Acceptable
    <3>2. p.rem \in {3, 4} <=> ~(codes > 2)
      BY <1>1, <2>1, <2>2
    <3> QED
      BY <2>4, <3>1, <3>2
  <2>11. Meaning(p) = [type |-> type, qos |-> 0, topic |-> 0, payload |-> 0,
                       granted |-> granted, rc |-> rc]
    BY <1>1, <1>3, <1>8, <2>1, <2>3, <2>10 DEF Meaning
  <2> QED
    BY <2>9, <2>11
<1>9. CASE p.type \in {"PUBACK", "UNSUBACK"}
  <2>1. found = AckContent
    BY <1>3, <1>4, <1>9 DEF MessageTypes
  <2>2. found = [type |-> 0, qos |-> 0, topic |-> 0, payload |-> 0, granted |-> 0,
                 rc |-> "SUCCESS"]
    BY <1>1, <1>9, <2>1 DEF AckContent, NoContent, TwoBytes
  <2>3. Content = [type |-> type, qos |-> 0, topic |-> 0, payload |-> 0, granted |-> 0,
                   rc |-> "SUCCESS"]
    BY <1>5, <2>2
  <2>4. Meaning(p) = [type |-> type, qos |-> 0, topic |-> 0, payload |-> 0, granted |-> 0,
                      rc |-> "SUCCESS"]
    BY <1>1, <1>3, <1>9 DEF Meaning, Acceptable
  <2> QED
    BY <2>3, <2>4
<1>10. CASE p.type = "PINGRESP"
  <2>1. found = NoContent
    BY <1>3, <1>4, <1>10 DEF MessageTypes
  <2>2. Content = [type |-> type, qos |-> 0, topic |-> 0, payload |-> 0, granted |-> 0,
                   rc |-> "none"]
    BY <1>5, <2>1 DEF NoContent
  <2>3. Meaning(p) = [type |-> type, qos |-> 0, topic |-> 0, payload |-> 0, granted |-> 0,
                      rc |-> "none"]
    BY <1>1, <1>3, <1>10 DEF Meaning
  <2> QED
    BY <2>2, <2>3
<1> QED
  BY <1>1, <1>6, <1>7, <1>8, <1>9, <1>10

(* The channel's view of the streams.                                          *)
Queue == IF inStep THEN Pending ELSE <<>>
Got == IF inStep THEN read.content ELSE NoContent

ChannelKept == Queue' = Queue /\ Got' = Got /\ inStep' = inStep

LEMMA KeptIsStutter ==
  ASSUME ChannelKept
  PROVE  UNCHANGED Channel!vars
BY DEF ChannelKept, Queue, Got, Channel!vars

(* A packet that is being read waits until its last byte is taken.             *)
LEMMA QueueType ==
  ASSUME ReaderInv, inStep
  PROVE  /\ Queue \in Seq(Incoming) /\ Len(Queue) <= Len(unread) + 1
         /\ reader.pc = "idle" \/ at # 0 => Queue = unread
         /\ reader.pc # "idle" /\ at = 0 => Queue = <<reader.head>> \o unread
<1>1. unread \in Seq(Incoming) /\ (reader.pc # "idle" => reader.head \in Incoming)
  BY DEF ReaderInv, ReaderType, BeganWithHead
<1>2. CASE reader.pc # "idle" /\ at = 0
  <2>1. Queue = <<reader.head>> \o unread
    BY <1>2 DEF Queue, Pending
  <2>2. <<reader.head>> \in Seq(Incoming) /\ Len(<<reader.head>>) = 1
    BY <1>1, <1>2
  <2>3. Queue \in Seq(Incoming) /\ Len(Queue) = 1 + Len(unread) /\ Len(unread) \in Nat
    BY <1>1, <2>1, <2>2
  <2> QED
    BY <1>2, <2>1, <2>3
<1>3. CASE reader.pc = "idle" \/ at # 0
  <2>1. Queue = unread
    BY <1>3 DEF Queue, Pending
  <2> QED
    BY <1>1, <1>3, <2>1
<1> QED
  BY <1>2, <1>3

(* Out of step the channel is broken and shows nothing.                        *)
LEMMA BrokenStays ==
  ASSUME ~inStep, UNCHANGED inStep
  PROVE  ChannelKept
BY DEF ChannelKept, Queue, Got

LEMMA SendRefines ==
  ASSUME ReaderInv, NEW p \in Incoming, BrokerSends(p)
  PROVE  ~~inStep /\ Channel!Send(p)
<1>1. /\ inStep /\ Len(unread) < MaxUnread /\ unread' = Append(unread, p)
      /\ UNCHANGED <<at, reader, read, inStep>>
  BY DEF BrokerSends
<1>2. unread \in Seq(Incoming) /\ (reader.pc # "idle" => reader.head \in Incoming)
  BY <1>1 DEF ReaderInv, ReaderType, BeganWithHead
<1>3. Len(Queue) < MaxUnread + 1
  <2>1. Queue \in Seq(Incoming) /\ Len(Queue) <= Len(unread) + 1
    BY <1>1, QueueType
  <2>2. Len(Queue) \in Nat /\ Len(unread) \in Nat /\ MaxUnread \in Nat
    BY <1>2, <2>1, StreamAssumption
  <2> QED
    BY <1>1, <2>1, <2>2
<1>4. Queue' = Append(Queue, p)
  <2>1. CASE reader.pc # "idle" /\ at = 0
    <3>1. Queue' = <<reader.head>> \o Append(unread, p)
      BY <1>1, <2>1 DEF Queue, Pending
    <3>2. Queue = <<reader.head>> \o unread
      BY <1>1, <2>1 DEF Queue, Pending
    <3>3. <<reader.head>> \o Append(unread, p) = Append(<<reader.head>> \o unread, p)
      <4>1. <<reader.head>> \in Seq(Incoming)
        BY <1>2, <2>1
      <4> QED
        BY <1>2, <4>1
    <3> QED
      BY <3>1, <3>2, <3>3
  <2>2. CASE reader.pc = "idle" \/ at # 0
    <3>1. Queue' = Append(unread, p) /\ Queue = unread
      BY <1>1, <2>2 DEF Queue, Pending
    <3> QED
      BY <3>1
  <2> QED
    BY <2>1, <2>2
<1>5. Got' = Got
  BY <1>1 DEF Got
<1> QED
  BY <1>1, <1>3, <1>4, <1>5 DEF Queue, Got, Channel!Send

LEMMA HeaderRefines ==
  ASSUME ReaderInv, ReadHeader
  PROVE  IF inStep THEN Channel!Call ELSE ChannelKept
<1>1. UNCHANGED inStep
  BY DEF ReadHeader
<1>2. CASE ~inStep
  BY <1>1, <1>2, BrokenStays
<1>3. CASE inStep
  <2>1. reader.pc = "idle" /\ read' = [rc |-> "none", content |-> NoContent, stored |-> 0]
    BY DEF ReadHeader
  <2>2. ReaderInv'
    BY HeaderKeepsReader
  <2>3. reader'.pc = "length"
    BY DEF ReadHeader, Idle
  <2>4. at' > 0 /\ at' \in Nat
    BY <1>1, <1>3, <2>2, <2>3 DEF ReaderInv, InLength, ReaderType
  <2>5. unread' = unread
    <3>1. at = 0 /\ unread \in Seq(Incoming) /\ Consume(1)
      BY <2>1 DEF ReadHeader, ReaderInv, ReaderType, AtAnEnd
    <3>2. \E byte \in NextBytes : TRUE
      BY DEF ReadHeader
    <3>3. unread # <<>> /\ unread[1] \in Incoming
      BY <1>3, <3>2, NextByteType DEF ReaderInv
    <3>4. Size(unread[1]) \in Nat /\ Size(unread[1]) >= 2
      BY <3>3, SizeType, IncomingType
    <3> QED
      BY <1>3, <3>1, <3>3, <3>4, Consumed
  <2>6. Queue = unread
    BY <1>3, <2>1 DEF Queue, Pending
  <2>7. Queue' = unread'
    BY <1>1, <1>3, <2>4 DEF Queue, Pending
  <2>8. Got' = NoContent
    BY <1>1, <1>3, <2>1 DEF Got
  <2> QED
    BY <1>1, <1>3, <2>5, <2>6, <2>7, <2>8 DEF Queue, Got, Channel!Call
<1> QED
  BY <1>2, <1>3

LEMMA LengthRefines ==
  ASSUME ReaderInv, ReadLength
  PROVE  ChannelKept
<1>1. UNCHANGED <<read, inStep>> /\ reader.pc = "length"
  BY DEF ReadLength
<1>2. CASE ~inStep
  BY <1>1, <1>2, BrokenStays
<1>3. CASE inStep
  <2>1. /\ unread # <<>> /\ unread[1] = reader.head /\ at > 0 /\ reader'.head = reader.head
        /\ IF at' = 0 THEN unread' = Tail(unread) ELSE unread' = unread
    BY <1>3, LengthInStep
  <2>2. unread \in Seq(Incoming) /\ at \in Nat
    BY DEF ReaderInv, ReaderType
  <2>3. Queue = unread
    BY <1>3, <2>1, <2>2 DEF Queue, Pending
  <2>4. reader'.pc # "idle"
    <3>1. reader'.pc \in {"length", "body", "drain"}
      BY DEF ReadLength, ReaderInv, ReaderType
    <3> QED
      BY <3>1
  <2>5. Queue' = unread
    <3>1. CASE at' = 0
      <4>1. Queue' = <<reader.head>> \o Tail(unread)
        BY <1>1, <1>3, <2>1, <2>4, <3>1 DEF Queue, Pending
      <4>2. <<unread[1]>> \o Tail(unread) = unread
        BY <2>1, <2>2
      <4> QED
        BY <2>1, <4>1, <4>2
    <3>2. CASE at' # 0
      BY <1>1, <1>3, <2>1, <3>2 DEF Queue, Pending
    <3> QED
      BY <3>1, <3>2
  <2> QED
    BY <1>1, <2>3, <2>5 DEF ChannelKept, Got
<1> QED
  BY <1>2, <1>3

LEMMA LossRefines ==
  ASSUME ReaderInv, NEW rc, Returns(rc, NoContent, 0), LoseStep
  PROVE  IF inStep THEN Channel!Break ELSE ChannelKept
<1>1. inStep' = FALSE
  BY DEF LoseStep
<1>2. Queue' = <<>> /\ Got' = NoContent
  BY <1>1 DEF Queue, Got
<1>3. CASE inStep
  BY <1>1, <1>2, <1>3 DEF Queue, Got, Channel!Break
<1>4. CASE ~inStep
  <2>1. Queue = <<>> /\ Got = NoContent
    BY <1>4 DEF Queue, Got
  <2>2. inStep = FALSE
    BY <1>4 DEF ReaderInv, ReaderType
  <2> QED
    BY <1>1, <1>2, <2>1, <2>2 DEF ChannelKept
<1> QED
  BY <1>3, <1>4

LEMMA DrainRefines ==
  ASSUME ReaderInv, Drain
  PROVE  ChannelKept \/ (inStep /\ Channel!Drop)
<1>1. PICK n \in {1, Piece(reader.left) - 1, Piece(reader.left)} \ {0} : Enough(n) /\ Drained(n)
  BY DEF Drain
<1>2. reader.pc = "drain" /\ Consume(n) /\ UNCHANGED inStep
  BY <1>1 DEF Drain, Drained
<1>3. CASE ~inStep
  <2>1. ChannelKept
    BY <1>2, <1>3, BrokenStays
  <2> QED
    BY <2>1
<1>4. CASE inStep
  <2>1. reader.left \in Nat /\ reader.left > 0 /\ reader.rem >= ReadBufSize
    BY <1>2 DEF ReaderInv, ReaderType, Chosen
  <2>2. n \in 1 .. reader.left
    BY <2>1, PieceType
  <2>3. n \in Nat /\ n <= reader.left /\ n > 0
    BY <2>1, <2>2
  <2>4. /\ unread # <<>> /\ unread[1] = reader.head /\ at > 0
        /\ IF n = reader.left THEN unread' = Tail(unread) /\ at' = 0
           ELSE unread' = unread /\ at' = at + n
    BY <1>2, <1>4, <2>1, <2>3, ContentConsumed
  <2>5. /\ unread \in Seq(Incoming) /\ at \in Nat /\ reader.head \in Incoming
        /\ reader.rem = reader.head.rem /\ read.content = NoContent
    BY <1>2, <1>4 DEF ReaderInv, ReaderType, BeganWithHead, InContent
  <2>6. Queue = unread /\ Got = NoContent
    BY <1>4, <2>4, <2>5 DEF Queue, Got, Pending
  <2>7. CASE n = reader.left
    <3>1. /\ reader' = Idle
          /\ read' = [rc |-> "MQTT_RX_BUFFER_TOO_SHORT_ERROR", content |-> NoContent, stored |-> 0]
      BY <1>1, <2>7 DEF Drained, Returns
    <3>2. Queue' = Tail(unread) /\ Got' = NoContent
      BY <1>2, <1>4, <2>4, <2>7, <3>1 DEF Queue, Got, Pending, Idle
    <3>3. ~Fits(Head(unread))
      <4>1. Head(unread) = reader.head
        BY <2>4, <2>5
      <4>2. reader.head.rem \in Nat /\ ReadBufSize \in Nat
        BY <2>5, IncomingType, StreamAssumption
      <4> QED
        BY <2>1, <2>5, <4>1, <4>2 DEF Fits
    <3> QED
      BY <1>2, <1>4, <2>4, <2>6, <3>2, <3>3 DEF Queue, Got, Channel!Drop
  <2>8. CASE n # reader.left
    <3>1. reader'.pc = "drain" /\ UNCHANGED read
      BY <1>1, <1>2, <2>8 DEF Drained, ReaderInv, ReaderType
    <3>2. unread' = unread /\ at' > 0
      BY <2>3, <2>4, <2>5, <2>8
    <3>3. Queue' = unread /\ Got' = NoContent
      BY <1>2, <1>4, <2>5, <3>1, <3>2 DEF Queue, Got, Pending
    <3>4. ChannelKept
      BY <1>2, <2>6, <3>3 DEF ChannelKept
    <3> QED
      BY <3>4
  <2> QED
    BY <2>7, <2>8
<1> QED
  BY <1>3, <1>4

LEMMA BodyRefines ==
  ASSUME ReaderInv, ReadBody, ExpectedCodes = 1
  PROVE  IF inStep THEN Channel!Deliver ELSE ChannelKept
<1>1. reader.pc = "body" /\ UNCHANGED inStep
  BY DEF ReadBody
<1>2. CASE ~inStep
  BY <1>1, <1>2, BrokenStays
<1>3. CASE inStep
  <2>1. /\ reader.head \in Incoming /\ reader.rem = reader.head.rem
        /\ IF at = 0
           THEN unread' = unread
           ELSE unread # <<>> /\ unread[1] = reader.head /\ unread' = Tail(unread)
        /\ unread' \in Seq(Incoming) /\ at' = 0
    BY <1>3, BodyInStep
  <2>2. /\ unread \in Seq(Incoming) /\ reader.rem < ReadBufSize
        /\ reader.byte = HeaderByte(reader.head.type, reader.head.qos)
    BY <1>1, <1>3 DEF ReaderInv, ReaderType, Chosen, BeganWithHead
  <2>3. reader' = Idle /\ read'.content = Content
    BY <1>3 DEF ReadBody, Returns
  <2>4. Queue # <<>> /\ Head(Queue) = reader.head /\ Tail(Queue) = unread'
    <3>1. CASE at = 0
      <4>1. Queue = <<reader.head>> \o unread
        BY <1>1, <1>3, <3>1 DEF Queue, Pending
      <4>2. <<reader.head>> \in Seq(Incoming) /\ Len(<<reader.head>>) = 1
        BY <2>1
      <4> QED
        BY <2>1, <2>2, <3>1, <4>1, <4>2
    <3>2. CASE at # 0
      <4>1. Queue = unread
        BY <1>3, <3>2 DEF Queue, Pending
      <4> QED
        BY <2>1, <2>2, <3>2, <4>1
    <3> QED
      BY <3>1, <3>2
  <2>5. Queue' = unread' /\ Got' = Content
    BY <1>1, <1>3, <2>3 DEF Queue, Got, Pending, Idle
  <2>6. Content = Meaning(reader.head)
    BY <2>1, <2>2, ContentIsMeaning
  <2>7. Fits(reader.head)
    BY <2>1, <2>2 DEF Fits
  <2> QED
    BY <1>1, <1>3, <2>4, <2>5, <2>6, <2>7 DEF Queue, Got, Channel!Deliver
<1> QED
  BY <1>2, <1>3

LEMMA ReconnectRefines ==
  ASSUME ReaderInv, Reconnect
  PROVE  Channel!Connect
<1>1. /\ reader.pc = "idle" /\ reader' = reader
      /\ unread' = <<>> /\ read' = NoRead /\ inStep' = TRUE
  BY DEF Reconnect
<1>2. Queue' = <<>> /\ Got' = NoContent
  BY <1>1 DEF Queue, Got, Pending, NoRead
<1> QED
  BY <1>1, <1>2 DEF Queue, Got, Channel!Connect

LEMMA StutterRefines ==
  ASSUME UNCHANGED incoming
  PROVE  ChannelKept
BY DEF incoming, stream, ChannelKept, Queue, Got, Pending

(* A step of the streams is a step of the channel or none.                     *)
LEMMA NextRefines ==
  ASSUME ReaderInv, [Next]_vars, ExpectedCodes = 1
  PROVE  [Channel!Next]_Channel!vars
<1>1. CASE ChannelKept
  BY <1>1, KeptIsStutter
<1>2. ASSUME NEW p \in Incoming, BrokerSends(p) PROVE Channel!Next
  BY <1>2, SendRefines DEF Channel!Next
<1>3. CASE ReadHeader
  BY <1>1, <1>3, HeaderRefines DEF Channel!Next
<1>4. CASE ReadLength
  BY <1>1, <1>4, LengthRefines
<1>5. CASE ReadLengthTimesOut \/ DrainFails \/ ReadBodyTimesOut
  <2>1. \E rc : Returns(rc, NoContent, 0) /\ LoseStep
    BY <1>5 DEF ReadLengthTimesOut, DrainFails, ReadBodyTimesOut
  <2>2. IF inStep THEN Channel!Break ELSE ChannelKept
    BY <2>1, LossRefines
  <2> QED
    BY <1>1, <2>2 DEF Channel!Next
<1>6. CASE Drain
  BY <1>1, <1>6, DrainRefines DEF Channel!Next
<1>7. CASE ReadBody
  BY <1>1, <1>7, BodyRefines DEF Channel!Next
<1>8. ASSUME \/ \E request \in Requests : Serialize(request)
             \/ SendRefused \/ Write \/ WriteFails \/ UNCHANGED vars
      PROVE  UNCHANGED incoming
  BY <1>8 DEF Serialize, SendRefused, Write, WriteFails, vars
<1>9. CASE UNCHANGED incoming
  BY <1>1, <1>9, StutterRefines
<1>10. CASE Reconnect
  BY <1>10, ReconnectRefines DEF Channel!Next
<1> QED
  BY <1>2, <1>3, <1>4, <1>5, <1>6, <1>7, <1>8, <1>9, <1>10 DEF Next

(* The calls of read_packet and deserialize_publish implement the channel of   *)
(* whole packets, for a subscribe that expects one code: each packet that fits *)
(* is delivered once, whole, in order and with the lengths it was sent with,   *)
(* one that does not is dropped alone, and a call that ends inside a packet is *)
(* never taken for a delivery.                                                 *)
THEOREM StreamsAreChannel ==
  ASSUME ExpectedCodes = 1
  PROVE  Spec => ImplementsChannel
<1>1. Init => Channel!Init
  <2> SUFFICES ASSUME Init PROVE Channel!Init
    OBVIOUS
  <2>1. unread = <<>> /\ reader.pc = "idle" /\ read.content = NoContent /\ inStep = TRUE
    BY DEF Init, Idle, NoRead
  <2> QED
    BY <2>1 DEF Pending, Channel!Init
<1>2. ReaderInv /\ [Next]_vars => [Channel!Next]_Channel!vars
  BY NextRefines
<1> QED
  BY ReadsInOrder, <1>1, <1>2, PTL DEF Spec, ImplementsChannel, Channel!Spec

=============================================================================
