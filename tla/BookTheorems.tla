-------------------------- MODULE BookTheorems --------------------------
(***************************************************************************)
(* What NetUnits computes on the books the trackers build, and what is     *)
(* left of a book when some of its slots are closed.  Both recur over      *)
(* positions, so every fact is proved by looking at the least position at  *)
(* which it fails.                                                         *)
(***************************************************************************)
EXTENDS PositionTracker, TicketSlots, SequenceTheorems, WellFoundedInduction, TLAPS

(***************************************************************************)
(* Every nonempty set of naturals has a least element.                     *)
(***************************************************************************)
LEMMA LeastNatural ==
  ASSUME NEW T, T \subseteq Nat, T # {}
  PROVE  \E n \in T : \A m \in T : n <= m
<1>. DEFINE R == OpToRel(<, Nat)
<1>1. IsWellFoundedOn(R, Nat)
  BY NatLessThanWellFounded, Zenon
<1>2. \A x, y \in Nat : x < y => <<x, y>> \in R
  BY Zenon DEF OpToRel
<1>. HIDE DEF R
<1>3. \E n \in T : \A m \in T : ~(<<m, n>> \in R)
  BY <1>1, WFMin, Zenon
<1>4. PICK n \in T : \A m \in T : ~(<<m, n>> \in R)
  BY <1>3, Zenon
<1>5. \A m \in T : ~(m < n)
  BY <1>2, <1>4, Zenon
<1>6. \A m \in T : n <= m
  BY <1>5
<1>. QED
  BY <1>6, Zenon

(***************************************************************************)
(* f holds the sums of the prefixes of s up to length n.                   *)
(***************************************************************************)
PrefixSums(f, s, n) == f = [k \in 0..n |-> IF k = 0 THEN 0 ELSE f[k - 1] + s[k]]

(***************************************************************************)
(* The recursion that defines NetUnits has a solution.                     *)
(***************************************************************************)
LEMMA PrefixSumsExist ==
  ASSUME NEW s \in Seq(Int), NEW n \in 0..Len(s)
  PROVE  \E f \in [0..n -> Int] : PrefixSums(f, s, n)
<1>. DEFINE Has(k) == \E f \in [0..k -> Int] : PrefixSums(f, s, k)
            Bad == {k \in 0..Len(s) : ~Has(k)}
<1>. HIDE DEF Has
<1>0. Bad \subseteq Nat
  OBVIOUS
<1>1. ASSUME Bad # {} PROVE FALSE
  <2>1. PICK k \in Bad : \A m \in Bad : k <= m
    BY <1>0, <1>1, LeastNatural, Zenon
  <2>2. CASE k = 0
    <3>1. [j \in 0..0 |-> 0] \in [0..0 -> Int] /\ PrefixSums([j \in 0..0 |-> 0], s, 0)
      BY DEF PrefixSums
    <3>2. Has(0)
      BY <3>1, Zenon DEF Has
    <3>. QED
      BY <2>1, <2>2, <3>2, Zenon
  <2>3. CASE k # 0
    <3>1. k \in 1..Len(s) /\ k - 1 \in 0..Len(s) /\ k - 1 \notin Bad
      <4>1. k \in 0..Len(s)
        BY <2>1, Zenon
      <4>2. k \in 1..Len(s) /\ k - 1 \in 0..Len(s) /\ ~(k <= k - 1)
        BY <2>3, <4>1
      <4>. QED
        BY <2>1, <4>2, Zenon
    <3>2. PICK f \in [0..(k - 1) -> Int] : PrefixSums(f, s, k - 1)
      <4>1. Has(k - 1)
        BY <3>1, Zenon
      <4>. QED
        BY <4>1, Zenon DEF Has
    <3>3. DEFINE g == [j \in 0..k |-> IF j = k THEN f[k - 1] + s[k] ELSE f[j]]
    <3>4. g \in [0..k -> Int]
      BY <3>1, <3>2
    <3>5. \A j \in 0..(k - 1) : f[j] = IF j = 0 THEN 0 ELSE f[j - 1] + s[j]
      BY <3>1, <3>2 DEF PrefixSums
    <3>6. \A j \in 0..k : g[j] = IF j = 0 THEN 0 ELSE g[j - 1] + s[j]
      <4>1. ASSUME NEW j \in 0..k, j # k
            PROVE  g[j] = IF j = 0 THEN 0 ELSE g[j - 1] + s[j]
        <5>1. /\ j \in 0..(k - 1)
              /\ j # 0 => j - 1 \in 0..k /\ j - 1 # k
          BY <3>1, <4>1
        <5>2. g[j] = f[j] /\ (j # 0 => g[j - 1] = f[j - 1])
          BY <4>1, <5>1, Zenon
        <5>. QED
          BY <3>5, <5>1, <5>2, Zenon
      <4>2. k \in 0..k /\ k - 1 \in 0..k /\ k - 1 # k /\ k # 0
        BY <3>1
      <4>3. g[k] = g[k - 1] + s[k]
        BY <4>2, Zenon
      <4>. QED
        BY <4>1, <4>2, <4>3, Zenon
    <3>7. PrefixSums(g, s, k)
      BY <3>6 DEF PrefixSums
    <3>8. Has(k)
      BY <3>4, <3>7, Zenon DEF Has
    <3>. QED
      BY <2>1, <3>8, Zenon
  <2>. QED
    BY <2>2, <2>3
<1>2. Has(n)
  BY <1>1, Zenon
<1>. QED
  BY <1>2, Zenon DEF Has

(***************************************************************************)
(* Two prefix sums agree where both are defined, even of two sequences     *)
(* that agree there.                                                       *)
(***************************************************************************)
LEMMA PrefixSumsAgree ==
  ASSUME NEW s \in Seq(Int), NEW t \in Seq(Int),
         NEW n \in 0..Len(s), NEW m \in 0..Len(t), n <= m,
         \A k \in 1..n : s[k] = t[k],
         NEW f, PrefixSums(f, s, n), NEW g, PrefixSums(g, t, m)
  PROVE  \A k \in 0..n : f[k] = g[k]
<1>. DEFINE Bad == {k \in 0..n : f[k] # g[k]}
<1>0. Bad \subseteq Nat
  OBVIOUS
<1>1. ASSUME Bad # {} PROVE FALSE
  <2>1. PICK k \in Bad : \A j \in Bad : k <= j
    BY <1>0, <1>1, LeastNatural, Zenon
  <2>5. k \in 0..n /\ k \in 0..m
    BY <2>1
  <2>2. f[k] = IF k = 0 THEN 0 ELSE f[k - 1] + s[k]
    BY <2>5, Zenon DEF PrefixSums
  <2>3. g[k] = IF k = 0 THEN 0 ELSE g[k - 1] + t[k]
    BY <2>5, Zenon DEF PrefixSums
  <2>4. k # 0 => k - 1 \in 0..n /\ k - 1 \notin Bad
    BY <2>1
  <2>. QED
    BY <2>1, <2>2, <2>3, <2>4
<1>. QED
  BY <1>1

(***************************************************************************)
(* The recurrence without its case distinction.                            *)
(***************************************************************************)
LEMMA PrefixSumsSteps ==
  ASSUME NEW s \in Seq(Int), NEW f \in [0..Len(s) -> Int], PrefixSums(f, s, Len(s))
  PROVE  f[0] = 0 /\ \A j \in 1..Len(s) : f[j] = f[j - 1] + s[j]
<1>1. \A j \in 0..Len(s) : f[j] = IF j = 0 THEN 0 ELSE f[j - 1] + s[j]
  BY DEF PrefixSums
<1>. QED
  BY <1>1

(***************************************************************************)
(* NetUnits is the last of the prefix sums.                                *)
(***************************************************************************)
LEMMA NetUnitsIsLastSum ==
  ASSUME NEW s \in Seq(Int), NEW f, PrefixSums(f, s, Len(s))
  PROVE  NetUnits(s) = f[Len(s)]
<1>. DEFINE net == CHOOSE g : PrefixSums(g, s, Len(s))
<1>1. PrefixSums(net, s, Len(s))
  BY Zenon
<1>2. NetUnits(s) = net[Len(s)]
  BY Zenon DEF NetUnits, PrefixSums
<1>. HIDE DEF net
<1>3. \A k \in 0..Len(s) : f[k] = net[k]
  BY <1>1, PrefixSumsAgree
<1>. QED
  BY <1>2, <1>3

(***************************************************************************)
(* The net of a book is the last of some prefix sums of it.                *)
(***************************************************************************)
LEMMA NetUnitsOfSums ==
  ASSUME NEW s \in Seq(Int)
  PROVE  \E f \in [0..Len(s) -> Int] :
           PrefixSums(f, s, Len(s)) /\ NetUnits(s) = f[Len(s)]
<1>1. Len(s) \in 0..Len(s)
  OBVIOUS
<1>2. PICK f \in [0..Len(s) -> Int] : PrefixSums(f, s, Len(s))
  BY <1>1, PrefixSumsExist
<1>. QED
  BY <1>2, NetUnitsIsLastSum

(***************************************************************************)
(* A book has a net.                                                       *)
(***************************************************************************)
LEMMA NetUnitsType ==
  ASSUME NEW s \in Seq(Int)
  PROVE  NetUnits(s) \in Int
<1>1. PICK f \in [0..Len(s) -> Int] : NetUnits(s) = f[Len(s)]
  BY NetUnitsOfSums
<1>. QED
  BY <1>1

(***************************************************************************)
(* The net of an empty book is zero.                                       *)
(***************************************************************************)
LEMMA NetUnitsOfNothing == NetUnits(<<>>) = 0
<1>1. PICK f \in [0..Len(<<>>) -> Int] :
        PrefixSums(f, <<>>, Len(<<>>)) /\ NetUnits(<<>>) = f[Len(<<>>)]
  BY NetUnitsOfSums, EmptySeq
<1>. QED
  BY <1>1 DEF PrefixSums

(***************************************************************************)
(* The elements left after the removal of one.                             *)
(***************************************************************************)
LEMMA RemoveAtElements ==
  ASSUME NEW S, NEW s \in Seq(S), NEW k \in 1..Len(s)
  PROVE  /\ RemoveAt(s, k) \in Seq(S)
         /\ Len(RemoveAt(s, k)) = Len(s) - 1
         /\ \A j \in 1..(Len(s) - 1) :
              RemoveAt(s, k)[j] = IF j < k THEN s[j] ELSE s[j + 1]
<1>. DEFINE a == SubSeq(s, 1, k - 1)
            b == SubSeq(s, k + 1, Len(s))
<1>1. /\ a \in Seq(S)
      /\ Len(a) = k - 1
      /\ \A j \in 1..(k - 1) : a[j] = s[j]
  BY SubSeqProperties
<1>2. /\ b \in Seq(S)
      /\ Len(b) = Len(s) - k
      /\ \A j \in 1..(Len(s) - k) : b[j] = s[j + k]
  BY SubSeqProperties
<1>. HIDE DEF a, b
<1>3. /\ a \o b \in Seq(S)
      /\ Len(a \o b) = Len(a) + Len(b)
      /\ \A j \in 1..(Len(a) + Len(b)) :
           (a \o b)[j] = IF j <= Len(a) THEN a[j] ELSE b[j - Len(a)]
  BY <1>1, <1>2, ConcatProperties
<1>4. RemoveAt(s, k) = a \o b
  BY DEF RemoveAt, a, b
<1>5. ASSUME NEW j \in 1..(Len(s) - 1)
      PROVE  (a \o b)[j] = IF j < k THEN s[j] ELSE s[j + 1]
  BY <1>1, <1>2, <1>3, <1>5
<1>6. Len(a) + Len(b) = Len(s) - 1
  BY <1>1, <1>2
<1>. QED
  BY <1>3, <1>4, <1>5, <1>6

(***************************************************************************)
(* The arithmetic of one step of a sum that leaves out a number.           *)
(***************************************************************************)
Undoes(a, b)     == (a + b) - b = a
Cancels(a, b, c) == ((a + b) + c) - b = a + c
Commutes(a, b, c) == (a + b) - c = (a - c) + b

LEMMA SumArithmetic ==
  ASSUME NEW a \in Int, NEW b \in Int, NEW c \in Int
  PROVE  Undoes(a, b) /\ Cancels(a, b, c) /\ Commutes(a, b, c)
BY DEF Undoes, Cancels, Commutes

(***************************************************************************)
(* f holds the sums of the first n elements of u; v is u without its k-th. *)
(***************************************************************************)
SumsTo(f, u, n) == f[0] = 0 /\ \A j \in 1..n : f[j] = f[j - 1] + u[j]

Skips(v, u, k, n) == \A j \in 1..(n - 1) : v[j] = IF j < k THEN u[j] ELSE u[j + 1]

(***************************************************************************)
(* The sums g of a sequence v that lacks the k-th element of u are those   *)
(* of u, less u[k] from there on.                                          *)
(***************************************************************************)
LEMMA SumsWithoutOne ==
  ASSUME NEW n \in Nat, NEW k \in 1..n,
         NEW u \in [1..n -> Int], NEW v \in [1..(n - 1) -> Int],
         NEW f \in [0..n -> Int], NEW g \in [0..(n - 1) -> Int],
         Skips(v, u, k, n), SumsTo(f, u, n), SumsTo(g, v, n - 1)
  PROVE  g[n - 1] = f[n] - u[k]
<1>. DEFINE Right(j) == g[j] = IF j < k THEN f[j] ELSE f[j + 1] - u[k]
            Bad == {j \in 0..(n - 1) : ~Right(j)}
<1>1. Bad \subseteq Nat
  OBVIOUS
<1>2. Right(0)
  <2>1. 1 \in 1..n /\ u[1] \in Int
    OBVIOUS
  <2>2. f[1] = f[0] + u[1] /\ f[0] = 0 /\ g[0] = 0
    BY <2>1 DEF SumsTo
  <2>. QED
    BY <2>1, <2>2
<1>3. ASSUME NEW j \in 1..(n - 1), Right(j - 1) PROVE Right(j)
  <2>1. /\ j \in 1..n /\ j + 1 \in 1..n /\ j + 1 \in 0..n /\ j - 1 \in 0..n /\ j \in 0..n
        /\ (j - 1) + 1 = j /\ (j + 1) - 1 = j
    OBVIOUS
  <2>2. g[j] = g[j - 1] + v[j]
    BY Zenon DEF SumsTo
  <2>3. f[j] = f[j - 1] + u[j]
    BY <2>1, Zenon DEF SumsTo
  <2>4. f[j + 1] = f[j] + u[j + 1]
    <3>1. f[j + 1] = f[(j + 1) - 1] + u[j + 1]
      BY <2>1, Zenon DEF SumsTo
    <3>. QED
      BY <2>1, <3>1, Zenon
  <2>5. v[j] = IF j < k THEN u[j] ELSE u[j + 1]
    BY Zenon DEF Skips
  <2>6. f[j - 1] \in Int /\ f[j] \in Int /\ u[j] \in Int /\ u[j + 1] \in Int
        /\ f[j + 1] \in Int
    BY <2>1
  <2>7. g[j - 1] = IF j - 1 < k THEN f[j - 1] ELSE f[j] - u[k]
    BY <1>3, <2>1
  <2>8. u[k] \in Int
    OBVIOUS
  <2>9. CASE j < k
    BY <2>2, <2>3, <2>5, <2>6, <2>7, <2>9
  <2>10. CASE j = k
    <3>1. g[j - 1] = f[j - 1] /\ v[j] = u[j + 1] /\ u[k] = u[j]
      BY <2>5, <2>7, <2>10
    <3>2. g[j] = f[j - 1] + u[j + 1]
      BY <2>2, <3>1
    <3>3. f[j + 1] - u[k] = f[j - 1] + u[j + 1]
      <4>1. f[j + 1] = (f[j - 1] + u[j]) + u[j + 1]
        BY <2>3, <2>4
      <4>2. Cancels(f[j - 1], u[j], u[j + 1])
        BY <2>6, SumArithmetic, Zenon
      <4>. QED
        BY <3>1, <4>1, <4>2, Zenon DEF Cancels
    <3>. QED
      BY <2>10, <3>2, <3>3
  <2>11. CASE k < j
    <3>1. g[j - 1] = f[j] - u[k] /\ v[j] = u[j + 1]
      BY <2>5, <2>7, <2>11
    <3>2. g[j] = (f[j] - u[k]) + u[j + 1]
      BY <2>2, <3>1
    <3>3. f[j + 1] - u[k] = (f[j] - u[k]) + u[j + 1]
      <4>1. Commutes(f[j], u[j + 1], u[k])
        BY <2>6, <2>8, SumArithmetic, Zenon
      <4>. QED
        BY <2>4, <4>1, Zenon DEF Commutes
    <3>. QED
      BY <2>11, <3>2, <3>3
  <2>. QED
    BY <2>9, <2>10, <2>11
<1>. HIDE DEF Right
<1>4. ASSUME Bad # {} PROVE FALSE
  <2>1. PICK j \in Bad : \A m \in Bad : j <= m
    BY <1>1, <1>4, LeastNatural, Zenon
  <2>2. j \in 0..(n - 1) /\ ~Right(j)
    BY <2>1
  <2>3. j \in 1..(n - 1) /\ j - 1 \in 0..(n - 1) /\ ~(j <= j - 1)
    BY <1>2, <2>2
  <2>4. Right(j - 1)
    BY <2>1, <2>3
  <2>. QED
    BY <1>3, <2>2, <2>3, <2>4
<1>5. n - 1 \in 0..(n - 1)
  OBVIOUS
<1>6. Right(n - 1)
  BY <1>4, <1>5
<1>7. n \in 1..n /\ (n - 1) + 1 = n
  OBVIOUS
<1>8. f[n] = f[n - 1] + u[n] /\ f[n - 1] \in Int /\ u[n] \in Int
  BY <1>7 DEF SumsTo
<1>9. CASE n - 1 < k
  <2>1. k = n
    BY <1>9
  <2>2. g[n - 1] = f[n - 1]
    BY <1>6, <1>9, Zenon DEF Right
  <2>3. Undoes(f[n - 1], u[n])
    BY <1>8, SumArithmetic, Zenon
  <2>. QED
    BY <1>8, <2>1, <2>2, <2>3, Zenon DEF Undoes
<1>10. CASE ~(n - 1 < k)
  BY <1>6, <1>7, <1>10, Zenon DEF Right
<1>. QED
  BY <1>9, <1>10

(***************************************************************************)
(* A ticket removed takes its units off the net.                           *)
(***************************************************************************)
LEMMA NetUnitsOfRemoveAt ==
  ASSUME NEW s \in Seq(Int), NEW k \in 1..Len(s)
  PROVE  NetUnits(RemoveAt(s, k)) = NetUnits(s) - s[k]
<1>1. RemoveAt(s, k) \in Seq(Int)
  BY RemoveAtElements
<1>2. PICK t \in Seq(Int) : t = RemoveAt(s, k)
  BY <1>1
<1>3. /\ Len(t) = Len(s) - 1
      /\ \A j \in 1..(Len(s) - 1) : t[j] = IF j < k THEN s[j] ELSE s[j + 1]
  BY <1>2, RemoveAtElements
<1>4. Len(s) \in Nat /\ s \in [1..Len(s) -> Int] /\ t \in [1..(Len(s) - 1) -> Int]
  BY <1>3, LenProperties
<1>5. PICK f \in [0..Len(s) -> Int] : PrefixSums(f, s, Len(s)) /\ NetUnits(s) = f[Len(s)]
  BY NetUnitsOfSums
<1>6. PICK g \in [0..Len(t) -> Int] : PrefixSums(g, t, Len(t)) /\ NetUnits(t) = g[Len(t)]
  BY NetUnitsOfSums
<1>7. SumsTo(f, s, Len(s))
  BY <1>5, PrefixSumsSteps, Zenon DEF SumsTo
<1>8. SumsTo(g, t, Len(s) - 1)
  <2>1. SumsTo(g, t, Len(t))
    BY <1>6, PrefixSumsSteps, Zenon DEF SumsTo
  <2>. QED
    BY <1>3, <2>1
<1>10. Skips(t, s, k, Len(s))
  BY <1>3, Zenon DEF Skips
<1>9. g[Len(s) - 1] = f[Len(s)] - s[k]
  <2>1. g \in [0..(Len(s) - 1) -> Int]
    BY <1>3
  <2>. QED
    BY <1>4, <1>7, <1>8, <1>10, <2>1, SumsWithoutOne
<1>. QED
  BY <1>2, <1>3, <1>5, <1>6, <1>9

(***************************************************************************)
(* A ticket appended adds its units to the net.                            *)
(***************************************************************************)
LEMMA NetUnitsOfAppend ==
  ASSUME NEW s \in Seq(Int), NEW x \in Int
  PROVE  NetUnits(Append(s, x)) = NetUnits(s) + x
<1>0. Append(s, x) \in Seq(Int)
  BY AppendProperties
<1>1. PICK t \in Seq(Int) : t = Append(s, x)
  BY <1>0
<1>2. /\ Len(t) = Len(s) + 1
      /\ t[Len(t)] = x
      /\ \A k \in 1..Len(s) : s[k] = t[k]
      /\ Len(s) \in Nat
      /\ Len(t) \in 1..Len(t)
  BY <1>1, AppendProperties
<1>3. PICK r \in Seq(Int) : r = RemoveAt(t, Len(t))
  BY <1>2, RemoveAtElements
<1>. DEFINE k == Len(t)
<1>a. /\ Len(RemoveAt(t, k)) = Len(t) - 1
      /\ \A j \in 1..(Len(t) - 1) : RemoveAt(t, k)[j] = IF j < k THEN t[j] ELSE t[j + 1]
  BY <1>2, RemoveAtElements
<1>4. Len(r) = Len(s)
  BY <1>2, <1>3, <1>a
<1>5. \A j \in 1..Len(s) : r[j] = t[j]
  BY <1>2, <1>3, <1>a
<1>6. r = s
  BY <1>2, <1>4, <1>5, SeqEqual
<1>7. NetUnits(s) = NetUnits(t) - x
  BY <1>2, <1>3, <1>6, NetUnitsOfRemoveAt
<1>8. NetUnits(s) \in Int /\ NetUnits(t) \in Int
  BY NetUnitsType
<1>. QED
  BY <1>1, <1>7, <1>8

(***************************************************************************)
(* The net of a single ticket is its units.                                *)
(***************************************************************************)
LEMMA NetUnitsOfOne ==
  ASSUME NEW x \in Int
  PROVE  NetUnits(<<x>>) = x
<1>1. <<x>> = Append(<<>>, x) /\ <<>> \in Seq(Int)
  OBVIOUS
<1>2. NetUnits(Append(<<>>, x)) = NetUnits(<<>>) + x
  BY <1>1, NetUnitsOfAppend
<1>. QED
  BY <1>1, <1>2, NetUnitsOfNothing

(***************************************************************************)
(* The net of a book of longs is at least its number of tickets, so it is  *)
(* flat only when it is empty.                                             *)
(***************************************************************************)
LEMMA LongBookNet ==
  ASSUME NEW s \in Seq(Int), \A k \in DOMAIN s : s[k] > 0
  PROVE  NetUnits(s) >= Len(s)
<1>1. Len(s) \in Nat /\ \A k \in 1..Len(s) : s[k] \in Int /\ s[k] > 0
  BY LenProperties, ElementOfSeq
<1>2. PICK f \in [0..Len(s) -> Int] : PrefixSums(f, s, Len(s)) /\ NetUnits(s) = f[Len(s)]
  BY NetUnitsOfSums
<1>3. f[0] = 0 /\ \A j \in 1..Len(s) : f[j] = f[j - 1] + s[j]
  BY <1>2, PrefixSumsSteps
<1>. DEFINE Bad == {k \in 0..Len(s) : ~(f[k] >= k)}
<1>4. ASSUME Bad # {} PROVE FALSE
  <2>1. PICK k \in Bad : \A m \in Bad : k <= m
    <3>1. Bad \subseteq Nat
      OBVIOUS
    <3>. QED
      BY <1>4, <3>1, LeastNatural, Zenon
  <2>2. k \in 1..Len(s) /\ k - 1 \in 0..Len(s) /\ ~(k <= k - 1)
    BY <1>1, <1>3, <2>1
  <2>3. f[k - 1] >= k - 1 /\ f[k - 1] \in Int
    BY <2>1, <2>2
  <2>4. f[k] = f[k - 1] + s[k] /\ s[k] \in Int /\ s[k] > 0
    BY <1>1, <1>3, <2>2
  <2>5. f[k] >= k
    BY <2>2, <2>3, <2>4
  <2>. QED
    BY <2>1, <2>5
<1>. QED
  BY <1>1, <1>2, <1>4

(***************************************************************************)
(* The book that holds the opposite of every ticket nets the opposite.     *)
(***************************************************************************)
Opposite(s) == [k \in DOMAIN s |-> -s[k]]

LEMMA OppositeNets ==
  ASSUME NEW s \in Seq(Int)
  PROVE  /\ Opposite(s) \in Seq(Int)
         /\ Len(Opposite(s)) = Len(s)
         /\ NetUnits(Opposite(s)) = -NetUnits(s)
<1>1. Len(s) \in Nat /\ DOMAIN s = 1..Len(s) /\ \A k \in 1..Len(s) : s[k] \in Int
  BY LenProperties, ElementOfSeq
<1>2. Opposite(s) \in [1..Len(s) -> Int]
  BY <1>1 DEF Opposite
<1>3. Opposite(s) \in Seq(Int) /\ Len(Opposite(s)) = Len(s)
  BY <1>1, <1>2, IsASeq, LenProperties
<1>4. PICK t \in Seq(Int) : t = Opposite(s)
  BY <1>3
<1>5. Len(t) = Len(s) /\ \A k \in 1..Len(s) : t[k] = -s[k]
  BY <1>1, <1>3, <1>4 DEF Opposite
<1>6. PICK f \in [0..Len(s) -> Int] : PrefixSums(f, s, Len(s)) /\ NetUnits(s) = f[Len(s)]
  BY NetUnitsOfSums
<1>7. PICK g \in [0..Len(t) -> Int] : PrefixSums(g, t, Len(t)) /\ NetUnits(t) = g[Len(t)]
  BY NetUnitsOfSums
<1>8. f[0] = 0 /\ \A j \in 1..Len(s) : f[j] = f[j - 1] + s[j]
  BY <1>6, PrefixSumsSteps
<1>9. g[0] = 0 /\ \A j \in 1..Len(s) : g[j] = g[j - 1] + t[j]
  BY <1>5, <1>7, PrefixSumsSteps
<1>. DEFINE Bad == {k \in 0..Len(s) : g[k] # -f[k]}
<1>10. ASSUME Bad # {} PROVE FALSE
  <2>1. PICK k \in Bad : \A m \in Bad : k <= m
    <3>1. Bad \subseteq Nat
      OBVIOUS
    <3>. QED
      BY <1>10, <3>1, LeastNatural, Zenon
  <2>2. k \in 1..Len(s) /\ k - 1 \in 0..Len(s) /\ ~(k <= k - 1)
    BY <1>1, <1>8, <1>9, <2>1
  <2>3. g[k - 1] = -f[k - 1] /\ f[k - 1] \in Int
    BY <2>1, <2>2
  <2>4. f[k] = f[k - 1] + s[k] /\ g[k] = g[k - 1] + t[k] /\ s[k] \in Int /\ t[k] = -s[k]
    BY <1>1, <1>5, <1>8, <1>9, <2>2
  <2>5. \A a, b \in Int : (-a) + (-b) = -(a + b)
    OBVIOUS
  <2>6. g[k] = (-f[k - 1]) + (-s[k])
    BY <2>3, <2>4, Zenon
  <2>7. g[k] = -f[k]
    BY <2>3, <2>4, <2>5, <2>6, Zenon
  <2>. QED
    BY <2>1, <2>7
<1>. QED
  BY <1>1, <1>3, <1>4, <1>5, <1>6, <1>7, <1>10

(***************************************************************************)
(* Neither does a book of shorts offset itself.                            *)
(***************************************************************************)
LEMMA ShortBookNet ==
  ASSUME NEW s \in Seq(Int), \A k \in DOMAIN s : s[k] < 0
  PROVE  -NetUnits(s) >= Len(s)
<1>1. DOMAIN s = 1..Len(s) /\ \A k \in 1..Len(s) : s[k] \in Int
  BY LenProperties, ElementOfSeq
<1>2. \A k \in DOMAIN Opposite(s) : Opposite(s)[k] > 0
  BY <1>1 DEF Opposite
<1>. QED
  BY <1>2, OppositeNets, LongBookNet

(***************************************************************************)
(* A one-sided book that nets nothing is empty, and each of its tickets is *)
(* on the side of its net.                                                 *)
(***************************************************************************)
LEMMA OneSidedNet ==
  ASSUME NEW s \in Seq(Int), OneSided(s)
  PROVE  /\ NetUnits(s) \in Int
         /\ NetUnits(s) = 0 <=> s = <<>>
         /\ NetUnits(s) > 0 => \A k \in DOMAIN s : s[k] > 0
         /\ NetUnits(s) < 0 => \A k \in DOMAIN s : s[k] < 0
<1>1. NetUnits(s) \in Int /\ Len(s) \in Nat
  BY NetUnitsType, LenProperties
<1>2. Len(s) = 0 <=> s = <<>>
  BY EmptySeq
<1>3. CASE \A k \in DOMAIN s : s[k] > 0
  <2>1. NetUnits(s) >= Len(s)
    BY <1>3, LongBookNet
  <2>2. s = <<>> => NetUnits(s) = 0
    BY NetUnitsOfNothing
  <2>. QED
    BY <1>1, <1>2, <1>3, <2>1, <2>2
<1>4. CASE \A k \in DOMAIN s : s[k] < 0
  <2>1. -NetUnits(s) >= Len(s)
    BY <1>4, ShortBookNet
  <2>2. s = <<>> => NetUnits(s) = 0
    BY NetUnitsOfNothing
  <2>. QED
    BY <1>1, <1>2, <1>4, <2>1, <2>2
<1>. QED
  BY <1>3, <1>4 DEF OneSided

(***************************************************************************)
(* Closing a ticket leaves the book one-sided, and takes it towards flat.  *)
(***************************************************************************)
LEMMA OneSidedRemoveAt ==
  ASSUME NEW s \in Seq(Int), OneSided(s), NEW k \in 1..Len(s)
  PROVE  /\ OneSided(RemoveAt(s, k))
         /\ NetUnits(s) > 0 => NetUnits(RemoveAt(s, k)) >= 0 /\ s[k] > 0
         /\ NetUnits(s) < 0 => NetUnits(RemoveAt(s, k)) <= 0 /\ s[k] < 0
         /\ NetUnits(s) # 0
<1>1. /\ RemoveAt(s, k) \in Seq(Int)
      /\ Len(s) \in Nat
      /\ Len(RemoveAt(s, k)) = Len(s) - 1
      /\ \A j \in 1..(Len(s) - 1) :
           RemoveAt(s, k)[j] = IF j < k THEN s[j] ELSE s[j + 1]
  BY RemoveAtElements, LenProperties
<1>2. PICK t \in Seq(Int) : t = RemoveAt(s, k)
  BY <1>1
<1>3. /\ DOMAIN s = 1..Len(s)
      /\ DOMAIN t = 1..(Len(s) - 1)
      /\ Len(t) \in Nat
  BY <1>1, <1>2, LenProperties
<1>4. \A j \in DOMAIN t : \E m \in DOMAIN s : t[j] = s[m]
  <2>1. ASSUME NEW j \in DOMAIN t PROVE \E m \in DOMAIN s : t[j] = s[m]
    <3>0. j \in 1..(Len(s) - 1)
      BY <1>3, <2>1, Zenon
    <3>1. j \in 1..Len(s) /\ j + 1 \in 1..Len(s)
      <4>1. \A n \in Nat : \A i \in 1..(n - 1) : i \in 1..n /\ i + 1 \in 1..n
        OBVIOUS
      <4>. QED
        BY <1>1, <3>0, <4>1, Zenon
    <3>2. t[j] = s[j] \/ t[j] = s[j + 1]
      BY <1>1, <1>2, <3>0, Zenon
    <3>. QED
      BY <1>3, <3>1, <3>2, Zenon
  <2>. QED
    BY <2>1
<1>5. NetUnits(s) \in Int /\ NetUnits(t) \in Int
  BY NetUnitsType
<1>6. CASE \A m \in DOMAIN s : s[m] > 0
  <2>1. \A j \in DOMAIN t : t[j] > 0
    BY <1>4, <1>6
  <2>2. NetUnits(s) >= Len(s) /\ NetUnits(t) >= Len(t)
    BY <1>6, <2>1, LongBookNet
  <2>3. s[k] > 0 /\ OneSided(t)
    BY <1>3, <1>6, <2>1 DEF OneSided
  <2>. QED
    BY <1>1, <1>2, <1>3, <1>5, <2>2, <2>3
<1>7. CASE \A m \in DOMAIN s : s[m] < 0
  <2>1. \A j \in DOMAIN t : t[j] < 0
    BY <1>4, <1>7
  <2>2. -NetUnits(s) >= Len(s) /\ -NetUnits(t) >= Len(t)
    BY <1>7, <2>1, ShortBookNet
  <2>3. s[k] < 0 /\ OneSided(t)
    BY <1>3, <1>7, <2>1 DEF OneSided
  <2>. QED
    BY <1>1, <1>2, <1>3, <1>5, <2>2, <2>3
<1>. QED
  BY <1>6, <1>7 DEF OneSided

(***************************************************************************)
(* A ticket on the side of the book, or of any side in an empty one, leaves*)
(* it one-sided.                                                           *)
(***************************************************************************)
LEMMA OneSidedAppend ==
  ASSUME NEW s \in Seq(Int), OneSided(s), NEW x \in Int, x # 0,
         NetUnits(s) > 0 => x > 0, NetUnits(s) < 0 => x < 0
  PROVE  OneSided(Append(s, x))
<1>1. PICK t \in Seq(Int) : t = Append(s, x)
  BY AppendProperties
<1>2. /\ Len(s) \in Nat
      /\ DOMAIN s = 1..Len(s)
      /\ DOMAIN t = 1..(Len(s) + 1)
      /\ t[Len(s) + 1] = x
      /\ \A j \in 1..Len(s) : t[j] = s[j]
  BY <1>1, AppendProperties, LenProperties
<1>3. ASSUME NEW j \in DOMAIN t PROVE t[j] = x \/ (j \in DOMAIN s /\ t[j] = s[j])
  <2>0. j \in 1..(Len(s) + 1)
    BY <1>2, <1>3, Zenon
  <2>1. j \in 1..Len(s) \/ j = Len(s) + 1
    BY <1>2, <2>0
  <2>. QED
    BY <1>2, <2>1, Zenon
<1>4. NetUnits(s) \in Int
  BY NetUnitsType
<1>5. CASE NetUnits(s) > 0
  <2>1. \A j \in DOMAIN s : s[j] > 0
    BY <1>5, OneSidedNet
  <2>. QED
    BY <1>1, <1>3, <1>5, <2>1 DEF OneSided
<1>6. CASE NetUnits(s) < 0
  <2>1. \A j \in DOMAIN s : s[j] < 0
    BY <1>6, OneSidedNet
  <2>. QED
    BY <1>1, <1>3, <1>6, <2>1 DEF OneSided
<1>7. CASE NetUnits(s) = 0
  <2>1. DOMAIN s = {}
    BY <1>7, OneSidedNet
  <2>. QED
    BY <1>1, <1>3, <2>1 DEF OneSided
<1>. QED
  BY <1>4, <1>5, <1>6, <1>7

(***************************************************************************)
(* sync_to_net_position leaves the tracker with the net it was told.       *)
(***************************************************************************)
THEOREM SyncReachesTarget ==
  ASSUME NEW s \in Seq(Int), NEW target \in Int
  PROVE  /\ SyncToNetPosition(s, target) \in Seq(Int)
         /\ NetUnits(SyncToNetPosition(s, target)) = target
<1>1. NetUnits(s) \in Int
  BY NetUnitsType
<1>2. CASE NetUnits(s) = target
  BY <1>2 DEF SyncToNetPosition
<1>3. CASE NetUnits(s) # target
  <2>. DEFINE d == target - NetUnits(s)
  <2>1. d \in Int /\ NetUnits(s) + d = target
    BY <1>1
  <2>. HIDE DEF d
  <2>2. Append(s, d) \in Seq(Int) /\ NetUnits(Append(s, d)) = target
    BY <2>1, NetUnitsOfAppend
  <2>3. <<target>> \in Seq(Int) /\ NetUnits(<<target>>) = target
    BY NetUnitsOfOne
  <2>4. target = 0 => <<>> \in Seq(Int) /\ NetUnits(<<>>) = target
    BY NetUnitsOfNothing
  <2>5. SyncToNetPosition(s, target) \in
          {Append(s, d), IF target = 0 THEN <<>> ELSE <<target>>}
    BY <1>3 DEF SyncToNetPosition, d
  <2>. QED
    BY <2>2, <2>3, <2>4, <2>5
<1>. QED
  BY <1>2, <1>3

(***************************************************************************)
(* So is a book told a net: no ticket it opens offsets one it keeps.       *)
(***************************************************************************)
LEMMA SyncKeepsOneSided ==
  ASSUME NEW s \in Seq(Int), OneSided(s), NEW target \in Int
  PROVE  OneSided(SyncToNetPosition(s, target))
<1>1. NetUnits(s) \in Int
  BY NetUnitsType
<1>. DEFINE held == NetUnits(s)
            d == target - NetUnits(s)
            sameSide == held = 0 \/ target = 0 \/ Side(held) = Side(target)
            shrinks == Magnitude(target) < Magnitude(held)
<1>2. CASE held = target
  BY <1>2 DEF SyncToNetPosition
<1>3. CASE held # target /\ sameSide /\ ~shrinks
  <2>1. SyncToNetPosition(s, target) = Append(s, d)
    BY <1>3 DEF SyncToNetPosition
  <2>2. d \in Int /\ d # 0 /\ (held > 0 => d > 0) /\ (held < 0 => d < 0)
    BY <1>1, <1>3 DEF Side, Magnitude
  <2>. QED
    BY <2>1, <2>2, OneSidedAppend
<1>4. CASE held # target /\ (~sameSide \/ shrinks)
  <2>1. SyncToNetPosition(s, target) = IF target = 0 THEN <<>> ELSE <<target>>
    BY <1>4 DEF SyncToNetPosition
  <2>. QED
    BY <2>1 DEF OneSided
<1>. QED
  BY <1>2, <1>3, <1>4

(***************************************************************************)
(* An order that extends the side held, or opens one, is one more ticket.  *)
(***************************************************************************)
LEMMA SyncOfEntry ==
  ASSUME NEW s \in Seq(Int), NEW x \in Int, x # 0,
         NetUnits(s) > 0 => x > 0, NetUnits(s) < 0 => x < 0
  PROVE  SyncToNetPosition(s, NetUnits(s) + x) = Append(s, x)
<1>1. PICK held \in Int : held = NetUnits(s)
  BY NetUnitsType
<1>2. /\ held # held + x
      /\ (held + x) - held = x
      /\ held = 0 \/ Side(held) = Side(held + x)
      /\ ~(Magnitude(held + x) < Magnitude(held))
  BY <1>1 DEF Side, Magnitude
<1>. QED
  BY <1>1, <1>2 DEF SyncToNetPosition

------------------------------------------------------------------------------
(* Closing slots *)

(***************************************************************************)
(* f lists, for every k up to n, the slots of 1..k that are left.          *)
(***************************************************************************)
LeftLists(f, slots, n) ==
  f = [k \in 0..n |-> IF k = 0 THEN <<>>
                      ELSE IF k \in slots THEN f[k - 1] ELSE Append(f[k - 1], k)]

LEMMA LeftListsExist ==
  ASSUME NEW slots, NEW n \in Nat
  PROVE  \E f : LeftLists(f, slots, n)
<1>. DEFINE Has(k) == \E f : LeftLists(f, slots, k)
            Bad == {k \in Nat : ~Has(k)}
<1>. HIDE DEF Has
<1>1. ASSUME Bad # {} PROVE FALSE
  <2>1. PICK k \in Bad : \A m \in Bad : k <= m
    <3>1. Bad \subseteq Nat OBVIOUS
    <3>. QED BY <1>1, <3>1, LeastNatural, Zenon
  <2>2. CASE k = 0
    <3>1. LeftLists([j \in 0..0 |-> <<>>], slots, 0) BY DEF LeftLists
    <3>2. Has(0) BY <3>1, Zenon DEF Has
    <3>. QED BY <2>1, <2>2, <3>2, Zenon
  <2>3. CASE k # 0
    <3>0. k \in Nat BY <2>1
    <3>1. k - 1 \in Nat /\ ~(k <= k - 1) BY <2>3, <3>0
    <3>2. Has(k - 1) BY <2>1, <3>1, Zenon
    <3>3. PICK f : LeftLists(f, slots, k - 1) BY <3>2, Zenon DEF Has
    <3>. DEFINE last == IF k \in slots THEN f[k - 1] ELSE Append(f[k - 1], k)
                g == [j \in 0..k |-> IF j = k THEN last ELSE f[j]]
    <3>. HIDE DEF last
    <3>4. \A j \in 0..(k - 1) :
            f[j] = IF j = 0 THEN <<>>
                   ELSE IF j \in slots THEN f[j - 1] ELSE Append(f[j - 1], j)
      BY <3>3, Zenon DEF LeftLists
    <3>5. ASSUME NEW j \in 0..k
          PROVE  g[j] = IF j = 0 THEN <<>>
                        ELSE IF j \in slots THEN g[j - 1] ELSE Append(g[j - 1], j)
      <4>1. CASE j # k
        <5>1. j \in 0..(k - 1) /\ (j # 0 => j - 1 \in 0..k /\ j - 1 # k)
          BY <3>0, <4>1
        <5>2. g[j] = f[j] /\ (j # 0 => g[j - 1] = f[j - 1])
          BY <4>1, <5>1, Zenon
        <5>. QED BY <3>4, <5>1, <5>2, Zenon
      <4>2. CASE j = k
        <5>1. k \in 0..k /\ k - 1 \in 0..k /\ k - 1 # k BY <3>0, <3>1
        <5>2. g[k] = last /\ g[k - 1] = f[k - 1] BY <5>1, Zenon
        <5>. QED BY <2>3, <4>2, <5>2, Zenon DEF last
      <4>. QED BY <4>1, <4>2
    <3>6. LeftLists(g, slots, k) BY <3>5, Zenon DEF LeftLists
    <3>7. Has(k) BY <3>6, Zenon DEF Has
    <3>. QED BY <2>1, <3>7, Zenon
  <2>. QED BY <2>2, <2>3
<1>2. Has(n) BY <1>1, Zenon
<1>. QED BY <1>2, Zenon DEF Has

(***************************************************************************)
(* A list of slots of 1..n without those closed, in order.                 *)
(***************************************************************************)
Lists(list, slots, n) ==
  /\ list \in Seq(Nat)
  /\ Len(list) <= n
  /\ \A i \in 1..Len(list) : list[i] \in 1..n /\ list[i] \notin slots
  /\ \A i, j \in 1..Len(list) : i < j => list[i] < list[j]

LEMMA AppendedSlotListed ==
  ASSUME NEW slots, NEW k \in Nat \ {0}, NEW list, Lists(list, slots, k - 1)
  PROVE  /\ Lists(list, slots, k)
         /\ k \notin slots => Lists(Append(list, k), slots, k)
<1>1. list \in Seq(Nat) /\ Len(list) \in Nat /\ Len(list) <= k - 1
  BY LenProperties DEF Lists
<1>2. \A i \in 1..Len(list) : list[i] \in 1..(k - 1) /\ list[i] \notin slots
  BY DEF Lists
<1>3. \A i, j \in 1..Len(list) : i < j => list[i] < list[j]
  BY DEF Lists
<1>4. Lists(list, slots, k)
  BY <1>1, <1>2, <1>3 DEF Lists
<1>. DEFINE longer == Append(list, k)
<1>5. /\ longer \in Seq(Nat) /\ Len(longer) = Len(list) + 1
      /\ longer[Len(list) + 1] = k
      /\ \A i \in 1..Len(list) : longer[i] = list[i]
  BY <1>1, AppendProperties
<1>. HIDE DEF longer
<1>6. ASSUME k \notin slots PROVE Lists(longer, slots, k)
  <2>1. Len(longer) <= k BY <1>1, <1>5
  <2>2. ASSUME NEW i \in 1..Len(longer)
        PROVE  longer[i] \in 1..k /\ longer[i] \notin slots
    BY <1>1, <1>2, <1>5, <1>6
  <2>3. ASSUME NEW i \in 1..Len(longer), NEW j \in 1..Len(longer), i < j
        PROVE  longer[i] < longer[j]
    <3>1. i \in 1..Len(list) BY <1>1, <1>5, <2>3
    <3>2. CASE j \in 1..Len(list) BY <1>3, <1>5, <2>3, <3>1, <3>2
    <3>3. CASE j \notin 1..Len(list)
      <4>1. longer[j] = k BY <1>1, <1>5, <3>3
      <4>2. longer[i] \in 1..(k - 1) BY <1>2, <1>5, <3>1
      <4>. QED BY <4>1, <4>2
    <3>. QED BY <3>2, <3>3
  <2>. QED BY <1>5, <2>1, <2>2, <2>3 DEF Lists
<1>. QED BY <1>4, <1>6 DEF longer

LEMMA LeftListsList ==
  ASSUME NEW slots, NEW n \in Nat, NEW f, LeftLists(f, slots, n), NEW m \in 0..n
  PROVE  Lists(f[m], slots, m)
<1>. DEFINE Bad == {k \in 0..n : ~Lists(f[k], slots, k)}
<1>1. ASSUME Bad # {} PROVE FALSE
  <2>1. PICK k \in Bad : \A j \in Bad : k <= j
    <3>1. Bad \subseteq Nat OBVIOUS
    <3>. QED BY <1>1, <3>1, LeastNatural, Zenon
  <2>2. f[k] = IF k = 0 THEN <<>>
               ELSE IF k \in slots THEN f[k - 1] ELSE Append(f[k - 1], k)
    BY <2>1, Zenon DEF LeftLists
  <2>3. CASE k = 0
    <3>1. Lists(<<>>, slots, 0) BY DEF Lists
    <3>. QED BY <2>1, <2>2, <2>3, <3>1
  <2>4. CASE k # 0
    <3>1. k \in Nat \ {0} /\ k - 1 \in 0..n /\ ~(k <= k - 1) BY <2>1, <2>4
    <3>2. Lists(f[k - 1], slots, k - 1) BY <2>1, <3>1, Zenon
    <3>3. Lists(f[k], slots, k)
      <4>1. /\ Lists(f[k - 1], slots, k)
            /\ k \notin slots => Lists(Append(f[k - 1], k), slots, k)
        BY <3>1, <3>2, AppendedSlotListed, Zenon
      <4>2. CASE k \in slots BY <2>2, <2>4, <4>1, <4>2, Zenon
      <4>3. CASE k \notin slots BY <2>2, <2>4, <4>1, <4>3, Zenon
      <4>. QED BY <4>2, <4>3
    <3>. QED BY <2>1, <3>3, Zenon
  <2>. QED BY <2>3, <2>4
<1>. QED BY <1>1

(***************************************************************************)
(* The slots that are left are some of the slots, in order, and none of    *)
(* those closed.                                                           *)
(***************************************************************************)
THEOREM SlotsLeftAreOpen ==
  ASSUME NEW n \in Nat, NEW slots
  PROVE  Lists(SlotsLeft(n, slots), slots, n)
<1>. DEFINE left == CHOOSE f : LeftLists(f, slots, n)
<1>1. LeftLists(left, slots, n) BY LeftListsExist, Zenon
<1>2. SlotsLeft(n, slots) = left[n] BY Zenon DEF SlotsLeft, LeftLists
<1>. HIDE DEF left
<1>3. n \in 0..n OBVIOUS
<1>. QED BY <1>1, <1>2, <1>3, LeftListsList, Zenon

(***************************************************************************)
(* A book without some of its slots is no longer than the book, and what   *)
(* it holds at a slot the book held at one that was not closed.            *)
(***************************************************************************)
LEMMA WithoutElements ==
  ASSUME NEW T, NEW book \in Seq(T), NEW slots
  PROVE  /\ Without(book, slots) \in Seq(T)
         /\ Len(Without(book, slots)) <= Len(book)
         /\ DOMAIN Without(book, slots) = DOMAIN SlotsLeft(Len(book), slots)
         /\ \A i \in DOMAIN Without(book, slots) :
              /\ SlotsLeft(Len(book), slots)[i] \in DOMAIN book \ slots
              /\ Without(book, slots)[i] = book[SlotsLeft(Len(book), slots)[i]]
<1>. DEFINE left == SlotsLeft(Len(book), slots)
            rest == [i \in DOMAIN left |-> book[left[i]]]
<1>1. Len(book) \in Nat /\ DOMAIN book = 1..Len(book) BY LenProperties
<1>2. Lists(left, slots, Len(book)) BY <1>1, SlotsLeftAreOpen
<1>. HIDE DEF left
<1>3. left \in Seq(Nat) /\ Len(left) \in Nat /\ DOMAIN left = 1..Len(left)
  BY <1>2, LenProperties DEF Lists
<1>4. \A i \in 1..Len(left) : left[i] \in DOMAIN book \ slots
  BY <1>1, <1>2 DEF Lists
<1>5. \A i \in 1..Len(left) : book[left[i]] \in T
  BY <1>1, <1>4, ElementOfSeq
<1>6. rest \in [1..Len(left) -> T] BY <1>3, <1>5
<1>7. rest \in Seq(T) BY <1>3, <1>6, IsASeq
<1>8. Len(rest) = Len(left) /\ DOMAIN rest = 1..Len(left)
  BY <1>3, <1>6, <1>7, LenProperties
<1>9. Without(book, slots) = rest BY DEF Without, left
<1>10. Len(left) <= Len(book) BY <1>2 DEF Lists
<1>. HIDE DEF rest
<1>. QED
  <2>1. \A i \in 1..Len(left) : rest[i] = book[left[i]] BY <1>3 DEF rest
  <2>. QED BY <1>3, <1>4, <1>7, <1>8, <1>9, <1>10, <2>1 DEF left


(***************************************************************************)
(* A book of zeros nets zero.                                              *)
(***************************************************************************)
LEMMA NetUnitsOfZeros ==
  ASSUME NEW s \in Seq(Int), \A k \in 1..Len(s) : s[k] = 0
  PROVE  NetUnits(s) = 0
<1>1. PICK f \in [0..Len(s) -> Int] : PrefixSums(f, s, Len(s)) /\ NetUnits(s) = f[Len(s)]
  BY NetUnitsOfSums
<1>2. f[0] = 0 /\ \A j \in 1..Len(s) : f[j] = f[j - 1] + s[j]
  BY <1>1, PrefixSumsSteps
<1>3. Len(s) \in Nat
  BY LenProperties
<1>. DEFINE Bad == {k \in 0..Len(s) : f[k] # 0}
<1>4. ASSUME Bad # {} PROVE FALSE
  <2>1. Bad \subseteq Nat
    OBVIOUS
  <2>2. PICK k \in Bad : \A j \in Bad : k <= j
    BY <1>4, <2>1, LeastNatural, Zenon
  <2>3. k \in 1..Len(s) /\ k - 1 \in 0..Len(s) /\ k - 1 \notin Bad
    BY <1>2, <1>3, <2>2
  <2>4. f[k] = f[k - 1] + s[k] /\ f[k - 1] = 0 /\ s[k] = 0
    BY <1>2, <2>3
  <2>. QED
    BY <2>2, <2>4
<1>. QED
  BY <1>1, <1>3, <1>4

(***************************************************************************)
(* A number of a list replaced.                                            *)
(***************************************************************************)
LEMMA NetUnitsOfReplaced ==
  ASSUME NEW s \in Seq(Int), NEW k \in 1..Len(s), NEW v \in Int
  PROVE  NetUnits([s EXCEPT ![k] = v]) = (NetUnits(s) - s[k]) + v
<1>1. Len(s) \in Nat /\ DOMAIN s = 1..Len(s) /\ \A j \in 1..Len(s) : s[j] \in Int
  BY LenProperties, ElementOfSeq
<1>2. PICK t : t = [s EXCEPT ![k] = v]
  OBVIOUS
<1>3. /\ DOMAIN t = 1..Len(s)
      /\ t[k] = v
      /\ \A j \in 1..Len(s) : j # k => t[j] = s[j]
      /\ t = [j \in 1..Len(s) |-> IF j = k THEN v ELSE s[j]]
  BY <1>1, <1>2
<1>4. t \in Seq(Int) /\ Len(t) = Len(s)
  <2>1. \A j \in 1..Len(s) : t[j] \in Int
    BY <1>1, <1>3
  <2>2. t \in Seq(Int)
    BY <1>1, <1>3, <2>1, IsASeq
  <2>. QED
    BY <1>1, <1>3, <2>2, LenProperties
<1>5. RemoveAt(t, k) = RemoveAt(s, k)
  <2>1. PICK u \in Seq(Int) : u = RemoveAt(s, k)
    BY RemoveAtElements
  <2>2. PICK w \in Seq(Int) : w = RemoveAt(t, k)
    BY <1>4, RemoveAtElements
  <2>3. Len(u) = Len(s) - 1 /\ Len(w) = Len(s) - 1
    BY <1>4, <2>1, <2>2, RemoveAtElements
  <2>4. ASSUME NEW j \in 1..Len(u) PROVE u[j] = w[j]
    <3>1. j \in 1..(Len(s) - 1) /\ j \in 1..Len(s) /\ j + 1 \in 1..Len(s)
      BY <1>1, <2>3
    <3>2. u[j] = IF j < k THEN s[j] ELSE s[j + 1]
      BY <2>1, <3>1, RemoveAtElements
    <3>3. w[j] = IF j < k THEN t[j] ELSE t[j + 1]
      <4>1. k \in 1..Len(t) /\ j \in 1..(Len(t) - 1)
        BY <1>4, <3>1
      <4>. QED
        BY <1>4, <2>2, <4>1, RemoveAtElements
    <3>. QED
      BY <1>3, <3>1, <3>2, <3>3
  <2>. QED
    BY <2>1, <2>2, <2>3, <2>4, SeqEqual
<1>6. NetUnits(t) - v = NetUnits(s) - s[k]
  BY <1>3, <1>4, <1>5, NetUnitsOfRemoveAt
<1>7. NetUnits(t) \in Int /\ NetUnits(s) \in Int /\ s[k] \in Int
  BY <1>1, <1>4, NetUnitsType
<1>. QED
  BY <1>2, <1>6, <1>7

=============================================================================
