-------------------------- MODULE BacktestJobsProofs --------------------------
(***************************************************************************)
(* Proofs about BacktestJobs and its HistoryStore: what the candle file    *)
(* keeps, what a load answers and what a completed job shows, for every    *)
(* market, every chunk, every window and any number of jobs and failures.  *)
(***************************************************************************)
EXTENDS BacktestJobs, FiniteSetTheorems, SequenceTheorems, WellFoundedInduction, TLAPS

------------------------------------------------------------------------------
(* Sets of numbers *)

(***************************************************************************)
(* Every nonempty set of naturals has a least element.                     *)
(***************************************************************************)
LEMMA LeastNatural ==
  ASSUME NEW T, T \subseteq Nat, T # {}
  PROVE  \E n \in T : \A m \in T : n <= m
<1>. DEFINE R == OpToRel(<, Nat)
<1>1. IsWellFoundedOn(R, Nat)
  BY NatLessThanWellFounded, Zenon
<1>2. \A x, y \in Nat : x < y => <<x, y>> \in R
  BY Zenon DEF OpToRel
<1>. HIDE DEF R
<1>3. PICK n \in T : \A m \in T : ~(<<m, n>> \in R)
  BY <1>1, WFMin, Zenon
<1>4. \A m \in T : ~(m < n)
  BY <1>2, <1>3, Zenon
<1>5. \A m \in T : n <= m
  BY <1>4
<1>. QED
  BY <1>5, Zenon

LEMMA MinIsLeast ==
  ASSUME NEW T, T \subseteq Nat, T # {}
  PROVE  Min(T) \in T /\ \A t \in T : Min(T) <= t
<1>1. PICK n \in T : \A m \in T : n <= m
  BY LeastNatural, Zenon
<1>. QED
  BY <1>1, Zenon DEF Min

LEMMA MaxIsGreatest ==
  ASSUME NEW n \in Nat, NEW T, T \subseteq 0..n, T # {}
  PROVE  Max(T) \in T /\ \A t \in T : t <= Max(T)
<1>. DEFINE D == {n - t : t \in T}
<1>0. \A t \in T : n - t \in Nat
  OBVIOUS
<1>1. D \subseteq Nat /\ D # {}
  BY <1>0
<1>2. PICK d \in D : \A e \in D : d <= e
  BY <1>1, LeastNatural, Zenon
<1>3. PICK m \in T : d = n - m
  BY <1>2
<1>4. \A t \in T : n - t \in D
  OBVIOUS
<1>5. \A t \in T : d <= n - t
  BY <1>2, <1>4, Zenon
<1>6. \A t \in T : m >= t
  BY <1>3, <1>5
<1>7. Max(T) \in T /\ \A t \in T : Max(T) >= t
  BY <1>6, Zenon DEF Max
<1>. QED
  BY <1>7

LEMMA LargerOfTwo ==
  ASSUME NEW a \in Int, NEW b \in Int
  PROVE  Max({a, b}) \in {a, b} /\ a <= Max({a, b}) /\ b <= Max({a, b})
<1>1. \E x \in {a, b} : \A y \in {a, b} : x >= y
  OBVIOUS
<1>2. Max({a, b}) \in {a, b} /\ \A y \in {a, b} : Max({a, b}) >= y
  BY <1>1, Zenon DEF Max
<1>. QED
  BY <1>2

LEMMA SmallerOfTwo ==
  ASSUME NEW a \in Int, NEW b \in Int
  PROVE  Min({a, b}) \in {a, b} /\ Min({a, b}) <= a /\ Min({a, b}) <= b
<1>1. \E x \in {a, b} : \A y \in {a, b} : x =< y
  OBVIOUS
<1>2. Min({a, b}) \in {a, b} /\ \A y \in {a, b} : Min({a, b}) =< y
  BY <1>1, Zenon DEF Min
<1>. QED
  BY <1>2

(***************************************************************************)
(* How many numbers of S are less than x.                                  *)
(***************************************************************************)
Below(S, x) == {y \in S : y < x}

LEMMA RankGrows ==
  ASSUME NEW S, IsFiniteSet(S), S \subseteq Int, NEW x \in S, NEW y \in S, x < y
  PROVE  /\ Cardinality(Below(S, x)) \in Nat /\ Cardinality(Below(S, y)) \in Nat
         /\ Cardinality(Below(S, x)) < Cardinality(Below(S, y))
<1>0. x \in Int /\ y \in Int /\ ~(x < x) /\ \A z \in S : z < x => z < y
  OBVIOUS
<1>1. /\ Below(S, x) \subseteq Below(S, y) /\ Below(S, y) \subseteq S
      /\ x \in Below(S, y) /\ x \notin Below(S, x)
  BY <1>0, Zenon DEF Below
<1>2. IsFiniteSet(Below(S, y)) /\ IsFiniteSet(Below(S, x))
  BY <1>1, FS_Subset, Zenon
<1>3. Below(S, x) # Below(S, y)
  BY <1>1
<1>4. Cardinality(Below(S, x)) \in Nat /\ Cardinality(Below(S, y)) \in Nat
  BY <1>2, FS_CardinalityType, Zenon
<1>5. Cardinality(Below(S, x)) < Cardinality(Below(S, y))
  <2>1. PICK B, C : B = Below(S, x) /\ C = Below(S, y)
    OBVIOUS
  <2>2. B \subseteq C /\ IsFiniteSet(C) /\ B # C
    BY <1>1, <1>2, <1>3, <2>1, Zenon
  <2>3. Cardinality(B) <= Cardinality(C) /\ Cardinality(B) # Cardinality(C)
    BY <2>2, FS_Subset, Zenon
  <2>. QED
    BY <1>4, <2>1, <2>3
<1>. QED
  BY <1>4, <1>5

LEMMA RankType ==
  ASSUME NEW S, IsFiniteSet(S), S \subseteq Int, NEW x \in S
  PROVE  Cardinality(Below(S, x)) \in 0..Cardinality(S) - 1
<1>1. Below(S, x) \subseteq S /\ x \notin Below(S, x)
  BY DEF Below
<1>2. IsFiniteSet(Below(S, x)) /\ Below(S, x) # S
  BY <1>1, FS_Subset, Zenon
<1>3. Cardinality(Below(S, x)) \in Nat /\ Cardinality(S) \in Nat
  BY <1>2, FS_CardinalityType, Zenon
<1>4. Cardinality(Below(S, x)) < Cardinality(S)
  <2>1. PICK B : B = Below(S, x)
    OBVIOUS
  <2>2. Cardinality(B) <= Cardinality(S) /\ Cardinality(B) # Cardinality(S)
    BY <1>1, <1>2, <2>1, FS_Subset, Zenon
  <2>. QED
    BY <1>3, <2>1, <2>2
<1>. QED
  BY <1>3, <1>4

(***************************************************************************)
(* Every rank is taken.                                                    *)
(***************************************************************************)
LEMMA RanksAreTaken ==
  ASSUME NEW S, IsFiniteSet(S), S \subseteq Int, NEW k \in 1..Cardinality(S)
  PROVE  \E x \in S : Cardinality(Below(S, x)) = k - 1
<1>. DEFINE n == Cardinality(S)
            R == 0..n - 1
            rank == [x \in S |-> Cardinality(Below(S, x))]
<1>1. n \in Nat
  BY FS_CardinalityType, Zenon
<1>2. rank \in [S -> R]
  BY RankType
<1>3. \A x, y \in S : rank[x] = rank[y] => x = y
  <2>1. \A x, y \in S : x < y =>
          /\ Cardinality(Below(S, x)) \in Nat /\ Cardinality(Below(S, y)) \in Nat
          /\ Cardinality(Below(S, x)) < Cardinality(Below(S, y))
    BY RankGrows, Zenon
  <2>. QED
    BY <2>1
<1>4. rank \in Injection(S, R)
  BY <1>2, <1>3, Zenon DEF Injection, IsInjective
<1>5. IsFiniteSet(R) /\ Cardinality(R) = n
  <2>1. 0 \in Int /\ n - 1 \in Int
    BY <1>1
  <2>2. IsFiniteSet(R) /\ Cardinality(R) = IF 0 > n - 1 THEN 0 ELSE (n - 1) - 0 + 1
    BY <2>1, FS_Interval, Zenon
  <2>. QED
    BY <1>1, <2>2
<1>6. rank \in Surjection(S, R)
  BY <1>4, <1>5, FS_Injection, Zenon
<1>7. k - 1 \in R
  BY <1>1
<1>8. PICK x \in S : rank[x] = k - 1
  BY <1>6, <1>7, Zenon DEF Surjection
<1>. QED
  BY <1>8

(***************************************************************************)
(* Ascending lists every number of a finite set, each before the greater.  *)
(***************************************************************************)
LEMMA AscendingLists ==
  ASSUME NEW S, IsFiniteSet(S), S \subseteq Int
  PROVE  /\ Cardinality(S) \in Nat
         /\ Ascending(S) \in [1..Cardinality(S) -> S]
         /\ \A i, j \in 1..Cardinality(S) : i < j => Ascending(S)[i] < Ascending(S)[j]
         /\ \A x \in S : \E k \in 1..Cardinality(S) : Ascending(S)[k] = x
<1>. DEFINE n == Cardinality(S)
            f == Ascending(S)
<1>1. n \in Nat
  BY FS_CardinalityType, Zenon
<1>2. \A k \in 1..n : f[k] = CHOOSE x \in S : Cardinality(Below(S, x)) = k - 1
  BY DEF Ascending, Below
<1>3. \A k \in 1..n : f[k] \in S /\ Cardinality(Below(S, f[k])) = k - 1
  BY <1>2, RanksAreTaken, Zenon
<1>4. f \in [1..n -> S]
  BY <1>3 DEF Ascending
<1>. HIDE DEF f
<1>7. \A x, y \in S : x < y =>
        /\ Cardinality(Below(S, x)) \in Nat /\ Cardinality(Below(S, y)) \in Nat
        /\ Cardinality(Below(S, x)) < Cardinality(Below(S, y))
  BY RankGrows, Zenon
<1>5. ASSUME NEW i \in 1..n, NEW j \in 1..n, i < j PROVE f[i] < f[j]
  <2>1. PICK x \in S, y \in S : x = f[i] /\ y = f[j]
    BY <1>3
  <2>2. Cardinality(Below(S, x)) < Cardinality(Below(S, y))
    BY <1>1, <1>3, <1>5, <2>1
  <2>3. x # y
    BY <1>1, <1>3, <1>5, <2>1
  <2>4. ~(y < x)
    BY <1>7, <2>2
  <2>. QED
    BY <2>1, <2>3, <2>4
<1>6. ASSUME NEW x \in S PROVE \E k \in 1..n : f[k] = x
  <2>1. PICK k \in 1..n : Cardinality(Below(S, x)) = k - 1
    <3>1. Cardinality(Below(S, x)) \in 0..n - 1
      BY RankType
    <3>. QED
      BY <1>1, <3>1
  <2>2. PICK y \in S : y = f[k] /\ Cardinality(Below(S, y)) = k - 1
    BY <1>3
  <2>3. ~(x < y) /\ ~(y < x)
    BY <1>7, <2>1, <2>2
  <2>. QED
    BY <2>2, <2>3
<1>. QED
  BY <1>1, <1>4, <1>5, <1>6 DEF f

------------------------------------------------------------------------------
(* Lines *)

FileLines == Lines \cup {Torn}

LEMMA FunctionIsSeq ==
  ASSUME NEW S, NEW n \in Nat, NEW f \in [1..n -> S]
  PROVE  f \in Seq(S)
BY SeqDef, Zenon

LEMMA TornIsNoLine == Torn \notin Lines
BY DEF Torn, Lines

LEMMA LineTimes ==
  ASSUME NEW lines \in Seq(Lines)
  PROVE  /\ Len(lines) \in Nat /\ DOMAIN lines = 1..Len(lines)
         /\ \A i \in 1..Len(lines) : lines[i] \in Lines /\ lines[i].t \in 0..MaxTime
         /\ TimesOf(lines) \subseteq 0..MaxTime
         /\ lines # <<>> => Len(lines) > 0 /\ Head(lines) = lines[1]
<1>1. Len(lines) \in Nat /\ DOMAIN lines = 1..Len(lines)
  BY LenProperties, Zenon
<1>2. \A i \in 1..Len(lines) : lines[i] \in Lines
  BY ElementOfSeq, Zenon
<1>3. \A i \in 1..Len(lines) : lines[i].t \in 0..MaxTime
  BY <1>2 DEF Lines
<1>4. TimesOf(lines) \subseteq 0..MaxTime
  BY <1>1, <1>3, Zenon DEF TimesOf
<1>5. lines # <<>> => Len(lines) \in Nat \ {0}
  BY EmptySeq, Zenon
<1>. QED
  BY <1>1, <1>2, <1>3, <1>4, <1>5

(***************************************************************************)
(* Sequences of lines that agree are equal.                                *)
(***************************************************************************)
LEMMA SameLines ==
  ASSUME NEW S, NEW r \in Seq(S), NEW s \in Seq(S), Len(r) = Len(s),
         \A i \in 1..Len(r) : r[i] = s[i]
  PROVE  r = s
BY SeqEqual, Zenon

(***************************************************************************)
(* What can be read of a file: its lines up to the first torn one.         *)
(***************************************************************************)
ReadsAs(lines, kept) ==
  /\ kept \in Seq(Lines)
  /\ Len(kept) <= Len(lines)
  /\ \A i \in 1..Len(kept) : lines[i] = kept[i]
  /\ Len(kept) < Len(lines) => lines[Len(kept) + 1] = Torn

LEMMA ReadableReads ==
  ASSUME NEW lines \in Seq(FileLines)
  PROVE  ReadsAs(lines, Readable(lines))
<1>. DEFINE cut == {i \in DOMAIN lines : lines[i] = Torn}
<1>1. Len(lines) \in Nat /\ DOMAIN lines = 1..Len(lines)
  BY LenProperties, Zenon
<1>2. \A i \in 1..Len(lines) : lines[i] \in FileLines
  BY ElementOfSeq, Zenon
<1>3. CASE cut = {}
  <2>1. \A i \in 1..Len(lines) : lines[i] \in Lines
    BY <1>1, <1>2, <1>3 DEF FileLines
  <2>2. lines \in [1..Len(lines) -> Lines]
    <3>1. lines \in [1..Len(lines) -> FileLines]
      BY LenProperties, Zenon
    <3>. QED
      BY <2>1, <3>1
  <2>3. lines \in Seq(Lines)
    BY <1>1, <2>2, SeqDef, Zenon
  <2>4. Readable(lines) = lines
    BY <1>3 DEF Readable
  <2>. QED
    BY <1>1, <2>3, <2>4 DEF ReadsAs
<1>4. CASE cut # {}
  <2>1. cut \subseteq Nat
    BY <1>1
  <2>2. PICK m : m = Min(cut) /\ m \in cut /\ \A i \in cut : m <= i
    BY <1>4, <2>1, MinIsLeast, Zenon
  <2>3. m \in 1..Len(lines) /\ lines[m] = Torn
    BY <1>1, <2>2
  <2>4. \A i \in 1..m - 1 : lines[i] \in Lines
    <3>. SUFFICES ASSUME NEW i \in 1..m - 1 PROVE lines[i] \in Lines
      OBVIOUS
    <3>1. i \in 1..Len(lines) /\ ~(m <= i)
      BY <1>1, <2>3
    <3>2. i \notin cut
      BY <2>2, <3>1, Zenon
    <3>. QED
      BY <1>1, <1>2, <3>1, <3>2 DEF FileLines
  <2>5. Readable(lines) = SubSeq(lines, 1, m - 1)
    BY <1>4, <2>2, Zenon DEF Readable
  <2>6. PICK r : r = SubSeq(lines, 1, m - 1)
    OBVIOUS
  <2>7. /\ r \in Seq(Lines)
        /\ Len(r) = IF 1 <= m - 1 THEN m - 1 - 1 + 1 ELSE 0
        /\ \A i \in 1..m - 1 - 1 + 1 : r[i] = lines[1 + i - 1]
    <3>1. 1 \in Int /\ m - 1 \in Int
      BY <2>3
    <3>. QED
      BY <2>4, <2>6, <3>1, SubSeqProperties
  <2>8. Len(r) = m - 1
    BY <2>3, <2>7
  <2>9. \A i \in 1..m - 1 : r[i] = lines[i]
    BY <2>3, <2>7
  <2>10. ReadsAs(lines, r)
    BY <1>1, <2>3, <2>7, <2>8, <2>9 DEF ReadsAs
  <2>. QED
    BY <2>5, <2>6, <2>10
<1>. QED
  BY <1>3, <1>4

LEMMA ReadsAsOne ==
  ASSUME NEW lines \in Seq(FileLines), NEW kept, ReadsAs(lines, kept)
  PROVE  Readable(lines) = kept
<1>1. PICK r : r = Readable(lines) /\ ReadsAs(lines, r)
  BY ReadableReads
<1>2. /\ kept \in Seq(Lines) /\ r \in Seq(Lines)
      /\ Len(lines) \in Nat /\ Len(kept) \in Nat /\ Len(r) \in Nat
  BY <1>1, LenProperties DEF ReadsAs
<1>3. /\ \A i \in 1..Len(kept) : kept[i] # Torn
      /\ \A i \in 1..Len(r) : r[i] # Torn
  BY <1>2, LineTimes, TornIsNoLine
<1>4. ~(Len(kept) < Len(r))
  BY <1>1, <1>2, <1>3 DEF ReadsAs
<1>5. ~(Len(r) < Len(kept))
  BY <1>1, <1>2, <1>3 DEF ReadsAs
<1>6. Len(r) = Len(kept)
  BY <1>2, <1>4, <1>5
<1>7. \A i \in 1..Len(r) : r[i] = kept[i]
  BY <1>1, <1>2, <1>6 DEF ReadsAs
<1>. QED
  BY <1>1, <1>2, <1>6, <1>7, SameLines, Zenon

(***************************************************************************)
(* Lines that hold candles are read as they are, and behind lines that can *)
(* all be read what follows is read as well.                               *)
(***************************************************************************)
LEMMA CandlesAreRead ==
  ASSUME NEW lines \in Seq(Lines)
  PROVE  lines \in Seq(FileLines) /\ Readable(lines) = lines
<1>1. lines \in Seq(FileLines)
  BY SeqMonotonic DEF FileLines
<1>2. Len(lines) \in Nat
  BY LenProperties
<1>3. ReadsAs(lines, lines)
  BY <1>2 DEF ReadsAs
<1>. QED
  BY <1>1, <1>3, ReadsAsOne, Zenon

LEMMA ReadBehind ==
  ASSUME NEW lines \in Seq(FileLines), NEW more \in Seq(FileLines)
  PROVE  /\ lines \o more \in Seq(FileLines)
         /\ Readable(lines) # lines => Readable(lines \o more) = Readable(lines)
<1>1. PICK r : r = Readable(lines) /\ ReadsAs(lines, r)
  BY ReadableReads
<1>2. PICK both : both = lines \o more
  OBVIOUS
<1>3. /\ both \in Seq(FileLines)
      /\ Len(both) = Len(lines) + Len(more)
      /\ \A i \in 1..Len(lines) + Len(more) :
           both[i] = IF i <= Len(lines) THEN lines[i] ELSE more[i - Len(lines)]
  BY <1>2, ConcatProperties, Zenon
<1>4. Len(lines) \in Nat /\ Len(more) \in Nat /\ r \in Seq(Lines) /\ Len(r) \in Nat
  BY <1>1, LenProperties DEF ReadsAs
<1>5. ASSUME r # lines PROVE ReadsAs(both, r)
  <2>1. Len(r) # Len(lines)
    <3>1. r \in Seq(FileLines)
      BY <1>4, CandlesAreRead
    <3>. QED
      BY <1>1, <1>5, <3>1, SameLines DEF ReadsAs
  <2>2. Len(r) < Len(lines)
    BY <1>1, <1>4, <2>1 DEF ReadsAs
  <2>3. \A i \in 1..Len(r) + 1 : both[i] = lines[i]
    BY <1>3, <1>4, <2>2
  <2>4. \A i \in 1..Len(r) : both[i] = r[i]
    BY <1>1, <1>4, <2>3 DEF ReadsAs
  <2>5. both[Len(r) + 1] = Torn
    BY <1>1, <1>4, <2>2, <2>3 DEF ReadsAs
  <2>. QED
    BY <1>3, <1>4, <2>2, <2>4, <2>5 DEF ReadsAs
<1>6. r # lines => Readable(both) = r
  BY <1>3, <1>5, ReadsAsOne, Zenon
<1>. QED
  BY <1>1, <1>2, <1>3, <1>6

(***************************************************************************)
(* A torn line at the end leaves what can be read.                         *)
(***************************************************************************)
LEMMA ReadBeforeTorn ==
  ASSUME NEW lines \in Seq(FileLines)
  PROVE  /\ Append(lines, Torn) \in Seq(FileLines)
         /\ Readable(Append(lines, Torn)) = Readable(lines)
<1>1. PICK r : r = Readable(lines) /\ ReadsAs(lines, r)
  BY ReadableReads
<1>2. PICK longer : longer = Append(lines, Torn)
  OBVIOUS
<1>3. Torn \in FileLines
  BY DEF FileLines
<1>4. /\ longer \in Seq(FileLines)
      /\ Len(longer) = Len(lines) + 1
      /\ \A i \in 1..Len(lines) : longer[i] = lines[i]
      /\ longer[Len(lines) + 1] = Torn
  BY <1>2, <1>3, AppendProperties, Zenon
<1>5. Len(lines) \in Nat /\ r \in Seq(Lines) /\ Len(r) \in Nat
  BY <1>1, LenProperties DEF ReadsAs
<1>6. ReadsAs(longer, r)
  BY <1>1, <1>4, <1>5 DEF ReadsAs
<1>7. Readable(longer) = r
  BY <1>4, <1>6, ReadsAsOne, Zenon
<1>. QED
  BY <1>1, <1>2, <1>4, <1>7

(***************************************************************************)
(* Lines appended to a file are read behind those that could all be read,  *)
(* or not at all.                                                          *)
(***************************************************************************)
LEMMA AppendedIsRead ==
  ASSUME NEW lines \in Seq(FileLines), NEW more \in Seq(Lines)
  PROVE  /\ Appended(lines, more) \in Seq(FileLines)
         /\ \/ Readable(Appended(lines, more)) = Readable(lines)
            \/ Readable(Appended(lines, more)) = Readable(lines) \o more
<1>1. more \in Seq(FileLines)
  BY CandlesAreRead
<1>2. CASE lines # <<>> /\ more # <<>> /\ Last(lines) = Torn
  <2>1. Tail(more) \in Seq(FileLines)
    BY <1>1, <1>2, HeadTailProperties, Zenon
  <2>2. Readable(lines) # lines
    <3>1. Len(lines) \in Nat \ {0} /\ lines[Len(lines)] = Torn
      BY <1>2, EmptySeq, Zenon DEF Last
    <3>2. ASSUME Readable(lines) = lines PROVE FALSE
      <4>1. lines \in Seq(Lines)
        BY <3>2, ReadableReads, Zenon DEF ReadsAs
      <4>2. Len(lines) \in 1..Len(lines)
        BY <3>1
      <4>. QED
        BY <3>1, <4>1, <4>2, ElementOfSeq, TornIsNoLine, Zenon
    <3>. QED
      BY <3>2
  <2>3. Appended(lines, more) = lines \o Tail(more)
    BY <1>2, Zenon DEF Appended
  <2>. QED
    BY <2>1, <2>2, <2>3, ReadBehind, Zenon
<1>3. CASE ~(lines # <<>> /\ more # <<>> /\ Last(lines) = Torn)
  <2>1. Appended(lines, more) = lines \o more
    BY <1>3, Zenon DEF Appended
  <2>2. CASE Readable(lines) # lines
    BY <1>1, <2>1, <2>2, ReadBehind, Zenon
  <2>3. CASE Readable(lines) = lines
    <3>1. lines \in Seq(Lines)
      BY <2>3, ReadableReads, Zenon DEF ReadsAs
    <3>2. lines \o more \in Seq(Lines)
      BY <3>1, ConcatProperties, Zenon
    <3>. QED
      BY <2>1, <2>3, <3>2, CandlesAreRead, Zenon
  <2>. QED
    BY <2>2, <2>3
<1>. QED
  BY <1>2, <1>3

------------------------------------------------------------------------------
(* Joining and merging *)

LEMMA TimeListed ==
  ASSUME NEW lines \in Seq(Lines), NEW t
  PROVE  t \in TimesOf(lines) <=> \E i \in 1..Len(lines) : lines[i].t = t
BY LineTimes, Zenon DEF TimesOf

LEMMA FirstLines ==
  ASSUME NEW lines \in Seq(Lines), NEW n \in 0..Len(lines)
  PROVE  /\ SubSeq(lines, 1, n) \in Seq(Lines)
         /\ Len(SubSeq(lines, 1, n)) = n
         /\ \A i \in 1..n : SubSeq(lines, 1, n)[i] = lines[i]
<1>1. Len(lines) \in Nat /\ \A i \in 1..Len(lines) : lines[i] \in Lines
  BY LineTimes
<1>2. 1 \in Int /\ n \in Int /\ \A i \in 1..n : lines[i] \in Lines
  BY <1>1
<1>3. PICK r : r = SubSeq(lines, 1, n)
  OBVIOUS
<1>4. /\ r \in Seq(Lines)
      /\ Len(r) = IF 1 <= n THEN n - 1 + 1 ELSE 0
      /\ \A i \in 1..n - 1 + 1 : r[i] = lines[1 + i - 1]
  BY <1>2, <1>3, SubSeqProperties
<1>. QED
  BY <1>1, <1>3, <1>4

LEMMA JoinedLines ==
  ASSUME NEW a \in Seq(Lines), NEW b \in Seq(Lines)
  PROVE  /\ a \o b \in Seq(Lines)
         /\ Len(a \o b) = Len(a) + Len(b)
         /\ \A i \in 1..Len(a) : (a \o b)[i] = a[i]
         /\ \A i \in 1..Len(b) : (a \o b)[Len(a) + i] = b[i]
         /\ TimesOf(a \o b) = TimesOf(a) \cup TimesOf(b)
<1>1. Len(a) \in Nat /\ Len(b) \in Nat
  BY LenProperties
<1>2. PICK c : c = a \o b
  OBVIOUS
<1>3. /\ c \in Seq(Lines) /\ Len(c) = Len(a) + Len(b)
      /\ \A i \in 1..Len(a) + Len(b) :
           c[i] = IF i <= Len(a) THEN a[i] ELSE b[i - Len(a)]
  BY <1>2, ConcatProperties, Zenon
<1>4. /\ \A i \in 1..Len(a) : i \in 1..Len(c) /\ c[i] = a[i]
      /\ \A i \in 1..Len(b) : Len(a) + i \in 1..Len(c) /\ c[Len(a) + i] = b[i]
  <2>1. ASSUME NEW i \in 1..Len(a) PROVE i \in 1..Len(c) /\ c[i] = a[i]
    BY <1>1, <1>3
  <2>2. ASSUME NEW i \in 1..Len(b) PROVE Len(a) + i \in 1..Len(c) /\ c[Len(a) + i] = b[i]
    <3>1. PICK k \in 1..Len(a) + Len(b) : k = Len(a) + i /\ ~(k <= Len(a)) /\ k - Len(a) = i
      BY <1>1
    <3>. QED
      BY <1>3, <3>1
  <2>. QED
    BY <2>1, <2>2
<1>5. ASSUME NEW i \in 1..Len(c)
      PROVE  \/ \E k \in 1..Len(a) : c[i] = a[k]
             \/ \E k \in 1..Len(b) : c[i] = b[k]
  <2>1. CASE i <= Len(a)
    BY <1>1, <1>3, <2>1
  <2>2. CASE ~(i <= Len(a))
    <3>1. i - Len(a) \in 1..Len(b) /\ c[i] = b[i - Len(a)]
      BY <1>1, <1>3, <2>2
    <3>. QED
      BY <3>1
  <2>. QED
    BY <2>1, <2>2
<1>6. ASSUME NEW t PROVE t \in TimesOf(c) <=> t \in TimesOf(a) \/ t \in TimesOf(b)
  <2>1. /\ t \in TimesOf(c) <=> \E i \in 1..Len(c) : c[i].t = t
        /\ t \in TimesOf(a) <=> \E i \in 1..Len(a) : a[i].t = t
        /\ t \in TimesOf(b) <=> \E i \in 1..Len(b) : b[i].t = t
    BY <1>3, TimeListed, Zenon
  <2>. QED
    BY <1>4, <1>5, <2>1, Zenon
<1>. QED
  BY <1>2, <1>3, <1>4, <1>6

(***************************************************************************)
(* One line for each time, in the order of time.                           *)
(***************************************************************************)
Strictly(lines) == \A i, j \in DOMAIN lines : i < j => lines[i].t < lines[j].t

LEMMA OnePerTimeLists ==
  ASSUME NEW lines \in Seq(Lines)
  PROVE  /\ OnePerTime(lines) \in Seq(Lines)
         /\ Strictly(OnePerTime(lines))
         /\ TimesOf(OnePerTime(lines)) = TimesOf(lines)
<1>. DEFINE T == TimesOf(lines)
            times == Ascending(T)
            Of_(x) == {i \in DOMAIN lines : lines[i].t = x}
            one == [i \in DOMAIN times |-> lines[Max(Of_(times[i]))]]
<1>1. /\ Len(lines) \in Nat /\ DOMAIN lines = 1..Len(lines)
      /\ \A i \in 1..Len(lines) : lines[i] \in Lines
      /\ T \subseteq 0..MaxTime
  BY LineTimes
<1>2. T \subseteq Int /\ IsFiniteSet(T)
  <2>1. IsFiniteSet(0..MaxTime)
    BY FS_Interval, StoreAssumption
  <2>. QED
    BY <1>1, <2>1, FS_Subset, StoreAssumption
<1>3. PICK n \in Nat :
        /\ n = Cardinality(T)
        /\ times \in [1..n -> T]
        /\ \A i, j \in 1..n : i < j => times[i] < times[j]
        /\ \A x \in T : \E k \in 1..n : times[k] = x
  BY <1>2, AscendingLists, Zenon
<1>4. OnePerTime(lines) = one
  BY DEF OnePerTime
<1>5. ASSUME NEW x \in T
      PROVE  lines[Max(Of_(x))] \in Lines /\ lines[Max(Of_(x))].t = x
  <2>1. Of_(x) \subseteq 0..Len(lines) /\ Of_(x) # {}
    BY <1>1 DEF TimesOf
  <2>. HIDE DEF Of_
  <2>2. Max(Of_(x)) \in Of_(x)
    BY <1>1, <2>1, MaxIsGreatest, Zenon
  <2>. QED
    BY <1>1, <2>2 DEF Of_
<1>. HIDE DEF times, Of_, T
<1>6. \A i \in 1..n : times[i] \in T
  BY <1>3
<1>7. DOMAIN times = 1..n
  BY <1>3
<1>8. \A i \in 1..n : one[i] \in Lines /\ one[i].t = times[i]
  BY <1>5, <1>6, <1>7, Zenon
<1>9. one \in [1..n -> Lines]
  BY <1>7, <1>8
<1>10. one \in Seq(Lines)
  BY <1>9, SeqDef, Zenon
<1>11. DOMAIN one = 1..n
  BY <1>9
<1>. HIDE DEF one
<1>12. Strictly(one)
  BY <1>3, <1>8, <1>11 DEF Strictly
<1>13. TimesOf(one) = T
  <2>1. TimesOf(one) \subseteq T
    BY <1>6, <1>8, <1>11 DEF TimesOf
  <2>2. \A x \in T : x \in TimesOf(one)
    BY <1>3, <1>8, <1>11 DEF TimesOf
  <2>. QED
    BY <2>1, <2>2
<1>. QED
  BY <1>4, <1>10, <1>12, <1>13 DEF T

------------------------------------------------------------------------------
(* The inductive invariant *)

Stages == {"none", "prefix", "suffix", "write", "sign", "done", "failed"}

Loads ==
  [stage : Stages, from : Int, to : Int, existing : Seq(Lines),
   prefix : Seq(Lines), suffix : Seq(Lines), current : Int, until : Int,
   known : BOOLEAN, out : Seq(Lines), refused : BOOLEAN, answer : Seq(Lines)]

StoreTypes ==
  /\ now \in 0..MaxTime
  /\ file \in Seq(FileLines)
  /\ sigFile \in {"none", "whole", "torn"}
  /\ signed \subseteq 0..MaxTime
  /\ load \in Loads
  /\ faults \in 0..MaxFaults /\ lost \in BOOLEAN /\ skipped \in BOOLEAN

(***************************************************************************)
(* Lines have all that traded from a on and before b.                      *)
(***************************************************************************)
Holds(lines, a, b) == \A t \in Traded : a <= t /\ t < b => t \in TimesOf(lines)

Covers(lines) ==
  \A t \in Traded : lines[1].t <= t /\ t <= lines[Len(lines)].t => t \in TimesOf(lines)

(***************************************************************************)
(* What the file can be read as: candles of the past, in the order of time,*)
(* with nothing left out unless a request was lost or a load began too far *)
(* out.                                                                    *)
(***************************************************************************)
KeptWell(kept, silent, far, today) ==
  /\ InOrder(kept)
  /\ \A i \in DOMAIN kept : kept[i].t <= today
  /\ ~silent /\ ~far /\ kept # <<>> => Covers(kept)

(***************************************************************************)
(* What a block gives is one candle after the other, and all of them or    *)
(* none unless a request was lost.  It gives none when OANDA refused it.   *)
(***************************************************************************)
Run(lines, a, b) ==
  \A i \in DOMAIN lines :
    lines[i].t = lines[1].t + i - 1 /\ a <= lines[i].t /\ lines[i].t < b

Block(lines, a, b, refused, silent) ==
  /\ Run(lines, a, b)
  /\ ~silent /\ (lines # <<>> \/ ~refused) => Holds(lines, a, b)

Fetched(l, a, b, silent) ==
  /\ l.until = b /\ a <= l.current /\ l.current <= b
  /\ Run(l.out, a, l.current)
  /\ l.known <=> l.out # <<>>
  /\ l.known => l.out[Len(l.out)].t = l.current - 1
  /\ ~silent => Holds(l.out, a, l.current)

(***************************************************************************)
(* A load works on the file as it is, and begins no later than one candle  *)
(* behind it.                                                              *)
(***************************************************************************)
Based(l, kept, far, today) ==
  /\ l.from \in 0..MaxTime /\ l.to <= today + 1
  /\ l.existing = kept
  /\ ~far /\ kept # <<>> => l.from <= kept[Len(kept)].t + 1

PrefixDone(l, silent) == Block(l.prefix, l.from, CacheStart(l), l.refused, silent)

SoundLoad(l, kept, silent, far, today) ==
  /\ l.stage \in {"prefix", "suffix", "write"} => Based(l, kept, far, today)
  /\ l.stage = "prefix" =>
       /\ Fetched(l, l.from, CacheStart(l), silent) /\ l.current < CacheStart(l)
       /\ l.prefix = <<>> /\ l.suffix = <<>>
  /\ l.stage = "suffix" =>
       /\ PrefixDone(l, silent) /\ l.suffix = <<>>
       /\ Fetched(l, SuffixStart(l), l.to, silent) /\ l.current < l.to
  /\ l.stage = "write" =>
       /\ PrefixDone(l, silent)
       /\ Block(l.suffix, SuffixStart(l), l.to, l.refused, silent)
  /\ l.stage = "sign" =>
       /\ InOrder(l.existing)
       /\ ~silent /\ ~far /\ ~l.refused => Holds(l.existing, l.from, l.to)
  /\ l.stage = "done" =>
       /\ InOrder(l.answer)
       /\ ~silent /\ ~far /\ ~l.refused => Holds(l.answer, l.from, l.to)

StoreSound ==
  /\ StoreTypes
  /\ KeptWell(Readable(file), lost, skipped, now)
  /\ SoundLoad(load, Readable(file), lost, skipped, now)

------------------------------------------------------------------------------
(* Fetching *)

LEMMA TradedTimes == \A t \in Traded : t \in Int /\ t \in 0..MaxTime
BY StoreAssumption

LEMMA EmptyRun == ASSUME NEW a, NEW b PROVE Run(<<>>, a, b)
BY DEF Run

LEMMA NoLines == /\ <<>> \in Seq(Lines) /\ Len(<<>>) = 0 /\ TimesOf(<<>>) = {}
                 /\ InOrder(<<>>)
BY EmptySeq DEF TimesOf, InOrder

LEMMA RunExtended ==
  ASSUME NEW out \in Seq(Lines), NEW more \in Seq(Lines),
         NEW a \in Int, NEW c \in Int, a <= c, Run(out, a, c),
         out # <<>> => out[Len(out)].t = c - 1,
         \A i \in 1..Len(more) : more[i].t = c + i - 1
  PROVE  /\ out \o more \in Seq(Lines)
         /\ Run(out \o more, a, c + Len(more))
         /\ out \o more # <<>> =>
              (out \o more)[Len(out \o more)].t = c + Len(more) - 1
         /\ TimesOf(out \o more) = TimesOf(out) \cup c..(c + Len(more) - 1)
         /\ out \o more = <<>> <=> out = <<>> /\ more = <<>>
<1>1. PICK s, m, n : s = out \o more /\ m = Len(out) /\ n = Len(more)
  OBVIOUS
<1>2. /\ s \in Seq(Lines) /\ Len(s) = m + n
      /\ \A i \in 1..m : s[i] = out[i]
      /\ \A i \in 1..n : s[m + i] = more[i]
      /\ TimesOf(s) = TimesOf(out) \cup TimesOf(more)
  BY <1>1, JoinedLines, Zenon
<1>3. /\ m \in Nat /\ n \in Nat
      /\ out # <<>> => m > 0
      /\ more # <<>> => n > 0
      /\ DOMAIN out = 1..m /\ DOMAIN s = 1..(m + n) /\ DOMAIN more = 1..n
      /\ s # <<>> => m + n > 0
  BY <1>1, <1>2, LineTimes
<1>4. /\ \A i \in 1..m : out[i].t \in Int
      /\ \A i \in 1..n : more[i].t = c + i - 1
  BY <1>1, LineTimes
<1>5. \A i \in 1..m : out[i].t = out[1].t + i - 1 /\ a <= out[i].t /\ out[i].t < c
  BY <1>3 DEF Run
<1>6. ASSUME NEW i \in 1..(m + n)
      PROVE  s[i].t = s[1].t + i - 1 /\ a <= s[i].t /\ s[i].t < c + n
  <2>1. CASE m = 0
    <3>1. i \in 1..n /\ 1 \in 1..n
      BY <1>3, <2>1
    <3>2. s[m + i] = more[i] /\ s[m + 1] = more[1]
      BY <1>2, <3>1
    <3>3. m + i = i /\ m + 1 = 1
      BY <2>1, <3>1
    <3>. QED
      BY <1>3, <1>4, <3>1, <3>2, <3>3
  <2>2. CASE m > 0
    <3>1. 1 \in 1..m /\ m \in 1..m /\ out # <<>>
      BY <1>1, <1>3, <2>2, NoLines
    <3>2. out[m].t = c - 1
      BY <1>1, <3>1
    <3>3. s[1].t = c - m /\ s[1] = out[1]
      <4>1. s[1] = out[1]
        BY <1>2, <3>1
      <4>2. out[m].t = out[1].t + m - 1
        BY <1>5, <3>1
      <4>3. out[1].t \in Int
        BY <1>4, <3>1
      <4>. QED
        BY <1>3, <3>2, <4>1, <4>2, <4>3
    <3>4. CASE i \in 1..m
      BY <1>2, <1>3, <1>5, <3>3, <3>4, <1>4
    <3>5. CASE i \notin 1..m
      <4>1. PICK k \in 1..n : i = m + k
        <5>1. i - m \in 1..n /\ i = m + (i - m)
          BY <1>3, <3>5
        <5>. QED
          BY <5>1
      <4>2. s[i].t = c + k - 1
        BY <1>2, <1>4, <4>1
      <4>. QED
        BY <1>3, <3>3, <4>1, <4>2
    <3>. QED
      BY <3>4, <3>5
  <2>. QED
    BY <1>3, <2>1, <2>2
<1>7. Run(s, a, c + n)
  BY <1>3, <1>6 DEF Run
<1>8. ASSUME s # <<>> PROVE s[m + n].t = c + n - 1
  <2>1. CASE n = 0
    <3>1. m > 0 /\ m \in 1..m /\ out # <<>> /\ m + n = m
      BY <1>1, <1>3, <1>8, <2>1, NoLines
    <3>. QED
      BY <1>1, <1>2, <2>1, <3>1
  <2>2. CASE n > 0
    <3>1. n \in 1..n
      BY <1>3, <2>2
    <3>. QED
      BY <1>2, <1>4, <3>1
  <2>. QED
    BY <1>3, <2>1, <2>2
<1>9. TimesOf(more) = c..(c + n - 1)
  <2>1. ASSUME NEW i \in 1..n PROVE more[i].t \in c..(c + n - 1)
    BY <1>3, <1>4
  <2>2. ASSUME NEW t \in c..(c + n - 1) PROVE \E i \in 1..n : more[i].t = t
    <3>1. t - c + 1 \in 1..n /\ c + (t - c + 1) - 1 = t
      BY <1>3
    <3>. QED
      BY <1>4, <3>1
  <2>. QED
    BY <1>3, <2>1, <2>2 DEF TimesOf
<1>10. s = <<>> <=> out = <<>> /\ more = <<>>
  <2>1. s = <<>> <=> m + n = 0
    BY <1>2, <1>3, NoLines
  <2>2. (out = <<>> <=> m = 0) /\ (more = <<>> <=> n = 0)
    BY <1>1, <1>3, NoLines
  <2>. QED
    BY <1>3, <2>1, <2>2
<1>. QED
  BY <1>1, <1>2, <1>7, <1>8, <1>9, <1>10

(***************************************************************************)
(* A step of a fetch leaves everything else of the load.                   *)
(***************************************************************************)
Keeps(m, l) ==
  /\ m \in Loads
  /\ m.stage = l.stage /\ m.from = l.from /\ m.to = l.to /\ m.existing = l.existing
  /\ m.prefix = l.prefix /\ m.suffix = l.suffix /\ m.refused = l.refused
  /\ m.until = l.until

(***************************************************************************)
(* Lines that follow on what was fetched, from c on.                       *)
(***************************************************************************)
Longer(m, l, c, more) ==
  /\ Keeps(m, l) /\ m.known /\ m.out = l.out \o more /\ m.current = c + Len(more)
  /\ more # <<>> /\ \A i \in 1..Len(more) : more[i].t = c + i - 1
  /\ l.current <= c /\ (l.known => c = l.current)

NoneBefore(c, l) == \A t \in Traded : l.current <= t => c <= t

LEMMA FetchGrows ==
  ASSUME NEW l \in Loads, NEW m, NEW a \in Int, NEW b \in Int, NEW silent \in BOOLEAN,
         NEW gone \in BOOLEAN, NEW c \in Int, NEW more \in Seq(Lines),
         Fetched(l, a, b, silent), Longer(m, l, c, more), m.current <= b,
         silent => gone, ~gone => NoneBefore(c, l)
  PROVE  Fetched(m, a, b, gone)
<1>0. l.out \in Seq(Lines) /\ l.current \in Int
  BY DEF Loads
<1>1. PICK out \in Seq(Lines), cur \in Int : out = l.out /\ cur = l.current
  BY <1>0
<1>2. /\ a <= cur /\ cur <= b /\ Run(out, a, cur) /\ l.until = b
      /\ l.known <=> out # <<>>
      /\ l.known => out[Len(out)].t = cur - 1
      /\ ~silent => Holds(out, a, cur)
  BY <1>1 DEF Fetched
<1>. /\ Keeps(m, l) /\ m.known /\ m.out = l.out \o more /\ m.current = c + Len(more)
     /\ more # <<>> /\ \A i \in 1..Len(more) : more[i].t = c + i - 1
     /\ l.current <= c /\ (l.known => c = l.current)
  BY DEF Longer
<1>3. Run(out, a, c)
  <2>1. CASE l.known
    BY <1>1, <1>2, <2>1
  <2>2. CASE ~l.known
    BY <1>2, <2>2, EmptyRun
  <2>. QED
    BY <2>1, <2>2
<1>4. out # <<>> => out[Len(out)].t = c - 1
  BY <1>1, <1>2
<1>5. a <= c
  BY <1>1, <1>2
<1>6. PICK s : s = out \o more
  OBVIOUS
<1>7. /\ s \in Seq(Lines)
      /\ Run(s, a, c + Len(more))
      /\ s # <<>> => s[Len(s)].t = c + Len(more) - 1
      /\ TimesOf(s) = TimesOf(out) \cup c..(c + Len(more) - 1)
      /\ s # <<>>
  <2>1. \A i \in 1..Len(more) : more[i].t = c + i - 1
    OBVIOUS
  <2>2. more # <<>>
    OBVIOUS
  <2>3. /\ out \o more \in Seq(Lines)
        /\ Run(out \o more, a, c + Len(more))
        /\ out \o more # <<>> =>
             (out \o more)[Len(out \o more)].t = c + Len(more) - 1
        /\ TimesOf(out \o more) = TimesOf(out) \cup c..(c + Len(more) - 1)
        /\ out \o more = <<>> <=> out = <<>> /\ more = <<>>
    BY <1>3, <1>4, <1>5, <2>1, RunExtended, Zenon
  <2>. QED
    BY <1>6, <2>2, <2>3
<1>8. ASSUME ~gone PROVE Holds(s, a, c + Len(more))
  <2>1. Holds(out, a, cur) /\ \A t \in Traded : cur <= t => c <= t
    BY <1>1, <1>2, <1>8 DEF NoneBefore
  <2>2. ASSUME NEW t \in Traded, a <= t, t < c + Len(more) PROVE t \in TimesOf(s)
    <3>1. t \in Int /\ Len(more) \in Nat
      BY StoreAssumption, LenProperties
    <3>2. CASE t < cur
      BY <1>7, <2>1, <2>2, <3>2 DEF Holds
    <3>3. CASE ~(t < cur)
      BY <1>1, <1>7, <2>1, <2>2, <3>1, <3>3
    <3>. QED
      BY <3>2, <3>3
  <2>. QED
    BY <2>2 DEF Holds
<1>9. Len(more) \in Nat
  BY LenProperties
<1>10. /\ m.until = b /\ m.out = s /\ m.current = c + Len(more) /\ m.known
  BY <1>1, <1>2, <1>6 DEF Keeps
<1>. QED
  BY <1>5, <1>7, <1>8, <1>9, <1>10 DEF Fetched

LEMMA ReceivedFetches ==
  ASSUME NEW l \in Loads, NEW a \in Nat, NEW b \in Int, NEW silent \in BOOLEAN,
         now \in 0..MaxTime, b <= now + 1,
         Fetched(l, a, b, silent), NEW until \in Int, l.current < until, until <= b,
         NEW there, there # {},
         there = {t \in Traded : l.current <= t /\ t < until /\ t <= now}
  PROVE  Keeps(Received(l, there), l) /\ Fetched(Received(l, there), a, b, silent)
<1>1. PICK cur \in Int : cur = l.current /\ l.out \in Seq(Lines) /\ a <= cur
  BY DEF Loads, Fetched
<1>2. /\ \A t \in there : t \in Nat /\ t \in 0..MaxTime
      /\ \A t \in there : t \in 0..MaxTime /\ cur <= t /\ t < until /\ t <= now /\ t \in Traded
      /\ \A t \in Traded : cur <= t /\ t < until => t \in there
  BY <1>1, StoreAssumption
<1>3. PICK lo, hi : /\ lo = Min(there) /\ lo \in there /\ \A t \in there : lo <= t
                    /\ hi = Max(there) /\ hi \in there /\ \A t \in there : t <= hi
  <2>1. there \subseteq Nat /\ there \subseteq 0..MaxTime /\ MaxTime \in Nat
    BY <1>2, StoreAssumption, Zenon
  <2>. QED
    BY <2>1, MinIsLeast, MaxIsGreatest, Zenon
<1>4. PICK c : c = IF l.known THEN cur ELSE lo
  OBVIOUS
<1>5. /\ c \in Int /\ hi \in Int /\ 0 <= c /\ cur <= c /\ c <= hi /\ hi <= now /\ hi < until
  <2>1. /\ lo \in Int /\ cur <= lo /\ lo <= hi /\ hi \in Int /\ cur <= hi /\ hi <= now /\ hi < until
    BY <1>2, <1>3
  <2>2. c = cur \/ c = lo
    BY <1>4
  <2>. QED
    BY <1>1, <2>1, <2>2
<1>6. PICK more : more = [i \in 1..hi - c + 1 |-> [t |-> c + i - 1, kind |-> Kind(c + i - 1)]]
  OBVIOUS
<1>7. /\ more \in Seq(Lines) /\ Len(more) = hi - c + 1 /\ more # <<>>
      /\ \A i \in 1..Len(more) : more[i].t = c + i - 1
  <2>1. hi - c + 1 \in Nat /\ 1 \in 1..hi - c + 1
    BY <1>5
  <2>2. \A i \in 1..hi - c + 1 : more[i] \in Lines /\ more[i].t = c + i - 1
    <3>. SUFFICES ASSUME NEW i \in 1..hi - c + 1 PROVE more[i] \in Lines /\ more[i].t = c + i - 1
      OBVIOUS
    <3>1. c + i - 1 \in 0..MaxTime
      BY <1>5, StoreAssumption
    <3>2. Kind(c + i - 1) \in {"closed", "forming", "flat"}
      BY DEF Kind
    <3>3. more[i] = [t |-> c + i - 1, kind |-> Kind(c + i - 1)]
      BY <1>6, Zenon
    <3>. QED
      BY <3>1, <3>2, <3>3 DEF Lines
  <2>3. DOMAIN more = 1..hi - c + 1
    BY <1>6
  <2>4. more \in [1..hi - c + 1 -> Lines]
    BY <1>6, <2>2, <2>3
  <2>5. more \in Seq(Lines)
    <3>1. PICK n \in Nat : n = hi - c + 1
      BY <2>1
    <3>. QED
      BY <2>4, <3>1, SeqDef, Zenon
  <2>6. Len(more) = hi - c + 1
    BY <2>1, <2>3, <2>5, LenProperties
  <2>. QED
    BY <2>1, <2>2, <2>5, <2>6, NoLines
<1>8. PICK m : m = Received(l, there)
  OBVIOUS
<1>9. m = [l EXCEPT !.current = hi + 1, !.known = TRUE, !.out = l.out \o more]
  BY <1>1, <1>3, <1>4, <1>6, <1>8 DEF Received
<1>10. l.out \o more \in Seq(Lines)
  BY <1>1, <1>7, ConcatProperties, Zenon
<1>11. Keeps(m, l) /\ m.known /\ m.out = l.out \o more /\ m.current = c + Len(more)
  <2>1. hi + 1 = c + Len(more) /\ hi + 1 \in Int
    BY <1>5, <1>7
  <2>. QED
    BY <1>9, <1>10, <2>1 DEF Keeps, Loads
<1>12. c + Len(more) <= b /\ (l.known => c = l.current) /\ l.current <= c
  <2>1. c + Len(more) = hi + 1 /\ hi + 1 <= b
    BY <1>5, <1>7
  <2>2. l.known => c = cur
    BY <1>4
  <2>. QED
    BY <1>1, <1>5, <2>1, <2>2
<1>13. \A t \in Traded : l.current <= t => c <= t
  <2>. SUFFICES ASSUME NEW t \in Traded, cur <= t PROVE c <= t
    BY <1>1
  <2>1. t \in Int /\ (t < until => t \in there)
    BY <1>2, StoreAssumption
  <2>. QED
    BY <1>3, <1>4, <1>5, <2>1
<1>14. Fetched(m, a, b, silent)
  <2>1. Fetched(l, a, b, silent) /\ a \in Int /\ m.current <= b
    BY <1>11, <1>12
  <2>2. Longer(m, l, c, more) /\ NoneBefore(c, l)
    BY <1>7, <1>11, <1>12, <1>13 DEF Longer, NoneBefore
  <2>. QED
    BY <1>5, <1>7, <2>1, <2>2, FetchGrows
<1>. QED
  BY <1>8, <1>11, <1>14

(***************************************************************************)
(* A chunk that is taken for quiet.                                        *)
(***************************************************************************)
LEMMA QuietFetches ==
  ASSUME NEW l \in Loads, NEW a \in Nat, NEW b \in Int, NEW silent \in BOOLEAN,
         NEW gone \in BOOLEAN, silent => gone, b <= MaxTime + 1,
         Fetched(l, a, b, silent), NEW until \in Int, l.current < until, until <= b,
         ~gone => \A t \in Traded : ~(l.current <= t /\ t < until)
  PROVE  Keeps(Quiet(l, until), l) /\ Fetched(Quiet(l, until), a, b, gone)
<1>0. l.out \in Seq(Lines) /\ l.current \in Int
  BY DEF Loads
<1>1. PICK cur \in Int, n \in Nat : cur = l.current /\ n = until - cur /\ 0 < n /\ a <= cur
  BY <1>0 DEF Fetched
<1>2. PICK m : m = Quiet(l, until)
  OBVIOUS
<1>3. CASE l.known
  <2>1. PICK more : more = Flat(cur, until)
    OBVIOUS
  <2>2. more = [i \in 1..n |-> [t |-> cur + i - 1, kind |-> "flat"]]
    BY <1>1, <2>1 DEF Flat
  <2>3. \A i \in 1..n : more[i] \in Lines /\ more[i].t = cur + i - 1
    <3>. SUFFICES ASSUME NEW i \in 1..n PROVE more[i] \in Lines /\ more[i].t = cur + i - 1
      OBVIOUS
    <3>1. cur + i - 1 \in 0..MaxTime
      BY <1>1, StoreAssumption
    <3>2. more[i] = [t |-> cur + i - 1, kind |-> "flat"]
      BY <2>2
    <3>. QED
      BY <3>1, <3>2 DEF Lines
  <2>4. more \in [1..n -> Lines]
    BY <2>2, <2>3
  <2>5. more \in Seq(Lines)
    BY <2>4, SeqDef, Zenon
  <2>6. Len(more) = n
    BY <2>2, <2>5, LenProperties
  <2>7. more # <<>>
    BY <1>1, <2>6, NoLines
  <2>8. l.out \o more \in Seq(Lines)
    BY <1>0, <2>5, ConcatProperties, Zenon
  <2>9. m = [l EXCEPT !.current = until, !.out = l.out \o more]
    BY <1>1, <1>2, <1>3, <2>1 DEF Quiet
  <2>10. Keeps(m, l) /\ m.known /\ m.out = l.out \o more /\ m.current = cur + Len(more)
    <3>1. until = cur + Len(more)
      BY <1>1, <2>6
    <3>. QED
      BY <1>3, <2>8, <2>9, <3>1 DEF Keeps, Loads
  <2>11. /\ l.current <= cur /\ (l.known => cur = l.current)
         /\ \A i \in 1..Len(more) : more[i].t = cur + i - 1
         /\ cur + Len(more) <= b
         /\ a \in Int
    <3>1. Len(more) = n /\ cur + n = until /\ a \in Int
      BY <1>1, <2>6
    <3>2. \A i \in 1..Len(more) : more[i].t = cur + i - 1
      BY <2>3, <3>1, Zenon
    <3>3. cur + Len(more) <= b /\ l.current <= cur /\ cur = l.current
      <4>1. cur + Len(more) = until /\ until <= b
        BY <3>1, Zenon
      <4>2. cur <= cur
        BY <1>1
      <4>. QED
        BY <1>1, <4>1, <4>2, Zenon
    <3>. QED
      BY <3>1, <3>2, <3>3
  <2>12. Longer(m, l, cur, more) /\ NoneBefore(cur, l) /\ m.current <= b
    BY <1>1, <2>7, <2>10, <2>11 DEF Longer, NoneBefore
  <2>13. Fetched(m, a, b, gone)
    BY <2>5, <2>11, <2>12, FetchGrows
  <2>. QED
    BY <1>2, <2>10, <2>13
<1>4. CASE ~l.known
  <2>1. m = [l EXCEPT !.current = until, !.out = l.out]
    BY <1>2, <1>4 DEF Quiet
  <2>2. Keeps(m, l) /\ m.out = l.out /\ m.current = until /\ (m.known <=> l.known)
    BY <1>0, <2>1 DEF Keeps, Loads
  <2>3. l.out = <<>> /\ l.until = b
    BY <1>4 DEF Fetched
  <2>4. ASSUME ~gone PROVE Holds(<<>>, a, until)
    <3>1. ASSUME NEW t \in Traded, a <= t, t < until PROVE t \in TimesOf(<<>>)
      <4>1. t \in Int /\ ~silent
        BY <2>4, StoreAssumption
      <4>2. Holds(<<>>, a, cur)
        BY <1>1, <2>3, <4>1 DEF Fetched
      <4>3. t < cur
        BY <1>1, <2>4, <3>1, <4>1
      <4>. QED
        BY <3>1, <4>2, <4>3 DEF Holds
    <3>. QED
      BY <3>1 DEF Holds
  <2>5. m.out = <<>> /\ m.until = b /\ m.current = until /\ ~m.known
    BY <1>4, <2>2, <2>3 DEF Keeps
  <2>6. a <= until /\ until <= b
    BY <1>1
  <2>7. Fetched(m, a, b, gone)
    BY <2>4, <2>5, <2>6, EmptyRun DEF Fetched
  <2>. QED
    BY <1>2, <2>2, <2>7
<1>. QED
  BY <1>3, <1>4

------------------------------------------------------------------------------
(* From one block to the next *)

LEMMA SameWindow ==
  ASSUME NEW l, NEW m, m.from = l.from, m.to = l.to, m.existing = l.existing
  PROVE  CacheStart(m) = CacheStart(l) /\ SuffixStart(m) = SuffixStart(l)
BY DEF CacheStart, SuffixStart, CacheEnd

LEMMA WindowBounds ==
  ASSUME NEW l \in Loads, NEW kept \in Seq(Lines), NEW silent, NEW far, NEW today \in 0..MaxTime,
         KeptWell(kept, silent, far, today), Based(l, kept, far, today)
  PROVE  /\ l.from \in Nat /\ l.to \in Int /\ l.to <= today + 1
         /\ CacheStart(l) \in Int /\ CacheStart(l) <= today + 1
         /\ SuffixStart(l) \in Nat /\ l.from <= SuffixStart(l)
         /\ kept = <<>> => CacheStart(l) = l.to /\ SuffixStart(l) = l.from
         /\ kept # <<>> =>
              /\ CacheStart(l) = kept[1].t
              /\ kept[Len(kept)].t <= SuffixStart(l)
              /\ SuffixStart(l) \in {l.from, kept[Len(kept)].t}
              /\ kept[1].t \in Nat /\ kept[Len(kept)].t \in Nat
<1>1. l.from \in Nat /\ l.to \in Int /\ l.to <= today + 1 /\ l.existing = kept
  BY StoreAssumption DEF Loads, Based
<1>2. CASE kept = <<>>
  <2>1. CacheStart(l) = l.to /\ CacheEnd(l) = l.from
    BY <1>1, <1>2 DEF CacheStart, CacheEnd
  <2>2. SuffixStart(l) = Max({l.from, l.from})
    BY <2>1, Zenon DEF SuffixStart
  <2>3. SuffixStart(l) = l.from
    <3>1. l.from \in Int
      BY <1>1
    <3>2. Max({l.from, l.from}) \in {l.from, l.from}
      BY <3>1, LargerOfTwo, Zenon
    <3>. QED
      BY <2>2, <3>2
  <2>. QED
    BY <1>1, <1>2, <2>1, <2>3
<1>3. CASE kept # <<>>
  <2>1. PICK first, last \in 0..MaxTime :
          first = kept[1].t /\ last = kept[Len(kept)].t /\ Head(kept) = kept[1] /\ first <= today
    <3>1. 1 \in 1..Len(kept) /\ Len(kept) \in 1..Len(kept) /\ DOMAIN kept = 1..Len(kept)
          /\ Head(kept) = kept[1]
      BY <1>3, LineTimes
    <3>2. kept[1].t \in 0..MaxTime /\ kept[Len(kept)].t \in 0..MaxTime
      BY <3>1, LineTimes
    <3>. QED
      BY <3>1, <3>2 DEF KeptWell
  <2>2. CacheStart(l) = first /\ CacheEnd(l) = last
    BY <1>1, <1>3, <2>1 DEF CacheStart, CacheEnd, Last
  <2>3. SuffixStart(l) = Max({l.from, last})
    BY <2>2, Zenon DEF SuffixStart
  <2>4. first \in Nat /\ last \in Nat
    BY <2>1
  <2>5. SuffixStart(l) \in {l.from, last} /\ l.from <= SuffixStart(l) /\ last <= SuffixStart(l)
    <3>1. l.from \in Int /\ last \in Int
      BY <1>1, <2>4
    <3>. QED
      BY <2>3, <3>1, LargerOfTwo, Zenon
  <2>. QED
    BY <1>1, <1>3, <2>1, <2>2, <2>4, <2>5
<1>. QED
  BY <1>2, <1>3

(***************************************************************************)
(* A block that has just begun.                                            *)
(***************************************************************************)
LEMMA FetchBegins ==
  ASSUME NEW l \in Loads, NEW stage \in {"prefix", "suffix"}, NEW a \in Int, NEW b \in Int, a <= b,
         NEW silent
  PROVE  LET m == Fetching(l, stage, a, b) IN
         /\ m \in Loads /\ m.stage = stage /\ m.current = a
         /\ m.from = l.from /\ m.to = l.to /\ m.existing = l.existing
         /\ m.prefix = l.prefix /\ m.suffix = l.suffix /\ m.refused = l.refused
         /\ Fetched(m, a, b, silent)
<1>1. PICK m : m = Fetching(l, stage, a, b)
  OBVIOUS
<1>2. /\ m \in Loads /\ m.stage = stage /\ m.current = a /\ m.until = b
      /\ m.known = FALSE /\ m.out = <<>>
      /\ m.from = l.from /\ m.to = l.to /\ m.existing = l.existing
      /\ m.prefix = l.prefix /\ m.suffix = l.suffix /\ m.refused = l.refused
  BY <1>1, NoLines DEF Fetching, Loads, Stages
<1>3. Holds(<<>>, a, a)
  BY StoreAssumption DEF Holds
<1>4. Fetched(m, a, b, silent)
  BY <1>2, <1>3, EmptyRun DEF Fetched
<1>. QED
  BY <1>1, <1>2, <1>4

(***************************************************************************)
(* The suffix follows on a prefix that is done.                            *)
(***************************************************************************)
LEMMA NextIsSound ==
  ASSUME NEW l \in Loads, NEW kept \in Seq(Lines), NEW silent \in BOOLEAN, NEW far \in BOOLEAN,
         NEW today \in 0..MaxTime, KeptWell(kept, silent, far, today),
         Based(l, kept, far, today), PrefixDone(l, silent), l.suffix = <<>>
  PROVE  SuffixNext(l) \in Loads /\ SoundLoad(SuffixNext(l), kept, silent, far, today)
<1>1. PICK a \in Int : a = SuffixStart(l) /\ l.to \in Int /\ a \in Nat
  BY WindowBounds
<1>2. CASE a < l.to
  <2>1. PICK m : m = Fetching(l, "suffix", a, l.to)
    OBVIOUS
  <2>2. /\ m \in Loads /\ m.stage = "suffix" /\ m.current = a
        /\ m.from = l.from /\ m.to = l.to /\ m.existing = l.existing
        /\ m.prefix = l.prefix /\ m.suffix = l.suffix /\ m.refused = l.refused
        /\ Fetched(m, a, l.to, silent)
    BY <1>1, <1>2, <2>1, FetchBegins
  <2>3. SuffixNext(l) = m
    BY <1>1, <1>2, <2>1 DEF SuffixNext
  <2>4. CacheStart(m) = CacheStart(l) /\ SuffixStart(m) = a
    BY <1>1, <2>2, SameWindow
  <2>5. Based(m, kept, far, today) /\ PrefixDone(m, silent)
    BY <2>2, <2>4 DEF Based, PrefixDone
  <2>6. m.current < m.to /\ m.suffix = <<>> /\ Fetched(m, SuffixStart(m), m.to, silent)
    BY <1>2, <2>2, <2>4
  <2>. QED
    BY <2>2, <2>3, <2>5, <2>6 DEF SoundLoad
<1>3. CASE ~(a < l.to)
  <2>1. PICK m : m = [l EXCEPT !.stage = "write"]
    OBVIOUS
  <2>2. /\ m \in Loads /\ m.stage = "write"
        /\ m.from = l.from /\ m.to = l.to /\ m.existing = l.existing
        /\ m.prefix = l.prefix /\ m.suffix = <<>> /\ m.refused = l.refused
    BY <2>1 DEF Loads, Stages
  <2>3. SuffixNext(l) = m
    BY <1>1, <1>3, <2>1 DEF SuffixNext
  <2>4. CacheStart(m) = CacheStart(l) /\ SuffixStart(m) = a
    BY <1>1, <2>2, SameWindow
  <2>5. Based(m, kept, far, today) /\ PrefixDone(m, silent)
    BY <2>2, <2>4 DEF Based, PrefixDone
  <2>6. Holds(<<>>, a, l.to)
    <3>1. \A t \in Traded : t \in Int
      BY TradedTimes, Zenon
    <3>2. \A t \in Traded : ~(a <= t /\ t < l.to)
      BY <1>1, <1>3, <3>1
    <3>. QED
      BY <3>2, Zenon DEF Holds
  <2>7. Block(m.suffix, SuffixStart(m), m.to, m.refused, silent)
    BY <2>2, <2>4, <2>6, EmptyRun DEF Block
  <2>. QED
    BY <2>2, <2>3, <2>5, <2>7 DEF SoundLoad
<1>. QED
  BY <1>2, <1>3

(***************************************************************************)
(* What the block of a load reaches from and to.                           *)
(***************************************************************************)
BlockFrom(l) == IF l.stage = "prefix" THEN l.from ELSE SuffixStart(l)

BlockTo(l) == IF l.stage = "prefix" THEN CacheStart(l) ELSE l.to

Asking(l) == l.stage \in {"prefix", "suffix"}

LEMMA KeptStillWell ==
  ASSUME NEW kept \in Seq(Lines), NEW silent \in BOOLEAN, NEW gone \in BOOLEAN,
         NEW far \in BOOLEAN, NEW further \in BOOLEAN,
         NEW today \in Int, NEW later \in Int,
         KeptWell(kept, silent, far, today), today <= later,
         silent => gone, far => further
  PROVE  KeptWell(kept, gone, further, later)
<1>1. \A i \in DOMAIN kept : kept[i].t \in Int
  BY LineTimes
<1>. QED
  BY <1>1 DEF KeptWell

SameBlock(m, l) ==
  /\ m \in Loads
  /\ m.stage = l.stage /\ m.from = l.from /\ m.to = l.to /\ m.existing = l.existing
  /\ m.prefix = l.prefix /\ m.suffix = l.suffix /\ (l.refused => m.refused)

LEMMA EndedIsSound ==
  ASSUME NEW l \in Loads, NEW m, NEW kept \in Seq(Lines), NEW block \in Seq(Lines),
         NEW silent \in BOOLEAN, NEW gone \in BOOLEAN, NEW far \in BOOLEAN,
         NEW today \in 0..MaxTime, KeptWell(kept, gone, far, today),
         SoundLoad(l, kept, silent, far, today), Asking(l),
         silent => gone, SameBlock(m, l),
         Block(block, BlockFrom(l), BlockTo(l), m.refused, gone)
  PROVE  Ended(m, block) \in Loads /\ SoundLoad(Ended(m, block), kept, gone, far, today)
<1>1. Based(l, kept, far, today)
  BY DEF SoundLoad, Asking
<1>2. CASE l.stage = "prefix"
  <2>1. PICK n : n = [m EXCEPT !.prefix = block]
    OBVIOUS
  <2>2. /\ n \in Loads /\ n.prefix = block /\ n.suffix = <<>> /\ n.refused = m.refused
        /\ n.from = l.from /\ n.to = l.to /\ n.existing = l.existing
    BY <1>2, <2>1 DEF Loads, SoundLoad, SameBlock
  <2>3. CacheStart(n) = CacheStart(l)
    BY <2>2, SameWindow
  <2>4. Block(n.prefix, n.from, CacheStart(n), n.refused, gone)
    BY <1>2, <2>2, <2>3 DEF BlockFrom, BlockTo
  <2>5. Based(n, kept, far, today) /\ PrefixDone(n, gone)
    BY <1>1, <2>2, <2>4 DEF Based, PrefixDone
  <2>6. SuffixNext(n) \in Loads /\ SoundLoad(SuffixNext(n), kept, gone, far, today)
    BY <2>2, <2>5, NextIsSound
  <2>7. Ended(m, block) = SuffixNext(n)
    BY <1>2, <2>1 DEF Ended, SameBlock
  <2>. QED
    BY <2>6, <2>7
<1>3. CASE l.stage = "suffix"
  <2>1. PICK n : n = [m EXCEPT !.suffix = block, !.stage = "write"]
    OBVIOUS
  <2>2. /\ n \in Loads /\ n.suffix = block /\ n.prefix = l.prefix /\ n.refused = m.refused
        /\ n.from = l.from /\ n.to = l.to /\ n.existing = l.existing /\ n.stage = "write"
    BY <2>1 DEF Loads, Stages, SameBlock
  <2>3. CacheStart(n) = CacheStart(l) /\ SuffixStart(n) = SuffixStart(l)
    BY <2>2, SameWindow
  <2>4. Block(n.suffix, SuffixStart(n), n.to, n.refused, gone)
    BY <1>3, <2>2, <2>3 DEF BlockFrom, BlockTo
  <2>5. Block(l.prefix, l.from, CacheStart(l), l.refused, silent)
    BY <1>3 DEF SoundLoad, PrefixDone
  <2>6. Block(n.prefix, n.from, CacheStart(n), n.refused, gone)
    BY <2>2, <2>3, <2>5 DEF Block, SameBlock
  <2>7. Based(n, kept, far, today) /\ PrefixDone(n, gone)
    BY <1>1, <2>2, <2>6 DEF Based, PrefixDone
  <2>8. Ended(m, block) = n
    BY <1>3, <2>1 DEF Ended, SameBlock
  <2>. QED
    BY <2>2, <2>4, <2>7, <2>8 DEF SoundLoad
<1>. QED
  BY <1>2, <1>3 DEF Asking

LEMMA ContinuedIsSound ==
  ASSUME NEW l \in Loads, NEW m, NEW kept \in Seq(Lines),
         NEW silent \in BOOLEAN, NEW gone \in BOOLEAN, NEW far \in BOOLEAN,
         NEW today \in 0..MaxTime, KeptWell(kept, gone, far, today),
         SoundLoad(l, kept, silent, far, today), Asking(l),
         silent => gone,
         Keeps(m, l), Fetched(m, BlockFrom(l), BlockTo(l), gone)
  PROVE  Continued(m) \in Loads /\ SoundLoad(Continued(m), kept, gone, far, today)
<1>1. /\ m \in Loads /\ m.out \in Seq(Lines) /\ m.current \in Int
      /\ m.stage = l.stage /\ m.from = l.from /\ m.to = l.to /\ m.existing = l.existing
      /\ m.prefix = l.prefix /\ m.suffix = l.suffix /\ m.refused = l.refused
  BY DEF Keeps, Loads
<1>2. CacheStart(m) = CacheStart(l) /\ SuffixStart(m) = SuffixStart(l)
  BY <1>1, SameWindow
<1>3. m.until = BlockTo(l) /\ m.current <= BlockTo(l)
  BY DEF Fetched
<1>4. Based(l, kept, far, today)
  BY DEF SoundLoad, Asking
<1>5. BlockTo(l) \in Int
  BY <1>4, WindowBounds DEF BlockTo, Loads
<1>6. CASE m.current < m.until
  <2>1. Continued(m) = m
    BY <1>6 DEF Continued
  <2>2. Based(m, kept, far, today)
    BY <1>1, <1>4 DEF Based
  <2>3. CASE l.stage = "prefix"
    <3>1. BlockFrom(l) = m.from /\ BlockTo(l) = CacheStart(m)
      BY <1>1, <1>2, <2>3 DEF BlockFrom, BlockTo
    <3>2. m.prefix = <<>> /\ m.suffix = <<>>
      BY <1>1, <2>3 DEF SoundLoad
    <3>3. Fetched(m, m.from, CacheStart(m), gone) /\ m.current < CacheStart(m)
      BY <1>3, <1>6, <3>1
    <3>. QED
      BY <1>1, <2>1, <2>2, <2>3, <3>2, <3>3 DEF SoundLoad
  <2>4. CASE l.stage = "suffix"
    <3>1. BlockFrom(l) = SuffixStart(m) /\ BlockTo(l) = m.to
      BY <1>1, <1>2, <2>4 DEF BlockFrom, BlockTo
    <3>2. Block(l.prefix, l.from, CacheStart(l), l.refused, silent) /\ m.suffix = <<>>
      BY <1>1, <2>4 DEF SoundLoad, PrefixDone
    <3>3. PrefixDone(m, gone)
      BY <1>1, <1>2, <3>2 DEF PrefixDone, Block
    <3>4. Fetched(m, SuffixStart(m), m.to, gone) /\ m.current < m.to
      BY <1>3, <1>6, <3>1
    <3>. QED
      BY <1>1, <2>1, <2>2, <2>4, <3>2, <3>3, <3>4 DEF SoundLoad
  <2>. QED
    BY <2>3, <2>4 DEF Asking
<1>7. CASE ~(m.current < m.until)
  <2>1. m.current = BlockTo(l)
    BY <1>1, <1>3, <1>5, <1>7
  <2>2. Block(m.out, BlockFrom(l), BlockTo(l), m.refused, gone)
    BY <2>1 DEF Fetched, Block
  <2>3. Continued(m) = Ended(m, m.out)
    BY <1>7 DEF Continued
  <2>4. SameBlock(m, l)
    BY <1>1 DEF SameBlock
  <2>5. Ended(m, m.out) \in Loads /\ SoundLoad(Ended(m, m.out), kept, gone, far, today)
    BY <1>1, <2>2, <2>4, EndedIsSound
  <2>. QED
    BY <2>3, <2>5
<1>. QED
  BY <1>6, <1>7

(***************************************************************************)
(* One request of a load.                                                  *)
(***************************************************************************)
LEMMA FetchChunkSound ==
  ASSUME StoreSound, FetchChunk
  PROVE  StoreSound'
<1>1. PICK l, kept, silent, far : /\ l = load /\ kept = Readable(file) /\ silent = lost /\ far = skipped
  OBVIOUS
<1>2. /\ l \in Loads /\ kept \in Seq(Lines) /\ silent \in BOOLEAN /\ far \in BOOLEAN
      /\ now \in 0..MaxTime /\ faults \in 0..MaxFaults
      /\ KeptWell(kept, silent, far, now) /\ SoundLoad(l, kept, silent, far, now)
      /\ Asking(l)
      /\ l.current \in Int
  <2>1. kept \in Seq(Lines)
    BY <1>1, ReadableReads DEF StoreSound, StoreTypes, ReadsAs
  <2>. QED
    BY <1>1, <2>1 DEF StoreSound, StoreTypes, FetchChunk, Loads, Asking
<1>3. Based(l, kept, far, now)
  BY <1>2 DEF SoundLoad, Asking
<1>4. PICK a \in Nat, b \in Int :
        /\ a = BlockFrom(l) /\ b = BlockTo(l) /\ b <= now + 1
        /\ Fetched(l, a, b, silent) /\ l.current < b
  <2>1. /\ l.from \in Nat /\ l.to \in Int /\ l.to <= now + 1
        /\ CacheStart(l) \in Int /\ CacheStart(l) <= now + 1
        /\ SuffixStart(l) \in Nat
    BY <1>2, <1>3, WindowBounds, Zenon
  <2>2. BlockFrom(l) \in Nat /\ BlockTo(l) \in Int /\ BlockTo(l) <= now + 1
    BY <2>1 DEF BlockFrom, BlockTo
  <2>3. Fetched(l, BlockFrom(l), BlockTo(l), silent) /\ l.current < BlockTo(l)
    BY <1>2 DEF SoundLoad, BlockFrom, BlockTo, Asking
  <2>. QED
    BY <2>2, <2>3
<1>5. PICK until \in Int : /\ until = Min({l.current + Chunk, l.until})
                           /\ l.current < until /\ until <= b
  <2>1. l.until = b /\ l.current + Chunk \in Int /\ l.current < l.current + Chunk
    BY <1>2, <1>4, StoreAssumption DEF Fetched
  <2>2. PICK x \in Int, y \in Int : x = l.current + Chunk /\ y = l.until
    BY <1>4, <2>1
  <2>3. PICK until \in Int : until = Min({x, y}) /\ until \in {x, y} /\ until <= x /\ until <= y
    <3>1. Min({x, y}) \in {x, y} /\ Min({x, y}) <= x /\ Min({x, y}) <= y
      BY SmallerOfTwo, Zenon
    <3>. QED
      BY <3>1
  <2>4. until = Min({l.current + Chunk, l.until})
    BY <2>2, <2>3, Zenon
  <2>. QED
    BY <1>4, <2>1, <2>2, <2>3, <2>4
<1>6. PICK there : there = {t \in Traded : l.current <= t /\ t < until /\ t <= now}
  OBVIOUS
<1>7. b <= MaxTime + 1
  BY <1>2, <1>4, StoreAssumption
<1>8. UNCHANGED <<now, files, skipped>>
  BY DEF FetchChunk
<1>9. SUFFICES /\ load' \in Loads /\ lost' \in BOOLEAN /\ faults' \in 0..MaxFaults
               /\ (silent => lost')
               /\ SoundLoad(load', kept, lost', far, now)
  <2>1. now' = now /\ file' = file /\ skipped' = skipped /\ Readable(file') = kept
    BY <1>1, <1>8, Zenon DEF files
  <2>2. KeptWell(kept, lost', far, now)
    BY <1>2, <1>9, KeptStillWell
  <2>3. StoreTypes'
    BY <1>8, <1>9 DEF StoreSound, StoreTypes, files
  <2>. QED
    BY <1>1, <1>9, <2>1, <2>2, <2>3 DEF StoreSound
<1>10. \/ /\ load' = Continued(IF there = {} THEN Quiet(l, until) ELSE Received(l, there))
          /\ UNCHANGED <<faults, lost>>
       \/ /\ StoreFails("silence")
          /\ load' = Continued(Quiet(l, until))
          /\ lost' = TRUE
       \/ /\ StoreFails("http")
          /\ load' = Ended([l EXCEPT !.refused = TRUE], <<>>)
          /\ UNCHANGED lost
  BY <1>1, <1>5, <1>6, Zenon DEF FetchChunk
<1>11. CASE /\ load' = Continued(IF there = {} THEN Quiet(l, until) ELSE Received(l, there))
            /\ UNCHANGED <<faults, lost>>
  <2>1. PICK m : m = IF there = {} THEN Quiet(l, until) ELSE Received(l, there)
    OBVIOUS
  <2>2. Keeps(m, l) /\ Fetched(m, a, b, silent)
    <3>1. CASE there = {}
      <4>1. \A t \in Traded : t \in Int
        BY StoreAssumption
      <4>2. \A t \in Traded : ~(l.current <= t /\ t < until)
        <5>. SUFFICES ASSUME NEW t \in Traded, l.current <= t, t < until PROVE FALSE
          OBVIOUS
        <5>1. t <= now
          BY <1>2, <1>4, <1>5, <4>1
        <5>. QED
          BY <1>6, <3>1, <5>1
      <4>. QED
        BY <1>2, <1>4, <1>5, <1>7, <2>1, <3>1, <4>2, QuietFetches
    <3>2. CASE there # {}
      BY <1>2, <1>4, <1>5, <1>6, <2>1, <3>2, ReceivedFetches
    <3>. QED
      BY <3>1, <3>2
  <2>3. Continued(m) \in Loads /\ SoundLoad(Continued(m), kept, silent, far, now)
    BY <1>2, <1>4, <2>2, ContinuedIsSound
  <2>. QED
    BY <1>1, <1>2, <1>11, <2>1, <2>3
<1>12. CASE /\ StoreFails("silence")
            /\ load' = Continued(Quiet(l, until))
            /\ lost' = TRUE
  <2>0. PICK gone \in BOOLEAN : gone
    OBVIOUS
  <2>1. PICK m : m = Quiet(l, until)
    OBVIOUS
  <2>2. Keeps(m, l) /\ Fetched(m, a, b, gone)
    BY <1>2, <1>4, <1>5, <1>7, <2>0, <2>1, QuietFetches
  <2>3. KeptWell(kept, gone, far, now)
    BY <1>2, <2>0 DEF KeptWell
  <2>4. Continued(m) \in Loads /\ SoundLoad(Continued(m), kept, gone, far, now)
    <3>1. silent => gone
      BY <2>0
    <3>2. Fetched(m, BlockFrom(l), BlockTo(l), gone)
      BY <1>4, <2>2
    <3>. QED
      BY <1>2, <3>1, <3>2, <2>2, <2>3, ContinuedIsSound
  <2>5. lost' = gone /\ lost' \in BOOLEAN
    BY <1>12, <2>0
  <2>6. faults' \in 0..MaxFaults
    BY <1>2, <1>12, StoreAssumption DEF StoreFails
  <2>7. load' = Continued(m)
    BY <1>12, <2>1
  <2>. QED
    BY <2>0, <2>4, <2>5, <2>6, <2>7
<1>13. CASE /\ StoreFails("http")
            /\ load' = Ended([l EXCEPT !.refused = TRUE], <<>>)
            /\ UNCHANGED lost
  <2>1. PICK m : m = [l EXCEPT !.refused = TRUE]
    OBVIOUS
  <2>2. SameBlock(m, l) /\ m.refused
    BY <1>2, <2>1 DEF Loads, SameBlock
  <2>3. Block(<<>>, BlockFrom(l), BlockTo(l), m.refused, silent)
    BY <2>2, EmptyRun DEF Block
  <2>4. PICK block \in Seq(Lines) : block = <<>>
    BY NoLines
  <2>5. Ended(m, block) \in Loads /\ SoundLoad(Ended(m, block), kept, silent, far, now)
    <3>1. Block(block, BlockFrom(l), BlockTo(l), m.refused, silent) /\ SameBlock(m, l)
      BY <2>2, <2>3, <2>4
    <3>. QED
      BY <1>2, <3>1, EndedIsSound
  <2>. QED
    BY <1>1, <1>2, <1>13, <2>1, <2>4, <2>5, StoreAssumption DEF StoreFails
<1>. QED
  BY <1>10, <1>11, <1>12, <1>13

------------------------------------------------------------------------------
(* Writing *)

(***************************************************************************)
(* What a file kept stays well kept when its end is cut off.               *)
(***************************************************************************)
FirstOf(r, s) ==
  /\ r \in Seq(Lines) /\ s \in Seq(Lines)
  /\ Len(r) <= Len(s) /\ \A i \in 1..Len(r) : r[i] = s[i]

LEMMA CutIsKeptWell ==
  ASSUME NEW r, NEW s, FirstOf(r, s), NEW silent \in BOOLEAN, NEW far \in BOOLEAN,
         NEW today \in Int, KeptWell(s, silent, far, today)
  PROVE  KeptWell(r, silent, far, today)
<1>1. PICK m, n : m = Len(r) /\ n = Len(s)
  OBVIOUS
<1>2. /\ m \in Nat /\ n \in Nat /\ m <= n /\ DOMAIN r = 1..m /\ DOMAIN s = 1..n
      /\ \A i \in 1..m : i \in 1..n /\ r[i] = s[i]
      /\ \A i \in 1..n : s[i].t \in Int
      /\ r # <<>> => m > 0
  BY <1>1, LineTimes DEF FirstOf
<1>3. InOrder(r) /\ \A i \in DOMAIN r : r[i].t <= today
  BY <1>2 DEF KeptWell, InOrder
<1>4. ASSUME ~silent, ~far, r # <<>> PROVE Covers(r)
  <2>1. m \in 1..n /\ 1 \in 1..m /\ m \in 1..m /\ s # <<>>
    BY <1>1, <1>2, <1>4, NoLines
  <2>2. /\ \A t \in Traded : s[1].t <= t /\ t <= s[n].t => t \in TimesOf(s)
        /\ InOrder(s)
    BY <1>1, <1>4, <2>1 DEF KeptWell, Covers
  <2>3. ASSUME NEW t \in Traded, r[1].t <= t, t <= r[m].t PROVE \E i \in 1..m : r[i].t = t
    <3>1. t \in Int /\ s[m].t \in Int /\ s[n].t \in Int
      BY <1>2, <2>1, TradedTimes
    <3>2. s[1].t <= t /\ t <= s[m].t
      BY <1>2, <2>1, <2>3
    <3>3. s[m].t <= s[n].t
      <4>1. CASE m = n
        BY <3>1, <4>1
      <4>2. CASE m # n
        <5>1. m < n /\ n \in 1..n
          BY <1>2, <2>1, <4>2
        <5>. QED
          BY <1>2, <2>1, <2>2, <5>1 DEF InOrder
      <4>. QED
        BY <4>1, <4>2
    <3>4. t \in TimesOf(s)
      BY <2>2, <3>1, <3>2, <3>3
    <3>5. PICK i \in 1..n : s[i].t = t
      BY <1>2, <3>4 DEF TimesOf
    <3>6. CASE i \in 1..m
      BY <1>2, <3>5, <3>6
    <3>7. CASE i \notin 1..m
      <4>1. m < i
        BY <1>2, <3>7
      <4>2. s[m].t <= s[i].t
        BY <1>2, <2>1, <2>2, <4>1 DEF InOrder
      <4>3. s[m].t = t /\ r[m] = s[m]
        BY <1>2, <2>1, <3>1, <3>2, <3>5, <4>2
      <4>. QED
        BY <2>1, <4>3
    <3>. QED
      BY <3>6, <3>7
  <2>. QED
    BY <1>1, <1>2, <2>3 DEF Covers, TimesOf
<1>. QED
  BY <1>3, <1>4 DEF KeptWell

LEMMA RunIsStrict ==
  ASSUME NEW lines \in Seq(Lines), NEW a \in Int, NEW b \in Int, Run(lines, a, b)
  PROVE  Strictly(lines) /\ \A t \in TimesOf(lines) : t \in Int /\ a <= t /\ t < b
<1>1. /\ Len(lines) \in Nat /\ DOMAIN lines = 1..Len(lines)
      /\ \A i \in 1..Len(lines) : lines[i].t \in Int
      /\ \A i \in 1..Len(lines) : lines[i].t = lines[1].t + i - 1 /\ a <= lines[i].t /\ lines[i].t < b
  BY LineTimes DEF Run
<1>2. ASSUME NEW i \in 1..Len(lines), NEW j \in 1..Len(lines), i < j PROVE lines[i].t < lines[j].t
  <2>1. 1 \in 1..Len(lines)
    BY <1>1
  <2>2. lines[1].t \in Int
    BY <1>1, <2>1
  <2>. QED
    BY <1>1, <1>2, <2>2
<1>. QED
  BY <1>1, <1>2 DEF Strictly, TimesOf

LEMMA StrictIsInOrder ==
  ASSUME NEW lines \in Seq(Lines), Strictly(lines)
  PROVE  InOrder(lines)
<1>1. \A i \in DOMAIN lines : lines[i].t \in Int
  BY LineTimes
<1>. QED
  BY <1>1 DEF Strictly, InOrder

LEMMA OrderJoined ==
  ASSUME NEW a \in Seq(Lines), NEW b \in Seq(Lines), InOrder(a), InOrder(b),
         \A i \in 1..Len(a), j \in 1..Len(b) : a[i].t <= b[j].t
  PROVE  InOrder(a \o b)
<1>1. PICK s, m, n : s = a \o b /\ m = Len(a) /\ n = Len(b)
  OBVIOUS
<1>2. /\ m \in Nat /\ n \in Nat /\ DOMAIN a = 1..m /\ DOMAIN b = 1..n
      /\ s \in Seq(Lines) /\ Len(s) = m + n
      /\ \A i \in 1..m : s[i] = a[i]
      /\ \A i \in 1..n : s[m + i] = b[i]
  BY <1>1, LineTimes, JoinedLines
<1>3. DOMAIN s = 1..(m + n)
  BY <1>2, LineTimes
<1>4. ASSUME NEW i \in 1..(m + n)
      PROVE  i \in 1..m \/ \E k \in 1..n : i = m + k
  <2>1. i \in 1..m \/ (i - m \in 1..n /\ i = m + (i - m))
    BY <1>2
  <2>. QED
    BY <2>1
<1>5. ASSUME NEW i \in 1..(m + n), NEW j \in 1..(m + n), i < j PROVE s[i].t <= s[j].t
  <2>1. CASE i \in 1..m /\ j \in 1..m
    BY <1>2, <1>5, <2>1 DEF InOrder
  <2>2. CASE i \in 1..m /\ j \notin 1..m
    <3>1. PICK k \in 1..n : j = m + k
      BY <1>4, <2>2
    <3>2. a[i].t <= b[k].t
      BY <1>1, <2>2
    <3>. QED
      BY <1>2, <2>2, <3>1, <3>2
  <2>3. CASE i \notin 1..m
    <3>1. PICK k \in 1..n : i = m + k
      BY <1>4, <2>3
    <3>2. j \notin 1..m
      BY <1>2, <1>5, <2>3
    <3>3. PICK h \in 1..n : j = m + h
      BY <1>4, <3>2
    <3>4. k < h
      BY <1>2, <1>5, <3>1, <3>3
    <3>5. b[k].t <= b[h].t
      BY <1>2, <3>4 DEF InOrder
    <3>. QED
      BY <1>2, <3>1, <3>3, <3>5
  <2>. QED
    BY <2>1, <2>2, <2>3
<1>. QED
  BY <1>1, <1>3, <1>5 DEF InOrder

(***************************************************************************)
(* The times of the prefix, of the file and of the suffix, and where each  *)
(* of them begins.                                                         *)
(***************************************************************************)
Layout(P, E, S, from, to, start, next, first, last) ==
  /\ \A t \in P : t \in Int /\ from <= t /\ t < start
  /\ \A t \in E : t \in Int /\ first <= t /\ t <= last
  /\ \A t \in S : t \in Int /\ next <= t /\ t < to
  /\ from <= next
  /\ E = {} => start = to /\ next = from
  /\ E # {} => /\ start = first /\ first <= last /\ last <= next /\ next \in {from, last}
              /\ from <= last + 1

HasTraded(T, a, b) == \A t \in Traded : a <= t /\ t < b => t \in T

LEMMA NoGap ==
  ASSUME NEW P, NEW E, NEW S, NEW from \in Int, NEW to \in Int, NEW start \in Int, NEW next \in Int,
         NEW first \in Int, NEW last \in Int,
         Layout(P, E, S, from, to, start, next, first, last),
         P # {} => HasTraded(P, from, start),
         S # {} => HasTraded(S, next, to),
         E # {} => HasTraded(E, first, last + 1)
  PROVE  \A t \in Traded : \A v, u \in P \cup E \cup S :
           v <= t /\ t <= u => t \in P \cup E \cup S
<1>. SUFFICES ASSUME NEW t \in Traded, NEW v \in P \cup E \cup S, NEW u \in P \cup E \cup S,
                     v <= t, t <= u
              PROVE  t \in P \cup E \cup S
  BY Zenon
<1>0. t \in Int
  BY TradedTimes, Zenon
<1>1. u \in Int /\ v \in Int
  BY DEF Layout
<1>2. CASE P = {} /\ E = {}
  BY <1>0, <1>1, <1>2 DEF Layout, HasTraded
<1>3. CASE P = {} /\ E # {}
  <2>1. first <= t
    BY <1>0, <1>1, <1>3 DEF Layout
  <2>2. CASE t <= last
    BY <1>0, <1>3, <2>1, <2>2 DEF HasTraded
  <2>3. CASE ~(t <= last)
    <3>1. u \in S
      BY <1>0, <1>1, <1>3, <2>3 DEF Layout
    <3>2. next <= t /\ t < to
      BY <1>0, <1>1, <1>3, <2>3, <3>1 DEF Layout
    <3>. QED
      BY <3>1, <3>2 DEF HasTraded
  <2>. QED
    BY <2>2, <2>3
<1>4. CASE P # {} /\ E = {}
  <2>1. from <= t /\ t < start
    BY <1>0, <1>1, <1>4 DEF Layout
  <2>. QED
    BY <1>4, <2>1 DEF HasTraded
<1>5. CASE P # {} /\ E # {}
  <2>0. PICK p \in P : from <= p /\ p < first /\ p \in Int
    BY <1>5 DEF Layout
  <2>1. from <= t
    BY <1>0, <1>1, <1>5, <2>0 DEF Layout
  <2>2. CASE t < first
    BY <1>5, <2>1, <2>2 DEF HasTraded, Layout
  <2>3. CASE ~(t < first) /\ t <= last
    BY <1>0, <1>5, <2>3 DEF HasTraded
  <2>4. CASE ~(t <= last)
    <3>1. u \in S
      BY <1>0, <1>1, <1>5, <2>4 DEF Layout
    <3>2. next <= t /\ t < to
      BY <1>0, <1>1, <1>5, <2>1, <2>4, <3>1 DEF Layout
    <3>. QED
      BY <3>1, <3>2 DEF HasTraded
  <2>. QED
    BY <1>0, <2>2, <2>3, <2>4
<1>. QED
  BY <1>2, <1>3, <1>4, <1>5

LEMMA NoneMissing ==
  ASSUME NEW P, NEW E, NEW S, NEW from \in Int, NEW to \in Int, NEW start \in Int, NEW next \in Int,
         NEW first \in Int, NEW last \in Int,
         Layout(P, E, S, from, to, start, next, first, last),
         HasTraded(P, from, start), HasTraded(S, next, to),
         E # {} => HasTraded(E, first, last + 1)
  PROVE  HasTraded(P \cup E \cup S, from, to)
<1>. SUFFICES ASSUME NEW t \in Traded, from <= t, t < to PROVE t \in P \cup E \cup S
  BY Zenon DEF HasTraded
<1>0. t \in Int
  BY TradedTimes, Zenon
<1>1. CASE E = {}
  BY <1>0, <1>1 DEF Layout, HasTraded
<1>2. CASE E # {}
  <2>1. CASE t < first
    BY <1>0, <1>2, <2>1 DEF Layout, HasTraded
  <2>2. CASE ~(t < first) /\ t <= last
    BY <1>0, <1>2, <2>2 DEF HasTraded
  <2>3. CASE ~(t <= last)
    <3>1. next <= t
      BY <1>0, <1>2, <2>3 DEF Layout
    <3>. QED
      BY <3>1 DEF HasTraded
  <2>. QED
    BY <1>0, <2>1, <2>2, <2>3
<1>. QED
  BY <1>1, <1>2

LEMMA TimesAreListed ==
  ASSUME NEW lines \in Seq(Lines)
  PROVE  /\ lines = <<>> <=> TimesOf(lines) = {}
         /\ lines # <<>> => lines[1].t \in TimesOf(lines) /\ lines[Len(lines)].t \in TimesOf(lines)
<1>1. CASE lines = <<>>
  BY <1>1, NoLines
<1>2. CASE lines # <<>>
  <2>1. 1 \in 1..Len(lines) /\ Len(lines) \in 1..Len(lines) /\ DOMAIN lines = 1..Len(lines)
    BY <1>2, LineTimes
  <2>2. lines[1].t \in TimesOf(lines) /\ lines[Len(lines)].t \in TimesOf(lines)
    BY <2>1 DEF TimesOf
  <2>. QED
    BY <1>2, <2>2
<1>. QED
  BY <1>1, <1>2

LEMMA OrderBounds ==
  ASSUME NEW lines \in Seq(Lines), InOrder(lines), lines # <<>>
  PROVE  \A t \in TimesOf(lines) : t \in Int /\ lines[1].t <= t /\ t <= lines[Len(lines)].t
<1>1. /\ Len(lines) \in Nat /\ 1 \in 1..Len(lines) /\ Len(lines) \in 1..Len(lines)
      /\ DOMAIN lines = 1..Len(lines)
      /\ \A i \in 1..Len(lines) : lines[i].t \in Int
  BY LineTimes
<1>2. ASSUME NEW i \in 1..Len(lines) PROVE lines[1].t <= lines[i].t /\ lines[i].t <= lines[Len(lines)].t
  <2>1. lines[1].t <= lines[i].t
    <3>1. CASE i = 1
      BY <1>1, <3>1
    <3>2. CASE i # 1
      <4>1. 1 < i
        BY <1>1, <3>2
      <4>. QED
        BY <1>1, <4>1 DEF InOrder
    <3>. QED
      BY <3>1, <3>2
  <2>2. lines[i].t <= lines[Len(lines)].t
    <3>1. CASE i = Len(lines)
      BY <1>1, <3>1
    <3>2. CASE i # Len(lines)
      <4>1. i < Len(lines)
        <5>1. PICK n \in Nat : n = Len(lines) /\ i \in 1..n /\ i # n
          BY <1>1, <3>2
        <5>. QED
          BY <5>1
      <4>. QED
        BY <1>1, <4>1 DEF InOrder
    <3>. QED
      BY <3>1, <3>2
  <2>. QED
    BY <2>1, <2>2
<1>. QED
  BY <1>1, <1>2 DEF TimesOf

(***************************************************************************)
(* What the file holds after a load, when both of its blocks are done.     *)
(***************************************************************************)
LEMMA CandlesAreSound ==
  ASSUME NEW l \in Loads, NEW kept \in Seq(Lines), NEW silent \in BOOLEAN, NEW far \in BOOLEAN,
         NEW today \in 0..MaxTime, KeptWell(kept, silent, far, today),
         SoundLoad(l, kept, silent, far, today), l.stage = "write"
  PROVE  /\ Candles(l) \in Seq(Lines)
         /\ KeptWell(Candles(l), silent, far, today)
         /\ ~silent /\ ~far /\ ~l.refused => Holds(Candles(l), l.from, l.to)
         /\ l.prefix = <<>> => Candles(l) = kept \o l.suffix
<1>1. /\ Based(l, kept, far, today) /\ l.existing = kept
      /\ Block(l.prefix, l.from, CacheStart(l), l.refused, silent)
      /\ Block(l.suffix, SuffixStart(l), l.to, l.refused, silent)
      /\ l.prefix \in Seq(Lines) /\ l.suffix \in Seq(Lines)
      /\ today \in Int /\ today + 1 \in Int
  BY StoreAssumption DEF SoundLoad, PrefixDone, Loads, Based
<1>2. /\ l.from \in Nat /\ l.to \in Int /\ l.to <= today + 1
      /\ CacheStart(l) \in Int /\ CacheStart(l) <= today + 1
      /\ SuffixStart(l) \in Nat /\ l.from <= SuffixStart(l)
      /\ kept = <<>> => CacheStart(l) = l.to /\ SuffixStart(l) = l.from
      /\ kept # <<>> =>
           /\ CacheStart(l) = kept[1].t
           /\ kept[Len(kept)].t <= SuffixStart(l)
           /\ SuffixStart(l) \in {l.from, kept[Len(kept)].t}
           /\ kept[1].t \in Nat /\ kept[Len(kept)].t \in Nat
  BY <1>1, WindowBounds, Zenon
<1>3. PICK P, E, S : P = TimesOf(l.prefix) /\ E = TimesOf(kept) /\ S = TimesOf(l.suffix)
  OBVIOUS
<1>4. PICK from \in Int, to \in Int, start \in Int, next \in Int :
        from = l.from /\ to = l.to /\ start = CacheStart(l) /\ next = SuffixStart(l)
  BY <1>2
<1>5. PICK first \in Int, last \in Int :
        kept # <<>> => first = kept[1].t /\ last = kept[Len(kept)].t
  <2>1. CASE kept = <<>>
    BY <2>1
  <2>2. CASE kept # <<>>
    BY <1>2, <2>2
  <2>. QED
    BY <2>1, <2>2
<1>6. /\ l.prefix = <<>> <=> P = {}
      /\ kept = <<>> <=> E = {}
      /\ l.suffix = <<>> <=> S = {}
  BY <1>1, <1>3, TimesAreListed
<1>7. /\ \A t \in P : t \in Int /\ from <= t /\ t < start
      /\ \A t \in S : t \in Int /\ next <= t /\ t < to
      /\ Strictly(l.prefix) /\ Strictly(l.suffix)
  BY <1>1, <1>3, <1>4, RunIsStrict DEF Block
<1>8. InOrder(kept) /\ \A i \in DOMAIN kept : kept[i].t <= today
  BY DEF KeptWell
<1>9. \A t \in E : t \in Int /\ first <= t /\ t <= last /\ t <= today
  <2>1. E # {} => \A t \in E : t \in Int /\ first <= t /\ t <= last
    BY <1>3, <1>5, <1>6, <1>8, OrderBounds
  <2>2. \A t \in E : t <= today
    BY <1>3, <1>8 DEF TimesOf
  <2>. QED
    BY <2>1, <2>2
<1>10. /\ E = {} => start = to /\ next = from
       /\ E # {} => start = first /\ first <= last /\ last <= next /\ next \in {from, last}
  <2>1. E # {} => first \in E
    BY <1>3, <1>5, <1>6, TimesAreListed
  <2>. QED
    BY <1>2, <1>4, <1>5, <1>6, <1>9, <2>1
<1>11. ASSUME ~far PROVE Layout(P, E, S, from, to, start, next, first, last)
  <2>1. E # {} => from <= last + 1
    BY <1>1, <1>4, <1>5, <1>6, <1>11 DEF Based
  <2>2. from <= next
    BY <1>2, <1>4
  <2>. QED
    BY <1>7, <1>9, <1>10, <2>1, <2>2 DEF Layout
<1>12. /\ ~silent /\ (P # {} \/ ~l.refused) => HasTraded(P, from, start)
       /\ ~silent /\ (S # {} \/ ~l.refused) => HasTraded(S, next, to)
  BY <1>1, <1>3, <1>4, <1>6 DEF Block, Holds, HasTraded
<1>13. ~silent /\ ~far /\ E # {} => HasTraded(E, first, last + 1)
  <2>. SUFFICES ASSUME ~silent, ~far, E # {}, NEW t \in Traded, first <= t, t < last + 1 PROVE t \in E
    BY DEF HasTraded
  <2>1. t \in Int
    BY TradedTimes, Zenon
  <2>2. first <= t /\ t <= last
    BY <2>1
  <2>. QED
    BY <1>3, <1>5, <1>6, <2>2 DEF KeptWell, Covers
<1>14. ASSUME ~silent, ~far
       PROVE  \A t \in Traded : \A v, u \in P \cup E \cup S :
                v <= t /\ t <= u => t \in P \cup E \cup S
  BY <1>11, <1>12, <1>13, <1>14, NoGap
<1>15. ASSUME ~silent, ~far, ~l.refused PROVE HasTraded(P \cup E \cup S, from, to)
  BY <1>11, <1>12, <1>13, <1>15, NoneMissing
<1>16. \A u \in P \cup E \cup S : u <= today
  <2>1. start <= today + 1 /\ to <= today + 1
    BY <1>2, <1>4
  <2>. QED
    BY <1>1, <1>7, <1>9, <2>1
<1>18. PICK c : c = Candles(l)
  OBVIOUS
<1>19. c \in Seq(Lines) /\ TimesOf(c) = P \cup E \cup S /\ InOrder(c)
       /\ (l.prefix = <<>> => c = kept \o l.suffix)
  <2>1. CASE l.prefix = <<>>
    <3>1. c = kept \o l.suffix
      BY <1>1, <1>18, <2>1 DEF Candles
    <3>2. c \in Seq(Lines) /\ TimesOf(c) = E \cup S
      BY <1>1, <1>3, <3>1, JoinedLines
    <3>3. InOrder(l.suffix)
      BY <1>1, <1>7, StrictIsInOrder
    <3>4. ASSUME NEW i \in 1..Len(kept), NEW j \in 1..Len(l.suffix) PROVE kept[i].t <= l.suffix[j].t
      <4>1. kept[i].t \in E /\ l.suffix[j].t \in S
        BY <1>1, <1>3, TimeListed
      <4>2. E # {}
        BY <4>1
      <4>. QED
        <5>1. kept[i].t \in Int /\ kept[i].t <= last /\ last <= next
          BY <1>9, <1>10, <4>1, <4>2
        <5>2. l.suffix[j].t \in Int /\ next <= l.suffix[j].t
          BY <1>7, <4>1
        <5>. QED
          BY <5>1, <5>2
    <3>5. InOrder(kept \o l.suffix)
      BY <1>1, <1>8, <3>3, <3>4, OrderJoined
    <3>. QED
      BY <1>6, <2>1, <3>1, <3>2, <3>5
  <2>2. CASE l.prefix # <<>>
    <3>1. PICK pe, pes : pe = l.prefix \o kept /\ pes = pe \o l.suffix
      OBVIOUS
    <3>2. pe \in Seq(Lines) /\ TimesOf(pe) = P \cup E
      BY <1>1, <1>3, <3>1, JoinedLines
    <3>3. pes \in Seq(Lines) /\ TimesOf(pes) = (P \cup E) \cup S
      <4>1. TimesOf(pe \o l.suffix) = TimesOf(pe) \cup TimesOf(l.suffix) /\ pe \o l.suffix \in Seq(Lines)
        BY <1>1, <3>2, JoinedLines
      <4>. QED
        BY <1>3, <3>1, <3>2, <4>1
    <3>4. c = OnePerTime(pes)
      BY <1>1, <1>18, <2>2, <3>1 DEF Candles, Merged
    <3>5. c \in Seq(Lines) /\ Strictly(c) /\ TimesOf(c) = TimesOf(pes)
      BY <3>3, <3>4, OnePerTimeLists, Zenon
    <3>. QED
      BY <2>2, <3>3, <3>5, StrictIsInOrder
  <2>. QED
    BY <2>1, <2>2
<1>20. KeptWell(c, silent, far, today)
  <2>1. \A i \in DOMAIN c : c[i].t <= today
    BY <1>16, <1>19 DEF TimesOf
  <2>2. ASSUME ~silent, ~far, c # <<>> PROVE Covers(c)
    <3>1. c[1].t \in TimesOf(c) /\ c[Len(c)].t \in TimesOf(c)
      BY <1>19, <2>2, TimesAreListed
    <3>. QED
      BY <1>14, <1>19, <2>2, <3>1 DEF Covers
  <2>. QED
    BY <1>19, <2>1, <2>2 DEF KeptWell
<1>21. ~silent /\ ~far /\ ~l.refused => Holds(c, l.from, l.to)
  BY <1>4, <1>15, <1>19 DEF Holds, HasTraded
<1>. QED
  BY <1>18, <1>19, <1>20, <1>21

(***************************************************************************)
(* Whatever part of its lines a load has written: what can be read then is *)
(* a first part of what it was about to leave.                             *)
(***************************************************************************)
LEMMA WrittenReads ==
  ASSUME NEW l \in Loads, NEW kept \in Seq(Lines), kept = Readable(file),
         file \in Seq(FileLines), NEW n \in 0..ToWrite(l),
         Candles(l) \in Seq(Lines), l.prefix = <<>> => Candles(l) = kept \o l.suffix
  PROVE  /\ Written(l, n) \in Seq(FileLines)
         /\ FirstOf(Readable(Written(l, n)), Candles(l))
<1>1. PICK c \in Seq(Lines) : c = Candles(l)
  OBVIOUS
<1>2. CASE l.prefix # <<>>
  <2>1. c = Merged(l) /\ ToWrite(l) = Len(c) /\ Written(l, n) = SubSeq(c, 1, n) /\ n \in 0..Len(c)
    BY <1>1, <1>2 DEF Candles, ToWrite, Written
  <2>2. PICK w : w = SubSeq(c, 1, n)
    OBVIOUS
  <2>3. w \in Seq(Lines) /\ Len(w) = n /\ \A i \in 1..n : w[i] = c[i]
    BY <2>1, <2>2, FirstLines
  <2>4. w \in Seq(FileLines) /\ Readable(w) = w
    BY <2>3, CandlesAreRead, Zenon
  <2>5. FirstOf(w, c)
    <3>1. Len(c) \in Nat /\ n <= Len(c)
      BY <2>1, LenProperties
    <3>. QED
      BY <2>3, <3>1 DEF FirstOf
  <2>. QED
    BY <1>1, <2>1, <2>2, <2>4, <2>5
<1>3. CASE l.prefix = <<>>
  <2>1. PICK s \in Seq(Lines) : s = l.suffix
    BY DEF Loads
  <2>2. n \in 0..Len(s) /\ c = kept \o s
    BY <1>1, <1>3, <2>1 DEF ToWrite
  <2>3. PICK w : w = SubSeq(s, 1, n)
    OBVIOUS
  <2>4. w \in Seq(Lines) /\ Len(w) = n /\ \A i \in 1..n : w[i] = s[i]
    BY <2>2, <2>3, FirstLines
  <2>5. Written(l, n) = Appended(file, w)
    BY <1>3, <2>1, <2>3 DEF Written
  <2>6. /\ Appended(file, w) \in Seq(FileLines)
        /\ \/ Readable(Appended(file, w)) = kept
           \/ Readable(Appended(file, w)) = kept \o w
    BY <2>4, AppendedIsRead, Zenon
  <2>7. /\ c \in Seq(Lines) /\ Len(c) = Len(kept) + Len(s) /\ Len(kept) \in Nat /\ Len(s) \in Nat
        /\ \A i \in 1..Len(kept) : c[i] = kept[i]
        /\ \A i \in 1..Len(s) : c[Len(kept) + i] = s[i]
    BY <2>2, JoinedLines, LenProperties
  <2>8. FirstOf(kept, c)
    BY <2>7 DEF FirstOf
  <2>9. FirstOf(kept \o w, c)
    <3>1. PICK d : d = kept \o w
      OBVIOUS
    <3>2. /\ d \in Seq(Lines) /\ Len(d) = Len(kept) + n
          /\ \A i \in 1..Len(kept) : d[i] = kept[i]
          /\ \A i \in 1..n : d[Len(kept) + i] = w[i]
      <4>1. /\ d \in Seq(Lines) /\ Len(d) = Len(kept) + Len(w)
            /\ \A i \in 1..Len(kept) : d[i] = kept[i]
            /\ \A i \in 1..Len(w) : d[Len(kept) + i] = w[i]
        <5>1. /\ kept \o w \in Seq(Lines) /\ Len(kept \o w) = Len(kept) + Len(w)
              /\ \A i \in 1..Len(kept) : (kept \o w)[i] = kept[i]
              /\ \A i \in 1..Len(w) : (kept \o w)[Len(kept) + i] = w[i]
          BY <2>4, JoinedLines, Zenon
        <5>. QED
          BY <3>1, <5>1
      <4>. QED
        BY <2>4, <4>1
    <3>3. ASSUME NEW i \in 1..Len(d) PROVE d[i] = c[i]
      <4>1. CASE i \in 1..Len(kept)
        BY <2>7, <3>2, <4>1
      <4>2. CASE i \notin 1..Len(kept)
        <5>1. i - Len(kept) \in 1..n /\ i = Len(kept) + (i - Len(kept))
          BY <2>2, <2>7, <3>2, <4>2
        <5>2. PICK k \in 1..n : i = Len(kept) + k
          BY <5>1
        <5>3. k \in 1..Len(s)
          BY <2>2, <2>7
        <5>. QED
          BY <2>4, <2>7, <3>2, <5>2, <5>3
      <4>. QED
        BY <4>1, <4>2
    <3>4. Len(d) <= Len(c)
      BY <2>2, <2>7, <3>2
    <3>. QED
      BY <2>7, <3>1, <3>2, <3>3, <3>4 DEF FirstOf
  <2>. QED
    BY <1>1, <2>5, <2>6, <2>8, <2>9
<1>. QED
  BY <1>2, <1>3

(***************************************************************************)
(* A load between its blocks and its end, and the file that it reads.      *)
(***************************************************************************)
LEMMA WritingIsSound ==
  ASSUME StoreSound, load.stage = "write"
  PROVE  /\ Candles(load) \in Seq(Lines)
         /\ InOrder(Candles(load))
         /\ ~lost /\ ~skipped /\ ~load.refused => Holds(Candles(load), load.from, load.to)
         /\ \A n \in 0..ToWrite(load) :
              /\ Written(load, n) \in Seq(FileLines)
              /\ KeptWell(Readable(Written(load, n)), lost, skipped, now)
<1>1. PICK l, kept, silent, far, today :
        l = load /\ kept = Readable(file) /\ silent = lost /\ far = skipped /\ today = now
  OBVIOUS
<1>2. /\ l \in Loads /\ kept \in Seq(Lines) /\ silent \in BOOLEAN /\ far \in BOOLEAN
      /\ today \in 0..MaxTime /\ l.stage = "write" /\ file \in Seq(FileLines)
      /\ KeptWell(kept, silent, far, today) /\ SoundLoad(l, kept, silent, far, today)
  <2>1. file \in Seq(FileLines) /\ kept \in Seq(Lines)
    BY <1>1, ReadableReads DEF StoreSound, StoreTypes, ReadsAs
  <2>. QED
    BY <1>1, <2>1 DEF StoreSound, StoreTypes
<1>3. /\ Candles(l) \in Seq(Lines)
      /\ KeptWell(Candles(l), silent, far, today)
      /\ ~silent /\ ~far /\ ~l.refused => Holds(Candles(l), l.from, l.to)
      /\ l.prefix = <<>> => Candles(l) = kept \o l.suffix
  BY <1>2, CandlesAreSound
<1>4. InOrder(Candles(l))
  BY <1>3 DEF KeptWell
<1>5. ASSUME NEW n \in 0..ToWrite(l)
      PROVE  /\ Written(l, n) \in Seq(FileLines)
             /\ KeptWell(Readable(Written(l, n)), silent, far, today)
  <2>1. Written(l, n) \in Seq(FileLines) /\ FirstOf(Readable(Written(l, n)), Candles(l))
    BY <1>1, <1>2, <1>3, WrittenReads, Zenon
  <2>2. today \in Int
    BY <1>2
  <2>. QED
    <3>1. PICK r, c : r = Readable(Written(l, n)) /\ c = Candles(l)
      OBVIOUS
    <3>2. FirstOf(r, c) /\ KeptWell(c, silent, far, today)
      BY <1>3, <2>1, <3>1
    <3>3. KeptWell(r, silent, far, today)
      BY <1>2, <2>2, <3>2, CutIsKeptWell
    <3>. QED
      BY <2>1, <3>1, <3>3
<1>. QED
  BY <1>1, <1>3, <1>4, <1>5

LEMMA WriteCandlesSound ==
  ASSUME StoreSound, WriteCandles
  PROVE  StoreSound'
<1>1. load.stage = "write" /\ load \in Loads
  BY DEF WriteCandles, StoreSound, StoreTypes
<1>2. /\ Candles(load) \in Seq(Lines) /\ InOrder(Candles(load))
      /\ ~lost /\ ~skipped /\ ~load.refused => Holds(Candles(load), load.from, load.to)
      /\ \A n \in 0..ToWrite(load) :
           /\ Written(load, n) \in Seq(FileLines)
           /\ KeptWell(Readable(Written(load, n)), lost, skipped, now)
  BY <1>1, WritingIsSound
<1>3. ToWrite(load) \in Nat
  <2>1. load.prefix # <<>> => Candles(load) = Merged(load)
    BY DEF Candles
  <2>2. load.suffix \in Seq(Lines)
    BY <1>1 DEF Loads
  <2>. QED
    BY <1>2, <2>1, <2>2, LenProperties DEF ToWrite
<1>4. ToWrite(load) \in 0..ToWrite(load)
  BY <1>3
<1>5. file' \in Seq(FileLines) /\ KeptWell(Readable(file'), lost, skipped, now)
  BY <1>2, <1>4, Zenon DEF WriteCandles
<1>6. PICK l, c : l = load /\ c = Candles(load)
  OBVIOUS
<1>7. load' = [l EXCEPT !.stage = "sign", !.existing = c]
  BY <1>6 DEF WriteCandles
<1>8. /\ load' \in Loads /\ load'.stage = "sign" /\ load'.existing = c /\ load'.from = l.from
      /\ load'.to = l.to /\ load'.refused = l.refused
  BY <1>1, <1>2, <1>6, <1>7 DEF Loads, Stages
<1>9. SoundLoad(load', Readable(file'), lost, skipped, now)
  BY <1>2, <1>6, <1>8 DEF SoundLoad
<1>10. UNCHANGED <<now, sigFile, signed, faults, lost, skipped>>
  BY DEF WriteCandles
<1>11. StoreTypes'
  BY <1>5, <1>8, <1>10 DEF StoreSound, StoreTypes
<1>. QED
  BY <1>5, <1>9, <1>10, <1>11 DEF StoreSound

(***************************************************************************)
(* The window is cut out of the candles.                                   *)
(***************************************************************************)
LEMMA AnswerIsSound ==
  ASSUME NEW l \in Loads, InOrder(l.existing)
  PROVE  /\ Answer(l) \in Seq(Lines)
         /\ InOrder(Answer(l))
         /\ Holds(l.existing, l.from, l.to) => Holds(Answer(l), l.from, l.to)
<1>1. PICK c \in Seq(Lines), from \in Int, to \in Int : c = l.existing /\ from = l.from /\ to = l.to
  BY DEF Loads
<1>2. /\ Len(c) \in Nat /\ DOMAIN c = 1..Len(c)
      /\ \A i \in 1..Len(c) : c[i] \in Lines /\ c[i].t \in Int
  BY LineTimes
<1>3. PICK K : K = {i \in DOMAIN c : from <= c[i].t /\ c[i].t < to}
  OBVIOUS
<1>4. IsFiniteSet(K) /\ K \subseteq Int /\ K \subseteq 1..Len(c)
  <2>1. K \subseteq 1..Len(c)
    BY <1>2, <1>3
  <2>2. IsFiniteSet(1..Len(c))
    BY <1>2, FS_Interval
  <2>3. IsFiniteSet(K)
    BY <2>1, <2>2, FS_Subset, Zenon
  <2>. QED
    BY <2>1, <2>3
<1>5. PICK n, nth :
        /\ n \in Nat /\ n = Cardinality(K) /\ nth = Ascending(K)
        /\ nth \in [1..n -> K]
        /\ \A i, j \in 1..n : i < j => nth[i] < nth[j]
        /\ \A x \in K : \E k \in 1..n : nth[k] = x
  <2>1. /\ Cardinality(K) \in Nat
        /\ Ascending(K) \in [1..Cardinality(K) -> K]
        /\ \A i, j \in 1..Cardinality(K) : i < j => Ascending(K)[i] < Ascending(K)[j]
        /\ \A x \in K : \E k \in 1..Cardinality(K) : Ascending(K)[k] = x
    BY <1>4, AscendingLists, Zenon
  <2>. QED
    BY <2>1, Zenon
<1>6. PICK a : a = [i \in DOMAIN nth |-> c[nth[i]]]
  OBVIOUS
<1>7. Answer(l) = a
  BY <1>1, <1>3, <1>5, <1>6, Zenon DEF Answer
<1>8. \A i \in 1..n : nth[i] \in K /\ nth[i] \in 1..Len(c) /\ nth[i] \in DOMAIN c
  BY <1>2, <1>4, <1>5
<1>9. a \in [1..n -> Lines] /\ \A i \in 1..n : a[i] = c[nth[i]]
  BY <1>2, <1>5, <1>6, <1>8
<1>10. a \in Seq(Lines) /\ DOMAIN a = 1..n
  <2>1. a \in Seq(Lines)
    <3>1. a \in [1..n -> Lines] /\ n \in Nat
      BY <1>5, <1>9
    <3>. QED
      BY <3>1, FunctionIsSeq, Zenon
  <2>. QED
    BY <1>9, <2>1
<1>11. InOrder(a)
  <2>. SUFFICES ASSUME NEW i \in 1..n, NEW j \in 1..n, i < j PROVE a[i].t <= a[j].t
    BY <1>10 DEF InOrder
  <2>1. nth[i] < nth[j] /\ nth[i] \in DOMAIN c /\ nth[j] \in DOMAIN c
    BY <1>5, <1>8
  <2>. QED
    BY <1>1, <1>9, <2>1 DEF InOrder
<1>12. ASSUME Holds(c, from, to) PROVE Holds(a, from, to)
  <2>. SUFFICES ASSUME NEW t \in Traded, from <= t, t < to PROVE t \in TimesOf(a)
    BY DEF Holds
  <2>1. PICK i \in 1..Len(c) : c[i].t = t
    BY <1>2, <1>12 DEF Holds, TimesOf
  <2>2. i \in K
    BY <1>2, <1>3, <2>1
  <2>3. PICK k \in 1..n : nth[k] = i
    BY <1>5, <2>2
  <2>. QED
    BY <1>9, <1>10, <2>1, <2>3 DEF TimesOf
<1>. QED
  BY <1>1, <1>7, <1>10, <1>11, <1>12

LEMMA AnchorTimes ==
  ASSUME NEW l \in Loads
  PROVE  ToSign(l) \in Seq(Lines) /\ Anchors(ToSign(l)) \subseteq 0..MaxTime
<1>1. PICK lines \in Seq(Lines) : lines = ToSign(l)
  BY DEF ToSign, Loads
<1>2. /\ Len(lines) \in Nat
      /\ \A i \in 1..Len(lines) : lines[i].t \in 0..MaxTime
  BY LineTimes
<1>3. \A k \in SigWindow..Len(lines) - 1 : k \in 1..Len(lines)
  BY <1>2, StoreAssumption
<1>4. Anchors(lines) \subseteq 0..MaxTime
  BY <1>2, <1>3, Zenon DEF Anchors
<1>. QED
  BY <1>1, <1>4

LEMMA NoLoadIsSound ==
  ASSUME NEW kept, NEW silent, NEW far, NEW today
  PROVE  /\ NoLoad \in Loads /\ SoundLoad(NoLoad, kept, silent, far, today)
         /\ NoLoad.prefix = <<>> /\ NoLoad.suffix = <<>> /\ NoLoad.refused = FALSE
BY NoLines DEF NoLoad, Loads, Stages, SoundLoad

(***************************************************************************)
(* The signatures, and the result of the load.                             *)
(***************************************************************************)
LEMMA SignCandlesSound ==
  ASSUME StoreSound, SignCandles
  PROVE  StoreSound'
<1>0. load \in Loads
  BY DEF StoreSound, StoreTypes
<1>1. PICK l, kept, silent, far, today :
        l = load /\ kept = Readable(file) /\ silent = lost /\ far = skipped /\ today = now
  OBVIOUS
<1>2. /\ UNCHANGED <<now, file, faults, lost, skipped>>
      /\ l.stage = "sign" /\ l \in Loads
  BY <1>0, <1>1 DEF SignCandles
<1>3. /\ InOrder(l.existing)
      /\ ~silent /\ ~far /\ ~l.refused => Holds(l.existing, l.from, l.to)
  BY <1>1, <1>2 DEF StoreSound, SoundLoad
<1>4. PICK r : r = Returned(l)
  OBVIOUS
<1>5. /\ Answer(l) \in Seq(Lines)
      /\ InOrder(Answer(l))
      /\ Holds(l.existing, l.from, l.to) => Holds(Answer(l), l.from, l.to)
  BY <1>2, <1>3, AnswerIsSound
<1>6. /\ r \in Loads /\ r.stage = "done" /\ r.answer = Answer(l)
      /\ r.from = l.from /\ r.to = l.to /\ r.refused = l.refused
  <2>1. PICK a \in Seq(Lines) : a = Answer(l)
    BY <1>5
  <2>2. r = [NoLoad EXCEPT !.stage = "done", !.from = l.from, !.to = l.to,
                           !.refused = l.refused, !.answer = a]
    BY <1>4, <2>1 DEF Returned
  <2>3. l.from \in Int /\ l.to \in Int /\ l.refused \in BOOLEAN
    BY <1>2 DEF Loads
  <2>. QED
    BY <2>1, <2>2, <2>3, NoLoadIsSound DEF Loads, Stages
<1>7. SoundLoad(r, kept, silent, far, today)
  BY <1>3, <1>5, <1>6 DEF SoundLoad
<1>8. ToSign(l) \in Seq(Lines) /\ Anchors(ToSign(l)) \subseteq 0..MaxTime
  BY <1>2, AnchorTimes
<1>9. PICK f : f = [NoLoad EXCEPT !.stage = "failed"]
  OBVIOUS
<1>10. f \in Loads /\ SoundLoad(f, kept, silent, far, today)
  <2>1. f \in Loads /\ f.stage = "failed"
    BY <1>9, NoLoadIsSound DEF Loads, Stages
  <2>. QED
    BY <2>1 DEF SoundLoad
<1>11. load' \in {r, f}
  BY <1>1, <1>4, <1>9 DEF SignCandles
<1>12. /\ sigFile' \in {"none", "whole", "torn"}
       /\ signed' \subseteq 0..MaxTime
  <2>1. sigFile \in {"none", "whole", "torn"} /\ signed \subseteq 0..MaxTime
    BY DEF StoreSound, StoreTypes
  <2>2. sigFile' = sigFile \/ sigFile' = "whole"
    BY DEF SignCandles
  <2>3. signed' = signed \/ signed' = signed \cup Anchors(ToSign(l))
    BY <1>1 DEF SignCandles
  <2>. QED
    BY <1>8, <2>1, <2>2, <2>3
<1>13. load' \in Loads /\ SoundLoad(load', kept, silent, far, today)
  BY <1>6, <1>7, <1>10, <1>11
<1>14. StoreTypes'
  BY <1>2, <1>12, <1>13 DEF StoreSound, StoreTypes
<1>15. /\ now' = today /\ lost' = silent /\ skipped' = far /\ Readable(file') = kept
       /\ KeptWell(kept, silent, far, today)
  BY <1>1, <1>2 DEF StoreSound
<1>. QED
  BY <1>13, <1>14, <1>15 DEF StoreSound

(***************************************************************************)
(* The call has returned, or its thread is gone.                           *)
(***************************************************************************)
LEMMA LoadGone ==
  ASSUME StoreTypes, load' = NoLoad, UNCHANGED <<now, lost, skipped>>,
         faults' \in 0..MaxFaults,
         file' \in Seq(FileLines), KeptWell(Readable(file'), lost, skipped, now),
         sigFile' \in {"none", "whole", "torn"}, signed' \subseteq 0..MaxTime
  PROVE  StoreSound'
<1>1. load' \in Loads /\ SoundLoad(load', Readable(file'), lost, skipped, now)
  BY NoLoadIsSound, Zenon
<1>2. StoreTypes'
  BY <1>1 DEF StoreTypes
<1>. QED
  BY <1>1, <1>2 DEF StoreSound

LEMMA ProcessEndsSound ==
  ASSUME StoreSound, ProcessEnds
  PROVE  StoreSound'
<1>1. /\ load' = NoLoad /\ UNCHANGED <<now, lost, skipped>>
      /\ \/ UNCHANGED files
         \/ /\ load.stage = "write" /\ ToWrite(load) > 0
            /\ \E n \in 0..ToWrite(load) - 1 :
                 \/ file' = Written(load, n)
                 \/ file' = Append(Written(load, n), Torn)
            /\ UNCHANGED <<sigFile, signed>>
         \/ /\ \E cut \in SUBSET (Anchors(ToSign(load)) \ signed) : signed' = signed \cup cut
            /\ sigFile' \in {"whole", "torn"}
            /\ UNCHANGED file
  BY DEF ProcessEnds
<1>2. StoreTypes /\ KeptWell(Readable(file), lost, skipped, now)
  BY DEF StoreSound
<1>3. faults' \in 0..MaxFaults
  BY StoreAssumption DEF ProcessEnds, StoreFails, StoreSound, StoreTypes
<1>4. /\ file \in Seq(FileLines) /\ load \in Loads
      /\ sigFile \in {"none", "whole", "torn"} /\ signed \subseteq 0..MaxTime
  BY <1>2 DEF StoreTypes
<1>5. CASE UNCHANGED files
  <2>1. file' = file /\ sigFile' = sigFile /\ signed' = signed
    BY <1>5 DEF files
  <2>. QED
    BY <1>1, <1>2, <1>3, <1>4, <2>1, LoadGone
<1>6. CASE /\ load.stage = "write" /\ ToWrite(load) > 0
           /\ \E n \in 0..ToWrite(load) - 1 :
                \/ file' = Written(load, n)
                \/ file' = Append(Written(load, n), Torn)
           /\ UNCHANGED <<sigFile, signed>>
  <2>1. PICK n \in 0..ToWrite(load) - 1 :
          \/ file' = Written(load, n)
          \/ file' = Append(Written(load, n), Torn)
    BY <1>6
  <2>2. \A m \in 0..ToWrite(load) :
          /\ Written(load, m) \in Seq(FileLines)
          /\ KeptWell(Readable(Written(load, m)), lost, skipped, now)
    BY <1>6, WritingIsSound
  <2>3. n \in 0..ToWrite(load)
    <3>1. ToWrite(load) \in Nat
      <4>1. Candles(load) \in Seq(Lines) /\ load.suffix \in Seq(Lines)
        BY <1>4, <1>6, WritingIsSound DEF Loads
      <4>2. load.prefix # <<>> => Candles(load) = Merged(load)
        BY DEF Candles
      <4>. QED
        BY <4>1, <4>2, LenProperties DEF ToWrite
    <3>. QED
      BY <3>1
  <2>4. PICK w \in Seq(FileLines) : w = Written(load, n) /\ KeptWell(Readable(w), lost, skipped, now)
    BY <2>2, <2>3
  <2>5. Append(w, Torn) \in Seq(FileLines) /\ Readable(Append(w, Torn)) = Readable(w)
    BY ReadBeforeTorn
  <2>6. file' = w \/ file' = Append(w, Torn)
    BY <2>1, <2>4
  <2>7. file' \in Seq(FileLines) /\ KeptWell(Readable(file'), lost, skipped, now)
    BY <2>4, <2>5, <2>6, Zenon
  <2>8. sigFile' \in {"none", "whole", "torn"} /\ signed' \subseteq 0..MaxTime
    BY <1>4, <1>6
  <2>. QED
    BY <1>1, <1>2, <1>3, <2>7, <2>8, LoadGone
<1>7. CASE /\ \E cut \in SUBSET (Anchors(ToSign(load)) \ signed) : signed' = signed \cup cut
           /\ sigFile' \in {"whole", "torn"}
           /\ UNCHANGED file
  <2>1. signed' \subseteq 0..MaxTime
    BY <1>4, <1>7, AnchorTimes
  <2>2. sigFile' \in {"none", "whole", "torn"}
    BY <1>7
  <2>3. file' \in Seq(FileLines) /\ KeptWell(Readable(file'), lost, skipped, now)
    BY <1>2, <1>4, <1>7
  <2>. QED
    BY <1>1, <1>2, <1>3, <2>1, <2>2, <2>3, LoadGone
<1>. QED
  BY <1>1, <1>5, <1>6, <1>7

(***************************************************************************)
(* A candle later everything is as sound as it was.                        *)
(***************************************************************************)
LEMMA TickSound ==
  ASSUME StoreSound, Tick
  PROVE  StoreSound'
<1>1. /\ now' \in 0..MaxTime /\ now \in Int /\ now' \in Int /\ now <= now'
      /\ file' = file /\ sigFile' = sigFile /\ signed' = signed /\ load' = load
      /\ faults' = faults /\ lost' = lost /\ skipped' = skipped
  BY StoreAssumption DEF Tick, StoreSound, StoreTypes, files
<1>2. StoreTypes'
  BY <1>1 DEF StoreSound, StoreTypes
<1>3. PICK kept, today, later : kept = Readable(file) /\ today = now /\ later = now'
  OBVIOUS
<1>4. kept \in Seq(Lines) /\ KeptWell(kept, lost, skipped, today)
      /\ SoundLoad(load, kept, lost, skipped, today)
      /\ lost \in BOOLEAN /\ skipped \in BOOLEAN /\ load \in Loads
  BY <1>3, ReadableReads DEF StoreSound, StoreTypes, ReadsAs
<1>5. KeptWell(kept, lost, skipped, later)
  BY <1>1, <1>3, <1>4, KeptStillWell
<1>6. Based(load, kept, skipped, today) => Based(load, kept, skipped, later)
  <2>1. load.to \in Int
    BY <1>4 DEF Loads
  <2>. QED
    BY <1>1, <1>3, <2>1 DEF Based
<1>7. SoundLoad(load, kept, lost, skipped, later)
  BY <1>4, <1>6 DEF SoundLoad
<1>. QED
  BY <1>1, <1>2, <1>3, <1>5, <1>7 DEF StoreSound

(***************************************************************************)
(* A load of a window that does not end ahead.                             *)
(***************************************************************************)
LEMMA LoadBeginsSound ==
  ASSUME StoreSound, NEW from \in 0..MaxTime, NEW to \in Int, to <= now + 1,
         LoadBegins(from, to), UNCHANGED <<now, files, faults, lost>>
  PROVE  StoreSound'
<1>1. PICK kept, silent, today : kept = Readable(file) /\ silent = lost /\ today = now
  OBVIOUS
<1>2. /\ kept \in Seq(Lines) /\ silent \in BOOLEAN /\ today \in 0..MaxTime
      /\ skipped \in BOOLEAN /\ KeptWell(kept, silent, skipped, today)
  BY <1>1, ReadableReads DEF StoreSound, StoreTypes, ReadsAs
<1>3. PICK far \in BOOLEAN :
        /\ far <=> skipped \/ (kept # <<>> /\ from > Last(kept).t + 1)
        /\ skipped' = far
  <2>1. skipped' \in BOOLEAN
    BY <1>2 DEF LoadBegins
  <2>. QED
    BY <1>1, <1>2, <2>1 DEF LoadBegins
<1>4. KeptWell(kept, silent, far, today)
  BY <1>2, <1>3 DEF KeptWell
<1>5. PICK l : l = [NoLoad EXCEPT !.from = from, !.to = to, !.existing = kept]
  OBVIOUS
<1>6. /\ l \in Loads /\ l.from = from /\ l.to = to /\ l.existing = kept
      /\ l.prefix = <<>> /\ l.suffix = <<>> /\ l.refused = FALSE
  <2>1. from \in Int
    BY StoreAssumption
  <2>. QED
    BY <1>2, <1>5, <2>1, NoLoadIsSound DEF Loads
<1>7. Based(l, kept, far, today)
  <2>1. ASSUME ~far, kept # <<>> PROVE from <= kept[Len(kept)].t + 1
    <3>1. PICK last \in Int : last = kept[Len(kept)].t /\ last = Last(kept).t
      <4>1. Len(kept) \in 1..Len(kept)
        BY <1>2, <2>1, LineTimes
      <4>2. kept[Len(kept)].t \in 0..MaxTime
        BY <1>2, <4>1, LineTimes
      <4>. QED
        BY <4>2 DEF Last
    <3>. QED
      BY <1>3, <2>1, <3>1, StoreAssumption
  <2>. QED
    BY <1>1, <1>6, <2>1 DEF Based
<1>8. load' = IF from < CacheStart(l) THEN Fetching(l, "prefix", from, CacheStart(l))
              ELSE SuffixNext(l)
  BY <1>1, <1>5 DEF LoadBegins, Opened, PrefixEnd
<1>9. CacheStart(l) \in Int /\ l.from \in Int
  BY <1>2, <1>4, <1>6, <1>7, WindowBounds
<1>10. load' \in Loads /\ SoundLoad(load', kept, silent, far, today)
  <2>1. CASE from < CacheStart(l)
    <3>0. PICK a \in Int, b \in Int : a = from /\ b = CacheStart(l) /\ a <= b
      BY <1>6, <1>9, <2>1
    <3>1. PICK m : m = Fetching(l, "prefix", a, b)
      OBVIOUS
    <3>2. /\ m \in Loads /\ m.stage = "prefix" /\ m.current = a
          /\ m.from = l.from /\ m.to = l.to /\ m.existing = l.existing
          /\ m.prefix = l.prefix /\ m.suffix = l.suffix /\ m.refused = l.refused
          /\ Fetched(m, a, b, silent)
      BY <1>6, <3>0, <3>1, FetchBegins
    <3>3. CacheStart(m) = b
      BY <3>0, <3>2, SameWindow
    <3>4. Based(m, kept, far, today)
      BY <1>7, <3>2 DEF Based
    <3>5. SoundLoad(m, kept, silent, far, today)
      BY <1>6, <2>1, <3>0, <3>2, <3>3, <3>4 DEF SoundLoad
    <3>. QED
      BY <1>8, <2>1, <3>0, <3>1, <3>2, <3>5
  <2>2. CASE ~(from < CacheStart(l))
    <3>1. Holds(<<>>, l.from, CacheStart(l))
      BY <1>6, <1>9, <2>2, TradedTimes DEF Holds
    <3>2. PrefixDone(l, silent)
      BY <1>6, <3>1, EmptyRun DEF PrefixDone, Block
    <3>3. SuffixNext(l) \in Loads /\ SoundLoad(SuffixNext(l), kept, silent, far, today)
      BY <1>2, <1>4, <1>6, <1>7, <3>2, NextIsSound
    <3>. QED
      BY <1>8, <2>2, <3>3
  <2>. QED
    BY <2>1, <2>2
<1>11. /\ now' = today /\ Readable(file') = kept /\ lost' = silent
       /\ file' = file /\ sigFile' = sigFile /\ signed' = signed /\ faults' = faults
  BY <1>1 DEF files
<1>12. StoreTypes'
  BY <1>1, <1>2, <1>3, <1>10, <1>11 DEF StoreSound, StoreTypes
<1>. QED
  BY <1>3, <1>4, <1>10, <1>11, <1>12 DEF StoreSound

------------------------------------------------------------------------------
(* The jobs *)

Windows == [from : Int, to : Int]

Files == [kind : {"absent", "cut", "whole"}, window : Windows]

JobTypes ==
  /\ up \in BOOLEAN
  /\ status \in [state : {"idle", "running", "completed", "error"}, window : Windows]
  /\ job \in [stage : {"none", "clamp", "load", "results", "status", "error", "fail"},
              window : Windows]
  /\ (job.stage = "none") = (status.state # "running")
  /\ results \in Files /\ error \in Files
  /\ jobs \in 0..MaxJobs
  /\ job.stage = "clamp" => job.window \in Asked

(***************************************************************************)
(* The results of a job are on the disk before its status says so, and no  *)
(* other job touches them while the status does.                           *)
(***************************************************************************)
ShownIsDone ==
  /\ job.stage = "status" => results = Of(job.window)
  /\ status.state = "completed" => results = Of(status.window)

IInv == StoreSound /\ JobTypes /\ ShownIsDone

LEMMA InitSound ==
  ASSUME Init
  PROVE  IInv
<1>1. load = NoLoad /\ file = <<>> /\ lost = FALSE /\ skipped = FALSE /\ now = 0
  BY DEF Init, StoreInit
<1>2. Readable(<<>>) = <<>> /\ <<>> \in Seq(FileLines)
  BY NoLines, CandlesAreRead, Zenon
<1>3. KeptWell(<<>>, lost, skipped, now)
  BY NoLines DEF KeptWell
<1>4. load \in Loads /\ SoundLoad(load, Readable(file), lost, skipped, now)
  BY <1>1, NoLoadIsSound, Zenon
<1>5. StoreTypes
  <2>1. sigFile = "none" /\ signed = {} /\ faults = 0
    BY DEF Init, StoreInit
  <2>2. 0 \in 0..MaxTime /\ 0 \in 0..MaxFaults
    BY StoreAssumption
  <2>3. file \in Seq(FileLines)
    BY <1>1, <1>2
  <2>. QED
    BY <1>1, <1>4, <2>1, <2>2, <2>3 DEF StoreTypes
<1>6. StoreSound
  BY <1>1, <1>2, <1>3, <1>4, <1>5 DEF StoreSound
<1>7. NoWindow \in Windows
  BY DEF NoWindow, Windows
<1>8. JobTypes
  BY <1>7, JobAssumption DEF Init, JobTypes, Idle, NoJob, Absent, Files
<1>9. ShownIsDone
  BY DEF Init, ShownIsDone, Idle, NoJob
<1>. QED
  BY <1>6, <1>8, <1>9 DEF IInv

(***************************************************************************)
(* What no step of a job disturbs.                                         *)
(***************************************************************************)
LEMMA StoreUnchanged ==
  ASSUME StoreSound, UNCHANGED store
  PROVE  StoreSound'
<1>1. /\ now' = now /\ file' = file /\ sigFile' = sigFile /\ signed' = signed /\ load' = load
      /\ faults' = faults /\ lost' = lost /\ skipped' = skipped
  BY DEF store, files
<1>. QED
  BY <1>1 DEF StoreSound, StoreTypes

LEMMA FaultsCounted ==
  ASSUME StoreSound, UNCHANGED <<now, files, load, lost, skipped>>,
         faults' = faults \/ (faults < MaxFaults /\ faults' = faults + 1)
  PROVE  StoreSound'
<1>1. /\ now' = now /\ file' = file /\ sigFile' = sigFile /\ signed' = signed /\ load' = load
      /\ lost' = lost /\ skipped' = skipped
  BY DEF files
<1>2. faults' \in 0..MaxFaults
  BY StoreAssumption DEF StoreSound, StoreTypes
<1>. QED
  BY <1>1, <1>2 DEF StoreSound, StoreTypes

LEMMA TriggerSound ==
  ASSUME IInv, NEW w \in Asked, Trigger(w)
  PROVE  IInv'
<1>1. StoreSound'
  BY StoreUnchanged DEF IInv, Trigger
<1>2. w \in Windows /\ w \in Asked
  BY StoreAssumption, JobAssumption DEF Windows
<1>3. error' = Absent /\ Absent \in Files /\ results' = results /\ up' = up
  BY DEF Trigger, Absent, NoWindow, Files, Windows
<1>4. jobs' \in 0..MaxJobs
  BY JobAssumption DEF Trigger, IInv, JobTypes
<1>5. status' = [state |-> "running", window |-> w] /\ job' = [stage |-> "clamp", window |-> w]
  BY DEF Trigger
<1>6. JobTypes'
  BY <1>2, <1>3, <1>4, <1>5 DEF IInv, JobTypes
<1>7. ShownIsDone'
  BY <1>5 DEF ShownIsDone
<1>. QED
  BY <1>1, <1>6, <1>7 DEF IInv

LEMMA ClampedWindow ==
  ASSUME NEW w \in Asked, now \in 0..MaxTime, NEW newest \in -1..now
  PROVE  /\ Clamped(w, newest) \in Windows
         /\ Clamped(w, newest).from \in 0..MaxTime
         /\ Clamped(w, newest).to <= now + 1
<1>1. PICK f \in 0..MaxTime, t \in Int : f = w.from /\ t = w.to
  BY StoreAssumption, JobAssumption
<1>2. MaxTime \in Nat /\ LookBack \in Nat /\ newest \in Int /\ now \in Int /\ f \in Int /\ newest <= MaxTime
  BY StoreAssumption, JobAssumption
<1>3. PICK from, to : /\ from = IF newest >= 0 THEN Max({f, newest - LookBack}) ELSE f
                      /\ to = IF newest >= 0 THEN Min({t, newest}) ELSE t
  OBVIOUS
<1>4. from \in 0..MaxTime /\ to \in Int
  <2>1. newest - LookBack \in Int
    BY <1>2
  <2>2. PICK g \in Int : g = newest - LookBack
    BY <2>1
  <2>3. Max({f, g}) \in {f, g} /\ f <= Max({f, g}) /\ Min({t, newest}) \in {t, newest}
    BY <1>2, LargerOfTwo, SmallerOfTwo
  <2>. QED
    BY <1>1, <1>2, <1>3, <2>2, <2>3
<1>5. PICK later \in Int : later = IF to <= from THEN from + LookBack ELSE to
  BY <1>2, <1>4
<1>6. PICK n \in Int : n = now + 1
  BY <1>2
<1>7. Min({later, n}) \in Int /\ Min({later, n}) <= n
  <2>1. Min({later, n}) \in {later, n} /\ Min({later, n}) <= n
    BY SmallerOfTwo
  <2>. QED
    BY <2>1
<1>8. Clamped(w, newest) = [from |-> from, to |-> Min({later, n})]
  BY <1>1, <1>3, <1>5, <1>6 DEF Clamped
<1>. QED
  BY <1>4, <1>6, <1>7, <1>8, StoreAssumption DEF Windows

LEMMA ClampWindowSound ==
  ASSUME IInv, ClampWindow
  PROVE  IInv'
<1>1. job.window \in Asked /\ now \in 0..MaxTime
  BY DEF IInv, JobTypes, StoreSound, StoreTypes, ClampWindow
<1>2. PICK newest \in -1..now :
        /\ job' = [stage |-> "load", window |-> Clamped(job.window, newest)]
        /\ LoadBegins(Clamped(job.window, newest).from, Clamped(job.window, newest).to)
  BY Zenon DEF ClampWindow
<1>3. PICK w \in Windows :
        /\ w = Clamped(job.window, newest) /\ w.from \in 0..MaxTime /\ w.to <= now + 1
        /\ w.to \in Int
  <2>1. PICK asked \in Asked : asked = job.window
    BY <1>1
  <2>2. /\ Clamped(asked, newest) \in Windows
        /\ Clamped(asked, newest).from \in 0..MaxTime
        /\ Clamped(asked, newest).to <= now + 1
    BY <1>1, ClampedWindow
  <2>. QED
    BY <2>1, <2>2 DEF Windows
<1>4. UNCHANGED <<now, files, faults, lost>> /\ LoadBegins(w.from, w.to)
  BY <1>2, <1>3 DEF ClampWindow
<1>5. StoreSound'
  <2>1. PICK from \in 0..MaxTime, to \in Int : from = w.from /\ to = w.to
    BY <1>3
  <2>. QED
    BY <1>3, <1>4, <2>1, LoadBeginsSound DEF IInv
<1>6. /\ job' = [stage |-> "load", window |-> w] /\ job.stage = "clamp"
      /\ UNCHANGED <<up, status, results, error, jobs>>
  BY <1>2, <1>3 DEF ClampWindow
<1>7. JobTypes'
  BY <1>6 DEF IInv, JobTypes
<1>8. ShownIsDone'
  BY <1>6 DEF IInv, ShownIsDone
<1>. QED
  BY <1>5, <1>7, <1>8 DEF IInv

LEMMA ManagerUnchanged ==
  ASSUME JobTypes, ShownIsDone, UNCHANGED manager
  PROVE  JobTypes' /\ ShownIsDone'
BY DEF JobTypes, ShownIsDone, manager

LEMMA LoadingSound ==
  ASSUME IInv, Loading
  PROVE  IInv'
<1>1. StoreSound'
  BY FetchChunkSound, WriteCandlesSound, SignCandlesSound DEF IInv, Loading
<1>. QED
  BY <1>1, ManagerUnchanged DEF IInv, Loading

LEMMA ReplayedSound ==
  ASSUME IInv, Replayed
  PROVE  IInv'
<1>1. load' = NoLoad /\ UNCHANGED <<now, files, lost, skipped>>
      /\ UNCHANGED <<up, status, results, error, jobs>> /\ job.stage = "load"
  BY DEF Replayed
<1>2. faults' \in 0..MaxFaults
  BY StoreAssumption DEF IInv, Replayed, JobFails, StoreSound, StoreTypes
<1>3. StoreSound'
  <2>1. file' = file /\ sigFile' = sigFile /\ signed' = signed
    BY <1>1 DEF files
  <2>2. /\ StoreTypes /\ file' \in Seq(FileLines) /\ KeptWell(Readable(file'), lost, skipped, now)
        /\ sigFile' \in {"none", "whole", "torn"} /\ signed' \subseteq 0..MaxTime
    BY <2>1 DEF IInv, StoreSound, StoreTypes
  <2>. QED
    BY <1>1, <1>2, <2>2, LoadGone
<1>4. \E stage \in {"results", "error"} : job' = [job EXCEPT !.stage = stage]
  BY DEF Replayed, At
<1>5. JobTypes'
  BY <1>1, <1>4 DEF IInv, JobTypes
<1>6. ShownIsDone'
  BY <1>1, <1>4 DEF IInv, JobTypes, ShownIsDone
<1>. QED
  BY <1>3, <1>5, <1>6 DEF IInv

LEMMA WriteResultsSound ==
  ASSUME IInv, WriteResults
  PROVE  IInv'
<1>1. StoreSound'
  BY FaultsCounted DEF IInv, WriteResults, JobFails
<1>2. UNCHANGED <<up, status, error, jobs>> /\ job.stage = "results"
  BY DEF WriteResults
<1>3. PICK w \in Windows : w = job.window
  BY DEF IInv, JobTypes
<1>4. Of(w) \in Files /\ Cut \in Files
  BY DEF Of, Cut, NoWindow, Files, Windows
<1>5. \/ results' = Of(w) /\ job' = [job EXCEPT !.stage = "status"]
      \/ results' \in {results, Cut} /\ job' = [job EXCEPT !.stage = "error"]
  BY <1>3 DEF WriteResults, At
<1>6. JobTypes'
  BY <1>2, <1>4, <1>5 DEF IInv, JobTypes
<1>7. ShownIsDone'
  BY <1>2, <1>3, <1>5 DEF IInv, JobTypes, ShownIsDone
<1>. QED
  BY <1>1, <1>6, <1>7 DEF IInv

LEMMA CompleteSound ==
  ASSUME IInv, Complete
  PROVE  IInv'
<1>1. StoreSound'
  BY StoreUnchanged DEF IInv, Complete
<1>2. PICK w \in Windows : w = job.window /\ job.stage = "status"
  BY DEF IInv, JobTypes, Complete
<1>3. /\ status' = [state |-> "completed", window |-> w] /\ job' = NoJob
      /\ UNCHANGED <<up, results, error, jobs>>
  BY <1>2 DEF Complete, Completed
<1>4. JobTypes'
  BY <1>3 DEF IInv, JobTypes, NoJob, NoWindow, Windows
<1>5. ShownIsDone'
  BY <1>2, <1>3 DEF IInv, ShownIsDone, NoJob
<1>. QED
  BY <1>1, <1>4, <1>5 DEF IInv

LEMMA WriteErrorSound ==
  ASSUME IInv, WriteError
  PROVE  IInv'
<1>1. StoreSound'
  BY FaultsCounted DEF IInv, WriteError, JobFails
<1>2. /\ UNCHANGED <<up, status, results, jobs>> /\ job.stage = "error"
      /\ job' = [job EXCEPT !.stage = "fail"]
  BY DEF WriteError, At
<1>3. PICK w \in Windows : w = job.window
  BY DEF IInv, JobTypes
<1>4. Of(w) \in Files /\ Cut \in Files
  BY DEF Of, Cut, NoWindow, Files, Windows
<1>5. error' \in {error, Of(w), Cut}
  BY <1>3 DEF WriteError
<1>6. JobTypes'
  BY <1>2, <1>4, <1>5 DEF IInv, JobTypes
<1>7. ShownIsDone'
  BY <1>2 DEF IInv, JobTypes, ShownIsDone
<1>. QED
  BY <1>1, <1>6, <1>7 DEF IInv

LEMMA FailSound ==
  ASSUME IInv, Fail
  PROVE  IInv'
<1>1. StoreSound'
  BY StoreUnchanged DEF IInv, Fail
<1>2. PICK w \in Windows : w = job.window
  BY DEF IInv, JobTypes
<1>3. /\ status' = [state |-> "error", window |-> w] /\ job' = NoJob
      /\ UNCHANGED <<up, results, error, jobs>>
  BY <1>2 DEF Fail, Failed
<1>4. JobTypes'
  BY <1>3 DEF IInv, JobTypes, NoJob, NoWindow, Windows
<1>5. ShownIsDone'
  BY <1>3 DEF ShownIsDone, NoJob
<1>. QED
  BY <1>1, <1>4, <1>5 DEF IInv

LEMMA ServiceEndsSound ==
  ASSUME IInv, ServiceEnds
  PROVE  IInv'
<1>1. StoreSound'
  BY ProcessEndsSound DEF IInv, ServiceEnds
<1>2. up' = FALSE /\ status' = Idle /\ job' = NoJob /\ jobs' = jobs
  BY DEF ServiceEnds
<1>3. PICK w \in Windows : w = job.window
  BY DEF IInv, JobTypes
<1>4. Of(w) \in Files /\ Cut \in Files
  BY DEF Of, Cut, NoWindow, Files, Windows
<1>5. results' \in {results, Cut, Of(w)} /\ error' \in {error, Cut, Of(w)}
  BY <1>3 DEF ServiceEnds
<1>6. JobTypes'
  <2>1. /\ status'.state = "idle" /\ status'.window = NoWindow
        /\ job'.stage = "none" /\ job'.window = NoWindow /\ NoWindow \in Windows
        /\ status' = [state |-> "idle", window |-> NoWindow]
        /\ job' = [stage |-> "none", window |-> NoWindow]
    BY <1>2 DEF Idle, NoJob, NoWindow, Windows
  <2>2. results' \in Files /\ error' \in Files
    BY <1>4, <1>5 DEF IInv, JobTypes
  <2>. QED
    BY <1>2, <2>1, <2>2 DEF IInv, JobTypes
<1>7. ShownIsDone'
  BY <1>2 DEF ShownIsDone, Idle, NoJob
<1>. QED
  BY <1>1, <1>6, <1>7 DEF IInv

LEMMA NextSound ==
  ASSUME IInv, [Next]_vars
  PROVE  IInv'
<1>1. CASE \E w \in Asked : Trigger(w)
  BY <1>1, TriggerSound
<1>2. CASE ClampWindow
  BY <1>2, ClampWindowSound
<1>3. CASE Loading
  BY <1>3, LoadingSound
<1>4. CASE Replayed
  BY <1>4, ReplayedSound
<1>5. CASE WriteResults
  BY <1>5, WriteResultsSound
<1>6. CASE Complete
  BY <1>6, CompleteSound
<1>7. CASE WriteError
  BY <1>7, WriteErrorSound
<1>8. CASE Fail
  BY <1>8, FailSound
<1>9. CASE ServiceEnds
  BY <1>9, ServiceEndsSound
<1>10. CASE ServiceStarts
  <2>1. StoreSound'
    BY <1>10, StoreUnchanged DEF IInv, ServiceStarts
  <2>2. JobTypes' /\ ShownIsDone'
    BY <1>10 DEF IInv, JobTypes, ShownIsDone, ServiceStarts
  <2>. QED
    BY <2>1, <2>2 DEF IInv
<1>11. CASE TimePasses
  BY <1>11, TickSound, ManagerUnchanged DEF IInv, TimePasses
<1>12. CASE UNCHANGED vars
  BY <1>12, StoreUnchanged, ManagerUnchanged DEF IInv, vars
<1>. QED
  BY <1>1, <1>2, <1>3, <1>4, <1>5, <1>6, <1>7, <1>8, <1>9, <1>10, <1>11, <1>12
     DEF Next, JobStep, Rest

------------------------------------------------------------------------------
(* What holds of every run *)

LEMMA Invariant == Spec => []IInv
<1>1. Init => IInv
  BY InitSound
<1>2. IInv /\ [Next]_vars => IInv'
  BY NextSound
<1>. QED
  BY <1>1, <1>2, PTL DEF Spec

(***************************************************************************)
(* The types of the store and of the manager: a job is on its thread       *)
(* exactly while the status says running (BacktestManager, _run_job).      *)
(***************************************************************************)
THEOREM BacktestTypes == Spec => []TypeOK
<1>1. IInv => TypeOK
  BY DEF IInv, StoreSound, StoreTypes, JobTypes, TypeOK, StoreTypeOK,
         FileLines, Loads, Stages, Files
<1>. QED
  BY <1>1, Invariant, PTL

(***************************************************************************)
(* Wherever writes are cut and requests fail, what can be read of the      *)
(* candle file is in order and misses no traded candle, unless a request   *)
(* was lost or a load began beyond it (load_candles).                      *)
(***************************************************************************)
THEOREM TradedCandlesKept == Spec => []TradedKept
<1>1. IInv => TradedKept
  <2>. SUFFICES ASSUME IInv PROVE TradedKept
    OBVIOUS
  <2>1. PICK kept \in Seq(Lines) : kept = Readable(file) /\ KeptWell(kept, lost, skipped, now)
    BY ReadableReads DEF IInv, StoreSound, StoreTypes, ReadsAs
  <2>2. kept # <<>> => Head(kept) = kept[1] /\ Last(kept) = kept[Len(kept)]
    BY LineTimes DEF Last
  <2>. QED
    BY <2>1, <2>2 DEF KeptWell, Covers, TradedKept
<1>. QED
  BY <1>1, Invariant, PTL

(***************************************************************************)
(* A load that returns returns every traded candle of its window, in       *)
(* order, unless OANDA refused a block or an answer was lost               *)
(* (load_candles).                                                         *)
(***************************************************************************)
THEOREM AnswersAreComplete == Spec => []AnswerComplete
<1>1. IInv => AnswerComplete
  BY DEF IInv, StoreSound, SoundLoad, Holds, AnswerComplete
<1>. QED
  BY <1>1, Invariant, PTL

(***************************************************************************)
(* The results that are shown are those of the job that the status says is *)
(* completed, whatever failed or restarted before (_run_job, trigger,      *)
(* latest_results).                                                        *)
(***************************************************************************)
THEOREM CompletedJobsAreShown == Spec => []CompletedIsShown
<1>1. IInv => CompletedIsShown
  <2>. SUFFICES ASSUME IInv, status.state = "completed" PROVE LatestResults = Of(status.window)
    BY DEF CompletedIsShown
  <2>1. results = Of(status.window)
    BY DEF IInv, ShownIsDone
  <2>2. results.kind = "whole"
    BY <2>1 DEF Of
  <2>3. LatestResults = results
    BY <2>2 DEF LatestResults
  <2>. QED
    BY <2>1, <2>3
<1>. QED
  BY <1>1, Invariant, PTL

=============================================================================
