---------------------------- MODULE GateWriterProofs ----------------------------
(***************************************************************************)
(* Proofs about GateWriter and its CandleStream: what is in store, which   *)
(* windows are counted and which gates follow, for every number of candles *)
(* and of failures, every depth of the store and every time to live.       *)
(***************************************************************************)
EXTENDS GateWriter, FiniteSetTheorems, SequenceTheorems, WellFoundedInduction, TLAPS

(***************************************************************************)
(* The candles of an answer that become records.                           *)
(***************************************************************************)
Arrived == TimesOf(Normalised(reply))

(***************************************************************************)
(* The times that have come through to somebody who remembers them.        *)
(***************************************************************************)
Known == TimesOf(store) \cup ({cursor, emitted, gate.ts, loop.ts} \ {Never})

(***************************************************************************)
(* What is known or has arrived is a closed candle that traded, and that   *)
(* every session shows as closed.                                          *)
(***************************************************************************)
Closed(t) == t \in market /\ t < now /\ (view # MaxTime => t < view)

ClosedOnly ==
  /\ \A e \in store : e.final
  /\ \A t \in Known : Closed(t)
  /\ streamer = "writing" => \A t \in Arrived : Closed(t)

ViewIsPast == view # MaxTime => view <= now

(***************************************************************************)
(* Nothing known is newer than an answer on its way, nor than the store.   *)
(***************************************************************************)
NewestLeads ==
  \A t \in Known :
    /\ streamer = "writing" /\ Arrived # {} => t <= Newest(Arrived)
    /\ store # {} => t <= Latest

CursorLeads == cursor # Never => \A e \in store : e.t <= cursor

(***************************************************************************)
(* A pass asks for few candles only if it found the set deep and its       *)
(* cursor close; the set may have been pruned since.                       *)
(***************************************************************************)
FewForCause ==
  streamer \in {"asking", "writing"} /\ window # Bootstrap /\ store # {} =>
    /\ Cardinality(store) >= Bootstrap
    /\ cursor # Never /\ asked - cursor <= Incremental

(***************************************************************************)
(* An answer that was not late joins what is in store, or is deep itself.  *)
(***************************************************************************)
AnswerCovers ==
  streamer = "writing" /\ late = Never /\ Arrived # {} =>
    /\ window = Bootstrap =>
         LastOf(Bootstrap - 1, {t \in market : t <= Newest(Arrived)}) \subseteq Arrived
    /\ window # Bootstrap =>
         /\ Cardinality(Arrived) <= Incremental
         /\ store # {} => \A t \in market : cursor < t /\ t <= Newest(Arrived) => t \in Arrived

StreamSound ==
  ClosedOnly /\ ViewIsPast /\ NewestLeads /\ CursorLeads /\ FewForCause
    /\ AnswerCovers /\ NoHole

(***************************************************************************)
(* The windows of a signature are counted in the order of time, and none   *)
(* is newer than the window of the last gate.                              *)
(***************************************************************************)
InOrder(seen) == \A i, j \in DOMAIN seen : i < j => seen[i] < seen[j]

CountedInOrder ==
  ~unwritten =>
    \A s \in Signatures :
      InOrder(history[s]) /\ \A i \in DOMAIN history[s] : history[s][i] <= emitted

(***************************************************************************)
(* A gate that is there has a time, and a loop that has seen none has      *)
(* given no verdict.                                                       *)
(***************************************************************************)
GateHasTime == gate # NoGate => gate.ts # Never

SeenBeforeJudged == loop.ts = Never => ~loop.peak

------------------------------------------------------------------------------
(* Times *)

(***************************************************************************)
(* Every nonempty set of naturals has a least element.                     *)
(***************************************************************************)
LEMMA LeastNatural ==
  ASSUME NEW T, T \subseteq Nat, T # {}
  PROVE  \E n \in T : \A m \in T : n <= m
<1>. DEFINE R == OpToRel(<, Nat)
<1>1. IsWellFoundedOn(R, Nat)
  BY NatLessThanWellFounded, Zenon
<1>2. \A x, y \in Nat : x < y => <<x, y>> \in R
  BY Zenon DEF OpToRel
<1>. HIDE DEF R
<1>3. \E n \in T : \A m \in T : ~(<<m, n>> \in R)
  BY <1>1, WFMin, Zenon
<1>4. PICK n \in T : \A m \in T : ~(<<m, n>> \in R)
  BY <1>3, Zenon
<1>5. \A m \in T : ~(m < n)
  BY <1>2, <1>4, Zenon
<1>6. \A m \in T : n <= m
  BY <1>5
<1>. QED
  BY <1>6, Zenon

(***************************************************************************)
(* The newest of some times is one of them and not older than any.         *)
(***************************************************************************)
LEMMA NewestIsLast ==
  ASSUME NEW T, T \subseteq Times, T # {}
  PROVE  Newest(T) \in T /\ \A t \in T : t <= Newest(T)
<1>. DEFINE D == {MaxTime - t : t \in T}
<1>0. \A t \in T : MaxTime - t \in Nat
  BY StreamAssumption DEF Times
<1>1. D \subseteq Nat /\ D # {}
  BY <1>0
<1>2. PICK d \in D : \A e \in D : d <= e
  BY <1>1, LeastNatural, Zenon
<1>3. PICK m \in T : d = MaxTime - m
  BY <1>2
<1>4. \A t \in T : MaxTime - t \in D
  OBVIOUS
<1>5. \A t \in T : d <= MaxTime - t
  BY <1>2, <1>4, Zenon
<1>6. \A t \in T : m >= t
  BY <1>3, <1>5, StreamAssumption DEF Times
<1>7. Max(T) \in T /\ \A t \in T : Max(T) >= t
  BY <1>6, Zenon DEF Max
<1>8. Newest(T) = Max(T)
  BY DEF Newest
<1>. QED
  BY <1>7, <1>8, StreamAssumption DEF Times

LEMMA NothingNewest == Newest({}) = Never
BY DEF Newest

LEMMA TimesAreFinite ==
  ASSUME NEW T, T \subseteq Times PROVE IsFiniteSet(T)
<1>1. IsFiniteSet(0..MaxTime)
  BY FS_Interval, StreamAssumption
<1>. QED
  BY <1>1, FS_Subset, Zenon DEF Times

(***************************************************************************)
(* A set of times that lies within another is not larger.                  *)
(***************************************************************************)
LEMMA FewerWithin ==
  ASSUME NEW T, T \subseteq Times, NEW S, S \subseteq T
  PROVE  /\ Cardinality(S) \in Nat /\ Cardinality(T) \in Nat
         /\ Cardinality(S) <= Cardinality(T)
<1>1. IsFiniteSet(T) /\ IsFiniteSet(S)
  BY TimesAreFinite, FS_Subset, Zenon
<1>. QED
  BY <1>1, FS_Subset, FS_CardinalityType, Zenon

(***************************************************************************)
(* The later of two times has no more times behind it.                     *)
(***************************************************************************)
LEMMA FewerBehindLater ==
  ASSUME NEW S, S \subseteq Times, NEW t \in Times, NEW u \in Times, t <= u
  PROVE  /\ Cardinality({v \in S : v > u}) \in Nat
         /\ Cardinality({v \in S : v > t}) \in Nat
         /\ Cardinality({v \in S : v > u}) <= Cardinality({v \in S : v > t})
<1>0. \A v \in S : v > u => v > t
  BY StreamAssumption DEF Times
<1>1. {v \in S : v > t} \subseteq Times /\ {v \in S : v > u} \subseteq {v \in S : v > t}
  BY <1>0
<1>. QED
  BY <1>1, FewerWithin, Zenon

(***************************************************************************)
(* The last n of some times are n of them at most.                         *)
(***************************************************************************)
LEMMA LastAreFew ==
  ASSUME NEW n \in Nat \ {0}, NEW S, S \subseteq Times
  PROVE  /\ LastOf(n, S) \subseteq S
         /\ Cardinality(LastOf(n, S)) \in Nat /\ Cardinality(LastOf(n, S)) <= n
<1>. DEFINE L == LastOf(n, S)
<1>1. L \subseteq S
  BY DEF LastOf
<1>2. CASE L = {}
  BY <1>1, <1>2, FS_EmptySet
<1>3. CASE L # {}
  <2>. HIDE DEF L
  <2>0. Times \subseteq Nat
    BY StreamAssumption DEF Times
  <2>1. L \subseteq Nat
    BY <1>1, <2>0, Zenon
  <2>2. PICK m \in L : \A u \in L : m <= u
    BY <1>3, <2>1, LeastNatural, Zenon
  <2>. DEFINE B == {u \in S : u > m}
  <2>3. Cardinality(B) < n /\ m \in S
    BY <2>2 DEF LastOf, L
  <2>4. B \subseteq Times
    OBVIOUS
  <2>5. L \subseteq B \cup {m}
    BY <1>1, <2>1, <2>2
  <2>. HIDE DEF B
  <2>6. IsFiniteSet(B) /\ Cardinality(B) \in Nat
    BY <2>4, TimesAreFinite, FS_CardinalityType, Zenon
  <2>7. Cardinality(B \cup {m}) = IF m \in B THEN Cardinality(B) ELSE Cardinality(B) + 1
    BY <2>6, FS_AddElement, Zenon
  <2>8. Cardinality(B \cup {m}) <= n
    BY <2>3, <2>6, <2>7
  <2>9. B \cup {m} \subseteq Times
    BY <2>3, <2>4
  <2>10. Cardinality(L) \in Nat /\ Cardinality(B \cup {m}) \in Nat
         /\ Cardinality(L) <= Cardinality(B \cup {m})
    BY <2>5, <2>9, FewerWithin, Zenon
  <2>11. Cardinality(L) \in Nat /\ Cardinality(L) <= n
    BY <2>8, <2>10
  <2>. QED
    BY <1>1, <2>11 DEF L
<1>. QED
  BY <1>2, <1>3

(***************************************************************************)
(* What is later than one of the last n is one of them.                    *)
(***************************************************************************)
LEMMA LaterIsLast ==
  ASSUME NEW n \in Nat, NEW S, S \subseteq Times,
         NEW t \in LastOf(n, S), NEW u \in S, t <= u
  PROVE  u \in LastOf(n, S)
<1>1. t \in Times /\ u \in Times /\ Cardinality({v \in S : v > t}) < n
  BY DEF LastOf
<1>2. /\ Cardinality({v \in S : v > u}) \in Nat
      /\ Cardinality({v \in S : v > t}) \in Nat
      /\ Cardinality({v \in S : v > u}) <= Cardinality({v \in S : v > t})
  BY <1>1, FewerBehindLater, Zenon
<1>3. Cardinality({v \in S : v > u}) < n
  BY <1>1, <1>2
<1>. QED
  BY <1>3 DEF LastOf

------------------------------------------------------------------------------
(* Candles *)

Candles == [t : Times, final : BOOLEAN]

LEMMA TimesOfCandles ==
  ASSUME NEW C, C \subseteq Candles
  PROVE  TimesOf(C) \subseteq Times
BY DEF TimesOf, Candles

(***************************************************************************)
(* No time comes twice among closed candles, and there are finitely many.  *)
(***************************************************************************)
LEMMA OneCandlePerTime ==
  ASSUME NEW C, C \subseteq Candles, \A c \in C : c.final
  PROVE  IsFiniteSet(C) /\ Cardinality(C) \in Nat
         /\ Cardinality(TimesOf(C)) = Cardinality(C)
<1>. DEFINE T == TimesOf(C)
            f == [t \in T |-> [t |-> t, final |-> TRUE]]
<1>1. IsFiniteSet(T)
  BY TimesOfCandles, TimesAreFinite, Zenon
<1>2. \A c \in C : c = [t |-> c.t, final |-> TRUE]
  BY DEF Candles
<1>3. \A t \in T : [t |-> t, final |-> TRUE] \in C
  BY <1>2 DEF TimesOf
<1>4. f \in [T -> C]
  BY <1>3
<1>5. \A a, b \in T : f[a] = f[b] => a = b
  OBVIOUS
<1>6. \A c \in C : \E t \in T : f[t] = c
  BY <1>2 DEF TimesOf
<1>. HIDE DEF f, T
<1>7. f \in Bijection(T, C)
  BY <1>4, <1>5, <1>6 DEF Bijection, Injection, Surjection, IsInjective
<1>8. ExistsBijection(T, C)
  BY <1>7 DEF ExistsBijection
<1>. QED
  BY <1>1, <1>8, FS_Bijection, FS_CardinalityType, Zenon DEF T

(***************************************************************************)
(* Trimming makes no candle and drops none that few are newer than.        *)
(***************************************************************************)
LEMMA TrimmedIsPart ==
  ASSUME NEW C PROVE Trimmed(C) \subseteq C
BY DEF Trimmed

LEMMA TrimmedKeepsLate ==
  ASSUME NEW C, C \subseteq Candles, NEW c \in C,
         Cardinality({u \in TimesOf(C) : u > c.t}) < Bootstrap
  PROVE  c \in Trimmed(C)
<1>1. CASE MaxEntries = 0
  BY <1>1 DEF Trimmed
<1>2. CASE MaxEntries # 0
  <2>1. {u \in TimesOf(C) : u > c.t} \subseteq Times
    BY TimesOfCandles
  <2>2. Cardinality({u \in TimesOf(C) : u > c.t}) \in Nat
    BY <2>1, FewerWithin, Zenon
  <2>3. Cardinality({u \in TimesOf(C) : u > c.t}) < MaxEntries
    BY <1>2, <2>2, StreamAssumption
  <2>4. c.t \in TimesOf(C)
    BY DEF TimesOf
  <2>5. c.t \in LastOf(MaxEntries, TimesOf(C))
    BY <2>3, <2>4 DEF LastOf
  <2>. QED
    BY <1>2, <2>5 DEF Trimmed
<1>. QED
  BY <1>1, <1>2

(***************************************************************************)
(* The newest candle stays.                                                *)
(***************************************************************************)
LEMMA TrimmedKeepsNewest ==
  ASSUME NEW C, C \subseteq Candles, NEW m \in TimesOf(C), \A t \in TimesOf(C) : t <= m
  PROVE  m \in TimesOf(Trimmed(C)) /\ Newest(TimesOf(Trimmed(C))) = m
<1>1. PICK c \in C : c.t = m
  BY DEF TimesOf
<1>2. TimesOf(C) \subseteq Times /\ m \in Times
  BY TimesOfCandles
<1>3. {u \in TimesOf(C) : u > c.t} = {}
  BY <1>1, <1>2 DEF Times
<1>4. Cardinality({u \in TimesOf(C) : u > c.t}) < Bootstrap
  BY <1>3, FS_EmptySet, StreamAssumption
<1>5. c \in Trimmed(C)
  BY <1>4, TrimmedKeepsLate, Zenon
<1>6. m \in TimesOf(Trimmed(C))
  BY <1>1, <1>5 DEF TimesOf
<1>7. TimesOf(Trimmed(C)) \subseteq TimesOf(C)
  BY TrimmedIsPart DEF TimesOf
<1>. DEFINE T == TimesOf(Trimmed(C))
<1>8. T \subseteq Times /\ T # {}
  BY <1>2, <1>6, <1>7
<1>9. Newest(T) \in T /\ \A t \in T : t <= Newest(T)
  BY <1>8, NewestIsLast, Zenon
<1>10. Newest(T) <= m /\ m <= Newest(T)
  BY <1>6, <1>7, <1>9
<1>. QED
  BY <1>2, <1>6, <1>8, <1>9, <1>10 DEF Times

------------------------------------------------------------------------------
(* Types *)

(***************************************************************************)
(* The largest hazard is a number: of a finite set of numbers one has the  *)
(* fewest behind it, and that is none.                                     *)
(***************************************************************************)
LEMMA GreatestHazard == MaxHazard \in Nat
<1>. DEFINE S == {Hazard[t] : t \in Times}
            Behind(h) == {v \in S : v > h}
            Counts == {Cardinality(Behind(h)) : h \in S}
<1>1. S \subseteq Nat /\ S # {}
  <2>1. 0 \in Times
    BY StreamAssumption DEF Times
  <2>. QED
    BY <2>1, GateAssumption
<1>2. IsFiniteSet(S)
  <2>1. Hazard \in [Times -> S] /\ \A h \in S : \E t \in Times : Hazard[t] = h
    BY GateAssumption
  <2>2. Hazard \in Surjection(Times, S)
    BY <2>1 DEF Surjection
  <2>3. IsFiniteSet(Times)
    BY TimesAreFinite, Zenon
  <2>. QED
    BY <2>2, <2>3, FS_Surjection, Zenon
<1>. HIDE DEF S
<1>3. \A h \in S : IsFiniteSet(Behind(h)) /\ Cardinality(Behind(h)) \in Nat
  <2>. TAKE h \in S
  <2>1. Behind(h) \subseteq S
    OBVIOUS
  <2>. HIDE DEF S, Behind
  <2>. QED
    BY <1>2, <2>1, FS_Subset, FS_CardinalityType, Zenon
<1>4. Counts \subseteq Nat /\ Counts # {}
  BY <1>1, <1>3
<1>5. PICK n \in Counts : \A k \in Counts : n <= k
  BY <1>4, LeastNatural, Zenon
<1>6. PICK m \in S : n = Cardinality(Behind(m))
  BY <1>5
<1>7. ASSUME NEW u \in S, u > m PROVE FALSE
  <2>0. /\ \A v \in S : v > u => v > m
        /\ ~(u > u)
    BY <1>1, <1>7
  <2>1. Behind(u) \subseteq Behind(m) /\ u \in Behind(m) /\ u \notin Behind(u)
    BY <1>7, <2>0
  <2>2. Cardinality(Behind(u)) \in Counts
    OBVIOUS
  <2>3. IsFiniteSet(Behind(m)) /\ Cardinality(Behind(m)) \in Nat
        /\ Cardinality(Behind(u)) \in Nat
    BY <1>3
  <2>4. Cardinality(Behind(m)) <= Cardinality(Behind(u))
    BY <1>5, <1>6, <2>2
  <2>. HIDE DEF S, Behind, Counts
  <2>5. /\ Cardinality(Behind(u)) <= Cardinality(Behind(m))
        /\ Cardinality(Behind(m)) = Cardinality(Behind(u)) => Behind(m) = Behind(u)
    BY <2>1, <2>3, FS_Subset, Zenon
  <2>6. Cardinality(Behind(m)) = Cardinality(Behind(u))
    BY <2>3, <2>4, <2>5
  <2>. QED
    BY <2>1, <2>5, <2>6, Zenon
<1>8. \A u \in S : m >= u
  BY <1>1, <1>7
<1>9. Max(S) \in S
  BY <1>6, <1>8, Zenon DEF Max
<1>. QED
  BY <1>1, <1>9 DEF MaxHazard, S

LEMMA ShownAreCandles ==
  ASSUME StreamTypeOK, NEW until \in Times
  PROVE  Shown(until) \subseteq Candles
<1>1. market \subseteq Times
  BY StreamAssumption DEF StreamTypeOK, Times
<1>2. \A n, S : LastOf(n, S) \subseteq S
  BY DEF LastOf
<1>3. {u \in market : u <= until} \subseteq Times
  BY <1>1
<1>4. LastOf(window, {u \in market : u <= until}) \subseteq Times
  BY <1>2, <1>3, Zenon
<1>5. \A t \in Times : (t < until) \in BOOLEAN
  OBVIOUS
<1>6. \A t \in Times : [t |-> t, final |-> t < until] \in Candles
  BY <1>5, Zenon DEF Candles
<1>. QED
  BY <1>4, <1>6, Zenon DEF Shown

LEMMA NowSeen ==
  ASSUME StreamTypeOK
  PROVE  now \in Times /\ Seen \in Times
BY DEF StreamTypeOK, Seen

LEMMA NewestType ==
  ASSUME NEW T, T \subseteq Times
  PROVE  Newest(T) \in Times \cup {Never}
<1>1. CASE T = {}
  BY <1>1, NothingNewest
<1>2. CASE T # {}
  BY <1>2, NewestIsLast
<1>. QED
  BY <1>1, <1>2

LEMMA NormalisedIsPart ==
  ASSUME NEW C PROVE Normalised(C) \subseteq C /\ \A c \in Normalised(C) : c.final
BY DEF Normalised

LEMMA LatestIsTime ==
  ASSUME StreamTypeOK, Cardinality(store) >= Window
  PROVE  store # {} /\ Latest \in TimesOf(store) /\ Latest \in Times
         /\ \A t \in TimesOf(store) : t <= Latest
<1>1. store # {}
  BY FS_EmptySet, GateAssumption
<1>2. TimesOf(store) # {} /\ TimesOf(store) \subseteq Times
  BY <1>1, TimesOfCandles DEF StreamTypeOK, TimesOf, Candles
<1>3. Newest(TimesOf(store)) \in TimesOf(store)
      /\ \A t \in TimesOf(store) : t <= Newest(TimesOf(store))
  BY <1>2, NewestIsLast, Zenon
<1>. QED
  BY <1>1, <1>2, <1>3 DEF Latest

(***************************************************************************)
(* Forgetting leaves the youngest windows as they are.                     *)
(***************************************************************************)
Ends(part, whole) ==
  \E k \in 1..Len(whole) :
    /\ part \in Seq(Times)
    /\ Len(part) = Len(whole) - k + 1
    /\ \A i \in 1..Len(part) : part[i] = whole[i + k - 1]

LEMMA CountedIsEnd ==
  ASSUME NEW seen \in Seq(Times), NEW t \in Times
  PROVE  Ends(Counted(seen, t), Append(seen, t))
<1>. DEFINE all == Append(seen, t)
            young == {i \in DOMAIN all : t - all[i] <= Retention}
<1>1. all \in Seq(Times) /\ Len(all) = Len(seen) + 1 /\ all[Len(all)] = t
  BY AppendProperties
<1>2. Len(seen) \in Nat
  BY LenProperties
<1>3. DOMAIN all = 1..Len(all)
  BY <1>1, LenProperties, Zenon
<1>4. t - t <= Retention
  BY WindowAssumption, StreamAssumption DEF Times
<1>5. Len(all) \in young /\ young \subseteq 1..Len(all)
  BY <1>1, <1>2, <1>3, <1>4
<1>6. young \subseteq Nat
  BY <1>5
<1>. HIDE DEF young, all
<1>7. \E n \in young : \A m \in young : n <= m
  BY <1>5, <1>6, LeastNatural, Zenon
<1>8. Min(young) \in young
  BY <1>7, Zenon DEF Min
<1>9. Counted(seen, t) = SubSeq(all, Min(young), Len(all))
  BY DEF Counted, all, young
<1>10. PICK k : k = Min(young)
  OBVIOUS
<1>11. k \in 1..Len(all)
  BY <1>5, <1>8, <1>10
<1>12. k \in 1..Len(all) + 1 /\ Len(all) \in 0..Len(all)
  BY <1>1, <1>2, <1>11
<1>. DEFINE part == SubSeq(all, k, Len(all))
<1>13. /\ part \in Seq(Times)
       /\ Len(part) = IF k <= Len(all) THEN Len(all) - k + 1 ELSE 0
       /\ \A i \in 1 .. Len(all) - k + 1 : part[i] = all[k + i - 1]
  BY <1>1, <1>12, SubSeqProperties
<1>14. Len(part) = Len(all) - k + 1
  BY <1>11, <1>13
<1>15. \A i \in 1..Len(part) : part[i] = all[i + k - 1]
  BY <1>11, <1>13, <1>14
<1>16. Ends(part, all)
  BY <1>11, <1>13, <1>14, <1>15, Zenon DEF Ends
<1>. QED
  BY <1>9, <1>10, <1>16, Zenon DEF all

(***************************************************************************)
(* The calibrator keeps numbers, and no more of them than it may.          *)
(***************************************************************************)
LEMMA UpdatedKeepsFew ==
  ASSUME NEW sorted \in Seq(Nat), Len(sorted) <= MaxSamples, NEW value \in Nat
  PROVE  Updated(sorted, value) \in Seq(Nat) /\ Len(Updated(sorted, value)) <= MaxSamples
<1>. DEFINE below == {i \in DOMAIN sorted : sorted[i] <= value}
<1>1. DOMAIN sorted = 1..Len(sorted) /\ Len(sorted) \in Nat
  BY LenProperties
<1>2. IsFiniteSet(1..Len(sorted)) /\ Cardinality(1..Len(sorted)) = Len(sorted)
  <2>1. PICK n \in Nat : n = Len(sorted)
    BY <1>1
  <2>2. IsFiniteSet(1..n) /\ Cardinality(1..n) = IF 1 > n THEN 0 ELSE n - 1 + 1
    BY FS_Interval
  <2>3. IsFiniteSet(1..n) /\ Cardinality(1..n) = n
    BY <2>2
  <2>. QED
    BY <2>1, <2>3, Zenon
<1>3. below \subseteq 1..Len(sorted)
  BY <1>1
<1>. HIDE DEF below
<1>4. Cardinality(below) \in Nat /\ Cardinality(below) <= Cardinality(1..Len(sorted))
  BY <1>2, <1>3, FS_Subset, FS_CardinalityType, Zenon
<1>5. PICK k : k = Cardinality(below)
  OBVIOUS
<1>6. k \in 0..Len(sorted)
  BY <1>1, <1>2, <1>4, <1>5
<1>. DEFINE front == SubSeq(sorted, 1, k)
            back  == SubSeq(sorted, k + 1, Len(sorted))
<1>7. Filed(sorted, value) = front \o <<value>> \o back
  BY <1>5, Zenon DEF Filed, below
<1>8. front \in Seq(Nat) /\ Len(front) = k
  BY <1>1, <1>6, SubSeqProperties
<1>9. back \in Seq(Nat) /\ Len(back) = Len(sorted) - k
  BY <1>1, <1>6, SubSeqProperties
<1>. HIDE DEF front, back
<1>10. front \o <<value>> \in Seq(Nat) /\ Len(front \o <<value>>) = k + 1
  BY <1>6, <1>8
<1>11. front \o <<value>> \o back \in Seq(Nat)
       /\ Len(front \o <<value>> \o back) = Len(sorted) + 1
  <2>1. PICK head \in Seq(Nat) : head = front \o <<value>>
    BY <1>10
  <2>2. head \o back \in Seq(Nat) /\ Len(head \o back) = Len(head) + Len(back)
    BY <1>9, ConcatProperties
  <2>3. Len(head \o back) = Len(sorted) + 1
    BY <1>1, <1>6, <1>9, <1>10, <2>1, <2>2
  <2>. QED
    BY <2>1, <2>2, <2>3, Zenon
<1>12. Filed(sorted, value) \in Seq(Nat) /\ Len(Filed(sorted, value)) = Len(sorted) + 1
  BY <1>7, <1>11
<1>13. Filed(sorted, value) # <<>>
  BY <1>1, <1>12
<1>14. Tail(Filed(sorted, value)) \in Seq(Nat)
       /\ Len(Tail(Filed(sorted, value))) = Len(sorted)
  BY <1>1, <1>12, <1>13, HeadTailProperties
<1>. QED
  BY <1>1, <1>12, <1>14, WindowAssumption DEF Updated

------------------------------------------------------------------------------
(* The types are kept *)

Sound == TypeOK /\ GateHasTime /\ SeenBeforeJudged

LEMMA StreamStepKeepsSound ==
  ASSUME Sound, StreamNext, UNCHANGED gates PROVE Sound'
<1>. USE DEF steady, clock, stream
<1>1. UNCHANGED <<service, emitted, history, samples, gate, index, loop, hazards, unwritten>>
  BY DEF gates
<1>2. StreamTypeOK
  BY DEF Sound, TypeOK
<1>3. StreamTypeOK'
  <2>1. CASE StreamerStarts
    BY <1>2, <2>1 DEF StreamerStarts, StreamTypeOK
  <2>2. CASE CountCached
    <3>1. window' \in {Bootstrap, Incremental}
      BY <2>2 DEF CountCached, WindowCounts
    <3>. QED
      BY <1>2, <2>2, <3>1 DEF CountCached, StreamTypeOK
  <2>3. CASE Fetch
    <3>1. PICK fresh \in BOOLEAN :
            /\ faults' \in 0..MaxFaults
            /\ view' = IF fresh THEN MaxTime ELSE view
            /\ reply' = Shown(IF fresh THEN now ELSE Seen)
      BY <1>2, <2>3, StreamAssumption DEF Fetch, Fails, StreamTypeOK
    <3>2. (IF fresh THEN now ELSE Seen) \in Times
      BY <1>2, NowSeen
    <3>3. reply' \subseteq Candles
      BY <1>2, <3>1, <3>2, ShownAreCandles
    <3>4. view' \in Times
      BY <1>2, <3>1, StreamAssumption DEF StreamTypeOK, Times
    <3>5. late' \in Times \cup {Never} /\ streamer' = "writing"
          /\ UNCHANGED <<now, market, valkey, store, window, asked, cursor>>
      BY <1>2, <2>3 DEF Fetch, StreamTypeOK
    <3>. QED
      BY <1>2, <3>1, <3>3, <3>4, <3>5 DEF StreamTypeOK, Candles
  <2>4. CASE FetchUnanswered
    BY <1>2, <2>4, StreamAssumption DEF FetchUnanswered, Fails, StreamTypeOK
  <2>5. CASE FetchRaises
    BY <1>2, <2>5, StreamAssumption DEF FetchRaises, Fails, StreamTypeOK, Times
  <2>6. CASE WriteCandles
    <3>1. Normalised(reply) \subseteq Candles
      BY <1>2, NormalisedIsPart DEF StreamTypeOK, Candles
    <3>2. store' \subseteq Candles
      BY <1>2, <2>6, <3>1, TrimmedIsPart DEF WriteCandles, StreamTypeOK, Candles
    <3>3. Advanced(valkey) \in Times \cup {Never}
      BY <1>2, <3>1, TimesOfCandles, NewestType DEF Advanced, StreamTypeOK
    <3>4. UNCHANGED <<now, market, valkey, faults, view, late>>
          /\ streamer' = "idle" /\ window' = Bootstrap /\ asked' = 0
          /\ reply' = {} /\ cursor' = Advanced(valkey)
      BY <2>6 DEF WriteCandles, steady, clock
    <3>5. asked' \in Times
      BY <3>4, StreamAssumption DEF Times
    <3>. QED
      BY <1>2, <3>2, <3>3, <3>4, <3>5 DEF StreamTypeOK, Candles
  <2>. QED
    BY <2>1, <2>2, <2>3, <2>4, <2>5, <2>6 DEF StreamNext
<1>. QED
  BY <1>1, <1>3 DEF Sound, TypeOK, GateHasTime, SeenBeforeJudged

LEMMA SurroundingsKeepSound ==
  ASSUME Sound, ValkeyFails \/ ValkeyReturns \/ Pruned \/ SessionSticks, UNCHANGED gates
  PROVE  Sound'
<1>. USE DEF clock, stream
<1>1. UNCHANGED <<service, emitted, history, samples, gate, index, loop, hazards, unwritten>>
  BY DEF gates
<1>2. StreamTypeOK
  BY DEF Sound, TypeOK
<1>3. StreamTypeOK'
  <2>1. CASE ValkeyFails
    <3>1. faults' \in 0..MaxFaults
      BY <1>2, <2>1, StreamAssumption DEF ValkeyFails, Fails, StreamTypeOK
    <3>2. /\ valkey' \in BOOLEAN
          /\ UNCHANGED <<now, market, store, streamer, window, asked, reply, cursor, view, late>>
      BY <2>1 DEF ValkeyFails
    <3>. QED
      BY <1>2, <3>1, <3>2 DEF StreamTypeOK
  <2>2. CASE ValkeyReturns
    BY <1>2, <2>2 DEF ValkeyReturns, StreamTypeOK
  <2>3. CASE Pruned
    BY <1>2, <2>3, StreamAssumption DEF Pruned, Fails, StreamTypeOK
  <2>4. CASE SessionSticks
    BY <1>2, <2>4, StreamAssumption DEF SessionSticks, Fails, StreamTypeOK, Times
  <2>. QED
    BY <2>1, <2>2, <2>3, <2>4
<1>. QED
  BY <1>1, <1>3 DEF Sound, TypeOK, GateHasTime, SeenBeforeJudged

LEMMA TickKeepsSound ==
  ASSUME Sound, TimePasses PROVE Sound'
<1>1. StreamTypeOK'
  <2>1. now' = now + 1 /\ now < MaxTime /\ now \in Times /\ market \subseteq 0..now
    BY DEF TimePasses, Tick, Sound, TypeOK, StreamTypeOK
  <2>2. now' \in Times
    BY <2>1, StreamAssumption DEF Times
  <2>3. market \subseteq 0..now' /\ market \cup {now'} \subseteq 0..now'
    BY <2>1 DEF Times
  <2>4. market' \subseteq 0..now'
    BY <2>1, <2>3 DEF TimePasses, Tick
  <2>5. UNCHANGED <<valkey, faults, store, streamer, window, asked, reply, cursor, view, late>>
    BY DEF TimePasses, Tick, stream
  <2>. QED
    BY <2>2, <2>4, <2>5 DEF Sound, TypeOK, StreamTypeOK
<1>2. gate' = gate \/ gate' = NoGate
  BY DEF TimePasses, Living
<1>3. UNCHANGED <<service, emitted, history, samples, index, loop, hazards, unwritten>>
  BY DEF TimePasses
<1>4. 0 \in Times /\ 0 \in Nat
  BY StreamAssumption DEF Times
<1>5. /\ NoGate.ts = Never /\ NoGate.reps = 0 /\ NoGate.admit = FALSE
      /\ NoGate.active = FALSE /\ NoGate.born = 0
  BY DEF NoGate
<1>6. /\ gate'.ts \in Times \cup {Never} /\ gate'.reps \in Nat
      /\ gate'.admit \in BOOLEAN /\ gate'.active \in BOOLEAN /\ gate'.born \in Times
  BY <1>2, <1>4, <1>5 DEF Sound, TypeOK
<1>7. GateHasTime'
  BY <1>2 DEF Sound, GateHasTime
<1>. QED
  BY <1>1, <1>3, <1>6, <1>7 DEF Sound, TypeOK, SeenBeforeJudged

LEMMA GateFailsOnce ==
  ASSUME NEW kind, GateFails(kind), TypeOK
  PROVE  faults' \in 0..MaxFaults
BY StreamAssumption DEF GateFails, TypeOK, StreamTypeOK

LEMMA ServiceKeepsSound ==
  ASSUME Sound, ServiceStarts \/ ServiceEnds PROVE Sound'
<1>. USE DEF steady, clock, stream
<1>1. CASE ServiceStarts
  <2>1. <<>> \in Seq(Nat) /\ Len(<<>>) = 0 /\ <<>> \in Seq(Times)
    BY EmptySeq
  <2>2. [s \in Signatures |-> <<>>] \in [Signatures -> Seq(Times)]
    BY <2>1
  <2>3. StreamTypeOK'
    BY <1>1 DEF ServiceStarts, Sound, TypeOK, StreamTypeOK
  <2>4. /\ service' = "up" /\ emitted' = Never /\ samples' = <<>> /\ hazards' = <<>>
        /\ history' = [s \in Signatures |-> <<>>] /\ unwritten' = FALSE
        /\ UNCHANGED <<gate, index, loop>>
    BY <1>1 DEF ServiceStarts
  <2>5. history' \in [Signatures -> Seq(Times)]
    BY <2>2, <2>4, Zenon
  <2>6. samples' \in Seq(Nat) /\ Len(samples') <= MaxSamples /\ hazards' \in Seq(Nat)
    BY <2>1, <2>4, WindowAssumption
  <2>. QED
    BY <2>3, <2>4, <2>5, <2>6 DEF Sound, TypeOK, GateHasTime, SeenBeforeJudged
<1>2. CASE ServiceEnds
  <2>1. faults' \in 0..MaxFaults
    BY <1>2, GateFailsOnce DEF ServiceEnds, Sound
  <2>2. StreamTypeOK'
    BY <1>2, <2>1 DEF ServiceEnds, Sound, TypeOK, StreamTypeOK
  <2>. QED
    BY <1>2, <2>2 DEF ServiceEnds, Sound, TypeOK, GateHasTime, SeenBeforeJudged
<1>. QED
  BY <1>1, <1>2

(***************************************************************************)
(* A gate is judged for the first time, or its verdict stands.             *)
(***************************************************************************)
LEMMA LoopKeepsSound ==
  ASSUME Sound, LoadGate \/ LoopRestarts PROVE Sound'
<1>. USE DEF steady, clock, stream
<1>1. CASE LoadGate
  <2>1. gate.ts \in Times /\ gate.reps \in Nat /\ gate.active \in BOOLEAN
    BY <1>1 DEF LoadGate, Sound, GateHasTime, TypeOK
  <2>2. Tension(gate) \in Int
    BY <2>1, GreatestHazard, GateAssumption DEF Tension
  <2>3. loop.ts \in Times \cup {Never} /\ loop.st \in Int /\ loop.peak \in BOOLEAN
    BY DEF Sound, TypeOK
  <2>4. loop' = Judged(loop, gate)
    BY <1>1 DEF LoadGate
  <2>5. loop'.ts \in Times \cup {Never} /\ loop'.st \in Int /\ loop'.peak \in BOOLEAN
    BY <2>1, <2>2, <2>3, <2>4 DEF Judged
  <2>6. loop'.ts = Never => ~loop'.peak
    BY <2>1, <2>4, StreamAssumption DEF Judged, Sound, SeenBeforeJudged, Times, Never
  <2>7. StreamTypeOK'
    BY <1>1 DEF LoadGate, Sound, TypeOK, StreamTypeOK
  <2>. QED
    BY <1>1, <2>5, <2>6, <2>7
    DEF LoadGate, Sound, TypeOK, GateHasTime, SeenBeforeJudged
<1>2. CASE LoopRestarts
  <2>1. faults' \in 0..MaxFaults
    BY <1>2, GateFailsOnce DEF LoopRestarts, Sound
  <2>2. StreamTypeOK'
    BY <1>2, <2>1 DEF LoopRestarts, Sound, TypeOK, StreamTypeOK
  <2>. QED
    BY <1>2, <2>2 DEF LoopRestarts, Sound, TypeOK, GateHasTime, SeenBeforeJudged, NewLoop
<1>. QED
  BY <1>1, <1>2

LEMMA WindowKeepsSound ==
  ASSUME Sound, ProcessInstrument PROVE Sound'
<1>. USE DEF clock, stream
<1>. DEFINE t    == Latest
            past == Updated(samples, Hazard[t])
            seen == Counted(history[Signature[t]], t)
            new  == [ts     |-> t,
                     reps   |-> Len(seen),
                     admit  |-> Hazard[t] <= Threshold(past) /\ Regime[t] \in AdmitRegimes,
                     active |-> Regime[t] # "neutral",
                     born   |-> now]
<1>1. t \in Times
  BY LatestIsTime DEF ProcessInstrument, NewWindow, Sound, TypeOK
<1>2. past \in Seq(Nat) /\ Len(past) <= MaxSamples
  BY <1>1, UpdatedKeepsFew, GateAssumption DEF Sound, TypeOK
<1>3. Signature[t] \in Signatures /\ history[Signature[t]] \in Seq(Times)
  BY <1>1 DEF Sound, TypeOK, Signatures
<1>4. seen \in Seq(Times) /\ Len(seen) \in Nat
  <2>1. Ends(seen, Append(history[Signature[t]], t))
    BY <1>1, <1>3, CountedIsEnd
  <2>. HIDE DEF seen
  <2>2. seen \in Seq(Times)
    BY <2>1, Zenon DEF Ends
  <2>. QED
    BY <2>2, LenProperties
<1>5. /\ samples' = past
      /\ hazards' = Append(hazards, Hazard[t])
      /\ history' = [history EXCEPT ![Signature[t]] = seen]
      /\ gate' = new \/ gate' = gate
      /\ index' = index \cup {t} \/ index' = index
      /\ emitted' = t \/ emitted' = emitted
      /\ unwritten' = TRUE \/ unwritten' = unwritten
      /\ UNCHANGED <<now, market, valkey, store, service, loop>>
      /\ UNCHANGED <<streamer, window, asked, reply, cursor, view, late>>
  BY DEF ProcessInstrument, EmittedOnceTaken
<1>6. faults' \in 0..MaxFaults
  BY GateFailsOnce DEF ProcessInstrument, Sound, TypeOK, StreamTypeOK
<1>7. StreamTypeOK'
  BY <1>5, <1>6 DEF Sound, TypeOK, StreamTypeOK
<1>8. new.ts = t /\ new.reps = Len(seen) /\ new.born = now
      /\ new.admit \in BOOLEAN /\ new.active \in BOOLEAN
  <2>1. (Hazard[t] <= Threshold(past) /\ Regime[t] \in AdmitRegimes) \in BOOLEAN
        /\ (Regime[t] # "neutral") \in BOOLEAN
    OBVIOUS
  <2>. QED
    BY <2>1, Zenon
<1>9. now \in Times /\ Hazard[t] \in Nat
  BY <1>1, GateAssumption DEF Sound, TypeOK, StreamTypeOK
<1>10. Never \notin Times
  BY StreamAssumption DEF Times, Never
<1>. HIDE DEF t, past, seen, new
<1>11. history' \in [Signatures -> Seq(Times)]
  BY <1>3, <1>4, <1>5 DEF Sound, TypeOK
<1>12. hazards' \in Seq(Nat)
  BY <1>5, <1>9, AppendProperties DEF Sound, TypeOK
<1>13. /\ gate'.ts \in Times \cup {Never} /\ gate'.reps \in Nat
       /\ gate'.admit \in BOOLEAN /\ gate'.active \in BOOLEAN /\ gate'.born \in Times
  BY <1>1, <1>4, <1>5, <1>8, <1>9 DEF Sound, TypeOK
<1>14. GateHasTime'
  BY <1>1, <1>5, <1>8, <1>10 DEF Sound, GateHasTime
<1>15. /\ samples' \in Seq(Nat) /\ Len(samples') <= MaxSamples
       /\ index' \subseteq Times /\ emitted' \in Times \cup {Never} /\ unwritten' \in BOOLEAN
  BY <1>1, <1>2, <1>5 DEF Sound, TypeOK
<1>. QED
  BY <1>5, <1>7, <1>11, <1>12, <1>13, <1>14, <1>15 DEF Sound, TypeOK, SeenBeforeJudged

------------------------------------------------------------------------------
(* What an answer holds *)

(***************************************************************************)
(* The closed candles that a session shows: of the market up to its view,  *)
(* the last few without the one of that moment.                            *)
(***************************************************************************)
ShownClosed(until) == TimesOf(Normalised(Shown(until)))

Upto(until) == {u \in market : u <= until}

LEMMA ShownClosedAre ==
  ASSUME NEW until
  PROVE  ShownClosed(until) = {t \in LastOf(window, Upto(until)) : t < until}
<1>1. Shown(until) = {[t |-> t, final |-> t < until] : t \in LastOf(window, Upto(until))}
  BY DEF Shown, Upto
<1>2. ASSUME NEW t \in ShownClosed(until)
      PROVE  t \in LastOf(window, Upto(until)) /\ t < until
  <2>1. PICK c \in Shown(until) : c.final /\ c.t = t
    BY <1>2 DEF ShownClosed, TimesOf, Normalised
  <2>2. PICK u \in LastOf(window, Upto(until)) : c = [t |-> u, final |-> u < until]
    BY <1>1, <2>1
  <2>. QED
    BY <2>1, <2>2
<1>3. ASSUME NEW t \in LastOf(window, Upto(until)), t < until
      PROVE  t \in ShownClosed(until)
  <2>. DEFINE c == [t |-> t, final |-> t < until]
  <2>1. c \in Shown(until) /\ c.t = t /\ c.final
    BY <1>1, <1>3
  <2>. QED
    BY <2>1, Zenon DEF ShownClosed, TimesOf, Normalised
<1>. QED
  BY <1>2, <1>3

LEMMA MarketTimes ==
  ASSUME StreamTypeOK
  PROVE  /\ market \subseteq Times /\ Times \subseteq Nat /\ now \in Nat
         /\ window \in Nat \ {0}
         /\ \A t \in market : t \in Nat /\ t <= now
         /\ \A until : Upto(until) \subseteq Times
<1>1. Times \subseteq Nat /\ now \in Times
  BY StreamAssumption DEF StreamTypeOK, Times
<1>2. market \subseteq 0..now
  BY DEF StreamTypeOK
<1>3. market \subseteq Times /\ \A t \in market : t \in Nat /\ t <= now
  BY <1>1, <1>2, StreamAssumption DEF Times
<1>4. window \in Nat \ {0}
  BY StreamAssumption DEF StreamTypeOK
<1>. QED
  BY <1>1, <1>3, <1>4 DEF Upto

(***************************************************************************)
(* An answer with anything closed in it holds the newest that is closed.   *)
(***************************************************************************)
LEMMA AnswerHoldsNewest ==
  ASSUME StreamTypeOK, NEW until \in Times, ShownClosed(until) # {}
  PROVE  /\ Newest(ShownClosed(until)) \in ShownClosed(until)
         /\ \A t \in market : t < until => t <= Newest(ShownClosed(until))
<1>1. market \subseteq Times /\ Times \subseteq Nat /\ window \in Nat
      /\ Upto(until) \subseteq Times
  BY MarketTimes
<1>2. LastOf(window, Upto(until)) \subseteq Upto(until)
  BY DEF LastOf
<1>3. ShownClosed(until) \subseteq Times
  BY <1>1, <1>2, ShownClosedAre
<1>4. PICK m : m = Newest(ShownClosed(until))
  OBVIOUS
<1>5. m \in ShownClosed(until) /\ \A t \in ShownClosed(until) : t <= m
  BY <1>3, <1>4, NewestIsLast, Zenon
<1>6. m \in LastOf(window, Upto(until)) /\ m \in Nat
  BY <1>1, <1>3, <1>5, ShownClosedAre
<1>7. ASSUME NEW t \in market, t < until PROVE t <= m
  <2>1. SUFFICES ASSUME m <= t PROVE t <= m
    BY <1>1, <1>6
  <2>2. t \in Upto(until)
    BY <1>1, <1>7 DEF Upto
  <2>3. t \in LastOf(window, Upto(until))
    BY <1>1, <1>6, <2>1, <2>2, LaterIsLast, Zenon
  <2>4. t \in ShownClosed(until)
    BY <1>7, <2>3, ShownClosedAre
  <2>. QED
    BY <1>5, <2>4
<1>. QED
  BY <1>4, <1>5, <1>7, Zenon

(***************************************************************************)
(* A request for many candles brings the last of them but one, or all.     *)
(***************************************************************************)
LEMMA ManyAreDeep ==
  ASSUME StreamTypeOK, window = Bootstrap, NEW until \in Times, ShownClosed(until) # {},
         NEW t \in LastOf(Bootstrap - 1, Upto(Newest(ShownClosed(until))))
  PROVE  t \in ShownClosed(until)
<1>1. market \subseteq Times /\ Times \subseteq Nat /\ window \in Nat \ {0}
      /\ \A x : Upto(x) \subseteq Times
  BY MarketTimes
<1>2. PICK m : m = Newest(ShownClosed(until))
  OBVIOUS
<1>. DEFINE Lower == {u \in Upto(m) : u > t}
            Upper == {u \in Upto(until) : u > t}
<1>3. /\ m \in ShownClosed(until)
      /\ \A u \in market : u < until => u <= m
  BY <1>2, AnswerHoldsNewest
<1>4. m \in LastOf(window, Upto(until)) /\ m < until
  BY <1>3, ShownClosedAre
<1>5. m \in Nat /\ until \in Nat
  BY <1>1, <1>4 DEF LastOf
<1>6. t \in Upto(m) /\ Cardinality(Lower) < Bootstrap - 1
  BY <1>2 DEF LastOf
<1>7. t \in market /\ t \in Nat /\ t <= m /\ t < until
  BY <1>1, <1>4, <1>5, <1>6 DEF Upto
<1>8. Upper \subseteq Lower \cup {until}
  <2>. SUFFICES ASSUME NEW u \in market, u <= until, u > t
                PROVE  u <= m \/ u = until
    BY DEF Upto
  <2>1. u \in Nat
    BY <1>1
  <2>. QED
    BY <1>3, <1>5, <2>1
<1>9. Lower \subseteq Times
  BY <1>1
<1>. HIDE DEF Lower, Upper
<1>10. IsFiniteSet(Lower) /\ Cardinality(Lower) \in Nat
  BY <1>9, TimesAreFinite, FS_CardinalityType, Zenon
<1>11. Cardinality(Lower \cup {until})
         = IF until \in Lower THEN Cardinality(Lower) ELSE Cardinality(Lower) + 1
  BY <1>10, FS_AddElement, Zenon
<1>12. Lower \cup {until} \subseteq Times
  BY <1>9
<1>13. Cardinality(Upper) \in Nat /\ Cardinality(Lower \cup {until}) \in Nat
       /\ Cardinality(Upper) <= Cardinality(Lower \cup {until})
  BY <1>8, <1>12, FewerWithin, Zenon
<1>14. Cardinality(Upper) < window
  BY <1>6, <1>10, <1>11, <1>13, StreamAssumption
<1>15. t \in Upto(until)
  BY <1>5, <1>7 DEF Upto
<1>16. t \in LastOf(window, Upto(until))
  BY <1>14, <1>15 DEF LastOf, Upper
<1>. QED
  BY <1>7, <1>16, ShownClosedAre

(***************************************************************************)
(* A request for a few candles brings all that closed since a moment that  *)
(* is not longer ago.                                                      *)
(***************************************************************************)
LEMMA FewReachBack ==
  ASSUME StreamTypeOK, NEW until \in Times, until <= now,
         NEW c \in Times, now - c <= window,
         NEW t \in market, c < t, t < until
  PROVE  t \in ShownClosed(until)
<1>1. market \subseteq Times /\ Times \subseteq Nat /\ window \in Nat \ {0} /\ now \in Nat
      /\ \A u \in market : u \in Nat /\ u <= now
      /\ Upto(until) \subseteq Times
  BY MarketTimes
<1>. DEFINE Upper == {u \in Upto(until) : u > t}
<1>2. t \in Nat /\ c \in Nat /\ t <= now /\ until \in Nat
  BY <1>1
<1>3. Upper \subseteq (t + 1)..now
  <2>. SUFFICES ASSUME NEW u \in market, u > t PROVE u \in (t + 1)..now
    BY DEF Upto
  <2>. QED
    BY <1>1, <1>2
<1>4. IsFiniteSet((t + 1)..now)
      /\ Cardinality((t + 1)..now) = IF t + 1 > now THEN 0 ELSE now - (t + 1) + 1
  <2>1. t + 1 \in Int /\ now \in Int
    BY <1>2, <1>1
  <2>. QED
    BY <2>1, FS_Interval, Zenon
<1>. HIDE DEF Upper
<1>5. Cardinality(Upper) <= Cardinality((t + 1)..now) /\ IsFiniteSet(Upper)
  BY <1>3, <1>4, FS_Subset, Zenon
<1>6. Cardinality(Upper) \in Nat
  BY <1>5, FS_CardinalityType, Zenon
<1>7. Cardinality(Upper) < window
  BY <1>1, <1>2, <1>4, <1>5, <1>6
<1>8. t \in Upto(until)
  BY <1>2 DEF Upto
<1>9. t \in LastOf(window, Upto(until))
  BY <1>7, <1>8 DEF LastOf, Upper
<1>. QED
  BY <1>9, ShownClosedAre

LEMMA FewAreFew ==
  ASSUME StreamTypeOK, NEW until \in Times
  PROVE  /\ ShownClosed(until) \subseteq Times
         /\ Cardinality(ShownClosed(until)) \in Nat
         /\ Cardinality(ShownClosed(until)) <= window
<1>1. Upto(until) \subseteq Times /\ window \in Nat \ {0}
  BY MarketTimes
<1>2. /\ LastOf(window, Upto(until)) \subseteq Upto(until)
      /\ Cardinality(LastOf(window, Upto(until))) \in Nat
      /\ Cardinality(LastOf(window, Upto(until))) <= window
  BY <1>1, LastAreFew, Zenon
<1>3. ShownClosed(until) \subseteq LastOf(window, Upto(until))
      /\ LastOf(window, Upto(until)) \subseteq Times
  BY <1>1, <1>2, ShownClosedAre
<1>4. Cardinality(ShownClosed(until)) \in Nat
      /\ Cardinality(ShownClosed(until)) <= Cardinality(LastOf(window, Upto(until)))
  BY <1>3, FewerWithin, Zenon
<1>. QED
  BY <1>1, <1>2, <1>3, <1>4

------------------------------------------------------------------------------
(* The stream keeps its promises *)

LEMMA KnownAreTimes ==
  ASSUME TypeOK
  PROVE  /\ Known \subseteq Times /\ TimesOf(store) \subseteq Known
         /\ cursor # Never => cursor \in Known
         /\ Arrived \subseteq Times
<1>1. TimesOf(store) \subseteq Times
  BY TimesOfCandles DEF TypeOK, StreamTypeOK, Candles
<1>2. Normalised(reply) \subseteq Candles
  BY NormalisedIsPart DEF TypeOK, StreamTypeOK, Candles
<1>. QED
  BY <1>1, <1>2, TimesOfCandles DEF Known, Arrived, TypeOK, StreamTypeOK

LEMMA FetchKeeps ==
  ASSUME Sound, StreamSound, Fetch, UNCHANGED gates
  PROVE  StreamSound'
<1>. USE DEF clock
<1>1. TypeOK /\ StreamTypeOK
  BY DEF Sound, TypeOK
<1>2. PICK fresh \in BOOLEAN :
        /\ view' = IF fresh THEN MaxTime ELSE view
        /\ reply' = Shown(IF fresh THEN now ELSE Seen)
  BY DEF Fetch
<1>3. /\ streamer = "asking" /\ streamer' = "writing"
      /\ late' = IF asked # now THEN now ELSE late
      /\ UNCHANGED <<now, market, valkey, store, window, asked, cursor, emitted, gate, loop>>
  BY DEF Fetch, gates
<1>4. PICK until : until = IF fresh THEN now ELSE Seen
  OBVIOUS
<1>5. now \in Times /\ Times \subseteq Nat /\ MaxTime \in Nat
  BY <1>1, StreamAssumption DEF StreamTypeOK, Times
<1>6. until \in Times /\ until <= now
  BY <1>1, <1>4, <1>5, NowSeen DEF StreamSound, ViewIsPast, Seen
<1>7. \A t : Closed(t) => t < until
  BY <1>4 DEF Closed, Seen
<1>8. ASSUME NEW t \in market, t < until PROVE Closed(t)'
  <2>1. t \in Nat
    BY <1>1, MarketTimes
  <2>2. t < now
    BY <1>5, <1>6, <1>8, <2>1
  <2>3. view' # MaxTime => t < view'
    BY <1>2, <1>4, <1>8 DEF Seen
  <2>. QED
    BY <1>3, <1>8, <2>2, <2>3 DEF Closed
<1>9. PICK F : F = ShownClosed(until)
  OBVIOUS
<1>10. Arrived' = F
  BY <1>2, <1>4, <1>9, Zenon DEF Arrived, ShownClosed
<1>11. Known' = Known
  BY <1>3 DEF Known
<1>12. \A t \in F : t \in market /\ t < until
  BY <1>9, ShownClosedAre DEF LastOf, Upto
<1>13. ClosedOnly'
  <2>1. \A t \in Known : t \in market /\ t < until
    BY <1>7 DEF StreamSound, ClosedOnly, Closed
  <2>2. \A t \in Known' : Closed(t)'
    BY <1>8, <1>11, <2>1
  <2>3. \A t \in Arrived' : Closed(t)'
    BY <1>8, <1>10, <1>12
  <2>. QED
    BY <1>3, <2>2, <2>3 DEF StreamSound, ClosedOnly
<1>14. ViewIsPast'
  BY <1>2, <1>3 DEF StreamSound, ViewIsPast
<1>15. F # {} => Newest(F) \in F /\ \A t \in market : t < until => t <= Newest(F)
  BY <1>1, <1>6, <1>9, AnswerHoldsNewest
<1>16. NewestLeads'
  <2>1. \A t \in Known : t \in market /\ t < until
    BY <1>7 DEF StreamSound, ClosedOnly, Closed
  <2>2. Latest' = Latest
    BY <1>3 DEF Latest
  <2>3. \A t \in Known : F # {} => t <= Newest(F)
    BY <1>15, <2>1
  <2>. QED
    BY <1>3, <1>10, <1>11, <2>2, <2>3 DEF StreamSound, NewestLeads
<1>17. CursorLeads'
  BY <1>3 DEF StreamSound, CursorLeads
<1>18. FewForCause'
  BY <1>3 DEF StreamSound, FewForCause
<1>0. now # Never
  BY <1>1, StreamAssumption DEF StreamTypeOK, Times, Never
<1>19. AnswerCovers'
  <2>. SUFFICES ASSUME late' = Never, F # {}
                PROVE  /\ window = Bootstrap =>
                            LastOf(Bootstrap - 1, Upto(Newest(F))) \subseteq F
                       /\ window # Bootstrap =>
                            /\ Cardinality(F) <= Incremental
                            /\ store # {} =>
                                 \A t \in market : cursor < t /\ t <= Newest(F) => t \in F
    BY <1>3, <1>10 DEF AnswerCovers, Upto
  <2>1. asked = now
    BY <1>3, <1>0
  <2>2. CASE window = Bootstrap
    BY <1>1, <1>6, <1>9, <2>2, ManyAreDeep
  <2>3. CASE window # Bootstrap
    <3>1. window = Incremental
      BY <1>1, <2>3 DEF StreamTypeOK
    <3>2. Cardinality(F) <= Incremental
      BY <1>1, <1>6, <1>9, <3>1, FewAreFew
    <3>3. ASSUME store # {}, NEW t \in market, cursor < t, t <= Newest(F) PROVE t \in F
      <4>1. cursor # Never /\ now - cursor <= window
        BY <1>3, <2>1, <2>3, <3>1, <3>3 DEF StreamSound, FewForCause
      <4>2. cursor \in Times
        BY <1>1, <4>1 DEF StreamTypeOK
      <4>3. Newest(F) < until /\ Newest(F) \in Nat /\ t \in Nat /\ until \in Nat
        BY <1>1, <1>5, <1>6, <1>12, <1>15, MarketTimes
      <4>4. t < until
        BY <3>3, <4>3
      <4>. QED
        BY <1>1, <1>6, <1>9, <3>3, <4>1, <4>2, <4>4, FewReachBack
    <3>. QED
      BY <2>3, <3>2, <3>3
  <2>. QED
    BY <2>2, <2>3
<1>20. NoHole'
  BY <1>3, <1>0 DEF StreamSound, NoHole
<1>. QED
  BY <1>13, <1>14, <1>16, <1>17, <1>18, <1>19, <1>20 DEF StreamSound

(***************************************************************************)
(* The other steps of the streamer that touch neither the store nor what   *)
(* was answered.                                                           *)
(***************************************************************************)
LEMMA StreamerStartsKeeps ==
  ASSUME StreamSound, StreamerStarts, UNCHANGED gates
  PROVE  StreamSound'
<1>1. /\ streamer' = "idle"
      /\ UNCHANGED <<now, market, store, window, asked, cursor, view, late, emitted, gate, loop>>
  BY DEF StreamerStarts, steady, clock, gates
<1>2. Known' = Known /\ Latest' = Latest /\ \A t : Closed(t)' <=> Closed(t)
  BY <1>1 DEF Known, Latest, Closed
<1>. QED
  BY <1>1, <1>2
  DEF StreamSound, ClosedOnly, ViewIsPast, NewestLeads, CursorLeads, FewForCause,
      AnswerCovers, NoHole

LEMMA CountCachedKeeps ==
  ASSUME StreamTypeOK, StreamSound, CountCached, UNCHANGED gates
  PROVE  StreamSound'
<1>1. /\ streamer' = "asking" /\ asked' = now
      /\ window' \in WindowCounts(IF valkey THEN Cardinality(store) ELSE 0)
      /\ UNCHANGED <<now, market, store, cursor, view, late, emitted, gate, loop>>
  BY DEF CountCached, steady, clock, gates
<1>2. Known' = Known /\ Latest' = Latest /\ \A t : Closed(t)' <=> Closed(t)
  BY <1>1 DEF Known, Latest, Closed
<1>3. ASSUME window' # Bootstrap
      PROVE  Cardinality(store) >= Bootstrap /\ cursor # Never /\ now - cursor <= Incremental
  <2>1. Cardinality(store) \in Nat
    <3>1. store \subseteq Candles /\ \A e \in store : e.final
      BY DEF StreamTypeOK, Candles, StreamSound, ClosedOnly
    <3>. QED
      BY <3>1, OneCandlePerTime, Zenon
  <2>2. PICK cached \in Nat : cached = IF valkey THEN Cardinality(store) ELSE 0
    BY <2>1
  <2>3. window' \in WindowCounts(cached)
    BY <1>1, <2>2, Zenon
  <2>4. now \in Nat /\ (cursor # Never => cursor \in Nat)
    BY StreamAssumption DEF StreamTypeOK, Times
  <2>5. cached >= Bootstrap /\ cursor # Never /\ now - cursor <= Incremental
    <3>1. CASE cached < Bootstrap \/ cursor = Never
      BY <1>3, <2>3, <3>1 DEF WindowCounts
    <3>2. CASE ~(cached < Bootstrap) /\ cursor # Never /\ now - cursor > Incremental
      BY <1>3, <2>3, <3>2, StreamAssumption DEF WindowCounts
    <3>. QED
      BY <2>4, <3>1, <3>2, StreamAssumption
  <2>. QED
    BY <2>2, <2>5, StreamAssumption
<1>4. FewForCause'
  BY <1>1, <1>3 DEF FewForCause
<1>. QED
  BY <1>1, <1>2, <1>4
  DEF StreamSound, ClosedOnly, ViewIsPast, NewestLeads, CursorLeads, AnswerCovers, NoHole

LEMMA FetchUnansweredKeeps ==
  ASSUME StreamSound, FetchUnanswered, UNCHANGED gates
  PROVE  StreamSound'
<1>1. /\ streamer = "asking" /\ streamer' = "writing" /\ reply' = {}
      /\ UNCHANGED <<now, market, store, window, asked, cursor, view, late, emitted, gate, loop>>
  BY DEF FetchUnanswered, clock, gates
<1>2. Known' = Known /\ Latest' = Latest /\ \A t : Closed(t)' <=> Closed(t)
  BY <1>1 DEF Known, Latest, Closed
<1>3. Arrived' = {}
  BY <1>1 DEF Arrived, Normalised, TimesOf
<1>. QED
  BY <1>1, <1>2, <1>3
  DEF StreamSound, ClosedOnly, ViewIsPast, NewestLeads, CursorLeads, FewForCause,
      AnswerCovers, NoHole

LEMMA FetchRaisesKeeps ==
  ASSUME StreamSound, FetchRaises, UNCHANGED gates
  PROVE  StreamSound'
<1>1. /\ streamer' = "down" /\ cursor' = Never /\ view' = MaxTime
      /\ UNCHANGED <<now, market, store, emitted, gate, loop>>
  BY DEF FetchRaises, clock, gates
<1>2. Known' \subseteq Known /\ Latest' = Latest /\ \A t : Closed(t) => Closed(t)'
  BY <1>1 DEF Known, Latest, Closed
<1>. QED
  BY <1>1, <1>2
  DEF StreamSound, ClosedOnly, ViewIsPast, NewestLeads, CursorLeads, FewForCause,
      AnswerCovers, NoHole

(***************************************************************************)
(* The last candles of the market survive trimming.                        *)
(***************************************************************************)
LEMMA TrimmedKeepsLast ==
  ASSUME StreamTypeOK, NEW C, C \subseteq Candles, NEW m,
         \A u \in TimesOf(C) : u \in market /\ u <= m,
         NEW t \in LastOf(Bootstrap - 1, Upto(m)), t \in TimesOf(C)
  PROVE  t \in TimesOf(Trimmed(C))
<1>. DEFINE Fewer == {u \in TimesOf(C) : u > t}
            More  == {u \in Upto(m) : u > t}
<1>1. Fewer \subseteq More
  BY DEF Upto
<1>2. More \subseteq Times
  BY MarketTimes
<1>3. Cardinality(More) < Bootstrap - 1
  BY DEF LastOf
<1>. HIDE DEF More
<1>4. Cardinality(Fewer) \in Nat /\ Cardinality(More) \in Nat
      /\ Cardinality(Fewer) <= Cardinality(More)
  BY <1>1, <1>2, FewerWithin, Zenon
<1>5. Cardinality(Fewer) < Bootstrap
  BY <1>3, <1>4, StreamAssumption
<1>6. PICK c \in C : c.t = t
  BY DEF TimesOf
<1>7. Cardinality({u \in TimesOf(C) : u > c.t}) < Bootstrap
  BY <1>5, <1>6
<1>8. c \in Trimmed(C)
  BY <1>7, TrimmedKeepsLate, Zenon
<1>. QED
  BY <1>6, <1>8 DEF TimesOf

LEMMA StoreIsFinite ==
  ASSUME StreamTypeOK, ClosedOnly
  PROVE  /\ store \subseteq Candles
         /\ IsFiniteSet(store) /\ Cardinality(store) \in Nat
         /\ Cardinality(TimesOf(store)) = Cardinality(store)
<1>1. store \subseteq Candles /\ \A e \in store : e.final
  BY DEF StreamTypeOK, Candles, ClosedOnly
<1>. QED
  BY <1>1, OneCandlePerTime, Zenon

(***************************************************************************)
(* A write that brings nothing new, or does not get through.               *)
(***************************************************************************)
LEMMA EmptyWriteKeeps ==
  ASSUME Sound, StreamSound, WriteCandles, ~valkey \/ Arrived = {}, UNCHANGED gates
  PROVE  StreamSound'
<1>1. TypeOK /\ StreamTypeOK
  BY DEF Sound, TypeOK
<1>2. /\ streamer' = "idle"
      /\ UNCHANGED <<now, market, view, late, emitted, gate, loop>>
  BY DEF WriteCandles, steady, clock, gates
<1>3. Arrived = {} => Normalised(reply) = {}
  BY DEF Arrived, TimesOf
<1>4. cursor' = cursor /\ (store' = store \/ store' = Trimmed(store))
  BY <1>3 DEF WriteCandles, Advanced
<1>5. store' \subseteq store
  BY <1>4, TrimmedIsPart
<1>6. TimesOf(store') \subseteq TimesOf(store) /\ Known' \subseteq Known
  BY <1>2, <1>4, <1>5 DEF TimesOf, Known
<1>7. \A t : Closed(t) <=> Closed(t)'
  BY <1>2 DEF Closed
<1>8. ClosedOnly'
  BY <1>2, <1>5, <1>6, <1>7 DEF StreamSound, ClosedOnly
<1>9. store \subseteq Candles /\ IsFiniteSet(store) /\ TimesOf(store) \subseteq Times
  BY <1>1, StoreIsFinite, TimesOfCandles DEF StreamSound
<1>10. store' # {} => Latest' = Latest /\ store # {}
  <2>1. CASE store' = store
    BY <2>1 DEF Latest
  <2>2. CASE store' = Trimmed(store) /\ store' # {}
    <3>1. store # {}
      BY <1>5, <2>2
    <3>2. TimesOf(store) # {}
      BY <3>1 DEF TimesOf
    <3>3. Latest \in TimesOf(store) /\ \A t \in TimesOf(store) : t <= Latest
      BY <1>9, <3>2, NewestIsLast, Zenon DEF Latest
    <3>4. Newest(TimesOf(Trimmed(store))) = Latest
      BY <1>9, <3>3, TrimmedKeepsNewest, Zenon
    <3>. QED
      BY <2>2, <3>1, <3>4, Zenon DEF Latest
  <2>. QED
    BY <1>4, <2>1, <2>2
<1>11. NewestLeads'
  BY <1>2, <1>6, <1>10 DEF StreamSound, NewestLeads
<1>12. CursorLeads'
  BY <1>4, <1>5 DEF StreamSound, CursorLeads
<1>13. NoHole'
  <2>. SUFFICES ASSUME cursor # Never, late = Never, Cardinality(store') >= Bootstrap,
                       NEW t \in LastOf(Bootstrap - 1, Upto(cursor))
                PROVE  t \in TimesOf(store')
    BY <1>2, <1>4 DEF NoHole, Upto
  <2>1. Cardinality(store') \in Nat /\ Cardinality(store) \in Nat
        /\ Cardinality(store') <= Cardinality(store)
    BY <1>5, <1>9, FS_Subset, FS_CardinalityType, Zenon
  <2>2. Cardinality(store) >= Bootstrap
    BY <2>1, StreamAssumption
  <2>3. t \in TimesOf(store)
    BY <2>2 DEF StreamSound, NoHole, Upto
  <2>4. \A u \in TimesOf(store) : u \in market /\ u <= cursor
    BY <1>1, KnownAreTimes DEF StreamSound, ClosedOnly, Closed, CursorLeads, TimesOf
  <2>5. t \in TimesOf(Trimmed(store))
    BY <1>1, <1>9, <2>3, <2>4, TrimmedKeepsLast, Zenon
  <2>. QED
    BY <1>4, <2>3, <2>5
<1>. QED
  BY <1>2, <1>8, <1>11, <1>12, <1>13
  DEF StreamSound, ViewIsPast, FewForCause, AnswerCovers

(***************************************************************************)
(* A write that brings something: the cursor moves to the newest of it.    *)
(***************************************************************************)
LEMMA FullWriteKeeps ==
  ASSUME Sound, StreamSound, WriteCandles, valkey, Arrived # {}, UNCHANGED gates
  PROVE  StreamSound'
<1>1. TypeOK /\ StreamTypeOK
  BY DEF Sound, TypeOK
<1>2. /\ streamer = "writing" /\ streamer' = "idle"
      /\ UNCHANGED <<now, market, view, late, emitted, gate, loop>>
  BY DEF WriteCandles, steady, clock, gates
<1>. DEFINE N == Normalised(reply)
            C == store \cup N
<1>3. PICK m : m = Newest(Arrived)
  OBVIOUS
<1>4. N # {}
  BY DEF Arrived, TimesOf
<1>5. cursor' = m /\ store' = Trimmed(C)
  BY <1>3, <1>4 DEF WriteCandles, Advanced, Arrived
<1>6. Arrived \subseteq Times /\ Known \subseteq Times /\ TimesOf(store) \subseteq Known
  BY <1>1, KnownAreTimes
<1>7. m \in Arrived /\ \A t \in Arrived : t <= m
  BY <1>3, <1>6, NewestIsLast, Zenon
<1>8. N \subseteq Candles /\ (\A c \in N : c.final) /\ C \subseteq Candles
  BY <1>1, NormalisedIsPart DEF StreamTypeOK, Candles
<1>9. TimesOf(C) = TimesOf(store) \cup Arrived
  BY DEF TimesOf, Arrived
<1>10. \A t \in Known : t <= m
  BY <1>2, <1>3 DEF StreamSound, NewestLeads
<1>11. \A t \in Known \cup Arrived : Closed(t)
  BY <1>2 DEF StreamSound, ClosedOnly
<1>12. \A t \in TimesOf(C) : t \in market /\ t <= m
  BY <1>6, <1>7, <1>9, <1>10, <1>11 DEF Closed
<1>13. \A e \in C : e.final
  BY <1>8 DEF StreamSound, ClosedOnly
<1>. HIDE DEF C
<1>14. store' \subseteq C
  BY <1>5, TrimmedIsPart
<1>15. TimesOf(store') \subseteq TimesOf(C)
  BY <1>14 DEF TimesOf
<1>16. Known' \subseteq Known \cup Arrived
  <2>1. Known' = TimesOf(store') \cup ({m, emitted, gate.ts, loop.ts} \ {Never})
    BY <1>2, <1>5 DEF Known
  <2>. QED
    BY <1>6, <1>7, <1>9, <1>15, <2>1 DEF Known
<1>17. \A t : Closed(t) <=> Closed(t)'
  BY <1>2 DEF Closed
<1>18. ClosedOnly'
  BY <1>2, <1>11, <1>13, <1>14, <1>16, <1>17 DEF ClosedOnly
<1>19. Latest' = m
  <2>1. m \in TimesOf(C)
    BY <1>7, <1>9
  <2>2. Newest(TimesOf(Trimmed(C))) = m
    BY <1>8, <1>12, <2>1, TrimmedKeepsNewest
  <2>. QED
    BY <1>5, <2>2, Zenon DEF Latest
<1>20. NewestLeads'
  BY <1>2, <1>7, <1>10, <1>16, <1>19 DEF NewestLeads
<1>21. CursorLeads'
  BY <1>5, <1>12, <1>15 DEF CursorLeads, TimesOf
<1>22. NoHole'
  <2>. SUFFICES ASSUME late = Never, Cardinality(store') >= Bootstrap,
                       NEW t \in LastOf(Bootstrap - 1, Upto(m))
                PROVE  t \in TimesOf(store')
    BY <1>2, <1>5 DEF NoHole, Upto
  <2>1. t \in TimesOf(C)
    <3>1. CASE window = Bootstrap
      BY <1>2, <1>3, <1>9, <3>1 DEF StreamSound, AnswerCovers, Upto
    <3>2. CASE window # Bootstrap /\ store = {}
      <4>1. Cardinality(Arrived) <= Incremental /\ Incremental < Bootstrap
        BY <1>1, <1>2, <3>2, StreamAssumption
        DEF StreamSound, AnswerCovers, StreamTypeOK
      <4>2. IsFiniteSet(N) /\ Cardinality(N) \in Nat /\ Cardinality(Arrived) = Cardinality(N)
        BY <1>8, OneCandlePerTime, Zenon DEF Arrived
      <4>3. store' \subseteq N
        BY <1>14, <3>2 DEF C
      <4>. HIDE DEF N
      <4>4. Cardinality(store') \in Nat /\ Cardinality(store') <= Cardinality(N)
        BY <4>2, <4>3, FS_Subset, FS_CardinalityType, Zenon
      <4>. QED
        BY <4>1, <4>2, <4>4, StreamAssumption
    <3>3. CASE window # Bootstrap /\ store # {}
      <4>1. Cardinality(store) >= Bootstrap /\ cursor # Never
        BY <1>2, <3>3 DEF StreamSound, FewForCause
      <4>2. cursor \in Known /\ cursor \in Nat /\ m \in Nat /\ cursor <= m
        BY <1>1, <1>6, <1>7, <1>10, <4>1, KnownAreTimes, MarketTimes
      <4>3. t \in market /\ t <= m /\ t \in Nat
        BY <1>1, MarketTimes DEF LastOf, Upto
      <4>4. CASE cursor < t
        BY <1>2, <1>3, <1>9, <3>3, <4>3, <4>4 DEF StreamSound, AnswerCovers
      <4>5. CASE t <= cursor
        <5>. DEFINE Fewer == {u \in Upto(cursor) : u > t}
                    More  == {u \in Upto(m) : u > t}
        <5>1. \A u \in market : u \in Nat
          BY <1>1, MarketTimes
        <5>2. Fewer \subseteq More
          BY <4>2, <5>1 DEF Upto
        <5>3. More \subseteq Times
          BY <1>1, MarketTimes
        <5>4. Cardinality(More) < Bootstrap - 1
          BY DEF LastOf
        <5>. HIDE DEF More
        <5>5. Cardinality(Fewer) \in Nat /\ Cardinality(More) \in Nat
              /\ Cardinality(Fewer) <= Cardinality(More)
          BY <5>2, <5>3, FewerWithin, Zenon
        <5>6. Cardinality(Fewer) < Bootstrap - 1
          BY <5>4, <5>5, StreamAssumption
        <5>7. t \in LastOf(Bootstrap - 1, Upto(cursor))
          BY <4>3, <4>5, <5>6 DEF LastOf, Upto
        <5>8. t \in TimesOf(store)
          BY <4>1, <5>7 DEF StreamSound, NoHole, Upto
        <5>. QED
          BY <1>9, <5>8
      <4>. QED
        BY <4>2, <4>3, <4>4, <4>5
    <3>. QED
      BY <3>1, <3>2, <3>3
  <2>2. t \in TimesOf(Trimmed(C))
    BY <1>1, <1>8, <1>12, <2>1, TrimmedKeepsLast, Zenon
  <2>. QED
    BY <1>5, <2>2
<1>. QED
  BY <1>2, <1>18, <1>20, <1>21, <1>22
  DEF StreamSound, ViewIsPast, FewForCause, AnswerCovers

------------------------------------------------------------------------------
(* The surroundings *)

LEMMA TickKeeps ==
  ASSUME Sound, StreamSound, TimePasses
  PROVE  StreamSound'
<1>1. TypeOK /\ StreamTypeOK
  BY DEF Sound, TypeOK
<1>2. /\ now' = now + 1
      /\ market' \in {market, market \cup {now + 1}}
      /\ UNCHANGED <<store, streamer, window, asked, reply, cursor, view, late, emitted, loop>>
  BY DEF TimePasses, Tick, stream
<1>3. gate' = gate \/ gate' = NoGate
  BY DEF TimePasses, Living
<1>4. now \in Nat /\ \A t \in market : t \in Nat /\ t <= now
  BY <1>1, MarketTimes
<1>5. Known' \subseteq Known /\ Arrived' = Arrived /\ Latest' = Latest
  BY <1>2, <1>3 DEF Known, Arrived, Latest, NoGate
<1>6. \A t : Closed(t) => Closed(t)'
  BY <1>2, <1>4 DEF Closed
<1>7. ClosedOnly'
  BY <1>2, <1>5, <1>6 DEF StreamSound, ClosedOnly
<1>8. ViewIsPast'
  <2>1. view \in Nat
    BY <1>1, StreamAssumption DEF StreamTypeOK, Times
  <2>. QED
    BY <1>2, <1>4, <2>1 DEF StreamSound, ViewIsPast
<1>9. NewestLeads' /\ CursorLeads' /\ FewForCause'
  BY <1>2, <1>5 DEF StreamSound, NewestLeads, CursorLeads, FewForCause
<1>10. ASSUME NEW m \in Times, m <= now
       PROVE  {t \in market' : t <= m} = {t \in market : t <= m}
  <2>1. m \in Nat
    BY <1>10, StreamAssumption DEF Times
  <2>2. ~(now + 1 <= m)
    BY <1>4, <1>10, <2>1
  <2>. QED
    BY <1>2, <2>2
<1>11. AnswerCovers'
  <2>. SUFFICES ASSUME streamer = "writing", late = Never, Arrived # {}
                PROVE  /\ window = Bootstrap =>
                            LastOf(Bootstrap - 1, {t \in market' : t <= Newest(Arrived)})
                              \subseteq Arrived
                       /\ window # Bootstrap =>
                            /\ Cardinality(Arrived) <= Incremental
                            /\ store # {} =>
                                 \A t \in market' :
                                   cursor < t /\ t <= Newest(Arrived) => t \in Arrived
    BY <1>2, <1>5 DEF AnswerCovers
  <2>1. PICK m : m = Newest(Arrived)
    OBVIOUS
  <2>2. m \in Times /\ m <= now
    <3>1. m \in Arrived /\ m \in Times
      BY <1>1, <2>1, KnownAreTimes, NewestIsLast
    <3>2. m \in market
      BY <3>1 DEF StreamSound, ClosedOnly, Closed
    <3>. QED
      BY <1>4, <3>1, <3>2
  <2>3. {t \in market' : t <= m} = {t \in market : t <= m}
    BY <1>10, <2>2
  <2>4. \A t \in market' : t <= m => t \in market
    BY <2>3
  <2>. QED
    BY <2>1, <2>3, <2>4 DEF StreamSound, AnswerCovers
<1>12. NoHole'
  <2>. SUFFICES ASSUME cursor # Never
                PROVE  {t \in market' : t <= cursor} = {t \in market : t <= cursor}
    BY <1>2 DEF StreamSound, NoHole
  <2>1. cursor \in Times /\ cursor \in market
    BY <1>1, KnownAreTimes DEF StreamSound, ClosedOnly, Closed
  <2>. QED
    BY <1>4, <1>10, <2>1
<1>. QED
  BY <1>7, <1>8, <1>9, <1>11, <1>12 DEF StreamSound

LEMMA PrunedKeeps ==
  ASSUME Sound, StreamSound, Pruned, UNCHANGED gates
  PROVE  StreamSound'
<1>1. /\ store' = {}
      /\ UNCHANGED <<now, market, streamer, window, asked, reply, cursor, view, late>>
      /\ UNCHANGED <<emitted, gate, loop>>
  BY DEF Pruned, clock, stream, gates
<1>2. Known' \subseteq Known /\ Arrived' = Arrived /\ \A t : Closed(t)' <=> Closed(t)
  BY <1>1 DEF Known, Arrived, Closed, TimesOf
<1>3. NoHole'
  <2>1. Cardinality(store') = 0
    BY <1>1, FS_EmptySet
  <2>. QED
    BY <2>1, StreamAssumption DEF NoHole
<1>. QED
  BY <1>1, <1>2, <1>3
  DEF StreamSound, ClosedOnly, ViewIsPast, NewestLeads, CursorLeads, FewForCause,
      AnswerCovers

LEMMA ValkeyKeeps ==
  ASSUME StreamSound, ValkeyFails \/ ValkeyReturns, UNCHANGED gates
  PROVE  StreamSound'
<1>1. /\ UNCHANGED <<now, market, store, streamer, window, asked, reply, cursor, view, late>>
      /\ UNCHANGED <<emitted, gate, loop>>
  BY DEF ValkeyFails, ValkeyReturns, stream, gates
<1>2. Known' = Known /\ Arrived' = Arrived /\ Latest' = Latest
      /\ \A t : Closed(t)' <=> Closed(t)
  BY <1>1 DEF Known, Arrived, Latest, Closed
<1>. QED
  BY <1>1, <1>2
  DEF StreamSound, ClosedOnly, ViewIsPast, NewestLeads, CursorLeads, FewForCause,
      AnswerCovers, NoHole

(***************************************************************************)
(* A session sticks at the present, behind which everything known lies.    *)
(***************************************************************************)
LEMMA SessionSticksKeeps ==
  ASSUME StreamTypeOK, StreamSound, SessionSticks, UNCHANGED gates
  PROVE  StreamSound'
<1>1. /\ view' = now
      /\ UNCHANGED <<now, market, store, streamer, window, asked, reply, cursor, late>>
      /\ UNCHANGED <<emitted, gate, loop>>
  BY DEF SessionSticks, clock, gates
<1>2. Known' = Known /\ Arrived' = Arrived /\ Latest' = Latest
      /\ \A t : Closed(t) => Closed(t)'
  BY <1>1 DEF Known, Arrived, Latest, Closed
<1>3. ViewIsPast'
  BY <1>1, MarketTimes DEF ViewIsPast
<1>. QED
  BY <1>1, <1>2, <1>3
  DEF StreamSound, ClosedOnly, NewestLeads, CursorLeads, FewForCause, AnswerCovers, NoHole

------------------------------------------------------------------------------
(* The service and the loop *)

(***************************************************************************)
(* The service remembers only what is in store.                            *)
(***************************************************************************)
LEMMA WindowKeeps ==
  ASSUME Sound, StreamSound, ProcessInstrument
  PROVE  StreamSound'
<1>1. /\ Latest \in TimesOf(store) /\ TimesOf(store) \subseteq Known
  BY LatestIsTime, KnownAreTimes DEF ProcessInstrument, NewWindow, Sound, TypeOK
<1>2. /\ emitted' = Latest \/ emitted' = emitted
      /\ gate'.ts = Latest \/ gate' = gate
      /\ UNCHANGED <<now, market, store, streamer, window, asked, reply, cursor, view, late, loop>>
  BY DEF ProcessInstrument, EmittedOnceTaken, clock, stream
<1>3. Known' \subseteq Known
  BY <1>1, <1>2 DEF Known
<1>4. Arrived' = Arrived /\ Latest' = Latest /\ \A t : Closed(t)' <=> Closed(t)
  BY <1>2 DEF Arrived, Latest, Closed
<1>. QED
  BY <1>2, <1>3, <1>4
  DEF StreamSound, ClosedOnly, ViewIsPast, NewestLeads, CursorLeads, FewForCause,
      AnswerCovers, NoHole

LEMMA ServiceOrLoopKeeps ==
  ASSUME StreamSound, ServiceStarts \/ ServiceEnds \/ LoadGate \/ LoopRestarts
  PROVE  StreamSound'
<1>1. /\ emitted' = Never \/ emitted' = emitted
      /\ gate' = gate /\ loop'.ts \in {loop.ts, gate.ts, Never}
      /\ UNCHANGED <<now, market, store, streamer, window, asked, reply, cursor, view, late>>
  BY DEF ServiceStarts, ServiceEnds, LoadGate, LoopRestarts, Judged, NewLoop,
         steady, clock, stream
<1>2. Known' \subseteq Known /\ Arrived' = Arrived /\ Latest' = Latest
      /\ \A t : Closed(t)' <=> Closed(t)
  BY <1>1 DEF Known, Arrived, Latest, Closed
<1>. QED
  BY <1>1, <1>2
  DEF StreamSound, ClosedOnly, ViewIsPast, NewestLeads, CursorLeads, FewForCause,
      AnswerCovers, NoHole

------------------------------------------------------------------------------
(* What is counted *)

(***************************************************************************)
(* A window later than all that were counted keeps the order, whatever is  *)
(* forgotten.                                                              *)
(***************************************************************************)
LEMMA CountedKeepsOrder ==
  ASSUME NEW seen \in Seq(Times), NEW t \in Times, InOrder(seen),
         \A i \in DOMAIN seen : seen[i] < t
  PROVE  /\ InOrder(Counted(seen, t))
         /\ \A i \in DOMAIN Counted(seen, t) : Counted(seen, t)[i] <= t
<1>1. PICK all : all = Append(seen, t)
  OBVIOUS
<1>2. PICK part : part = Counted(seen, t)
  OBVIOUS
<1>3. Ends(part, all)
  BY <1>1, <1>2, CountedIsEnd, Zenon
<1>4. PICK k \in 1..Len(all) :
        /\ part \in Seq(Times)
        /\ Len(part) = Len(all) - k + 1
        /\ \A i \in 1..Len(part) : part[i] = all[i + k - 1]
  BY <1>3, Zenon DEF Ends
<1>5. /\ Len(all) = Len(seen) + 1 /\ Len(seen) \in Nat
      /\ \A i \in 1..Len(seen) : all[i] = seen[i]
      /\ all[Len(seen) + 1] = t
  BY <1>1, AppendProperties, LenProperties
<1>6. DOMAIN seen = 1..Len(seen) /\ DOMAIN part = 1..Len(part) /\ Len(part) \in Nat
  BY <1>4, LenProperties, Zenon
<1>7. Times \subseteq Nat
  BY StreamAssumption DEF Times
<1>8. \A i \in 1..Len(seen) : seen[i] \in Nat /\ seen[i] < t
  BY <1>6, <1>7, ElementOfSeq
<1>9. ASSUME NEW i \in 1..Len(part)
      PROVE  /\ i + k - 1 \in 1..Len(all) /\ part[i] = all[i + k - 1]
             /\ part[i] <= t
  <2>1. i + k - 1 \in 1..Len(all) /\ part[i] = all[i + k - 1]
    BY <1>4, <1>5, <1>6
  <2>2. CASE i + k - 1 = Len(seen) + 1
    BY <1>5, <1>7, <2>1, <2>2
  <2>3. CASE i + k - 1 # Len(seen) + 1
    <3>1. i + k - 1 \in 1..Len(seen)
      BY <1>4, <1>5, <2>1, <2>3
    <3>. QED
      BY <1>5, <1>7, <1>8, <2>1, <3>1
  <2>. QED
    BY <2>1, <2>2, <2>3
<1>10. ASSUME NEW i \in 1..Len(part), NEW j \in 1..Len(part), i < j
       PROVE  part[i] < part[j]
  <2>1. PICK a, b : a = i + k - 1 /\ b = j + k - 1
    OBVIOUS
  <2>2. a \in 1..Len(seen) /\ b \in 1..Len(all) /\ a < b
        /\ part[i] = all[a] /\ part[j] = all[b]
    BY <1>4, <1>5, <1>6, <1>9, <1>10, <2>1
  <2>3. CASE b = Len(seen) + 1
    BY <1>5, <1>8, <2>2, <2>3
  <2>4. CASE b # Len(seen) + 1
    <3>1. b \in 1..Len(seen)
      BY <1>5, <2>2, <2>4
    <3>2. seen[a] < seen[b]
      BY <1>6, <2>2, <3>1 DEF InOrder
    <3>. QED
      BY <1>5, <2>2, <3>1, <3>2
  <2>. QED
    BY <2>3, <2>4
<1>11. InOrder(part) /\ \A i \in DOMAIN part : part[i] <= t
  BY <1>6, <1>9, <1>10 DEF InOrder
<1>. QED
  BY <1>2, <1>11, Zenon

(***************************************************************************)
(* A window that is counted is later than the window of the last gate.     *)
(***************************************************************************)
LEMMA WindowIsLater ==
  ASSUME Sound, StreamSound, ProcessInstrument
  PROVE  /\ Latest \in Times /\ Latest \in Nat
         /\ emitted # Never => emitted \in Nat /\ emitted < Latest
         /\ gate # NoGate => gate.ts \in Nat /\ gate.ts <= Latest
<1>1. /\ Cardinality(store) >= Window /\ emitted # Latest
      /\ store # {} /\ Latest \in Times
  BY LatestIsTime DEF ProcessInstrument, NewWindow, Sound, TypeOK
<1>2. Known \subseteq Times /\ Times \subseteq Nat
  BY KnownAreTimes, StreamAssumption DEF Sound, Times
<1>3. \A t \in Known : t <= Latest
  BY <1>1 DEF StreamSound, NewestLeads
<1>4. /\ emitted # Never => emitted \in Known
      /\ gate # NoGate => gate.ts \in Known
  BY DEF Known, Sound, GateHasTime
<1>5. \A t \in Known : t \in Nat
  BY <1>2
<1>6. emitted # Never => emitted \in Nat /\ emitted <= Latest
  BY <1>3, <1>4, <1>5
<1>7. gate # NoGate => gate.ts \in Nat /\ gate.ts <= Latest
  BY <1>3, <1>4, <1>5
<1>8. Latest \in Nat
  BY <1>1, <1>2
<1>. QED
  BY <1>1, <1>6, <1>7, <1>8

LEMMA GateIsOfLatest ==
  ASSUME ProcessInstrument PROVE gate' = gate \/ gate'.ts = Latest
BY DEF ProcessInstrument, EmittedOnceTaken

LEMMA WindowKeepsCount ==
  ASSUME Sound, StreamSound, CountedInOrder, ProcessInstrument
  PROVE  CountedInOrder'
<1>. DEFINE seen == Counted(history[Signature[Latest]], Latest)
<1>1. history' = [history EXCEPT ![Signature[Latest]] = seen]
      /\ \/ emitted' = Latest /\ unwritten' = unwritten
         \/ unwritten' = TRUE
  BY DEF ProcessInstrument, EmittedOnceTaken
<1>. SUFFICES ASSUME ~unwritten, emitted' = Latest, NEW s \in Signatures
              PROVE  /\ InOrder(history'[s])
                     /\ \A i \in DOMAIN history'[s] : history'[s][i] <= Latest
  BY <1>1 DEF CountedInOrder
<1>2. /\ Latest \in Times /\ Latest \in Nat
      /\ emitted # Never => emitted \in Nat /\ emitted < Latest
  BY WindowIsLater
<1>3. history \in [Signatures -> Seq(Times)] /\ Signature[Latest] \in Signatures
  BY <1>2 DEF Sound, TypeOK, Signatures
<1>4. ASSUME NEW r \in Signatures
      PROVE  /\ InOrder(history[r])
             /\ \A i \in DOMAIN history[r] : history[r][i] < Latest
  <2>1. InOrder(history[r]) /\ \A i \in DOMAIN history[r] : history[r][i] <= emitted
    BY DEF CountedInOrder
  <2>2. \A i \in DOMAIN history[r] : history[r][i] \in Nat
    BY <1>3, StreamAssumption, LenProperties, ElementOfSeq DEF Times
  <2>3. emitted \in Nat \/ emitted = -1
    BY <1>2 DEF Never
  <2>. QED
    BY <1>2, <2>1, <2>2, <2>3 DEF Never
<1>5. CASE s = Signature[Latest]
  <2>1. /\ InOrder(seen)
        /\ \A i \in DOMAIN seen : seen[i] <= Latest
    BY <1>2, <1>3, <1>4, CountedKeepsOrder
  <2>2. history'[s] = seen
    BY <1>1, <1>3, <1>5
  <2>. QED
    BY <2>1, <2>2, Zenon
<1>6. CASE s # Signature[Latest]
  <2>1. history'[s] = history[s]
    BY <1>1, <1>3, <1>6
  <2>2. \A i \in DOMAIN history[s] : history[s][i] \in Nat
    BY <1>3, StreamAssumption, LenProperties, ElementOfSeq DEF Times
  <2>3. \A i \in DOMAIN history[s] : history[s][i] <= Latest
    BY <1>2, <1>4, <2>2
  <2>. QED
    BY <1>4, <2>1, <2>3, Zenon
<1>. QED
  BY <1>5, <1>6

LEMMA OthersKeepCount ==
  ASSUME Sound, CountedInOrder,
         \/ StreamNext /\ UNCHANGED gates
         \/ ServiceStarts \/ ServiceEnds \/ LoadGate \/ LoopRestarts \/ TimePasses
         \/ (ValkeyFails \/ ValkeyReturns \/ Pruned \/ SessionSticks) /\ UNCHANGED gates
         \/ UNCHANGED vars
  PROVE  CountedInOrder'
<1>1. CASE ServiceStarts
  <2>1. history' = [s \in Signatures |-> <<>>]
    BY <1>1 DEF ServiceStarts
  <2>2. \A s \in Signatures : history'[s] = <<>>
    BY <2>1
  <2>3. DOMAIN <<>> = {}
    OBVIOUS
  <2>4. \A s \in Signatures : DOMAIN history'[s] = {}
    BY <2>2, <2>3
  <2>. QED
    BY <2>4 DEF CountedInOrder, InOrder
<1>2. CASE ~ServiceStarts
  <2>1. UNCHANGED <<history, emitted, unwritten>>
    BY <1>2 DEF ServiceEnds, LoadGate, LoopRestarts, TimePasses, gates, vars
  <2>. QED
    BY <2>1 DEF CountedInOrder
<1>. QED
  BY <1>1, <1>2

------------------------------------------------------------------------------
(* The invariant *)

IInv == Sound /\ StreamSound /\ CountedInOrder

LEMMA InitHolds == Init => IInv
<1>. SUFFICES ASSUME Init PROVE IInv
  OBVIOUS
<1>. USE DEF Init, StreamInit
<1>1. 0 \in Times /\ MaxTime \in Times /\ 0 \in Nat /\ 0 \in 0..MaxFaults
  BY StreamAssumption DEF Times
<1>2. StreamTypeOK
  <2>1. now \in Times /\ market \subseteq 0..now /\ faults \in 0..MaxFaults
    BY <1>1
  <2>2. asked \in Times /\ cursor \in Times \cup {Never} /\ view \in Times
    BY <1>1
  <2>3. store \subseteq Candles /\ reply \subseteq Candles
    OBVIOUS
  <2>. QED
    BY <2>1, <2>2, <2>3 DEF StreamTypeOK, Candles
<1>3. <<>> \in Seq(Nat) /\ Len(<<>>) = 0 /\ <<>> \in Seq(Times) /\ DOMAIN <<>> = {}
  BY EmptySeq
<1>4. history \in [Signatures -> Seq(Times)] /\ \A s \in Signatures : DOMAIN history[s] = {}
  BY <1>3
<1>5. samples \in Seq(Nat) /\ Len(samples) <= MaxSamples /\ hazards \in Seq(Nat)
  BY <1>3, WindowAssumption
<1>6. /\ gate.ts \in Times \cup {Never} /\ gate.reps \in Nat
      /\ gate.admit \in BOOLEAN /\ gate.active \in BOOLEAN /\ gate.born \in Times
  BY <1>1 DEF NoGate
<1>7. loop.ts \in Times \cup {Never} /\ loop.st \in Int /\ loop.peak \in BOOLEAN
  BY DEF NewLoop
<1>8. Sound
  BY <1>2, <1>4, <1>5, <1>6, <1>7 DEF Sound, TypeOK, GateHasTime, SeenBeforeJudged, NewLoop
<1>9. CountedInOrder
  BY <1>4 DEF CountedInOrder, InOrder
<1>10. Known = {}
  BY DEF Known, TimesOf, NoGate, NewLoop
<1>11. StreamSound
  BY <1>10
  DEF StreamSound, ClosedOnly, ViewIsPast, NewestLeads, CursorLeads, FewForCause,
      AnswerCovers, NoHole
<1>. QED
  BY <1>8, <1>9, <1>11 DEF IInv

LEMMA StepHolds == IInv /\ [Next]_vars => IInv'
<1>. SUFFICES ASSUME IInv, [Next]_vars PROVE IInv'
  OBVIOUS
<1>0. Sound /\ StreamSound /\ CountedInOrder /\ StreamTypeOK
  BY DEF IInv, Sound, TypeOK
<1>1. CASE StreamNext /\ UNCHANGED gates
  <2>1. Sound'
    BY <1>0, <1>1, StreamStepKeepsSound
  <2>2. ASSUME WriteCandles PROVE StreamSound'
    <3>1. CASE ~valkey \/ Arrived = {}
      BY <1>0, <1>1, <2>2, <3>1, EmptyWriteKeeps
    <3>2. CASE valkey /\ Arrived # {}
      BY <1>0, <1>1, <2>2, <3>2, FullWriteKeeps
    <3>. QED
      BY <3>1, <3>2
  <2>3. StreamSound'
    BY <1>0, <1>1, <2>2, FetchKeeps, StreamerStartsKeeps, CountCachedKeeps,
       FetchUnansweredKeeps, FetchRaisesKeeps
    DEF StreamNext
  <2>. QED
    BY <1>0, <1>1, <2>1, <2>3, OthersKeepCount DEF IInv
<1>2. CASE ServiceStarts \/ ServiceEnds
  BY <1>0, <1>2, ServiceKeepsSound, ServiceOrLoopKeeps, OthersKeepCount DEF IInv
<1>3. CASE ProcessInstrument
  BY <1>0, <1>3, WindowKeepsSound, WindowKeeps, WindowKeepsCount DEF IInv
<1>4. CASE LoadGate \/ LoopRestarts
  BY <1>0, <1>4, LoopKeepsSound, ServiceOrLoopKeeps, OthersKeepCount DEF IInv
<1>5. CASE TimePasses
  BY <1>0, <1>5, TickKeepsSound, TickKeeps, OthersKeepCount DEF IInv
<1>6. CASE (ValkeyFails \/ ValkeyReturns \/ Pruned \/ SessionSticks) /\ UNCHANGED gates
  BY <1>0, <1>6, SurroundingsKeepSound, ValkeyKeeps, PrunedKeeps, SessionSticksKeeps,
     OthersKeepCount
  DEF IInv
<1>7. CASE UNCHANGED vars
  <2>1. CountedInOrder'
    BY <1>0, <1>7, OthersKeepCount
  <2>. USE <1>7 DEF vars, steady, clock, stream, gates
  <2>2. Sound'
    BY <1>0 DEF Sound, TypeOK, StreamTypeOK, GateHasTime, SeenBeforeJudged
  <2>3. Known' = Known /\ Arrived' = Arrived /\ Latest' = Latest
        /\ \A t : Closed(t)' <=> Closed(t)
    BY DEF Known, Arrived, Latest, Closed
  <2>4. StreamSound'
    BY <1>0, <2>3
    DEF StreamSound, ClosedOnly, ViewIsPast, NewestLeads, CursorLeads, FewForCause,
        AnswerCovers, NoHole
  <2>. QED
    BY <2>1, <2>2, <2>4 DEF IInv
<1>. QED
  BY <1>1, <1>2, <1>3, <1>4, <1>5, <1>6, <1>7 DEF Next

LEMMA InvariantHolds == Spec => []IInv
BY InitHolds, StepHolds, PTL DEF Spec

------------------------------------------------------------------------------
(* The theorems *)

(***************************************************************************)
(* The variables keep their types: the streamer's, the service's and what  *)
(* the loop remembers.                                                     *)
(***************************************************************************)
THEOREM TypeCorrect == Spec => []TypeOK
<1>1. IInv => TypeOK
  BY DEF IInv, Sound
<1>. QED
  BY <1>1, InvariantHolds, PTL

(***************************************************************************)
(* What is in store is closed and there once, whatever the streamer, its   *)
(* session, OANDA and Valkey do (_normalise_candle).                       *)
(***************************************************************************)
THEOREM StoredCandlesAreFinal == Spec => []FinalCandlesOnly
<1>1. IInv => FinalCandlesOnly
  <2>. SUFFICES ASSUME IInv PROVE FinalCandlesOnly
    OBVIOUS
  <2>1. StreamTypeOK /\ ClosedOnly
    BY DEF IInv, Sound, TypeOK, StreamSound
  <2>2. Cardinality(TimesOf(store)) = Cardinality(store)
    BY <2>1, StoreIsFinite
  <2>3. \A e \in store : e.t \in Known
    BY DEF Known, TimesOf
  <2>4. \A e \in store : e.final /\ e.t < now /\ e.t \in market
    BY <2>1, <2>3 DEF ClosedOnly, Closed
  <2>. QED
    BY <2>2, <2>4 DEF FinalCandlesOnly
<1>. QED
  BY <1>1, InvariantHolds, PTL

(***************************************************************************)
(* The streamer leaves no hole behind its cursor once the set is deep and  *)
(* as long as no answer outlived its window, however often Valkey, OANDA,  *)
(* the session or the streamer itself fails (_window_count_for_instrument).*)
(***************************************************************************)
THEOREM StreamLeavesNoHole == Spec => []NoHole
<1>1. IInv => NoHole
  BY DEF IInv, StreamSound
<1>. QED
  BY <1>1, InvariantHolds, PTL

(***************************************************************************)
(* The service counts a window once while it lives and Valkey takes its    *)
(* gates, even when candles are pruned, fetched anew or seen by a session  *)
(* that lags: the end of the window never moves back behind a window that  *)
(* was counted, for which a test for equality is enough                    *)
(* (_process_instrument).                                                  *)
(***************************************************************************)
THEOREM WindowsAreCountedOnce == Spec => []CountedOnce
<1>1. IInv => CountedOnce
  <2>. SUFFICES ASSUME IInv, ~unwritten, NEW s \in Signatures,
                       NEW i \in DOMAIN history[s], NEW j \in DOMAIN history[s],
                       history[s][i] = history[s][j], i # j
                PROVE  FALSE
    BY DEF CountedOnce
  <2>1. InOrder(history[s]) /\ history[s] \in Seq(Times)
    BY DEF IInv, CountedInOrder, Sound, TypeOK
  <2>2. i \in Nat /\ j \in Nat /\ history[s][i] \in Times /\ history[s][j] \in Times
    <3>1. DOMAIN history[s] = 1..Len(history[s]) /\ Len(history[s]) \in Nat
      BY <2>1, LenProperties
    <3>. QED
      BY <2>1, <3>1, ElementOfSeq
  <2>3. i < j \/ j < i
    BY <2>2
  <2>4. history[s][i] < history[s][j] \/ history[s][j] < history[s][i]
    BY <2>1, <2>3 DEF InOrder
  <2>. QED
    BY <2>2, <2>4, StreamAssumption DEF Times
<1>. QED
  BY <1>1, InvariantHolds, PTL

(***************************************************************************)
(* No gate is replaced by that of an earlier candle.                       *)
(***************************************************************************)
THEOREM GatesDoMoveForward == Spec => GatesMoveForward
<1>1. IInv /\ [Next]_vars =>
        [gate' # gate /\ gate # NoGate /\ gate' # NoGate => gate'.ts >= gate.ts]_vars
  <2>. SUFFICES ASSUME IInv, Next, gate' # gate, gate # NoGate, gate' # NoGate
                PROVE  gate'.ts >= gate.ts
    OBVIOUS
  <2>1. CASE ProcessInstrument
    <3>1. gate'.ts = Latest
      BY <2>1, GateIsOfLatest
    <3>2. Latest \in Nat /\ gate.ts \in Nat /\ gate.ts <= Latest
      BY <2>1, WindowIsLater DEF IInv
    <3>. QED
      BY <3>1, <3>2
  <2>2. CASE TimePasses
    BY <2>2 DEF TimePasses, Living
  <2>3. CASE ~ProcessInstrument /\ ~TimePasses
    BY <2>3 DEF Next, gates, ServiceStarts, ServiceEnds, LoadGate, LoopRestarts
  <2>. QED
    BY <2>1, <2>2, <2>3
<1>. QED
  BY <1>1, InvariantHolds, PTL DEF Spec, GatesMoveForward

(***************************************************************************)
(* No gate that is there is older than the one the loop has judged.        *)
(***************************************************************************)
JudgedBefore == gate # NoGate => loop.ts <= gate.ts

LEMMA JudgedBeforeKept == IInv /\ JudgedBefore /\ [Next]_vars => JudgedBefore'
<1>. SUFFICES ASSUME IInv, JudgedBefore, [Next]_vars, gate' # NoGate
              PROVE  loop'.ts <= gate'.ts
  BY DEF JudgedBefore
<1>1. /\ loop.ts \in Int /\ (loop.ts # Never => loop.ts \in Known)
      /\ gate.ts \in Int
  BY StreamAssumption DEF IInv, Sound, TypeOK, Known, Times, Never
<1>2. CASE ProcessInstrument
  <2>1. loop' = loop /\ (gate' = gate \/ gate'.ts = Latest)
    BY <1>2, GateIsOfLatest DEF ProcessInstrument
  <2>2. loop.ts <= Latest
    <3>1. store # {} /\ Latest \in Nat
      BY <1>2, WindowIsLater, LatestIsTime DEF ProcessInstrument, NewWindow, IInv, Sound, TypeOK
    <3>2. loop.ts # Never => loop.ts <= Latest
      BY <1>1, <3>1 DEF IInv, StreamSound, NewestLeads
    <3>. QED
      BY <3>1, <3>2 DEF Never
  <2>. QED
    BY <2>1, <2>2 DEF JudgedBefore
<1>3. CASE LoadGate
  <2>1. gate' = gate /\ loop'.ts = gate.ts
    BY <1>3 DEF LoadGate, Judged
  <2>. QED
    BY <1>1, <2>1
<1>4. CASE LoopRestarts
  <2>1. gate' = gate /\ loop'.ts = Never
    BY <1>4 DEF LoopRestarts, NewLoop
  <2>2. gate.ts \in Times
    BY <2>1 DEF IInv, Sound, TypeOK, GateHasTime
  <2>. QED
    BY <2>1, <2>2, StreamAssumption DEF Times, Never
<1>5. CASE ~ProcessInstrument /\ ~LoadGate /\ ~LoopRestarts
  <2>1. loop' = loop /\ (gate' = gate \/ gate' = NoGate)
    BY <1>5 DEF Next, vars, gates, ServiceStarts, ServiceEnds, TimePasses, Living
  <2>. QED
    BY <2>1 DEF JudgedBefore
<1>. QED
  BY <1>2, <1>3, <1>4, <1>5

(***************************************************************************)
(* The loop never judges the gate of an earlier candle than one it has     *)
(* judged, although it only looks whether the times differ (loop_once).    *)
(***************************************************************************)
THEOREM VerdictsDoMoveForward == Spec => VerdictsMoveForward
<1>1. Init => JudgedBefore
  BY DEF Init, JudgedBefore
<1>2. IInv /\ JudgedBefore /\ [Next]_vars => [loop' # NewLoop => loop'.ts >= loop.ts]_vars
  <2>. SUFFICES ASSUME IInv, JudgedBefore, Next, loop' # NewLoop
                PROVE  loop'.ts >= loop.ts
    OBVIOUS
  <2>1. loop.ts \in Int /\ gate.ts \in Int
    BY StreamAssumption DEF IInv, Sound, TypeOK, Times, Never
  <2>2. CASE LoadGate
    <3>1. gate # NoGate /\ loop'.ts = gate.ts
      BY <2>2 DEF LoadGate, Judged
    <3>. QED
      BY <2>1, <3>1 DEF JudgedBefore
  <2>3. CASE ~LoadGate
    <3>1. loop' = loop
      BY <2>3
      DEF Next, gates, ServiceStarts, ServiceEnds, ProcessInstrument, TimePasses,
          LoopRestarts
    <3>. QED
      BY <2>1, <3>1
  <2>. QED
    BY <2>2, <2>3
<1>3. Spec => []JudgedBefore
  BY <1>1, InvariantHolds, JudgedBeforeKept, PTL DEF Spec
<1>. QED
  BY <1>2, <1>3, InvariantHolds, PTL DEF Spec, VerdictsMoveForward

==============================================================================
