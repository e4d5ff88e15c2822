-------------------------- MODULE SignalParityProofs --------------------------
(***************************************************************************)
(* The copies of a signal agree for every history of windows, every order  *)
(* of candles, passes and restarts, and every value of the constants.      *)
(* What the replay, the service and the filters remember recurs over time, *)
(* so facts about it are proved by looking at the least time at which they *)
(* fail.                                                                   *)
(***************************************************************************)
EXTENDS SignalParity, FiniteSetTheorems, SequenceTheorems, WellFoundedInduction, TLAPS

Candles == [kind : Kinds, volume : Volumes]

------------------------------------------------------------------------------
(* Least and greatest times *)

(***************************************************************************)
(* Every nonempty set of naturals has a least element.                     *)
(***************************************************************************)
LEMMA LeastNatural ==
  ASSUME NEW T, T \subseteq Nat, T # {}
  PROVE  \E n \in T : \A m \in T : n <= m
<1>. DEFINE R == OpToRel(<, Nat)
<1>1. IsWellFoundedOn(R, Nat)
  BY NatLessThanWellFounded, Zenon
<1>2. \A x, y \in Nat : x < y => <<x, y>> \in R
  BY Zenon DEF OpToRel
<1>. HIDE DEF R
<1>3. PICK n \in T : \A m \in T : ~(<<m, n>> \in R)
  BY <1>1, WFMin, Zenon
<1>4. \A m \in T : ~(m < n)
  BY <1>2, <1>3, Zenon
<1>5. \A m \in T : n <= m
  BY <1>4
<1>. QED
  BY <1>5, Zenon

LEMMA MinIsLeast ==
  ASSUME NEW T, T \subseteq Nat, T # {}
  PROVE  Min(T) \in T /\ \A t \in T : Min(T) <= t
<1>1. PICK n \in T : \A m \in T : n <= m
  BY LeastNatural, Zenon
<1>. QED
  BY <1>1, Zenon DEF Min

LEMMA MaxIsGreatest ==
  ASSUME NEW n \in Nat, NEW T, T \subseteq 0..n, T # {}
  PROVE  Max(T) \in T /\ \A t \in T : t <= Max(T)
<1>. DEFINE D == {n - t : t \in T}
<1>0. \A t \in T : n - t \in Nat
  OBVIOUS
<1>1. D \subseteq Nat /\ D # {}
  BY <1>0
<1>2. PICK d \in D : \A e \in D : d <= e
  BY <1>1, LeastNatural, Zenon
<1>3. PICK m \in T : d = n - m
  BY <1>2
<1>4. \A t \in T : n - t \in D
  OBVIOUS
<1>5. \A t \in T : d <= n - t
  BY <1>2, <1>4, Zenon
<1>6. \A t \in T : m >= t
  BY <1>3, <1>5
<1>7. Max(T) \in T /\ \A t \in T : Max(T) >= t
  BY <1>6, Zenon DEF Max
<1>. QED
  BY <1>7

------------------------------------------------------------------------------
(* Recurrences *)

NoneDerived == [squeezed |-> FALSE, regime |-> "none", reps |-> 0]

NoneReplayed == [samples |-> <<>>, history |-> NoHistory, gate |-> NoGate]

NextRemembered(prev, gates, t) ==
  IF t \in DOMAIN gates /\ gates[t].direction # "FLAT"
  THEN LastActive(prev, FilterTension(gates[t])) ELSE prev

(***************************************************************************)
(* What derive_signals remembers after the first windows.                  *)
(***************************************************************************)
Derives(f, cs, n) ==
  f = [t \in 0..n |-> IF t = 0 THEN NoneDerived ELSE NextDerived(f[t - 1], cs[t].kind)]

LEMMA DerivesExists ==
  ASSUME NEW cs, NEW n \in Nat
  PROVE  \E f : Derives(f, cs, n)
<1>. DEFINE Has(k) == \E f : Derives(f, cs, k)
            Bad == {k \in Nat : ~Has(k)}
<1>. HIDE DEF Has
<1>1. ASSUME Bad # {} PROVE FALSE
  <2>1. PICK k \in Bad : \A m \in Bad : k <= m
    BY <1>1, LeastNatural, Zenon
  <2>2. CASE k = 0
    <3>1. Derives([t \in 0..0 |-> NoneDerived], cs, 0)
      BY DEF Derives
    <3>. QED
      BY <2>1, <2>2, <3>1, Zenon DEF Has
  <2>3. CASE k # 0
    <3>1. k \in Nat /\ k - 1 \in Nat /\ k - 1 \notin Bad
      <4>1. k \in Nat
        BY <2>1, Zenon
      <4>2. k - 1 \in Nat /\ ~(k <= k - 1)
        BY <2>3, <4>1
      <4>. QED
        BY <2>1, <4>1, <4>2, Zenon
    <3>2. PICK f : Derives(f, cs, k - 1)
      <4>1. Has(k - 1)
        BY <3>1, Zenon
      <4>. QED
        BY <4>1, Zenon DEF Has
    <3>3. DEFINE g == [t \in 0..k |-> IF t = k THEN NextDerived(f[k - 1], cs[k].kind) ELSE f[t]]
    <3>4. \A t \in 0..(k - 1) : f[t] = IF t = 0 THEN NoneDerived ELSE NextDerived(f[t - 1], cs[t].kind)
      BY <3>1, <3>2, Zenon DEF Derives
    <3>5. \A t \in 0..k : g[t] = IF t = 0 THEN NoneDerived ELSE NextDerived(g[t - 1], cs[t].kind)
      <4>1. ASSUME NEW t \in 0..k, t # k
            PROVE  g[t] = IF t = 0 THEN NoneDerived ELSE NextDerived(g[t - 1], cs[t].kind)
        <5>1. t \in 0..(k - 1) /\ (t # 0 => t - 1 \in 0..k /\ t - 1 # k)
          BY <3>1, <4>1
        <5>2. g[t] = f[t] /\ (t # 0 => g[t - 1] = f[t - 1])
          BY <4>1, <5>1, Zenon
        <5>. QED
          BY <3>4, <5>1, <5>2, Zenon
      <4>2. k \in 0..k /\ k - 1 \in 0..k /\ k - 1 # k /\ k # 0
        BY <2>3, <3>1
      <4>3. g[k] = NextDerived(g[k - 1], cs[k].kind)
        BY <4>2, Zenon
      <4>. QED
        BY <4>1, <4>2, <4>3, Zenon
    <3>6. Derives(g, cs, k)
      BY <3>5, Zenon DEF Derives
    <3>. QED
      BY <2>1, <3>6, Zenon DEF Has
  <2>. QED
    BY <2>2, <2>3
<1>2. Has(n)
  BY <1>1, Zenon
<1>. QED
  BY <1>2, Zenon DEF Has

LEMMA DerivedSteps ==
  ASSUME NEW cs, Len(cs) \in Nat
  PROVE  /\ Derived(cs)[0] = NoneDerived
         /\ \A t \in 1..Len(cs) :
              Derived(cs)[t] = NextDerived(Derived(cs)[t - 1], cs[t].kind)
<1>1. \E f : Derives(f, cs, Len(cs))
  BY DerivesExists, Zenon
<1>. DEFINE r == CHOOSE f : Derives(f, cs, Len(cs))
<1>2. Derives(r, cs, Len(cs))
  BY <1>1, Zenon
<1>3. Derived(cs) = r
  BY Zenon DEF Derived, NoneDerived, Derives
<1>. HIDE DEF r
<1>4. \A t \in 0..Len(cs) : r[t] = IF t = 0 THEN NoneDerived ELSE NextDerived(r[t - 1], cs[t].kind)
  BY <1>2, Zenon DEF Derives
<1>5. 0 \in 0..Len(cs) /\ \A t \in 1..Len(cs) : t \in 0..Len(cs) /\ t # 0
  OBVIOUS
<1>6. r[0] = NoneDerived /\ \A t \in 1..Len(cs) : r[t] = NextDerived(r[t - 1], cs[t].kind)
  BY <1>4, <1>5, Zenon
<1>. QED
  BY <1>3, <1>6, Zenon

(***************************************************************************)
(* What the filter remembers after the gates up to a time.                 *)
(***************************************************************************)
Remembers(f, gates, n) ==
  f = [t \in 0..n |-> IF t = 0 THEN -1 ELSE NextRemembered(f[t - 1], gates, t)]

LEMMA RemembersExists ==
  ASSUME NEW gates, NEW n \in Nat
  PROVE  \E f : Remembers(f, gates, n)
<1>. DEFINE Has(k) == \E f : Remembers(f, gates, k)
            Bad == {k \in Nat : ~Has(k)}
<1>. HIDE DEF Has
<1>1. ASSUME Bad # {} PROVE FALSE
  <2>1. PICK k \in Bad : \A m \in Bad : k <= m
    BY <1>1, LeastNatural, Zenon
  <2>2. CASE k = 0
    <3>1. Remembers([t \in 0..0 |-> -1], gates, 0)
      BY DEF Remembers
    <3>. QED
      BY <2>1, <2>2, <3>1, Zenon DEF Has
  <2>3. CASE k # 0
    <3>1. k \in Nat /\ k - 1 \in Nat /\ k - 1 \notin Bad
      <4>1. k \in Nat
        BY <2>1, Zenon
      <4>2. k - 1 \in Nat /\ ~(k <= k - 1)
        BY <2>3, <4>1
      <4>. QED
        BY <2>1, <4>1, <4>2, Zenon
    <3>2. PICK f : Remembers(f, gates, k - 1)
      <4>1. Has(k - 1)
        BY <3>1, Zenon
      <4>. QED
        BY <4>1, Zenon DEF Has
    <3>3. DEFINE g == [t \in 0..k |-> IF t = k THEN NextRemembered(f[k - 1], gates, k) ELSE f[t]]
    <3>4. \A t \in 0..(k - 1) : f[t] = IF t = 0 THEN -1 ELSE NextRemembered(f[t - 1], gates, t)
      BY <3>1, <3>2, Zenon DEF Remembers
    <3>5. \A t \in 0..k : g[t] = IF t = 0 THEN -1 ELSE NextRemembered(g[t - 1], gates, t)
      <4>1. ASSUME NEW t \in 0..k, t # k
            PROVE  g[t] = IF t = 0 THEN -1 ELSE NextRemembered(g[t - 1], gates, t)
        <5>1. t \in 0..(k - 1) /\ (t # 0 => t - 1 \in 0..k /\ t - 1 # k)
          BY <3>1, <4>1
        <5>2. g[t] = f[t] /\ (t # 0 => g[t - 1] = f[t - 1])
          BY <4>1, <5>1, Zenon
        <5>. QED
          BY <3>4, <5>1, <5>2, Zenon
      <4>2. k \in 0..k /\ k - 1 \in 0..k /\ k - 1 # k /\ k # 0
        BY <2>3, <3>1
      <4>3. g[k] = NextRemembered(g[k - 1], gates, k)
        BY <4>2, Zenon
      <4>. QED
        BY <4>1, <4>2, <4>3, Zenon
    <3>6. Remembers(g, gates, k)
      BY <3>5, Zenon DEF Remembers
    <3>. QED
      BY <2>1, <3>6, Zenon DEF Has
  <2>. QED
    BY <2>2, <2>3
<1>2. Has(n)
  BY <1>1, Zenon
<1>. QED
  BY <1>2, Zenon DEF Has

LEMMA RememberedSteps ==
  ASSUME NEW gates, Now \in Nat
  PROVE  /\ Remembered(gates)[0] = -1
         /\ \A t \in 1..Now :
              Remembered(gates)[t] = NextRemembered(Remembered(gates)[t - 1], gates, t)
<1>1. \E f : Remembers(f, gates, Now)
  BY RemembersExists, Zenon
<1>. DEFINE r == CHOOSE f : Remembers(f, gates, Now)
<1>2. Remembers(r, gates, Now)
  BY <1>1, Zenon
<1>3. Remembered(gates) = r
  BY Zenon DEF Remembered, NextRemembered, Remembers
<1>. HIDE DEF r
<1>4. \A t \in 0..Now : r[t] = IF t = 0 THEN -1 ELSE NextRemembered(r[t - 1], gates, t)
  BY <1>2, Zenon DEF Remembers
<1>5. 0 \in 0..Now /\ \A t \in 1..Now : t \in 0..Now /\ t # 0
  OBVIOUS
<1>6. r[0] = -1 /\ \A t \in 1..Now : r[t] = NextRemembered(r[t - 1], gates, t)
  BY <1>4, <1>5, Zenon
<1>. QED
  BY <1>3, <1>6, Zenon

(***************************************************************************)
(* What the replay remembers, and the gate it has made last.               *)
(***************************************************************************)
Replays(f, cs, n) ==
  f = [t \in 0..n |-> IF t = 0 THEN NoneReplayed ELSE NextReplayed(f[t - 1], t, cs[t], Split(cs))]

LEMMA ReplaysExists ==
  ASSUME NEW cs, NEW n \in Nat
  PROVE  \E f : Replays(f, cs, n)
<1>. DEFINE Has(k) == \E f : Replays(f, cs, k)
            Bad == {k \in Nat : ~Has(k)}
<1>. HIDE DEF Has
<1>1. ASSUME Bad # {} PROVE FALSE
  <2>1. PICK k \in Bad : \A m \in Bad : k <= m
    BY <1>1, LeastNatural, Zenon
  <2>2. CASE k = 0
    <3>1. Replays([t \in 0..0 |-> NoneReplayed], cs, 0)
      BY DEF Replays
    <3>. QED
      BY <2>1, <2>2, <3>1, Zenon DEF Has
  <2>3. CASE k # 0
    <3>1. k \in Nat /\ k - 1 \in Nat /\ k - 1 \notin Bad
      <4>1. k \in Nat
        BY <2>1, Zenon
      <4>2. k - 1 \in Nat /\ ~(k <= k - 1)
        BY <2>3, <4>1
      <4>. QED
        BY <2>1, <4>1, <4>2, Zenon
    <3>2. PICK f : Replays(f, cs, k - 1)
      <4>1. Has(k - 1)
        BY <3>1, Zenon
      <4>. QED
        BY <4>1, Zenon DEF Has
    <3>3. DEFINE g == [t \in 0..k |-> IF t = k THEN NextReplayed(f[k - 1], k, cs[k], Split(cs)) ELSE f[t]]
    <3>4. \A t \in 0..(k - 1) : f[t] = IF t = 0 THEN NoneReplayed ELSE NextReplayed(f[t - 1], t, cs[t], Split(cs))
      BY <3>1, <3>2, Zenon DEF Replays
    <3>5. \A t \in 0..k : g[t] = IF t = 0 THEN NoneReplayed ELSE NextReplayed(g[t - 1], t, cs[t], Split(cs))
      <4>1. ASSUME NEW t \in 0..k, t # k
            PROVE  g[t] = IF t = 0 THEN NoneReplayed ELSE NextReplayed(g[t - 1], t, cs[t], Split(cs))
        <5>1. t \in 0..(k - 1) /\ (t # 0 => t - 1 \in 0..k /\ t - 1 # k)
          BY <3>1, <4>1
        <5>2. g[t] = f[t] /\ (t # 0 => g[t - 1] = f[t - 1])
          BY <4>1, <5>1, Zenon
        <5>. QED
          BY <3>4, <5>1, <5>2, Zenon
      <4>2. k \in 0..k /\ k - 1 \in 0..k /\ k - 1 # k /\ k # 0
        BY <2>3, <3>1
      <4>3. g[k] = NextReplayed(g[k - 1], k, cs[k], Split(cs))
        BY <4>2, Zenon
      <4>. QED
        BY <4>1, <4>2, <4>3, Zenon
    <3>6. Replays(g, cs, k)
      BY <3>5, Zenon DEF Replays
    <3>. QED
      BY <2>1, <3>6, Zenon DEF Has
  <2>. QED
    BY <2>2, <2>3
<1>2. Has(n)
  BY <1>1, Zenon
<1>. QED
  BY <1>2, Zenon DEF Has

LEMMA ReplayedSteps ==
  ASSUME NEW cs, Len(cs) \in Nat
  PROVE  /\ Replayed(cs)[0] = NoneReplayed
         /\ \A t \in 1..Len(cs) :
              Replayed(cs)[t] = NextReplayed(Replayed(cs)[t - 1], t, cs[t], Split(cs))
<1>1. \E f : Replays(f, cs, Len(cs))
  BY ReplaysExists, Zenon
<1>. DEFINE r == CHOOSE f : Replays(f, cs, Len(cs))
<1>2. Replays(r, cs, Len(cs))
  BY <1>1, Zenon
<1>3. Replayed(cs) = r
  BY Zenon DEF Replayed, NoneReplayed, Replays
<1>. HIDE DEF r
<1>4. \A t \in 0..Len(cs) : r[t] = IF t = 0 THEN NoneReplayed ELSE NextReplayed(r[t - 1], t, cs[t], Split(cs))
  BY <1>2, Zenon DEF Replays
<1>5. 0 \in 0..Len(cs) /\ \A t \in 1..Len(cs) : t \in 0..Len(cs) /\ t # 0
  OBVIOUS
<1>6. r[0] = NoneReplayed /\ \A t \in 1..Len(cs) : r[t] = NextReplayed(r[t - 1], t, cs[t], Split(cs))
  BY <1>4, <1>5, Zenon
<1>. QED
  BY <1>3, <1>6, Zenon


------------------------------------------------------------------------------
(* Synthetic signals *)

(***************************************************************************)
(* After the gates up to a time the filter remembers the tension of the    *)
(* last one with a direction.                                              *)
(***************************************************************************)
OfLast(gates, t, st) ==
  \/ st = -1 /\ \A p \in Active(gates) : p > t
  \/ \E p \in Active(gates) : /\ p <= t /\ st = gates[p].tension
                              /\ \A u \in Active(gates) : u <= t => u <= p

LEMMA RememberedIsOfLast ==
  ASSUME Now \in Nat, NEW gates, DOMAIN gates \subseteq 1..Now,
         \A t \in DOMAIN gates : gates[t].source # "regime_manifold"
  PROVE  \A t \in 0..Now : OfLast(gates, t, Remembered(gates)[t])
<1>. DEFINE Bad == {t \in 0..Now : ~OfLast(gates, t, Remembered(gates)[t])}
<1>1. Active(gates) \subseteq 1..Now
  BY DEF Active
<1>2. ASSUME Bad # {} PROVE FALSE
  <2>1. Bad \subseteq Nat
    OBVIOUS
  <2>2. PICK t \in Bad : \A u \in Bad : t <= u
    BY <1>2, <2>1, LeastNatural, Zenon
  <2>. HIDE DEF Bad
  <2>3. t \in 0..Now /\ ~OfLast(gates, t, Remembered(gates)[t])
    BY <2>2 DEF Bad
  <2>4. CASE t = 0
    BY <1>1, <2>3, <2>4, RememberedSteps DEF OfLast
  <2>5. CASE t # 0
    <3>1. t \in 1..Now /\ t - 1 \in 0..Now /\ ~(t <= t - 1)
      BY <2>3, <2>5
    <3>2. OfLast(gates, t - 1, Remembered(gates)[t - 1])
      BY <2>2, <3>1 DEF Bad
    <3>3. Remembered(gates)[t] = NextRemembered(Remembered(gates)[t - 1], gates, t)
      BY <3>1, RememberedSteps
    <3>4. PICK st : st = Remembered(gates)[t - 1]
      OBVIOUS
    <3>5. CASE t \in Active(gates)
      <4>1. Remembered(gates)[t] = gates[t].tension
        BY <3>3, <3>5 DEF NextRemembered, LastActive, FilterTension, Active
      <4>. QED
        BY <1>1, <2>3, <3>1, <3>5, <4>1 DEF OfLast
    <3>6. CASE t \notin Active(gates)
      <4>1. Remembered(gates)[t] = st
        BY <3>3, <3>4, <3>6 DEF NextRemembered, Active
      <4>2. \A p \in Active(gates) : p <= t <=> p <= t - 1
        BY <1>1, <3>1, <3>6
      <4>3. \A p \in Active(gates) : p > t <=> p > t - 1
        BY <1>1, <3>1, <3>6
      <4>. QED
        BY <2>3, <3>2, <3>4, <4>1, <4>2, <4>3, Zenon DEF OfLast
    <3>. QED
      BY <3>5, <3>6
  <2>. QED
    BY <2>4, <2>5
<1>. QED
  BY <1>2

(***************************************************************************)
(* The signals are at times that have passed, and none of them is a gate   *)
(* of the regime service.                                                  *)
(***************************************************************************)
LEMMA SignalsAreOwn ==
  /\ DOMAIN Signals \subseteq 1..Now
  /\ \A t \in DOMAIN Signals :
       /\ Signals[t].source = SignalOf(Derived(candles)[t - 1].squeezed, candles[t].kind)
       /\ Signals[t].source \in {"squeeze_breakout", "structural_extension"}
<1>. DEFINE signal(t) == SignalOf(Derived(candles)[t - 1].squeezed, candles[t].kind)
<1>1. DOMAIN Signals = {t \in 1..Now : signal(t) # "none"}
  BY DEF Signals
<1>2. ASSUME NEW t \in DOMAIN Signals PROVE Signals[t].source = signal(t)
  BY <1>1, <1>2 DEF Signals, Payload
<1>3. \A t : signal(t) \in {"squeeze_breakout", "structural_extension", "none"}
  BY DEF SignalOf
<1>. QED
  BY <1>1, <1>2, <1>3

LEMMA FilterAgrees == Now \in Nat => FilterMatchesGpu
<1>. SUFFICES ASSUME Now \in Nat PROVE FilterPeaks(Signals) = GpuPeaks(Signals)
  BY DEF FilterMatchesGpu
<1>1. PICK gates : gates = Signals
  OBVIOUS
<1>2. /\ DOMAIN gates \subseteq 1..Now
      /\ \A t \in DOMAIN gates : gates[t].source # "regime_manifold"
  BY <1>1, SignalsAreOwn
<1>3. \A t \in 0..Now : OfLast(gates, t, Remembered(gates)[t])
  BY <1>2, RememberedIsOfLast
<1>4. Active(gates) \subseteq 1..Now
  BY <1>2 DEF Active
<1>5. ASSUME NEW t \in Active(gates)
      PROVE  t \in FilterPeaks(gates) <=> t \in GpuPeaks(gates)
  <2>. DEFINE earlier == {p \in Active(gates) : p < t}
  <2>1. t \in 1..Now /\ t - 1 \in 0..Now
    BY <1>4, <1>5
  <2>2. PICK st : st = Remembered(gates)[t - 1]
    OBVIOUS
  <2>3. OfLast(gates, t - 1, st)
    BY <1>3, <2>1, <2>2
  <2>4. \A p \in Active(gates) : (p < t <=> p <= t - 1) /\ (p > t - 1 <=> ~(p < t))
    BY <1>4, <2>1
  <2>5. t \in FilterPeaks(gates) <=> st > 0 /\ gates[t].tension < st
    BY <1>2, <1>5, <2>2 DEF FilterPeaks, FilterTension, Active
  <2>6. t \in GpuPeaks(gates) <=>
          /\ earlier # {} /\ gates[Max(earlier)].tension > 0
          /\ gates[t].tension < gates[Max(earlier)].tension
    BY <1>5 DEF GpuPeaks
  <2>7. CASE earlier = {}
    <3>1. st = -1
      BY <2>3, <2>4, <2>7, Zenon DEF OfLast
    <3>. QED
      BY <2>5, <2>6, <2>7, <3>1
  <2>8. CASE earlier # {}
    <3>1. earlier \subseteq 0..Now
      BY <1>4
    <3>. HIDE DEF earlier
    <3>2. Max(earlier) \in earlier /\ \A p \in earlier : p <= Max(earlier)
      BY <2>8, <3>1, MaxIsGreatest
    <3>3. PICK last : last = Max(earlier)
      OBVIOUS
    <3>4. last \in Active(gates) /\ last <= t - 1
      BY <2>4, <3>2, <3>3 DEF earlier
    <3>5. PICK p \in Active(gates) : /\ p <= t - 1 /\ st = gates[p].tension
                                     /\ \A u \in Active(gates) : u <= t - 1 => u <= p
      <4>1. ~(last > t - 1)
        BY <2>1, <1>4, <3>4
      <4>. QED
        BY <2>3, <3>4, <4>1, Zenon DEF OfLast
    <3>6. p \in earlier
      BY <2>4, <3>5 DEF earlier
    <3>7. p <= last /\ last <= p
      BY <3>2, <3>3, <3>4, <3>5, <3>6
    <3>8. p = last
      BY <1>4, <3>4, <3>5, <3>7
    <3>. QED
      BY <2>5, <2>6, <2>8, <3>3, <3>5, <3>8, Zenon
  <2>. QED
    BY <2>7, <2>8
<1>6. FilterPeaks(gates) \subseteq Active(gates) /\ GpuPeaks(gates) \subseteq Active(gates)
  BY DEF FilterPeaks, GpuPeaks, Active
<1>7. FilterPeaks(gates) = GpuPeaks(gates)
  BY <1>5, <1>6, Zenon
<1>. QED
  BY <1>1, <1>7, Zenon

(***************************************************************************)
(* While a squeeze is on, the market was silent at some time, and has been *)
(* neither noisy nor expanding since.                                      *)
(***************************************************************************)
Pending(t) ==
  \E s \in 1..t : /\ Silent(candles[s].kind)
                  /\ \A u \in (s + 1)..t : ~Noise(candles[u].kind) /\ ~Fires(candles[u].kind)

LEMMA SqueezeIsPending ==
  ASSUME Now \in Nat
  PROVE  \A t \in 0..Now : Derived(candles)[t].squeezed => Pending(t)
<1>. DEFINE Bad == {t \in 0..Now : Derived(candles)[t].squeezed /\ ~Pending(t)}
<1>1. ASSUME Bad # {} PROVE FALSE
  <2>1. Bad \subseteq Nat
    OBVIOUS
  <2>2. PICK t \in Bad : \A u \in Bad : t <= u
    BY <1>1, <2>1, LeastNatural, Zenon
  <2>. HIDE DEF Bad
  <2>3. t \in 0..Now /\ Derived(candles)[t].squeezed /\ ~Pending(t)
    BY <2>2 DEF Bad
  <2>4. Len(candles) \in Nat /\ Now = Len(candles)
    BY DEF Now
  <2>5. t # 0
    BY <2>3, <2>4, DerivedSteps DEF NoneDerived
  <2>6. t \in 1..Now /\ t - 1 \in 0..Now /\ ~(t <= t - 1)
    BY <2>3, <2>5
  <2>7. Derived(candles)[t] = NextDerived(Derived(candles)[t - 1], candles[t].kind)
    BY <2>4, <2>6, DerivedSteps
  <2>8. Squeezed(Derived(candles)[t - 1].squeezed, candles[t].kind)
    BY <2>3, <2>7 DEF NextDerived
  <2>9. CASE Derived(candles)[t - 1].squeezed
    <3>1. Pending(t - 1)
      BY <2>2, <2>6, <2>9 DEF Bad
    <3>2. PICK s \in 1..(t - 1) :
            /\ Silent(candles[s].kind)
            /\ \A u \in (s + 1)..(t - 1) : ~Noise(candles[u].kind) /\ ~Fires(candles[u].kind)
      BY <3>1 DEF Pending
    <3>3. ~Noise(candles[t].kind) /\ ~Fires(candles[t].kind)
      BY <2>8, <2>9 DEF Squeezed
    <3>4. s \in 1..t /\ \A u \in (s + 1)..t : u = t \/ u \in (s + 1)..(t - 1)
      BY <2>6
    <3>. QED
      BY <2>3, <3>2, <3>3, <3>4, Zenon DEF Pending
  <2>10. CASE ~Derived(candles)[t - 1].squeezed
    <3>1. Silent(candles[t].kind)
      BY <2>8, <2>10 DEF Squeezed
    <3>2. t \in 1..t /\ (t + 1)..t = {}
      BY <2>6
    <3>. QED
      BY <2>3, <3>1, <3>2 DEF Pending
  <2>. QED
    BY <2>9, <2>10
<1>. QED
  BY <1>1

LEMMA BreakoutsFollowSilence == Now \in Nat => SqueezeNeedsSilence
<1>. SUFFICES ASSUME Now \in Nat PROVE SqueezeNeedsSilence
  OBVIOUS
<1>. DEFINE breakouts == {t \in DOMAIN Signals : Signals[t].source = "squeeze_breakout"}
<1>1. ASSUME NEW b \in breakouts
      PROVE  b \in 1..Now /\ Derived(candles)[b - 1].squeezed /\ Fires(candles[b].kind)
  <2>1. b \in 1..Now
        /\ SignalOf(Derived(candles)[b - 1].squeezed, candles[b].kind) = "squeeze_breakout"
    BY SignalsAreOwn
  <2>. QED
    BY <2>1 DEF SignalOf
<1>. HIDE DEF breakouts
<1>2. ASSUME NEW b \in breakouts
      PROVE  \E s \in 1..(b - 1) :
               /\ Silent(candles[s].kind)
               /\ \A t \in (s + 1)..(b - 1) : ~Noise(candles[t].kind) /\ t \notin breakouts
  <2>1. b \in 1..Now /\ b - 1 \in 0..Now /\ Derived(candles)[b - 1].squeezed
    BY <1>1
  <2>2. Pending(b - 1)
    BY <2>1, SqueezeIsPending
  <2>. QED
    BY <1>1, <2>2, Zenon DEF Pending
<1>. QED
  BY <1>2, Zenon DEF SqueezeNeedsSilence, breakouts


------------------------------------------------------------------------------
(* Counting *)

(***************************************************************************)
(* With candles of one volume the median is that volume, whatever candles  *)
(* it is taken of, and every window has the same signature wherever it is  *)
(* encoded.                                                                *)
(***************************************************************************)
LevelVolumes == \A v, w \in Volumes : v = w

SignOf(c) == <<c.kind.shape, TRUE>>

LEMMA RankedLevel ==
  ASSUME NEW v \in Nat, NEW n \in Nat \ {0}, NEW values,
         DOMAIN values = 1..n, \A i \in 1..n : values[i] = v, NEW k \in 1..n
  PROVE  Ranked(values, k) = v
<1>. DEFINE Fits(w) == /\ Cardinality({i \in DOMAIN values : values[i] < w}) < k
                       /\ k <= Cardinality({i \in DOMAIN values : values[i] <= w})
<1>1. {i \in DOMAIN values : values[i] < v} = {} /\ {i \in DOMAIN values : values[i] <= v} = 1..n
  OBVIOUS
<1>2. Cardinality(1..n) = n /\ Cardinality({}) = 0
  BY FS_Interval, FS_EmptySet
<1>3. Fits(v)
  <2>1. 0 < k /\ k <= n
    OBVIOUS
  <2>. QED
    BY <1>1, <1>2, <2>1, Zenon
<1>4. {values[i] : i \in DOMAIN values} = {v}
  OBVIOUS
<1>. HIDE DEF Fits
<1>5. (CHOOSE w \in {v} : Fits(w)) = v
  BY <1>3, Zenon
<1>. QED
  BY <1>4, <1>5, Zenon DEF Ranked, Fits

LEMMA LevelSignature ==
  ASSUME LevelVolumes, NEW given \in Seq(Candles), given # <<>>, NEW c \in Candles
  PROVE  Signature(c, Split(given)) = SignOf(c)
<1>1. PICK v \in Volumes : v = c.volume
  BY DEF Candles
<1>2. v \in Nat
  BY SignalAssumption
<1>3. PICK n : n = Len(given)
  OBVIOUS
<1>4. n \in Nat \ {0} /\ DOMAIN given = 1..n
  BY <1>3, LenProperties, EmptySeq
<1>5. PICK values : values = [i \in DOMAIN given |-> given[i].volume]
  OBVIOUS
<1>6. \A i \in 1..n : given[i] \in Candles
  BY <1>3, ElementOfSeq
<1>7. DOMAIN values = 1..n /\ \A i \in 1..n : values[i] = v
  BY <1>1, <1>4, <1>5, <1>6 DEF LevelVolumes, Candles
<1>8. Len(values) = n
  BY <1>4, <1>7
<1>9. (n + 1) \div 2 \in 1..n /\ n \div 2 + 1 \in 1..n
  BY <1>4
<1>10. Ranked(values, (n + 1) \div 2) = v /\ Ranked(values, n \div 2 + 1) = v
  BY <1>2, <1>4, <1>7, <1>9, RankedLevel
<1>11. Split(given) = v + v
  BY <1>5, <1>8, <1>10 DEF Split, Median2
<1>12. 2 * v >= v + v
  BY <1>2
<1>. QED
  BY <1>1, <1>11, <1>12, Zenon DEF Signature, SignOf

(***************************************************************************)
(* The times in a list, which is in their order.                           *)
(***************************************************************************)
TimesIn(seen) == {seen[i] : i \in DOMAIN seen}

Ascends(seen) == \A i, j \in DOMAIN seen : i < j => seen[i] < seen[j]

LEMMA AscendingLength ==
  ASSUME NEW seen \in Seq(Nat), Ascends(seen)
  PROVE  Len(seen) = Cardinality(TimesIn(seen))
<1>1. Len(seen) \in Nat /\ DOMAIN seen = 1..Len(seen)
  BY LenProperties
<1>2. \A i \in 1..Len(seen) : seen[i] \in Nat
  BY ElementOfSeq
<1>3. \A i, j \in 1..Len(seen) : i # j => seen[i] # seen[j]
  BY <1>1, <1>2 DEF Ascends
<1>4. seen \in [1..Len(seen) -> TimesIn(seen)]
  BY <1>1 DEF TimesIn
<1>5. seen \in Bijection(1..Len(seen), TimesIn(seen))
  <2>1. seen \in Injection(1..Len(seen), TimesIn(seen))
    BY <1>3, <1>4, Zenon DEF Injection, IsInjective
  <2>2. \A u \in TimesIn(seen) : \E i \in 1..Len(seen) : seen[i] = u
    BY <1>1, Zenon DEF TimesIn
  <2>3. seen \in Surjection(1..Len(seen), TimesIn(seen))
    BY <1>4, <2>2, Zenon DEF Surjection
  <2>. QED
    BY <2>1, <2>3, Zenon DEF Bijection
<1>6. ExistsBijection(1..Len(seen), TimesIn(seen))
  BY <1>5, Zenon DEF ExistsBijection
<1>7. IsFiniteSet(1..Len(seen)) /\ Cardinality(1..Len(seen)) = Len(seen)
  <2>1. PICK n \in Nat : n = Len(seen)
    BY <1>1
  <2>2. IsFiniteSet(1..n) /\ Cardinality(1..n) = IF 1 > n THEN 0 ELSE n - 1 + 1
    BY FS_Interval
  <2>3. Cardinality(1..n) = n
    BY <2>2
  <2>. QED
    BY <2>1, <2>2, <2>3
<1>. QED
  BY <1>6, <1>7, FS_Bijection, Zenon

LEMMA CountedIsEnd ==
  ASSUME NEW seen \in Seq(Nat), NEW t \in Nat
  PROVE  LET all == Append(seen, t)
         IN \E k \in 1..Len(all) :
              /\ Counted(seen, t) \in Seq(Nat)
              /\ Len(Counted(seen, t)) = Len(all) - k + 1
              /\ \A i \in 1..(Len(all) - k + 1) : Counted(seen, t)[i] = all[i + k - 1]
              /\ t - all[k] <= Retention
              /\ \A i \in 1..(k - 1) : ~(t - all[i] <= Retention)
<1>1. PICK all : all = Append(seen, t)
  OBVIOUS
<1>2. PICK n : n = Len(seen)
  OBVIOUS
<1>3. n \in Nat /\ all \in Seq(Nat) /\ Len(all) = n + 1 /\ all[n + 1] = t /\ DOMAIN all = 1..(n + 1)
  BY <1>1, <1>2, AppendProperties, LenProperties
<1>. DEFINE young == {i \in DOMAIN all : t - all[i] <= Retention}
<1>4. n + 1 \in young /\ young \subseteq 1..(n + 1) /\ young \subseteq Nat
  BY <1>3, WindowAssumption
<1>. HIDE DEF young
<1>5. Min(young) \in young /\ \A i \in young : Min(young) <= i
  BY <1>4, MinIsLeast
<1>6. PICK k : k = Min(young)
  OBVIOUS
<1>7. k \in 1..(n + 1) /\ k \in young
  BY <1>4, <1>5, <1>6
<1>8. Counted(seen, t) = SubSeq(all, k, n + 1)
  BY <1>1, <1>3, <1>6 DEF Counted, young
<1>9. k \in Int /\ n + 1 \in Int /\ \A i \in k..(n + 1) : all[i] \in Nat
  BY <1>3, <1>7, ElementOfSeq
<1>10. /\ SubSeq(all, k, n + 1) \in Seq(Nat)
       /\ Len(SubSeq(all, k, n + 1)) = IF k <= n + 1 THEN (n + 1) - k + 1 ELSE 0
       /\ \A i \in 1..((n + 1) - k + 1) : SubSeq(all, k, n + 1)[i] = all[k + i - 1]
  BY <1>9, SubSeqProperties
<1>11. \A i \in 1..((n + 1) - k + 1) : k + i - 1 = i + k - 1
  BY <1>3, <1>7
<1>12. \A i \in 1..(k - 1) : i \in DOMAIN all /\ i \notin young
  BY <1>3, <1>5, <1>6, <1>7
<1>13. t - all[k] <= Retention /\ \A i \in 1..(k - 1) : ~(t - all[i] <= Retention)
  BY <1>7, <1>12 DEF young
<1>14. Len(Counted(seen, t)) = Len(all) - k + 1
  BY <1>3, <1>7, <1>8, <1>10
<1>. QED
  BY <1>1, <1>3, <1>7, <1>8, <1>10, <1>11, <1>13, <1>14

(***************************************************************************)
(* Counting keeps the order, and of the times those within the retention.  *)
(***************************************************************************)
LEMMA CountedKeepsRecent ==
  ASSUME NEW seen \in Seq(Nat), Ascends(seen), NEW t \in Nat, \A u \in TimesIn(seen) : u < t
  PROVE  /\ Counted(seen, t) \in Seq(Nat) /\ Ascends(Counted(seen, t))
         /\ TimesIn(Counted(seen, t)) = {u \in TimesIn(seen) \cup {t} : t - u <= Retention}
<1>1. PICK all : all = Append(seen, t)
  OBVIOUS
<1>2. PICK n : n = Len(seen)
  OBVIOUS
<1>3. PICK part : part = Counted(seen, t)
  OBVIOUS
<1>4. /\ n \in Nat /\ DOMAIN seen = 1..n /\ all \in Seq(Nat) /\ Len(all) = n + 1
      /\ \A i \in 1..n : all[i] = seen[i]
      /\ all[n + 1] = t
  BY <1>1, <1>2, AppendProperties, LenProperties
<1>5. PICK k \in 1..(n + 1) :
        /\ part \in Seq(Nat)
        /\ Len(part) = (n + 1) - k + 1
        /\ \A i \in 1..((n + 1) - k + 1) : part[i] = all[i + k - 1]
        /\ t - all[k] <= Retention
        /\ \A i \in 1..(k - 1) : ~(t - all[i] <= Retention)
  <2>1. \E k \in 1..Len(all) :
          /\ part \in Seq(Nat)
          /\ Len(part) = Len(all) - k + 1
          /\ \A i \in 1..(Len(all) - k + 1) : part[i] = all[i + k - 1]
          /\ t - all[k] <= Retention
          /\ \A i \in 1..(k - 1) : ~(t - all[i] <= Retention)
    BY <1>1, <1>3, CountedIsEnd, Zenon
  <2>2. Len(all) = n + 1
    BY <1>4
  <2>. QED
    BY <2>1, <2>2
<1>6. \A i \in 1..(n + 1) : all[i] \in Nat
  BY <1>4, ElementOfSeq
<1>7. \A i \in 1..n : seen[i] \in TimesIn(seen)
  BY <1>4 DEF TimesIn
<1>8. ASSUME NEW i \in 1..(n + 1), NEW j \in 1..(n + 1), i < j PROVE all[i] < all[j]
  <2>1. i \in 1..n
    BY <1>4, <1>8
  <2>2. CASE j = n + 1
    BY <1>4, <1>7, <2>1, <2>2
  <2>3. CASE j # n + 1
    <3>1. j \in 1..n
      BY <1>4, <2>3
    <3>. QED
      BY <1>4, <1>8, <2>1, <3>1 DEF Ascends
  <2>. QED
    BY <2>2, <2>3
<1>9. DOMAIN part = 1..((n + 1) - k + 1)
  BY <1>5, LenProperties
<1>10. Ascends(part)
  <2>. SUFFICES ASSUME NEW i \in DOMAIN part, NEW j \in DOMAIN part, i < j
                PROVE  part[i] < part[j]
    BY DEF Ascends
  <2>1. i + k - 1 \in 1..(n + 1) /\ j + k - 1 \in 1..(n + 1) /\ i + k - 1 < j + k - 1
    <3>1. DOMAIN part = 1..((n + 1) - k + 1) /\ k \in 1..(n + 1) /\ n \in Nat
      BY <1>4, <1>5, <1>9
    <3>. QED
      BY <3>1
  <2>2. part[i] = all[i + k - 1] /\ part[j] = all[j + k - 1]
    BY <1>5, <1>9
  <2>. QED
    BY <1>8, <2>1, <2>2, Zenon
<1>11. ASSUME NEW u \in TimesIn(part) PROVE u \in TimesIn(seen) \cup {t} /\ t - u <= Retention
  <2>1. PICK i \in 1..((n + 1) - k + 1) : u = all[i + k - 1]
    BY <1>5, <1>9 DEF TimesIn
  <2>2. PICK a : a = i + k - 1
    OBVIOUS
  <2>3. a \in 1..(n + 1) /\ k <= a /\ u = all[a]
    BY <1>4, <1>5, <2>1, <2>2
  <2>4. a # k => all[k] < all[a]
    BY <1>5, <1>8, <2>3
  <2>5. t - u <= Retention
    BY <1>5, <1>6, <2>3, <2>4, WindowAssumption
  <2>6. a = n + 1 \/ a \in 1..n
    BY <1>4, <2>3
  <2>. QED
    BY <1>4, <1>7, <2>3, <2>5, <2>6
<1>12. ASSUME NEW u \in TimesIn(seen) \cup {t}, t - u <= Retention PROVE u \in TimesIn(part)
  <2>1. PICK a \in 1..(n + 1) : u = all[a]
    BY <1>4, <1>12 DEF TimesIn
  <2>2. ~(a < k)
    BY <1>4, <1>5, <1>12, <2>1
  <2>3. a - k + 1 \in 1..((n + 1) - k + 1) /\ a = (a - k + 1) + k - 1
    BY <1>4, <1>5, <2>1, <2>2
  <2>4. u = part[a - k + 1]
    BY <1>5, <2>1, <2>3
  <2>. QED
    BY <1>9, <2>3, <2>4 DEF TimesIn
<1>. QED
  BY <1>3, <1>5, <1>10, <1>11, <1>12

(***************************************************************************)
(* The windows whose signature a window repeats, itself included.          *)
(***************************************************************************)
Recent(cs, t) == {u \in 1..t : SignOf(cs[u]) = SignOf(cs[t]) /\ t - u <= Retention}

Repeated(cs, t) == Cardinality(Recent(cs, t))

(***************************************************************************)
(* A history up to a last window, of which all were counted but those up   *)
(* to another, holds every window of a signature that is not yet old.      *)
(***************************************************************************)
KeepsRecent(cs, history, last, from) ==
  \A s \in Signatures :
    /\ Ascends(history[s])
    /\ \A u \in TimesIn(history[s]) : u \in 1..last /\ SignOf(cs[u]) = s
    /\ \A u \in (from + 1)..last :
         SignOf(cs[u]) = s => u \in TimesIn(history[s]) \/ last - u > Retention

Sure(t, from) == from = 0 \/ t - from > Retention

LEMMA WindowIsCounted ==
  ASSUME NEW cs \in Seq(Candles), NEW t \in 1..Len(cs), NEW from \in Nat, NEW last \in 0..(t - 1),
         t - 1 <= last \/ t - 1 <= from,
         NEW history \in [Signatures -> Seq(Nat)], KeepsRecent(cs, history, last, from),
         NEW seen, seen = Counted(history[SignOf(cs[t])], t)
  PROVE  /\ SignOf(cs[t]) \in Signatures
         /\ [history EXCEPT ![SignOf(cs[t])] = seen] \in [Signatures -> Seq(Nat)]
         /\ KeepsRecent(cs, [history EXCEPT ![SignOf(cs[t])] = seen], t, from)
         /\ Sure(t, from) => Len(seen) = Repeated(cs, t)
<1>1. PICK s : s = SignOf(cs[t])
  OBVIOUS
<1>2. t \in Nat /\ last \in Nat /\ last < t /\ Retention \in Nat
  BY LenProperties, WindowAssumption
<1>3. cs[t] \in Candles
  BY ElementOfSeq
<1>4. s \in Signatures
  BY <1>1, <1>3 DEF SignOf, Signatures, Candles
<1>5. /\ history[s] \in Seq(Nat) /\ Ascends(history[s])
      /\ \A u \in TimesIn(history[s]) : u \in 1..last /\ SignOf(cs[u]) = s
      /\ \A u \in (from + 1)..last :
           SignOf(cs[u]) = s => u \in TimesIn(history[s]) \/ last - u > Retention
  BY <1>4 DEF KeepsRecent
<1>6. \A u \in TimesIn(history[s]) : u < t
  BY <1>2, <1>5
<1>7. /\ seen \in Seq(Nat) /\ Ascends(seen)
      /\ TimesIn(seen) = {u \in TimesIn(history[s]) \cup {t} : t - u <= Retention}
  BY <1>1, <1>2, <1>5, <1>6, CountedKeepsRecent
<1>8. PICK after : after = [history EXCEPT ![s] = seen]
  OBVIOUS
<1>9. /\ after \in [Signatures -> Seq(Nat)] /\ after[s] = seen
      /\ \A r \in Signatures : r # s => after[r] = history[r]
  BY <1>4, <1>7, <1>8
<1>10. ASSUME NEW u \in (from + 1)..t, SignOf(cs[u]) = s
       PROVE  u \in TimesIn(seen) \/ t - u > Retention
  <2>1. CASE u = t
    BY <1>2, <1>7, <2>1
  <2>2. CASE u # t
    <3>1. u \in (from + 1)..last /\ u \in Int
      BY <1>2, <2>2
    <3>2. u \in TimesIn(history[s]) \/ last - u > Retention
      BY <1>5, <1>10, <3>1
    <3>. QED
      BY <1>2, <1>7, <3>1, <3>2
  <2>. QED
    BY <2>1, <2>2
<1>11. \A u \in TimesIn(seen) : u \in 1..t /\ SignOf(cs[u]) = s /\ t - u <= Retention
  BY <1>1, <1>2, <1>5, <1>7
<1>12. KeepsRecent(cs, after, t, from)
  <2>. SUFFICES ASSUME NEW r \in Signatures
                PROVE  /\ Ascends(after[r])
                       /\ \A u \in TimesIn(after[r]) : u \in 1..t /\ SignOf(cs[u]) = r
                       /\ \A u \in (from + 1)..t :
                            SignOf(cs[u]) = r => u \in TimesIn(after[r]) \/ t - u > Retention
    BY DEF KeepsRecent
  <2>1. CASE r = s
    BY <1>7, <1>9, <1>10, <1>11, <2>1
  <2>2. CASE r # s
    <3>1. /\ after[r] = history[r] /\ Ascends(history[r])
          /\ \A u \in TimesIn(history[r]) : u \in 1..last /\ SignOf(cs[u]) = r
          /\ \A u \in (from + 1)..last :
               SignOf(cs[u]) = r => u \in TimesIn(history[r]) \/ last - u > Retention
      BY <1>9, <2>2 DEF KeepsRecent
    <3>2. \A u \in (from + 1)..t : u # t => u \in (from + 1)..last /\ (last - u > Retention => t - u > Retention)
      BY <1>2
    <3>3. \A u \in 1..last : u \in 1..t
      BY <1>2
    <3>. QED
      BY <1>1, <2>2, <3>1, <3>2, <3>3
  <2>. QED
    BY <2>1, <2>2
<1>13. ASSUME Sure(t, from) PROVE Len(seen) = Repeated(cs, t)
  <2>1. \A u \in 1..t : t - u <= Retention => u \in (from + 1)..t
    BY <1>2, <1>13 DEF Sure
  <2>2. ASSUME NEW u \in Recent(cs, t) PROVE u \in TimesIn(seen)
    <3>1. u \in 1..t /\ SignOf(cs[u]) = s /\ t - u <= Retention
      BY <1>1 DEF Recent
    <3>2. u \in (from + 1)..t /\ ~(t - u > Retention)
      <4>1. u \in (from + 1)..t
        BY <2>1, <3>1, Zenon
      <4>2. u \in Int /\ t - u \in Int
        BY <1>2, <3>1
      <4>. QED
        BY <1>2, <3>1, <4>1, <4>2
    <3>. QED
      BY <1>10, <3>1, <3>2, Zenon
  <2>3. TimesIn(seen) \subseteq Recent(cs, t)
    BY <1>1, <1>11 DEF Recent
  <2>4. TimesIn(seen) = Recent(cs, t)
    BY <2>2, <2>3, Zenon
  <2>. QED
    BY <1>7, <2>4, AscendingLength DEF Repeated
<1>. QED
  BY <1>1, <1>4, <1>8, <1>9, <1>12, <1>13


------------------------------------------------------------------------------
(* The replay *)

(***************************************************************************)
(* The gate of a window as the replay makes it, and its tension.           *)
(***************************************************************************)
DenseGate(cs, t) ==
  Payload("regime_manifold", t, cs[t].kind, Repeated(cs, t),
          DenseReasons(cs[t].kind, Capped(Threshold(Replayed(cs)[t].samples))))

Directed(cs, t) == DirectionOf(cs[t].kind.regime) # "FLAT"

TensionAt(cs, t) == Tension(Repeated(cs, t), cs[t].kind)

(***************************************************************************)
(* p is the last window with a direction before t.                         *)
(***************************************************************************)
Latest(cs, p, t) ==
  /\ p \in 1..(t - 1) /\ Directed(cs, p)
  /\ \A u \in (p + 1)..(t - 1) : ~Directed(cs, u)

PeakAt(cs, t) ==
  /\ Directed(cs, t)
  /\ \E p \in 1..(t - 1) : /\ Latest(cs, p, t)
                           /\ TensionAt(cs, p) > 0 /\ TensionAt(cs, t) < TensionAt(cs, p)

(***************************************************************************)
(* With candles of one volume the replay counts the windows that a service *)
(* counts which has missed none.                                           *)
(***************************************************************************)
LEMMA ReplayCounts ==
  ASSUME LevelVolumes, NEW cs \in Seq(Candles)
  PROVE  /\ \A t \in 0..Len(cs) : /\ Replayed(cs)[t].history \in [Signatures -> Seq(Nat)]
                                  /\ KeepsRecent(cs, Replayed(cs)[t].history, t, 0)
         /\ \A t \in 1..Len(cs) :
              /\ Replayed(cs)[t].gate = DenseGate(cs, t)
              /\ Replayed(cs)[t].samples = Updated(Replayed(cs)[t - 1].samples, cs[t].kind.hazard)
<1>1. PICK n : n = Len(cs)
  OBVIOUS
<1>2. n \in Nat
  BY <1>1, LenProperties
<1>3. Replayed(cs)[0] = NoneReplayed
      /\ \A t \in 1..n : Replayed(cs)[t] = NextReplayed(Replayed(cs)[t - 1], t, cs[t], Split(cs))
  BY <1>1, <1>2, ReplayedSteps
<1>. DEFINE Right(t) == /\ Replayed(cs)[t].history \in [Signatures -> Seq(Nat)]
                        /\ KeepsRecent(cs, Replayed(cs)[t].history, t, 0)
<1>4. Right(0)
  <2>1. Replayed(cs)[0].history = NoHistory
    BY <1>3 DEF NoneReplayed
  <2>2. NoHistory \in [Signatures -> Seq(Nat)] /\ \A s \in Signatures : NoHistory[s] = <<>>
    BY DEF NoHistory
  <2>3. DOMAIN <<>> = {} /\ (0 + 1)..0 = {}
    OBVIOUS
  <2>. QED
    BY <2>1, <2>2, <2>3 DEF KeepsRecent, Ascends, TimesIn
<1>5. ASSUME NEW t \in 1..n, Right(t - 1)
      PROVE  /\ Right(t)
             /\ Replayed(cs)[t].samples = Updated(Replayed(cs)[t - 1].samples, cs[t].kind.hazard)
             /\ Replayed(cs)[t].gate = DenseGate(cs, t)
  <2>1. cs[t] \in Candles /\ cs # <<>>
    BY <1>1, <1>2, ElementOfSeq, EmptySeq
  <2>2. Signature(cs[t], Split(cs)) = SignOf(cs[t])
    BY <2>1, LevelSignature
  <2>3. PICK before : before = Replayed(cs)[t - 1]
    OBVIOUS
  <2>4. PICK seen : seen = Counted(before.history[SignOf(cs[t])], t)
    OBVIOUS
  <2>5. Replayed(cs)[t] = NextReplayed(before, t, cs[t], Split(cs))
    BY <1>3, <2>3
  <2>6. /\ Replayed(cs)[t].samples = Updated(before.samples, cs[t].kind.hazard)
        /\ Replayed(cs)[t].history = [before.history EXCEPT ![SignOf(cs[t])] = seen]
        /\ Replayed(cs)[t].gate =
             Payload("regime_manifold", t, cs[t].kind, Len(seen),
                     DenseReasons(cs[t].kind,
                       Capped(Threshold(Updated(before.samples, cs[t].kind.hazard)))))
    BY <2>2, <2>4, <2>5 DEF NextReplayed
  <2>7. t \in 1..Len(cs) /\ t - 1 \in 0..(t - 1) /\ t - 1 <= t - 1 /\ 0 \in Nat
    BY <1>1, <1>2
  <2>8. /\ before.history \in [Signatures -> Seq(Nat)]
        /\ KeepsRecent(cs, before.history, t - 1, 0)
    BY <1>5, <2>3
  <2>9. /\ [before.history EXCEPT ![SignOf(cs[t])] = seen] \in [Signatures -> Seq(Nat)]
        /\ KeepsRecent(cs, [before.history EXCEPT ![SignOf(cs[t])] = seen], t, 0)
        /\ Sure(t, 0) => Len(seen) = Repeated(cs, t)
    BY <2>4, <2>7, <2>8, WindowIsCounted
  <2>10. Len(seen) = Repeated(cs, t)
    BY <2>9 DEF Sure
  <2>. QED
    BY <2>3, <2>6, <2>9, <2>10 DEF DenseGate
<1>. DEFINE Bad == {t \in 0..n : ~Right(t)}
<1>6. ASSUME Bad # {} PROVE FALSE
  <2>1. Bad \subseteq Nat
    OBVIOUS
  <2>. HIDE DEF Right
  <2>2. PICK t \in Bad : \A u \in Bad : t <= u
    BY <1>6, <2>1, LeastNatural, Zenon
  <2>3. t \in 0..n /\ ~Right(t) /\ t # 0
    BY <1>4, <2>2
  <2>4. t \in 1..n /\ t - 1 \in 0..n /\ ~(t <= t - 1)
    BY <1>2, <2>3
  <2>5. Right(t - 1)
    BY <2>2, <2>4
  <2>. QED
    BY <1>5, <2>3, <2>4, <2>5, Zenon
<1>7. \A t \in 0..n : Right(t)
  BY <1>6
<1>8. \A t \in 1..n : t - 1 \in 0..n
  BY <1>2
<1>. QED
  BY <1>1, <1>5, <1>7, <1>8, Zenon

(***************************************************************************)
(* The samples of a window do not depend on the candles after it.          *)
(***************************************************************************)
LEMMA SamplesOfPrefix ==
  ASSUME NEW cs \in Seq(Candles), NEW c \in Candles
  PROVE  \A t \in 0..Len(cs) : Replayed(Append(cs, c))[t].samples = Replayed(cs)[t].samples
<1>1. PICK n, longer : n = Len(cs) /\ longer = Append(cs, c)
  OBVIOUS
<1>2. n \in Nat /\ Len(longer) = n + 1 /\ \A t \in 1..n : longer[t] = cs[t]
  BY <1>1, LenProperties, AppendProperties
<1>3. Replayed(cs)[0] = NoneReplayed
      /\ \A t \in 1..n : Replayed(cs)[t] = NextReplayed(Replayed(cs)[t - 1], t, cs[t], Split(cs))
  BY <1>1, <1>2, ReplayedSteps
<1>4. Replayed(longer)[0] = NoneReplayed
      /\ \A t \in 1..(n + 1) :
           Replayed(longer)[t] = NextReplayed(Replayed(longer)[t - 1], t, longer[t], Split(longer))
  BY <1>2, ReplayedSteps
<1>. DEFINE Same(t) == Replayed(longer)[t].samples = Replayed(cs)[t].samples
            Bad == {t \in 0..n : ~Same(t)}
<1>5. Same(0)
  BY <1>3, <1>4
<1>6. ASSUME NEW t \in 1..n, Same(t - 1) PROVE Same(t)
  <2>1. /\ Replayed(cs)[t] = NextReplayed(Replayed(cs)[t - 1], t, cs[t], Split(cs))
        /\ Replayed(longer)[t] = NextReplayed(Replayed(longer)[t - 1], t, cs[t], Split(longer))
    BY <1>2, <1>3, <1>4
  <2>. QED
    BY <1>6, <2>1 DEF NextReplayed
<1>7. ASSUME Bad # {} PROVE FALSE
  <2>1. Bad \subseteq Nat
    OBVIOUS
  <2>. HIDE DEF Same
  <2>2. PICK t \in Bad : \A u \in Bad : t <= u
    BY <1>7, <2>1, LeastNatural, Zenon
  <2>3. t \in 0..n /\ ~Same(t) /\ t # 0
    BY <1>5, <2>2
  <2>4. t \in 1..n /\ t - 1 \in 0..n /\ ~(t <= t - 1)
    BY <1>2, <2>3
  <2>5. Same(t - 1)
    BY <2>2, <2>4
  <2>. QED
    BY <1>6, <2>3, <2>4, <2>5, Zenon
<1>. QED
  BY <1>1, <1>7

(***************************************************************************)
(* What is said of a window does not depend on the candles after it.       *)
(***************************************************************************)
LEMMA PrefixDecides ==
  ASSUME NEW cs \in Seq(Candles), NEW c \in Candles, NEW t \in 1..Len(cs)
  PROVE  /\ Append(cs, c)[t] = cs[t]
         /\ Repeated(Append(cs, c), t) = Repeated(cs, t)
         /\ Directed(Append(cs, c), t) <=> Directed(cs, t)
         /\ TensionAt(Append(cs, c), t) = TensionAt(cs, t)
<1>1. PICK longer : longer = Append(cs, c)
  OBVIOUS
<1>2. \A u \in 1..t : longer[u] = cs[u]
  BY <1>1, LenProperties, AppendProperties
<1>3. t \in 1..t
  OBVIOUS
<1>4. Recent(longer, t) = Recent(cs, t)
  BY <1>2, <1>3 DEF Recent
<1>. QED
  BY <1>1, <1>2, <1>3, <1>4 DEF Repeated, Directed, TensionAt

LEMMA PrefixPeaks ==
  ASSUME NEW cs \in Seq(Candles), NEW c \in Candles, NEW t \in 1..(Len(cs) + 1)
  PROVE  /\ \A p \in 1..(t - 1) : Latest(Append(cs, c), p, t) <=> Latest(cs, p, t)
         /\ t # Len(cs) + 1 => (PeakAt(Append(cs, c), t) <=> PeakAt(cs, t))
<1>1. PICK longer, n : longer = Append(cs, c) /\ n = Len(cs)
  OBVIOUS
<1>2. n \in Nat
  BY <1>1, LenProperties
<1>3. \A u \in 1..n : /\ Directed(longer, u) <=> Directed(cs, u)
                      /\ TensionAt(longer, u) = TensionAt(cs, u)
  BY <1>1, PrefixDecides
<1>4. \A p \in 1..(t - 1) : p \in 1..n /\ \A u \in (p + 1)..(t - 1) : u \in 1..n
  BY <1>1, <1>2
<1>5. \A p \in 1..(t - 1) : Latest(longer, p, t) <=> Latest(cs, p, t)
  BY <1>3, <1>4, Zenon DEF Latest
<1>6. ASSUME t # n + 1 PROVE PeakAt(longer, t) <=> PeakAt(cs, t)
  <2>1. t \in 1..n
    BY <1>1, <1>2, <1>6
  <2>. QED
    BY <1>3, <1>4, <1>5, <2>1, Zenon DEF PeakAt
<1>. QED
  BY <1>1, <1>5, <1>6

(***************************************************************************)
(* The sweep sees the peaks of the replay's gates.                         *)
(***************************************************************************)
LEMMA DenseGatesAre ==
  ASSUME LevelVolumes, candles \in Seq(Candles)
  PROVE  /\ DOMAIN DenseGates = 1..Now
         /\ \A t \in 1..Now : /\ DenseGates[t] = DenseGate(candles, t)
                              /\ DenseGates[t].direction # "FLAT" <=> Directed(candles, t)
                              /\ DenseGates[t].tension = TensionAt(candles, t)
                              /\ DenseGates[t].reps = Repeated(candles, t)
         /\ Active(DenseGates) = {t \in 1..Now : Directed(candles, t)}
<1>1. DOMAIN DenseGates = 1..Now /\ \A t \in 1..Now : DenseGates[t] = Replayed(candles)[t].gate
  BY DEF DenseGates
<1>2. \A t \in 1..Now : DenseGates[t] = DenseGate(candles, t)
  BY <1>1, ReplayCounts DEF Now
<1>3. \A t \in 1..Now : /\ DenseGates[t].direction # "FLAT" <=> Directed(candles, t)
                        /\ DenseGates[t].tension = TensionAt(candles, t)
                        /\ DenseGates[t].reps = Repeated(candles, t)
  <2>. SUFFICES ASSUME NEW t \in 1..Now
                PROVE  /\ DenseGates[t].direction = DirectionOf(candles[t].kind.regime)
                       /\ DenseGates[t].tension = TensionAt(candles, t)
                       /\ DenseGates[t].reps = Repeated(candles, t)
    BY Zenon DEF Directed
  <2>1. DenseGates[t] = DenseGate(candles, t)
    BY <1>2
  <2>. QED
    BY <2>1 DEF DenseGate, Payload, TensionAt
<1>4. Active(DenseGates) = {t \in 1..Now : DenseGates[t].direction # "FLAT"}
  BY <1>1, Zenon DEF Active
<1>. QED
  BY <1>1, <1>2, <1>3, <1>4, Zenon

LEMMA DensePeaks ==
  ASSUME LevelVolumes, candles \in Seq(Candles), NEW t \in 1..Now
  PROVE  t \in GpuPeaks(DenseGates) <=> PeakAt(candles, t)
<1>1. Now \in Nat
  BY LenProperties DEF Now
<1>2. PICK gates : gates = DenseGates
  OBVIOUS
<1>3. /\ \A u \in 1..Now : gates[u].tension = TensionAt(candles, u)
      /\ Active(gates) = {u \in 1..Now : Directed(candles, u)}
  BY <1>2, DenseGatesAre
<1>. DEFINE earlier == {p \in Active(gates) : p < t}
<1>4. t \in GpuPeaks(gates) <=>
        /\ t \in Active(gates) /\ earlier # {}
        /\ gates[Max(earlier)].tension > 0
        /\ gates[t].tension < gates[Max(earlier)].tension
  BY DEF GpuPeaks
<1>5. earlier = {p \in 1..(t - 1) : Directed(candles, p)}
  BY <1>1, <1>3
<1>. HIDE DEF earlier
<1>6. CASE earlier = {}
  <2>1. ~PeakAt(candles, t)
    BY <1>5, <1>6 DEF PeakAt, Latest
  <2>. QED
    BY <1>2, <1>4, <1>6, <2>1
<1>7. CASE earlier # {}
  <2>1. earlier \subseteq 0..Now
    BY <1>1, <1>5
  <2>2. PICK last : last = Max(earlier)
    OBVIOUS
  <2>3. last \in earlier /\ \A p \in earlier : p <= last
    BY <1>1, <1>7, <2>1, <2>2, MaxIsGreatest
  <2>4. last \in 1..(t - 1) /\ Directed(candles, last)
    BY <1>5, <2>3
  <2>5. Latest(candles, last, t)
    <3>1. ASSUME NEW u \in (last + 1)..(t - 1) PROVE ~Directed(candles, u)
      <4>1. u \in 1..(t - 1) /\ ~(u <= last)
        BY <2>4
      <4>. QED
        BY <1>5, <2>3, <4>1
    <3>. QED
      BY <2>4, <3>1 DEF Latest
  <2>6. ASSUME NEW p \in 1..(t - 1), Latest(candles, p, t) PROVE p = last
    <3>1. ~(p < last)
      <4>1. p < last => last \in (p + 1)..(t - 1)
        BY <2>4
      <4>. QED
        BY <2>4, <2>6, <4>1 DEF Latest
    <3>2. ~(last < p)
      <4>1. last < p => p \in (last + 1)..(t - 1)
        BY <2>4
      <4>. QED
        BY <2>5, <2>6, <4>1 DEF Latest
    <3>. QED
      BY <2>4, <3>1, <3>2
  <2>7. last \in 1..Now /\ t \in 1..Now
    BY <1>1, <2>4
  <2>8. PeakAt(candles, t) <=> /\ Directed(candles, t) /\ TensionAt(candles, last) > 0
                               /\ TensionAt(candles, t) < TensionAt(candles, last)
    BY <2>4, <2>5, <2>6, Zenon DEF PeakAt
  <2>9. t \in Active(gates) <=> Directed(candles, t)
    BY <1>3
  <2>. QED
    BY <1>2, <1>3, <1>4, <1>7, <2>2, <2>7, <2>8, <2>9
<1>. QED
  BY <1>6, <1>7

------------------------------------------------------------------------------
(* The live side *)

(***************************************************************************)
(* How the clocks stand to each other: the service is at the window of the *)
(* last gate, or has restarted since and forgotten it.                     *)
(***************************************************************************)
ClocksOK ==
  /\ live.emitted \in 0..Now /\ gate.ts \in 0..Now /\ loop.ts \in 0..gate.ts
  /\ uncounted \in 0..Now /\ unseen \in 0..gate.ts
  /\ live.emitted = gate.ts \/ (live.emitted = 0 /\ gate.ts <= uncounted)
  /\ Now - 1 <= live.emitted \/ Now - 1 <= uncounted

MemoryOK ==
  /\ candles \in Seq(Candles)
  /\ live.history \in [Signatures -> Seq(Nat)]
  /\ KeepsRecent(candles, live.history, live.emitted, uncounted)

GateOK ==
  IF gate.ts = 0 THEN gate = NoGate
  ELSE /\ gate = Payload("regime_manifold", gate.ts, candles[gate.ts].kind, gate.reps, gate.reasons)
       /\ Sure(gate.ts, uncounted) => gate.reps = Repeated(candles, gate.ts)

(***************************************************************************)
(* While it has missed nothing the service has the samples of the replay.  *)
(***************************************************************************)
SamplesOK ==
  uncounted = 0 =>
    /\ live.samples = Replayed(candles)[live.emitted].samples
    /\ gate.ts # 0 =>
         gate.reasons = Reasons(candles[gate.ts].kind,
                                Capped(Threshold(Replayed(candles)[gate.ts].samples)))

(***************************************************************************)
(* The loop remembers the tension of the last window with a direction that *)
(* it has judged, if it has seen it and the service had counted it right,  *)
(* and it has judged every gate it does not count as missed.               *)
(***************************************************************************)
LoopOK ==
  /\ loop.st = -1 \/ \E t \in 1..loop.ts : Directed(candles, t)
  /\ \A p \in 1..loop.ts :
       Latest(candles, p, loop.ts + 1) /\ p > unseen /\ Sure(p, uncounted) =>
         loop.st = TensionAt(candles, p)
  /\ \A t \in (loop.ts + 1)..(gate.ts - 1) : t <= unseen \/ t <= uncounted

(***************************************************************************)
(* Nothing is missing that the judgement of a peak looks at.               *)
(***************************************************************************)
Whole(t) ==
  \/ \E p \in 1..(t - 1) : Latest(candles, p, t) /\ p > unseen /\ Sure(p, uncounted)
  \/ unseen = 0 /\ Sure(t, uncounted) /\ \A p \in 1..(t - 1) : ~Directed(candles, p)

PeakOK ==
  gate.ts # 0 /\ loop.ts = gate.ts /\ gate.ts > unseen /\ Whole(gate.ts) =>
    (loop.peak <=> PeakAt(candles, gate.ts))

SignalInv == ClocksOK /\ MemoryOK /\ GateOK /\ SamplesOK /\ LoopOK /\ PeakOK

------------------------------------------------------------------------------
(* Lemmas for the steps *)

LEMMA KeepsRecentStable ==
  ASSUME NEW cs \in Seq(Candles), NEW c \in Candles, NEW history, NEW last \in 0..Len(cs),
         NEW from \in Nat, NEW later \in Nat, from <= later,
         KeepsRecent(cs, history, last, from)
  PROVE  KeepsRecent(Append(cs, c), history, last, later)
<1>1. \A u \in 1..last : Append(cs, c)[u] = cs[u]
  BY LenProperties, AppendProperties
<1>2. \A u \in (later + 1)..last : u \in (from + 1)..last /\ u \in 1..last
  OBVIOUS
<1>. QED
  BY <1>1, <1>2, Zenon DEF KeepsRecent, SignOf

LEMMA NothingIsRecent ==
  ASSUME NEW cs, NEW from \in Nat
  PROVE  NoHistory \in [Signatures -> Seq(Nat)] /\ KeepsRecent(cs, NoHistory, 0, from)
<1>1. NoHistory \in [Signatures -> Seq(Nat)] /\ \A s \in Signatures : NoHistory[s] = <<>>
  BY DEF NoHistory
<1>2. DOMAIN <<>> = {} /\ (from + 1)..0 = {}
  OBVIOUS
<1>. QED
  BY <1>1, <1>2 DEF KeepsRecent, Ascends, TimesIn

LEMMA LatestIsOne ==
  ASSUME NEW cs, NEW t \in Nat, NEW p, NEW q, Latest(cs, p, t), Latest(cs, q, t)
  PROVE  p = q
<1>1. p \in 1..(t - 1) /\ q \in 1..(t - 1)
  BY DEF Latest
<1>2. (p < q => q \in (p + 1)..(t - 1)) /\ (q < p => p \in (q + 1)..(t - 1))
  BY <1>1
<1>3. ~(p < q) /\ ~(q < p)
  BY <1>2, Zenon DEF Latest
<1>. QED
  BY <1>1, <1>3

(***************************************************************************)
(* A window is not sure that is no later than what was missed.             *)
(***************************************************************************)
LEMMA SureIsLater ==
  ASSUME NEW t \in Nat \ {0}, NEW from \in Nat, Sure(t, from)
  PROVE  from < t
BY WindowAssumption DEF Sure

LEMMA SureStays ==
  ASSUME NEW t \in Nat \ {0}, NEW u \in Nat, t <= u, NEW from \in Nat, Sure(t, from)
  PROVE  Sure(u, from)
BY WindowAssumption DEF Sure

------------------------------------------------------------------------------
(* The invariant is kept *)

LEMMA SignalInvStarts == Init => SignalInv
<1>. SUFFICES ASSUME Init PROVE SignalInv
  OBVIOUS
<1>1. /\ candles = <<>> /\ Now = 0 /\ live.emitted = 0 /\ live.samples = <<>>
      /\ live.history = NoHistory /\ gate = NoGate /\ gate.ts = 0
      /\ loop.ts = 0 /\ loop.st = -1 /\ uncounted = 0 /\ unseen = 0
  BY DEF Init, NewLive, NewLoop, NoGate, Now
<1>2. ClocksOK
  BY <1>1 DEF ClocksOK
<1>3. MemoryOK
  BY <1>1, NothingIsRecent DEF MemoryOK
<1>4. GateOK /\ PeakOK
  BY <1>1 DEF GateOK, PeakOK
<1>5. SamplesOK
  <2>1. Len(candles) = 0
    BY <1>1
  <2>2. Replayed(candles)[0] = NoneReplayed
    BY <2>1, ReplayedSteps
  <2>. QED
    BY <1>1, <2>2 DEF SamplesOK, NoneReplayed
<1>6. LoopOK
  BY <1>1 DEF LoopOK
<1>. QED
  BY <1>2, <1>3, <1>4, <1>5, <1>6 DEF SignalInv

(***************************************************************************)
(* A candle that closes takes back nothing, and what the service has       *)
(* missed is no longer sure.                                               *)
(***************************************************************************)
LEMMA CandleKeeps ==
  ASSUME LevelVolumes, SignalInv, NEW k \in Kinds, NEW v \in Volumes, CandleCloses(k, v)
  PROVE  SignalInv'
<1>1. PICK cs, c, n : cs = candles /\ c = [kind |-> k, volume |-> v] /\ n = Now
  OBVIOUS
<1>2. /\ cs \in Seq(Candles) /\ c \in Candles /\ n \in Nat /\ n = Len(cs)
      /\ candles' = Append(cs, c) /\ Len(candles') = n + 1 /\ Now' = n + 1
      /\ candles' \in Seq(Candles)
  <2>1. candles \in Seq(Candles) /\ candles' = Append(candles, c) /\ c \in Candles
    BY <1>1 DEF SignalInv, MemoryOK, CandleCloses, Candles
  <2>. QED
    BY <1>1, <2>1, LenProperties, AppendProperties DEF Now
<1>3. live' = live /\ gate' = gate /\ loop' = loop /\ unseen' = unseen
  BY DEF CandleCloses
<1>4. /\ live.emitted \in 0..n /\ gate.ts \in 0..n /\ loop.ts \in 0..gate.ts
      /\ uncounted \in 0..n /\ unseen \in 0..gate.ts
      /\ live.emitted = gate.ts \/ (live.emitted = 0 /\ gate.ts <= uncounted)
  BY <1>1 DEF SignalInv, ClocksOK
<1>5. \/ live.emitted = n /\ uncounted' = uncounted
      \/ uncounted' = n
  BY <1>1 DEF CandleCloses, Missed
<1>6. uncounted' \in 0..n /\ uncounted <= uncounted'
  BY <1>2, <1>4, <1>5
<1>7. \A t \in 1..n : Sure(t, uncounted') => Sure(t, uncounted)
  <2>1. ASSUME NEW t \in 1..n, Sure(t, uncounted') PROVE Sure(t, uncounted)
    <3>1. t \in Nat \ {0} /\ uncounted' \in Nat
      BY <1>2, <1>6
    <3>2. uncounted' < t
      BY <2>1, <3>1, SureIsLater
    <3>3. uncounted' = uncounted
      BY <1>2, <1>5, <2>1, <3>2
    <3>. QED
      BY <2>1, <3>3
  <2>. QED
    BY <2>1
<1>8. \A t \in 1..n : /\ candles'[t] = cs[t]
                      /\ Repeated(candles', t) = Repeated(cs, t)
                      /\ Directed(candles', t) <=> Directed(cs, t)
                      /\ TensionAt(candles', t) = TensionAt(cs, t)
  BY <1>2, PrefixDecides
<1>9. /\ \A t \in 1..(n + 1) : \A p \in 1..(t - 1) : Latest(candles', p, t) <=> Latest(cs, p, t)
      /\ \A t \in 1..n : PeakAt(candles', t) <=> PeakAt(cs, t)
  <2>1. \A t \in 1..n : t \in 1..(n + 1) /\ t # n + 1
    BY <1>2
  <2>. QED
    BY <1>2, <2>1, PrefixPeaks
<1>10. ClocksOK'
  <2>1. (Now - 1)' = n
    BY <1>2
  <2>. QED
    BY <1>2, <1>3, <1>4, <1>5, <1>6, <2>1 DEF ClocksOK
<1>11. MemoryOK'
  <2>1. /\ live.history \in [Signatures -> Seq(Nat)]
        /\ KeepsRecent(cs, live.history, live.emitted, uncounted)
    BY <1>1 DEF SignalInv, MemoryOK
  <2>2. uncounted \in Nat /\ uncounted' \in Nat
    BY <1>2, <1>4, <1>6
  <2>3. KeepsRecent(candles', live.history, live.emitted, uncounted')
    BY <1>2, <1>4, <1>6, <2>1, <2>2, KeepsRecentStable
  <2>. QED
    BY <1>2, <1>3, <2>1, <2>3 DEF MemoryOK
<1>12. GateOK'
  <2>1. GateOK
    BY DEF SignalInv
  <2>2. gate.ts # 0 => gate.ts \in 1..n
    BY <1>2, <1>4
  <2>. QED
    BY <1>1, <1>3, <1>7, <1>8, <2>1, <2>2 DEF GateOK
<1>13. SamplesOK'
  <2>1. ASSUME uncounted' = 0
        PROVE  /\ live.samples = Replayed(candles')[live.emitted].samples
               /\ gate.ts # 0 =>
                    gate.reasons = Reasons(candles'[gate.ts].kind,
                                           Capped(Threshold(Replayed(candles')[gate.ts].samples)))
    <3>1. uncounted = 0
      BY <1>2, <1>4, <1>6, <2>1
    <3>2. \A t \in 0..n : Replayed(candles')[t].samples = Replayed(cs)[t].samples
      BY <1>2, SamplesOfPrefix
    <3>3. gate.ts # 0 => gate.ts \in 1..n
      BY <1>2, <1>4
    <3>4. SamplesOK
      BY DEF SignalInv
    <3>. QED
      BY <1>1, <1>4, <1>8, <3>1, <3>2, <3>3, <3>4 DEF SamplesOK
  <2>. QED
    BY <1>3, <2>1 DEF SamplesOK
<1>14. LoopOK'
  <2>1. LoopOK
    BY DEF SignalInv
  <2>2. \A t \in 1..loop.ts : t \in 1..n
    BY <1>2, <1>4
  <2>3. loop.st = -1 \/ \E t \in 1..loop.ts : Directed(candles', t)
    BY <1>1, <1>8, <2>1, <2>2, Zenon DEF LoopOK
  <2>4. loop.ts + 1 \in 1..(n + 1) /\ \A p \in 1..loop.ts : p \in 1..(loop.ts + 1 - 1)
    BY <1>2, <1>4
  <2>5. ASSUME NEW p \in 1..loop.ts, Latest(candles', p, loop.ts + 1), p > unseen, Sure(p, uncounted')
        PROVE  loop.st = TensionAt(candles', p)
    <3>1. Latest(cs, p, loop.ts + 1)
      <4>1. PICK t : t = loop.ts + 1
        OBVIOUS
      <4>2. t \in 1..(n + 1) /\ p \in 1..(t - 1) /\ Latest(candles', p, t)
        <5>1. t \in 1..(n + 1) /\ p \in 1..(t - 1)
          BY <1>2, <1>4, <2>5, <4>1
        <5>2. Latest(candles', p, t)
          BY <2>5, <4>1, Zenon
        <5>. QED
          BY <5>1, <5>2
      <4>3. Latest(cs, p, t)
        BY <1>9, <4>2, Zenon
      <4>. QED
        BY <4>1, <4>3, Zenon
    <3>. QED
      BY <1>1, <1>7, <1>8, <2>1, <2>2, <2>5, <3>1, Zenon DEF LoopOK
  <2>6. \A t \in (loop.ts + 1)..(gate.ts - 1) : t <= unseen \/ t <= uncounted'
    BY <1>2, <1>4, <1>6, <2>1 DEF LoopOK
  <2>. QED
    BY <1>3, <2>3, <2>5, <2>6 DEF LoopOK
<1>15. PeakOK'
  <2>1. SUFFICES ASSUME gate.ts # 0, loop.ts = gate.ts, gate.ts > unseen, Whole(gate.ts)'
                 PROVE  loop.peak <=> PeakAt(candles', gate.ts)
    BY <1>3 DEF PeakOK
  <2>2. gate.ts \in 1..n /\ gate.ts \in 1..(n + 1)
    BY <1>2, <1>4, <2>1
  <2>3. \A p \in 1..(gate.ts - 1) : p \in 1..n
    BY <1>2, <1>4
  <2>4. Whole(gate.ts)
    <3>1. \/ \E p \in 1..(gate.ts - 1) : /\ Latest(candles', p, gate.ts)
                                         /\ p > unseen /\ Sure(p, uncounted')
          \/ unseen = 0 /\ Sure(gate.ts, uncounted')
             /\ \A p \in 1..(gate.ts - 1) : ~Directed(candles', p)
      BY <1>3, <2>1 DEF Whole
    <3>. QED
      BY <1>1, <1>7, <1>8, <1>9, <2>2, <2>3, <3>1, Zenon DEF Whole
  <2>5. PeakOK
    BY DEF SignalInv
  <2>. QED
    BY <1>1, <1>9, <2>1, <2>2, <2>4, <2>5, Zenon DEF PeakOK
<1>. QED
  BY <1>10, <1>11, <1>12, <1>13, <1>14, <1>15 DEF SignalInv

(***************************************************************************)
(* A pass of the service counts the newest window as the replay does, once *)
(* what it missed is old.                                                  *)
(***************************************************************************)
LEMMA PassKeeps ==
  ASSUME LevelVolumes, SignalInv, ProcessInstrument
  PROVE  SignalInv'
<1>1. PICK n, c, given : /\ n = Now /\ c = candles[Now]
                         /\ given = SubSeq(candles, IF Now > LookBack THEN Now - LookBack + 1 ELSE 1, Now)
  OBVIOUS
<1>2. /\ candles \in Seq(Candles) /\ n \in Nat /\ n = Len(candles) /\ n > 0 /\ live.emitted # n
      /\ live.history \in [Signatures -> Seq(Nat)]
      /\ KeepsRecent(candles, live.history, live.emitted, uncounted)
  BY <1>1, LenProperties DEF SignalInv, MemoryOK, ProcessInstrument, Now
<1>3. /\ live.emitted \in 0..n /\ gate.ts \in 0..n /\ loop.ts \in 0..gate.ts
      /\ uncounted \in 0..n /\ unseen \in 0..gate.ts
      /\ live.emitted = gate.ts \/ (live.emitted = 0 /\ gate.ts <= uncounted)
      /\ n - 1 <= live.emitted \/ n - 1 <= uncounted
  BY <1>1 DEF SignalInv, ClocksOK
<1>4. n \in 1..n /\ n \in 1..Len(candles) /\ c = candles[n] /\ c \in Candles
  <2>1. n \in 1..Len(candles)
    BY <1>2
  <2>. QED
    BY <1>1, <1>2, <2>1, ElementOfSeq
<1>5. Signature(c, Split(given)) = SignOf(c)
  <2>1. PICK m : m = IF n > LookBack THEN n - LookBack + 1 ELSE 1
    OBVIOUS
  <2>2. m \in 1..n
    BY <1>2, <2>1, SignalAssumption
  <2>3. m \in Int /\ n \in Int /\ \A i \in m..n : candles[i] \in Candles
    <3>1. \A i \in m..n : i \in 1..Len(candles)
      BY <1>2, <2>2
    <3>. QED
      BY <1>2, <2>2, <3>1, ElementOfSeq
  <2>4. given = SubSeq(candles, m, n)
    BY <1>1, <2>1
  <2>5. given \in Seq(Candles) /\ Len(given) = IF m <= n THEN n - m + 1 ELSE 0
    BY <2>3, <2>4, SubSeqProperties
  <2>6. Len(given) > 0
    BY <1>2, <2>2, <2>5
  <2>7. given # <<>>
    BY <2>6, EmptySeq
  <2>. QED
    BY <1>4, <2>5, <2>7, LevelSignature
<1>6. PICK seen, past, after : /\ seen = Counted(live.history[SignOf(c)], n)
                               /\ past = Updated(live.samples, c.kind.hazard)
                               /\ after = [live.history EXCEPT ![SignOf(c)] = seen]
  OBVIOUS
<1>7. /\ gate' = Payload("regime_manifold", n, c.kind, Len(seen), Reasons(c.kind, Capped(Threshold(past))))
      /\ live' = [emitted |-> n, samples |-> past, history |-> after]
      /\ candles' = candles /\ loop' = loop /\ uncounted' = uncounted
      /\ IF loop.ts = gate.ts THEN unseen' = unseen ELSE unseen' = gate.ts
  <2>1. /\ gate' = Payload("regime_manifold", Now, c.kind, Len(seen), Reasons(c.kind, Capped(Threshold(past))))
        /\ live' = [emitted |-> Now, samples |-> past, history |-> after]
    BY <1>1, <1>5, <1>6 DEF ProcessInstrument
  <2>. QED
    BY <1>1, <2>1 DEF ProcessInstrument, Missed
<1>8. /\ gate'.ts = n /\ gate'.reps = Len(seen) /\ gate'.reasons = Reasons(c.kind, Capped(Threshold(past)))
      /\ live'.emitted = n /\ live'.samples = past /\ live'.history = after /\ Now' = n
  BY <1>1, <1>7 DEF Payload, Now
<1>9. /\ after \in [Signatures -> Seq(Nat)]
      /\ KeepsRecent(candles, after, n, uncounted)
      /\ Sure(n, uncounted) => Len(seen) = Repeated(candles, n)
  <2>1. /\ live.emitted \in 0..(n - 1) /\ uncounted \in Nat
        /\ n - 1 <= live.emitted \/ n - 1 <= uncounted
    BY <1>2, <1>3
  <2>. QED
    BY <1>2, <1>4, <1>6, <2>1, WindowIsCounted
<1>10. unseen <= unseen' /\ unseen' \in 0..n /\ unseen' <= gate.ts
  BY <1>2, <1>3, <1>7
<1>11. ClocksOK'
  <2>1. loop.ts \in 0..n /\ n \in 0..n /\ n - 1 <= n
    BY <1>2, <1>3
  <2>. QED
    BY <1>3, <1>7, <1>8, <1>10, <2>1 DEF ClocksOK
<1>12. MemoryOK'
  BY <1>2, <1>7, <1>8, <1>9 DEF MemoryOK
<1>13. GateOK'
  BY <1>2, <1>4, <1>7, <1>8, <1>9 DEF GateOK
<1>14. SamplesOK'
  <2>1. ASSUME uncounted = 0 PROVE past = Replayed(candles)[n].samples
    <3>1. live.emitted = n - 1
      BY <1>2, <1>3, <2>1
    <3>2. live.samples = Replayed(candles)[n - 1].samples
      BY <2>1, <3>1 DEF SignalInv, SamplesOK
    <3>. QED
      BY <1>2, <1>4, <1>6, <3>2, ReplayCounts
  <2>. QED
    BY <1>4, <1>7, <1>8, <2>1 DEF SamplesOK
<1>15. LoopOK'
  <2>1. LoopOK
    BY DEF SignalInv
  <2>2. ASSUME NEW p \in 1..loop.ts, Latest(candles, p, loop.ts + 1), p > unseen', Sure(p, uncounted)
        PROVE  loop.st = TensionAt(candles, p)
    <3>1. p > unseen
      BY <1>3, <1>10, <2>2
    <3>. QED
      BY <2>1, <2>2, <3>1 DEF LoopOK
  <2>3. ASSUME NEW t \in (loop.ts + 1)..(n - 1) PROVE t <= unseen' \/ t <= uncounted
    <3>1. CASE t < gate.ts
      <4>1. t \in (loop.ts + 1)..(gate.ts - 1)
        BY <1>3, <3>1
      <4>2. t <= unseen \/ t <= uncounted
        BY <2>1, <4>1 DEF LoopOK
      <4>. QED
        BY <1>3, <1>10, <4>2
    <3>2. CASE t = gate.ts
      BY <1>3, <1>7, <3>2
    <3>3. CASE t > gate.ts
      BY <1>2, <1>3, <3>3
    <3>. QED
      BY <1>3, <3>1, <3>2, <3>3
  <2>4. loop.st = -1 \/ \E t \in 1..loop.ts : Directed(candles, t)
    BY <2>1 DEF LoopOK
  <2>. QED
    BY <1>7, <1>8, <2>2, <2>3, <2>4 DEF LoopOK
<1>16. PeakOK'
  <2>1. SUFFICES ASSUME loop.ts = n, Whole(n)' PROVE FALSE
    BY <1>7, <1>8 DEF PeakOK
  <2>2. uncounted = n /\ uncounted \in Nat
    BY <1>2, <1>3, <2>1
  <2>3. Sure(n, uncounted)
    <3>1. CASE \E p \in 1..(n - 1) : Sure(p, uncounted)
      <4>1. PICK p \in 1..(n - 1) : Sure(p, uncounted)
        BY <3>1
      <4>2. p \in Nat \ {0} /\ p <= n
        BY <1>2
      <4>. QED
        BY <1>2, <2>2, <4>1, <4>2, SureStays
    <3>2. CASE Sure(n, uncounted)
      BY <3>2
    <3>. QED
      BY <1>7, <2>1, <3>1, <3>2 DEF Whole
  <2>. QED
    BY <1>2, <2>2, <2>3, SureIsLater
<1>. QED
  BY <1>11, <1>12, <1>13, <1>14, <1>15, <1>16 DEF SignalInv

(***************************************************************************)
(* After a restart of the service no window of before is sure.             *)
(***************************************************************************)
LEMMA RestartKeeps ==
  ASSUME SignalInv, ServiceRestarts
  PROVE  SignalInv'
<1>1. PICK n : n = Now
  OBVIOUS
<1>2. candles \in Seq(Candles) /\ n \in Nat /\ n = Len(candles)
  BY <1>1, LenProperties DEF SignalInv, MemoryOK, Now
<1>3. gate.ts \in 0..n /\ loop.ts \in 0..gate.ts /\ unseen \in 0..gate.ts
  BY <1>1 DEF SignalInv, ClocksOK
<1>4. /\ live'.emitted = 0 /\ live'.samples = <<>> /\ live'.history = NoHistory
      /\ uncounted' = n /\ Now' = n
      /\ candles' = candles /\ gate' = gate /\ loop' = loop /\ unseen' = unseen
  BY <1>1 DEF ServiceRestarts, Missed, NewLive, Now
<1>5. \A t \in 1..n : ~Sure(t, n)
  <2>1. ASSUME NEW t \in 1..n, Sure(t, n) PROVE FALSE
    <3>1. t \in Nat \ {0} /\ ~(n < t)
      BY <1>2
    <3>. QED
      BY <1>2, <2>1, <3>1, SureIsLater
  <2>. QED
    BY <2>1
<1>6. ClocksOK'
  BY <1>2, <1>3, <1>4 DEF ClocksOK
<1>7. MemoryOK'
  BY <1>2, <1>4, NothingIsRecent DEF MemoryOK
<1>8. GateOK'
  <2>1. GateOK
    BY DEF SignalInv
  <2>2. gate.ts # 0 => gate.ts \in 1..n
    BY <1>2, <1>3
  <2>. QED
    BY <1>4, <1>5, <2>1, <2>2 DEF GateOK
<1>9. SamplesOK'
  <2>1. ASSUME n = 0
        PROVE  gate.ts = 0 /\ Replayed(candles)[0].samples = <<>>
    BY <1>2, <1>3, <2>1, ReplayedSteps DEF NoneReplayed
  <2>. QED
    BY <1>4, <2>1 DEF SamplesOK
<1>10. LoopOK'
  <2>1. LoopOK
    BY DEF SignalInv
  <2>2. loop.st = -1 \/ \E t \in 1..loop.ts : Directed(candles, t)
    BY <2>1 DEF LoopOK
  <2>3. \A p \in 1..loop.ts : ~Sure(p, n)
    BY <1>2, <1>3, <1>5
  <2>4. \A t \in (loop.ts + 1)..(gate.ts - 1) : t <= n
    BY <1>2, <1>3
  <2>. QED
    BY <1>4, <2>2, <2>3, <2>4 DEF LoopOK
<1>11. PeakOK'
  <2>1. SUFFICES ASSUME gate.ts # 0, Whole(gate.ts)' PROVE FALSE
    BY <1>4 DEF PeakOK
  <2>2. gate.ts \in 1..n /\ \A p \in 1..(gate.ts - 1) : p \in 1..n
    BY <1>2, <1>3, <2>1
  <2>. QED
    BY <1>4, <1>5, <2>1, <2>2 DEF Whole
<1>. QED
  BY <1>6, <1>7, <1>8, <1>9, <1>10, <1>11 DEF SignalInv

(***************************************************************************)
(* When the loop comes to a gate, it remembers the tension of the last     *)
(* window with a direction before, unless it or the service missed it.     *)
(***************************************************************************)
LEMMA LoopRemembersLatest ==
  ASSUME SignalInv, loop.ts # gate.ts, NEW p, Latest(candles, p, gate.ts),
         p > unseen, Sure(p, uncounted)
  PROVE  p \in 1..loop.ts /\ loop.st = TensionAt(candles, p)
<1>1. /\ Now \in Nat /\ gate.ts \in 0..Now /\ loop.ts \in 0..gate.ts
      /\ uncounted \in 0..Now /\ unseen \in 0..gate.ts /\ p \in 1..(gate.ts - 1)
  BY LenProperties DEF SignalInv, MemoryOK, ClocksOK, Now, Latest
<1>2. p \in Nat \ {0} /\ uncounted \in Nat
  BY <1>1
<1>3. uncounted < p
  BY <1>2, SureIsLater
<1>4. p \in 1..loop.ts
  <2>1. p \notin (loop.ts + 1)..(gate.ts - 1)
    <3>1. ~(p <= unseen) /\ ~(p <= uncounted)
      BY <1>1, <1>3
    <3>. QED
      BY <3>1, Zenon DEF SignalInv, LoopOK
  <2>. QED
    BY <1>1, <2>1
<1>5. Latest(candles, p, loop.ts + 1)
  <2>1. PICK q : q = loop.ts + 1
    OBVIOUS
  <2>2. p \in 1..(q - 1) /\ \A u \in (p + 1)..(q - 1) : u \in (p + 1)..(gate.ts - 1)
    BY <1>1, <1>4, <2>1
  <2>3. Latest(candles, p, q)
    BY <2>2, Zenon DEF Latest
  <2>. QED
    BY <2>1, <2>3, Zenon
<1>. QED
  BY <1>4, <1>5, Zenon DEF SignalInv, LoopOK

LEMMA JudgingKeeps ==
  ASSUME SignalInv, LoadGate
  PROVE  SignalInv'
<1>1. PICK T, active : T = gate.ts /\ active = Directed(candles, T)
  OBVIOUS
<1>2. /\ Now \in Nat /\ T \in 1..Now /\ loop.ts \in 0..(T - 1) /\ unseen \in 0..T
      /\ uncounted \in 0..Now
  <2>1. Now \in Nat /\ T \in 0..Now /\ loop.ts \in 0..T /\ unseen \in 0..T /\ uncounted \in 0..Now
    BY <1>1, LenProperties DEF SignalInv, MemoryOK, ClocksOK, Now
  <2>2. T # 0 /\ loop.ts # T
    BY <1>1 DEF LoadGate, SignalInv, GateOK
  <2>. QED
    BY <2>1, <2>2
<1>3. gate.direction = DirectionOf(candles[T].kind.regime)
      /\ gate.tension = Tension(gate.reps, candles[T].kind)
  <2>1. PICK reps, reasons : reps = gate.reps /\ reasons = gate.reasons
    OBVIOUS
  <2>2. gate = Payload("regime_manifold", T, candles[T].kind, reps, reasons)
    BY <1>1, <1>2, <2>1 DEF SignalInv, GateOK
  <2>. QED
    BY <2>1, <2>2 DEF Payload
<1>4. Sure(T, uncounted) => gate.tension = TensionAt(candles, T)
  BY <1>1, <1>2, <1>3 DEF SignalInv, GateOK, TensionAt
<1>5. /\ loop'.ts = T
      /\ loop'.st = IF Directed(candles, T) THEN gate.tension ELSE loop.st
      /\ loop'.peak <=> Directed(candles, T) /\ loop.st > 0 /\ gate.tension < loop.st
      /\ candles' = candles /\ live' = live /\ gate' = gate
      /\ uncounted' = uncounted /\ unseen' = unseen /\ Now' = Now
  <2>1. gate.direction # "FLAT" <=> Directed(candles, T)
    BY <1>3, Zenon DEF Directed
  <2>. QED
    BY <1>1, <2>1 DEF LoadGate, Now
<1>6. ASSUME NEW p, Latest(candles, p, T), p > unseen, Sure(p, uncounted)
      PROVE  /\ p \in 1..loop.ts /\ loop.st = TensionAt(candles, p)
             /\ Sure(T, uncounted)
  <2>1. loop.ts # gate.ts
    BY <1>1, <1>2
  <2>2. p \in 1..loop.ts /\ loop.st = TensionAt(candles, p)
    BY <1>1, <1>6, <2>1, LoopRemembersLatest
  <2>3. p \in Nat \ {0} /\ T \in Nat /\ p <= T /\ uncounted \in Nat
    BY <1>2, <2>2
  <2>. QED
    BY <1>6, <2>2, <2>3, SureStays
<1>7. ClocksOK' /\ MemoryOK' /\ GateOK' /\ SamplesOK'
  <2>1. T \in 0..T
    BY <1>2
  <2>. QED
    BY <1>1, <1>5, <2>1 DEF SignalInv, ClocksOK, MemoryOK, GateOK, SamplesOK
<1>8. LoopOK'
  <2>1. loop'.st = -1 \/ \E t \in 1..T : Directed(candles, t)
    <3>1. loop.st = -1 \/ \E t \in 1..loop.ts : Directed(candles, t)
      BY DEF SignalInv, LoopOK
    <3>2. T \in 1..T /\ \A t \in 1..loop.ts : t \in 1..T
      BY <1>2
    <3>. QED
      BY <1>5, <3>1, <3>2, Zenon
  <2>2. ASSUME NEW p \in 1..T, Latest(candles, p, T + 1), p > unseen, Sure(p, uncounted)
        PROVE  loop'.st = TensionAt(candles, p)
    <3>1. CASE p = T
      <4>1. Directed(candles, T) /\ Sure(T, uncounted)
        BY <2>2, <3>1 DEF Latest
      <4>. QED
        BY <1>4, <1>5, <3>1, <4>1
    <3>2. CASE p # T
      <4>0. PICK q : q = T + 1
        OBVIOUS
      <4>1. T \in (p + 1)..(q - 1) /\ p \in 1..(T - 1)
            /\ \A u \in (p + 1)..(T - 1) : u \in (p + 1)..(q - 1)
        BY <1>2, <3>2, <4>0
      <4>2. ~Directed(candles, T) /\ Latest(candles, p, T)
        <5>1. Latest(candles, p, q)
          BY <2>2, <4>0, Zenon
        <5>. QED
          BY <4>1, <5>1, Zenon DEF Latest
      <4>3. loop.st = TensionAt(candles, p)
        BY <1>6, <2>2, <4>2
      <4>. QED
        BY <1>5, <4>2, <4>3, Zenon
    <3>. QED
      BY <3>1, <3>2
  <2>3. (T + 1)..(T - 1) = {}
    BY <1>2
  <2>. QED
    BY <1>1, <1>5, <2>1, <2>2, <2>3 DEF LoopOK
<1>9. PeakOK'
  <2>1. SUFFICES ASSUME T > unseen, Whole(T) PROVE loop'.peak <=> PeakAt(candles, T)
    <3>1. Whole(T)' <=> Whole(T)
      BY <1>5 DEF Whole
    <3>. QED
      BY <1>1, <1>5, <3>1 DEF PeakOK
  <2>2. CASE \E p \in 1..(T - 1) : Latest(candles, p, T) /\ p > unseen /\ Sure(p, uncounted)
    <3>1. PICK p \in 1..(T - 1) : Latest(candles, p, T) /\ p > unseen /\ Sure(p, uncounted)
      BY <2>2
    <3>2. loop.st = TensionAt(candles, p) /\ gate.tension = TensionAt(candles, T)
      BY <1>4, <1>6, <3>1
    <3>3. \A q \in 1..(T - 1) : Latest(candles, q, T) => q = p
      BY <1>2, <3>1, LatestIsOne
    <3>4. PeakAt(candles, T) <=> /\ Directed(candles, T) /\ TensionAt(candles, p) > 0
                                 /\ TensionAt(candles, T) < TensionAt(candles, p)
      BY <3>1, <3>3, Zenon DEF PeakAt
    <3>. QED
      BY <1>5, <3>2, <3>4, Zenon
  <2>3. CASE \A p \in 1..(T - 1) : ~Directed(candles, p)
    <3>1. ~PeakAt(candles, T)
      BY <2>3, Zenon DEF PeakAt, Latest
    <3>2. \A t \in 1..loop.ts : t \in 1..(T - 1)
      BY <1>2
    <3>3. loop.st = -1
      BY <2>3, <3>2, Zenon DEF SignalInv, LoopOK
    <3>4. ~(loop.st > 0)
      BY <3>3
    <3>. QED
      BY <1>5, <3>1, <3>4, Zenon
  <2>. QED
    BY <2>1, <2>2, <2>3, Zenon DEF Whole
<1>. QED
  BY <1>7, <1>8, <1>9 DEF SignalInv

LEMMA LoopRestartKeeps ==
  ASSUME SignalInv, LoopRestarts
  PROVE  SignalInv'
<1>1. /\ Now \in Nat /\ gate.ts \in 0..Now
  BY LenProperties DEF SignalInv, MemoryOK, ClocksOK, Now
<1>2. /\ loop'.ts = 0 /\ loop'.st = -1 /\ unseen' = gate.ts /\ Now' = Now
      /\ candles' = candles /\ live' = live /\ gate' = gate /\ uncounted' = uncounted
  BY DEF LoopRestarts, Missed, NewLoop, Now
<1>3. ClocksOK' /\ MemoryOK' /\ GateOK' /\ SamplesOK'
  <2>1. 0 \in 0..gate.ts /\ gate.ts \in 0..gate.ts
    BY <1>1
  <2>. QED
    BY <1>2, <2>1 DEF SignalInv, ClocksOK, MemoryOK, GateOK, SamplesOK
<1>4. LoopOK'
  <2>1. 1..0 = {} /\ \A t \in (0 + 1)..(gate.ts - 1) : t <= gate.ts
    BY <1>1
  <2>. QED
    BY <1>2, <2>1 DEF LoopOK
<1>5. PeakOK'
  BY <1>2 DEF PeakOK
<1>. QED
  BY <1>3, <1>4, <1>5 DEF SignalInv

(***************************************************************************)
(* Every step keeps the invariant.                                         *)
(***************************************************************************)
LEMMA SignalInvHolds ==
  ASSUME LevelVolumes
  PROVE  Spec => []SignalInv
<1>1. Init => SignalInv
  BY SignalInvStarts
<1>2. SignalInv /\ [Next]_vars => SignalInv'
  <2>. SUFFICES ASSUME SignalInv, [Next]_vars PROVE SignalInv'
    OBVIOUS
  <2>1. CASE \E k \in Kinds, v \in Volumes : CandleCloses(k, v)
    BY <2>1, CandleKeeps
  <2>2. CASE ProcessInstrument
    BY <2>2, PassKeeps
  <2>3. CASE ServiceRestarts
    BY <2>3, RestartKeeps
  <2>4. CASE LoadGate
    BY <2>4, JudgingKeeps
  <2>5. CASE LoopRestarts
    BY <2>5, LoopRestartKeeps
  <2>6. CASE UNCHANGED vars
    BY <2>6 DEF vars, SignalInv, ClocksOK, MemoryOK, GateOK, SamplesOK, LoopOK, PeakOK, Whole, Now
  <2>. QED
    BY <2>1, <2>2, <2>3, <2>4, <2>5, <2>6 DEF Next
<1>. QED
  BY <1>1, <1>2, PTL DEF Spec

------------------------------------------------------------------------------
(* What the copies of the signal promise each other *)

CandlesOK == candles \in Seq(Candles)

LEMMA CandlesHold == Spec => []CandlesOK
<1>1. Init => CandlesOK
  BY DEF Init, CandlesOK
<1>2. CandlesOK /\ [Next]_vars => CandlesOK'
  <2>. SUFFICES ASSUME CandlesOK, [Next]_vars PROVE CandlesOK'
    OBVIOUS
  <2>1. ASSUME NEW k \in Kinds, NEW v \in Volumes, CandleCloses(k, v) PROVE CandlesOK'
    <3>1. [kind |-> k, volume |-> v] \in Candles
      BY DEF Candles
    <3>. QED
      BY <2>1, <3>1, AppendProperties DEF CandleCloses, CandlesOK
  <2>2. CASE UNCHANGED candles
    BY <2>2 DEF CandlesOK
  <2>. QED
    BY <2>1, <2>2
    DEF Next, ProcessInstrument, ServiceRestarts, LoadGate, LoopRestarts, vars
<1>. QED
  BY <1>1, <1>2, PTL DEF Spec

(***************************************************************************)
(* Of the signals of derive_signals the filter of a backtest leaves those  *)
(* at which the sweep on the GPU sees a peak.                              *)
(***************************************************************************)
THEOREM FilterAlwaysMatchesGpu == Spec => []FilterMatchesGpu
<1>1. CandlesOK => FilterMatchesGpu
  BY LenProperties, FilterAgrees DEF CandlesOK, Now
<1>. QED
  BY <1>1, CandlesHold, PTL

(***************************************************************************)
(* A squeeze_breakout of derive_signals always has its silence before it,  *)
(* later than the breakout before, with no noise between.                  *)
(***************************************************************************)
THEOREM SqueezeAlwaysNeedsSilence == Spec => []SqueezeNeedsSilence
<1>1. CandlesOK => SqueezeNeedsSilence
  BY LenProperties, BreakoutsFollowSilence DEF CandlesOK, Now
<1>. QED
  BY <1>1, CandlesHold, PTL

LEMMA GateIsDense ==
  ASSUME LevelVolumes, SignalInv, gate # NoGate, Sure(gate.ts, uncounted)
  PROVE  gate.ts \in 1..Now /\ gate.reps = Repeated(candles, gate.ts)
         /\ gate.reps = DenseGates[gate.ts].reps
<1>1. candles \in Seq(Candles) /\ Now \in Nat /\ gate.ts \in 0..Now /\ gate.ts # 0
  BY LenProperties DEF SignalInv, MemoryOK, ClocksOK, GateOK, Now
<1>2. gate.ts \in 1..Now
  BY <1>1
<1>3. gate.reps = Repeated(candles, gate.ts)
  BY <1>1 DEF SignalInv, GateOK
<1>. QED
  BY <1>1, <1>2, <1>3, DenseGatesAre

(***************************************************************************)
(* With candles of one volume, the repetitions the service counts are      *)
(* those of the replay again once what it missed is older than the         *)
(* retention.                                                              *)
(***************************************************************************)
THEOREM RepetitionsAlwaysHeal ==
  ASSUME LevelVolumes
  PROVE  Spec => []RepetitionsHeal
<1>1. SignalInv => RepetitionsHeal
  <2>. SUFFICES ASSUME SignalInv, gate # NoGate, gate.ts - uncounted > Retention
                PROVE  gate.reps = DenseGates[gate.ts].reps
    BY DEF RepetitionsHeal
  <2>1. Sure(gate.ts, uncounted)
    BY DEF Sure
  <2>. QED
    BY <2>1, GateIsDense
<1>. QED
  BY <1>1, SignalInvHolds, PTL

(***************************************************************************)
(* The peak the loop remembers is the one the sweep sees.                  *)
(***************************************************************************)
LEMMA PeaksAgree ==
  ASSUME LevelVolumes, SignalInv
  PROVE  PeaksHeal
<1>1. SignalInv
  OBVIOUS
<1>. DEFINE earlier == {t \in Active(DenseGates) : t < gate.ts /\ t > unseen}
            since == IF earlier = {} THEN gate.ts ELSE Max(earlier)
<1>2. SUFFICES ASSUME Judged, unseen = 0 \/ earlier # {}, gate.ts > unseen,
                      uncounted = 0 \/ since - uncounted > Retention
               PROVE  loop.peak <=> gate.ts \in GpuPeaks(DenseGates)
  BY Zenon DEF PeaksHeal
<1>3. /\ candles \in Seq(Candles) /\ Now \in Nat /\ gate.ts \in 1..Now
      /\ loop.ts = gate.ts /\ unseen \in 0..gate.ts /\ gate.ts # 0
  <2>1. candles \in Seq(Candles) /\ Now \in Nat /\ gate.ts \in 0..Now /\ gate.ts # 0
        /\ loop.ts = gate.ts /\ unseen \in 0..gate.ts
    BY <1>1, <1>2, LenProperties DEF SignalInv, MemoryOK, ClocksOK, GateOK, Judged, Now
  <2>. QED
    BY <2>1
<1>4. Active(DenseGates) = {t \in 1..Now : Directed(candles, t)}
  BY <1>3, DenseGatesAre
<1>5. \A t : t \in earlier <=> t \in 1..(gate.ts - 1) /\ Directed(candles, t) /\ t > unseen
  <2>1. \A t : t \in 1..(gate.ts - 1) <=> t \in 1..Now /\ t < gate.ts
    BY <1>3
  <2>. QED
    BY <1>4, <2>1, Zenon
<1>6. Sure(since, uncounted)
  BY <1>2, Zenon DEF Sure
<1>7. Whole(gate.ts)
  <2>. HIDE DEF earlier
  <2>1. CASE earlier = {}
    <3>1. unseen = 0 /\ Sure(gate.ts, uncounted)
      BY <1>2, <1>6, <2>1
    <3>2. \A t \in 1..(gate.ts - 1) : t > unseen
      BY <1>3, <3>1
    <3>. QED
      BY <1>5, <2>1, <3>1, <3>2, Zenon DEF Whole
  <2>2. CASE earlier # {}
    <3>1. earlier \subseteq 0..Now
      BY <1>3, <1>5
    <3>2. since \in earlier /\ \A t \in earlier : t <= since
      BY <1>3, <2>2, <3>1, MaxIsGreatest
    <3>. HIDE DEF since
    <3>3. since \in 1..(gate.ts - 1) /\ Directed(candles, since) /\ since > unseen
      BY <1>5, <3>2
    <3>4. ASSUME NEW u \in (since + 1)..(gate.ts - 1) PROVE ~Directed(candles, u)
      <4>1. u \in 1..(gate.ts - 1) /\ u > unseen /\ ~(u <= since)
        BY <1>3, <3>3
      <4>. QED
        BY <1>5, <3>2, <4>1, Zenon
    <3>5. Latest(candles, since, gate.ts)
      BY <3>3, <3>4, Zenon DEF Latest
    <3>. QED
      BY <1>6, <3>3, <3>5, Zenon DEF Whole
  <2>. QED
    BY <2>1, <2>2
<1>8. loop.peak <=> PeakAt(candles, gate.ts)
  BY <1>1, <1>2, <1>3, <1>7 DEF SignalInv, PeakOK
<1>9. gate.ts \in GpuPeaks(DenseGates) <=> PeakAt(candles, gate.ts)
  BY <1>3, DensePeaks
<1>. QED
  BY <1>8, <1>9

(***************************************************************************)
(* With candles of one volume, the loop and the sweep on the GPU judge the *)
(* same gates to be peaks as soon as neither the loop nor the service has  *)
(* missed anything since the last gate with a direction.                   *)
(***************************************************************************)
THEOREM PeaksAlwaysHeal ==
  ASSUME LevelVolumes
  PROVE  Spec => []PeaksHeal
<1>1. SignalInv => PeaksHeal
  BY PeaksAgree
<1>. QED
  BY <1>1, SignalInvHolds, PTL

(***************************************************************************)
(* With candles of one volume and a profile that admits some regime, a     *)
(* service that has missed nothing writes the very gate of the replay.     *)
(***************************************************************************)
LEMMA GateIsReplayed ==
  ASSUME LevelVolumes, AdmitRegimes # {}, SignalInv, gate # NoGate, uncounted = 0
  PROVE  gate = DenseGates[gate.ts]
<1>2. Sure(gate.ts, uncounted)
  BY DEF Sure
<1>3. gate.ts \in 1..Now /\ gate.reps = Repeated(candles, gate.ts)
  BY <1>2, GateIsDense
<1>4. gate.ts # 0 /\ candles \in Seq(Candles)
  BY DEF SignalInv, GateOK, MemoryOK
<1>5. PICK k, threshold :
        /\ k = candles[gate.ts].kind
        /\ threshold = Capped(Threshold(Replayed(candles)[gate.ts].samples))
  OBVIOUS
<1>6. gate = Payload("regime_manifold", gate.ts, k, gate.reps, gate.reasons)
      /\ gate.reasons = Reasons(k, threshold)
  BY <1>4, <1>5 DEF SignalInv, GateOK, SamplesOK
<1>7. DenseGates[gate.ts] =
        Payload("regime_manifold", gate.ts, k, Repeated(candles, gate.ts), DenseReasons(k, threshold))
  BY <1>3, <1>4, <1>5, DenseGatesAre DEF DenseGate
<1>8. k \in Kinds
  <2>1. gate.ts \in 1..Len(candles)
    BY <1>3 DEF Now
  <2>2. candles[gate.ts] \in Candles
    BY <1>4, <2>1, ElementOfSeq
  <2>. QED
    BY <1>5, <2>2 DEF Candles
<1>9. Reasons(k, threshold) = DenseReasons(k, threshold)
  <2>1. k.confidence < MinConfidence => MinConfidence > 0
    BY <1>8, SignalAssumption
  <2>2. \A r \in Reasons(k, threshold) :
          r = "regime_confidence_low" => k.confidence < MinConfidence
    BY DEF Reasons
  <2>. QED
    BY <2>1, <2>2 DEF DenseReasons
<1>. QED
  BY <1>3, <1>6, <1>7, <1>9

IsPayload(g) ==
  \E source, t, k, reps, reasons : g = Payload(source, t, k, reps, reasons)

(***************************************************************************)
(* A profile that looks at nothing but what the service wrote judges a     *)
(* gate as if the loop had put nothing into it.                            *)
(***************************************************************************)
LEMMA HandingOnIsIdle ==
  ASSUME NEW g, IsPayload(g), NEW peak, NEW profile, NEW mlPrimary \in BOOLEAN,
         NEW label \in Labels(g, profile, mlPrimary), AsksForGateOnly(profile, mlPrimary)
  PROVE  EntersLive(Handed(g, peak, label), profile, mlPrimary)
           <=> GateAndBundles(g, profile, mlPrimary, FALSE)
<1>1. PICK h : h = Handed(g, peak, label)
  OBVIOUS
<1>2. label = g.regime
  BY DEF Labels, AsksForGateOnly
<1>3. /\ h.reasons = g.reasons /\ h.reps = g.reps /\ h.metrics = g.metrics
      /\ h.regime = g.regime /\ h.confidence = g.confidence
      /\ h.direction = g.direction /\ h.hazard = g.hazard
  BY <1>1, <1>2 DEF Handed, IsPayload, Payload
<1>4. AlongRegime(h, profile, mlPrimary)
  BY DEF AlongRegime, AsksForGateOnly
<1>5. PICK asked : asked = IF mlPrimary THEN Relaxed(profile) ELSE profile
  OBVIOUS
<1>6. ~asked.st_peak
  BY <1>5 DEF AsksForGateOnly, Relaxed
<1>7. Complaints(h, asked) <=> Complaints(g, asked)
  BY <1>3, <1>6, Zenon DEF Complaints
<1>8. GateEvaluation(h, asked) <=> GateEvaluation(g, asked)
  BY <1>3, <1>7, Zenon DEF GateEvaluation
<1>9. EntersLive(h, profile, mlPrimary) <=> GateEvaluation(h, asked)
  BY <1>4, <1>5, Zenon DEF EntersLive
<1>10. GateAndBundles(g, profile, mlPrimary, FALSE) <=> GateEvaluation(g, asked)
  BY <1>5, Zenon DEF GateAndBundles
<1>. QED
  BY <1>1, <1>8, <1>9, <1>10, Zenon

(***************************************************************************)
(* What else the loop writes into a gate, a backtest would have to write.  *)
(***************************************************************************)
LEMMA HandingOnDecides ==
  ASSUME NEW g, IsPayload(g), NEW peak, NEW seen, peak <=> seen, NEW label,
         NEW profile, NEW mlPrimary \in BOOLEAN
  PROVE  EntersLive(Handed(g, peak, label), profile, mlPrimary)
           <=> /\ GateAndBundles(Handed(g, seen, label), profile, mlPrimary, FALSE)
               /\ AlongRegime(Handed(g, seen, label), profile, mlPrimary)
<1>1. PICK h, d : h = Handed(g, peak, label)
                  /\ d = Handed(g, seen, label)
  OBVIOUS
<1>2. /\ h.reasons = d.reasons /\ h.reps = d.reps /\ h.metrics = d.metrics
      /\ h.regime = d.regime /\ h.confidence = d.confidence
      /\ h.direction = d.direction /\ h.hazard = d.hazard
  BY <1>1 DEF Handed, IsPayload, Payload
<1>3. h.st_peak <=> d.st_peak
  BY <1>1 DEF Handed, IsPayload, Payload
<1>4. PICK asked : asked = IF mlPrimary THEN Relaxed(profile) ELSE profile
  OBVIOUS
<1>5. GateEvaluation(h, asked) <=> GateEvaluation(d, asked)
  BY <1>2, <1>3, Zenon DEF GateEvaluation, Complaints
<1>6. AlongRegime(h, profile, mlPrimary) <=> AlongRegime(d, profile, mlPrimary)
  BY <1>2, Zenon DEF AlongRegime
<1>7. EntersLive(h, profile, mlPrimary)
        <=> GateAndBundles(d, profile, mlPrimary, FALSE) /\ AlongRegime(d, profile, mlPrimary)
  BY <1>4, <1>5, <1>6, Zenon DEF EntersLive, GateAndBundles
<1>. QED
  BY <1>1, <1>7, Zenon

(***************************************************************************)
(* With candles of one volume and a service that admits some regime and    *)
(* has missed nothing, a gate enters the market live exactly if it does in *)
(* a backtest, under a profile that asks for neither a peak nor a regime;  *)
(* under every other profile, if the loop has missed nothing either, it    *)
(* enters exactly if the label is that of its side and the backtest lets   *)
(* in the dense gate with that label and the peak of the sweep.            *)
(***************************************************************************)
THEOREM GateAlwaysMirrored ==
  ASSUME LevelVolumes, AdmitRegimes # {}
  PROVE  Spec => []GateMirrored
<1>1. ASSUME SignalInv PROVE GateMirrored
  <2>. DEFINE dense == DenseGates[gate.ts]
              peak == gate.ts \in GpuPeaks(DenseGates)
              asInLoop(label) == [dense EXCEPT !.st_peak = peak, !.regime = label]
  <2>1. SUFFICES ASSUME Judged, uncounted = 0,
                        NEW profile \in Profiles, NEW mlPrimary \in BOOLEAN,
                        NEW label \in Labels(gate, profile, mlPrimary)
                 PROVE  /\ gate.reps = dense.reps
                        /\ AsksForGateOnly(profile, mlPrimary) =>
                             (EntersLive(Handed(gate, loop.peak, label), profile, mlPrimary)
                                <=> GateAndBundles(dense, profile, mlPrimary, FALSE))
                        /\ unseen = 0 =>
                             (EntersLive(Handed(gate, loop.peak, label), profile, mlPrimary)
                                <=> /\ GateAndBundles(asInLoop(label), profile, mlPrimary, FALSE)
                                    /\ AlongRegime(asInLoop(label), profile, mlPrimary))
    <3>1. Judged /\ uncounted = 0 => gate.reps = dense.reps
      BY <1>1, GateIsReplayed DEF Judged
    <3>. QED
      BY <3>1, Zenon DEF GateMirrored
  <2>2. gate = dense
    BY <1>1, <2>1, GateIsReplayed DEF Judged
  <2>3. gate = Payload("regime_manifold", gate.ts, candles[gate.ts].kind, gate.reps, gate.reasons)
    <3>1. gate.ts # 0
      BY <1>1, <2>1, GateIsDense DEF Judged, Sure
    <3>. QED
      BY <1>1, <3>1 DEF SignalInv, GateOK
  <2>4. ASSUME AsksForGateOnly(profile, mlPrimary)
        PROVE  EntersLive(Handed(gate, loop.peak, label), profile, mlPrimary)
                 <=> GateAndBundles(dense, profile, mlPrimary, FALSE)
    <3>1. IsPayload(gate)
      BY <2>3, Zenon DEF IsPayload
    <3>2. EntersLive(Handed(gate, loop.peak, label), profile, mlPrimary)
            <=> GateAndBundles(gate, profile, mlPrimary, FALSE)
      BY <2>1, <2>4, <3>1, HandingOnIsIdle, Zenon
    <3>. QED
      BY <2>2, <3>2
  <2>5. ASSUME unseen = 0
        PROVE  EntersLive(Handed(gate, loop.peak, label), profile, mlPrimary)
                 <=> /\ GateAndBundles(asInLoop(label), profile, mlPrimary, FALSE)
                     /\ AlongRegime(asInLoop(label), profile, mlPrimary)
    <3>1. PeaksHeal /\ gate.ts > unseen
      <4>1. gate.ts \in 1..Now /\ Now \in Nat
        BY <1>1, <2>1, GateIsDense, LenProperties DEF Judged, Sure, SignalInv, MemoryOK, Now
      <4>. QED
        BY <1>1, <2>5, <4>1, PeaksAgree
    <3>2. loop.peak <=> peak
      BY <2>1, <2>5, <3>1, Zenon DEF PeaksHeal
    <3>3. IsPayload(gate)
      BY <2>3, Zenon DEF IsPayload
    <3>4. ASSUME NEW seen, loop.peak <=> seen
          PROVE  EntersLive(Handed(gate, loop.peak, label), profile, mlPrimary)
                   <=> /\ GateAndBundles(Handed(gate, seen, label), profile, mlPrimary, FALSE)
                       /\ AlongRegime(Handed(gate, seen, label), profile, mlPrimary)
      BY <2>1, <3>3, <3>4, HandingOnDecides, Zenon
    <3>. HIDE DEF peak
    <3>5. EntersLive(Handed(gate, loop.peak, label), profile, mlPrimary)
            <=> /\ GateAndBundles(Handed(gate, peak, label), profile, mlPrimary, FALSE)
                /\ AlongRegime(Handed(gate, peak, label), profile, mlPrimary)
      BY <3>2, <3>4, Zenon
    <3>6. Handed(gate, peak, label) = asInLoop(label)
      BY <2>2 DEF Handed
    <3>. QED
      BY <3>5, <3>6
  <2>. QED
    BY <2>2, <2>4, <2>5
<1>. QED
  BY <1>1, SignalInvHolds, PTL


------------------------------------------------------------------------------
(* Types *)

Hazards == {k.hazard : k \in Kinds}

(***************************************************************************)
(* The samples of the calibrator are hazards, and none of the times it has *)
(* counted lies ahead.                                                     *)
(***************************************************************************)
LiveTypeOK ==
  /\ live.emitted \in 0..Now
  /\ live.samples \in Seq(Hazards) /\ Len(live.samples) <= MaxSamples
  /\ live.history \in [Signatures -> Seq(1..Now)]

MarksTypeOK ==
  /\ gate.ts \in 0..Now /\ loop.ts \in 0..gate.ts
  /\ uncounted \in 0..Now /\ unseen \in 0..Now /\ lapses \in 0..MaxLapses

Typed == CandlesOK /\ Now <= MaxCandles /\ LiveTypeOK /\ MarksTypeOK

LEMMA UpdatedKeepsFew ==
  ASSUME NEW S, NEW sorted \in Seq(S), Len(sorted) <= MaxSamples, NEW value \in S
  PROVE  Updated(sorted, value) \in Seq(S) /\ Len(Updated(sorted, value)) <= MaxSamples
<1>. DEFINE below == {i \in DOMAIN sorted : sorted[i] <= value}
<1>1. PICK n \in Nat : n = Len(sorted) /\ DOMAIN sorted = 1..n
  BY LenProperties
<1>2. IsFiniteSet(1..n) /\ Cardinality(1..n) = n
  <2>1. IsFiniteSet(1..n) /\ Cardinality(1..n) = IF 1 > n THEN 0 ELSE n - 1 + 1
    BY FS_Interval
  <2>. QED
    BY <2>1
<1>3. below \subseteq 1..n
  BY <1>1
<1>. HIDE DEF below
<1>4. PICK k \in 0..n : k = Cardinality(below)
  <2>1. Cardinality(below) \in Nat /\ Cardinality(below) <= Cardinality(1..n)
    BY <1>2, <1>3, FS_Subset, FS_CardinalityType, Zenon
  <2>. QED
    BY <1>2, <2>1
<1>. DEFINE front == SubSeq(sorted, 1, k)
            back  == SubSeq(sorted, k + 1, n)
<1>5. Filed(sorted, value) = front \o <<value>> \o back
  BY <1>1, <1>4, Zenon DEF Filed, below
<1>6. \A i \in 1..n : sorted[i] \in S
  BY <1>1, ElementOfSeq
<1>7. front \in Seq(S) /\ Len(front) = k
  BY <1>4, <1>6, SubSeqProperties
<1>8. back \in Seq(S) /\ Len(back) = n - k
  BY <1>4, <1>6, SubSeqProperties
<1>. HIDE DEF front, back
<1>9. Filed(sorted, value) \in Seq(S) /\ Len(Filed(sorted, value)) = n + 1
  <2>1. PICK head : head = front \o <<value>>
    OBVIOUS
  <2>2. head \in Seq(S) /\ Len(head) = k + 1
    BY <1>4, <1>7, <2>1
  <2>3. head \o back \in Seq(S) /\ Len(head \o back) = Len(head) + Len(back)
    BY <1>8, <2>2, ConcatProperties
  <2>4. Len(head \o back) = n + 1
    BY <1>4, <1>8, <2>2, <2>3
  <2>. QED
    BY <1>5, <2>1, <2>3, <2>4, Zenon
<1>10. Tail(Filed(sorted, value)) \in Seq(S) /\ Len(Tail(Filed(sorted, value))) = n
  <2>1. Filed(sorted, value) # <<>>
    BY <1>9
  <2>. QED
    BY <1>9, <2>1, HeadTailProperties
<1>. QED
  BY <1>1, <1>9, <1>10, WindowAssumption DEF Updated

LEMMA SeqOfElements ==
  ASSUME NEW S, NEW T, NEW seq \in Seq(S), \A i \in 1..Len(seq) : seq[i] \in T
  PROVE  seq \in Seq(T)
<1>1. PICK n \in Nat : n = Len(seq) /\ seq \in [1..n -> S]
  BY LenProperties
<1>2. seq \in [1..n -> T]
  BY <1>1
<1>. QED
  BY <1>2, SeqDef

LEMMA CountedIsPast ==
  ASSUME NEW t \in Nat \ {0}, NEW seen \in Seq(1..t)
  PROVE  Counted(seen, t) \in Seq(1..t)
<1>1. PICK all, part : all = Append(seen, t) /\ part = Counted(seen, t)
  OBVIOUS
<1>2. seen \in Seq(Nat) /\ t \in Nat /\ t \in 1..t
  <2>1. 1..t \subseteq Nat
    OBVIOUS
  <2>2. seen \in Seq(Nat)
    BY <2>1, SeqMonotonic, Zenon
  <2>. QED
    BY <2>2
<1>3. PICK k \in 1..Len(all) :
        /\ part \in Seq(Nat) /\ Len(part) = Len(all) - k + 1
        /\ \A i \in 1..(Len(all) - k + 1) : part[i] = all[i + k - 1]
  <2>1. \E k \in 1..Len(Append(seen, t)) :
          /\ Counted(seen, t) \in Seq(Nat)
          /\ Len(Counted(seen, t)) = Len(Append(seen, t)) - k + 1
          /\ \A i \in 1..(Len(Append(seen, t)) - k + 1) :
               Counted(seen, t)[i] = Append(seen, t)[i + k - 1]
    BY <1>2, CountedIsEnd, Zenon
  <2>. QED
    BY <1>1, <2>1, Zenon
<1>4. all \in Seq(1..t) /\ Len(all) \in Nat
  BY <1>1, <1>2, AppendProperties, LenProperties
<1>5. \A i \in 1..Len(part) : part[i] \in 1..t
  <2>1. ASSUME NEW i \in 1..Len(part) PROVE part[i] \in 1..t
    <3>1. i \in 1..(Len(all) - k + 1) /\ i + k - 1 \in 1..Len(all)
      BY <1>3, <1>4, <2>1
    <3>2. all[i + k - 1] \in 1..t
      BY <1>4, <3>1, ElementOfSeq
    <3>. QED
      BY <1>3, <3>1, <3>2
  <2>. QED
    BY <2>1
<1>6. part \in Seq(1..t)
  BY <1>3, <1>5, SeqOfElements, Zenon
<1>. QED
  BY <1>1, <1>6

LEMMA CandleKeepsTypes ==
  ASSUME Typed, NEW k \in Kinds, NEW v \in Volumes, CandleCloses(k, v)
  PROVE  Typed'
<1>1. PICK n \in Nat : n = Now
  BY LenProperties DEF Typed, CandlesOK, Now
<1>2. CandlesOK' /\ Now' = n + 1 /\ n + 1 <= MaxCandles
  <2>1. [kind |-> k, volume |-> v] \in Candles
    BY DEF Candles
  <2>2. candles' \in Seq(Candles) /\ Len(candles') = Len(candles) + 1
    BY <2>1, AppendProperties DEF CandleCloses, Typed, CandlesOK
  <2>3. n < MaxCandles
    BY <1>1 DEF CandleCloses
  <2>. QED
    BY <1>1, <2>2, <2>3, SignalAssumption DEF CandlesOK, Now
<1>3. live' = live /\ gate' = gate /\ loop' = loop /\ unseen' = unseen
  BY DEF CandleCloses
<1>4. LiveTypeOK'
  <2>1. Seq(1..n) \subseteq Seq(1..(n + 1))
    <3>1. 1..n \subseteq 1..(n + 1)
      OBVIOUS
    <3>. QED
      BY <3>1, SeqMonotonic, Zenon
  <2>2. live.history \in [Signatures -> Seq(1..(n + 1))]
    BY <1>1, <2>1 DEF Typed, LiveTypeOK
  <2>. QED
    BY <1>1, <1>2, <1>3, <2>2 DEF Typed, LiveTypeOK
<1>5. MarksTypeOK'
  <2>1. \/ uncounted' = uncounted /\ lapses' = lapses
        \/ uncounted' = n /\ lapses < MaxLapses /\ lapses' = lapses + 1
    BY <1>1 DEF CandleCloses, Missed
  <2>2. gate.ts \in 0..n /\ loop.ts \in 0..gate.ts /\ uncounted \in 0..n /\ unseen \in 0..n
        /\ lapses \in 0..MaxLapses
    BY <1>1 DEF Typed, MarksTypeOK
  <2>3. lapses' \in 0..MaxLapses /\ uncounted' \in 0..(n + 1)
    BY <1>1, <2>1, <2>2, SignalAssumption
  <2>. QED
    BY <1>1, <1>2, <1>3, <2>2, <2>3 DEF MarksTypeOK
<1>. QED
  BY <1>2, <1>4, <1>5 DEF Typed

LEMMA PassKeepsTypes ==
  ASSUME Typed, ProcessInstrument
  PROVE  Typed'
<1>1. PICK n : n = Now
  OBVIOUS
<1>2. candles \in Seq(Candles) /\ n = Len(candles) /\ n \in Nat \ {0} /\ n \in 1..Len(candles)
  <2>1. candles \in Seq(Candles) /\ n = Len(candles) /\ n > 0
    BY <1>1 DEF Typed, CandlesOK, ProcessInstrument, Now
  <2>. QED
    BY <2>1, LenProperties
<1>3. PICK c, s, past, seen, threshold :
        /\ c = candles[n]
        /\ \E split : s = Signature(c, split)
        /\ past = Updated(live.samples, c.kind.hazard)
        /\ seen = Counted(live.history[s], n)
        /\ gate' = Payload("regime_manifold", n, c.kind, Len(seen), Reasons(c.kind, threshold))
        /\ live' = [emitted |-> n, samples |-> past,
                    history |-> [live.history EXCEPT ![s] = seen]]
  BY <1>1, Zenon DEF ProcessInstrument
<1>4. c \in Candles /\ c.kind \in Kinds /\ c.kind.hazard \in Hazards /\ s \in Signatures
  <2>1. c \in Candles
    BY <1>2, <1>3, ElementOfSeq
  <2>2. c.kind \in Kinds
    BY <2>1 DEF Candles
  <2>. QED
    <3>1. PICK split : s = Signature(c, split)
      BY <1>3
    <3>2. c.kind.shape \in {k.shape : k \in Kinds} /\ c.kind.hazard \in Hazards
      BY <2>2 DEF Hazards
    <3>3. (2 * c.volume >= split) \in BOOLEAN
      OBVIOUS
    <3>. QED
      BY <2>1, <2>2, <3>1, <3>2, <3>3, Zenon DEF Signature, Signatures
<1>5. /\ candles' = candles /\ Now' = n /\ loop' = loop /\ uncounted' = uncounted
      /\ \/ unseen' = unseen /\ lapses' = lapses
         \/ unseen' = gate.ts /\ lapses < MaxLapses /\ lapses' = lapses + 1
  BY <1>1 DEF ProcessInstrument, Missed, Now
<1>6. LiveTypeOK'
  <2>1. past \in Seq(Hazards) /\ Len(past) <= MaxSamples
    BY <1>3, <1>4, UpdatedKeepsFew DEF Typed, LiveTypeOK
  <2>2. live.history \in [Signatures -> Seq(1..n)]
    BY <1>1 DEF Typed, LiveTypeOK
  <2>3. seen \in Seq(1..n)
    BY <1>2, <1>3, <1>4, <2>2, CountedIsPast
  <2>4. [live.history EXCEPT ![s] = seen] \in [Signatures -> Seq(1..n)]
    BY <2>2, <2>3
  <2>. QED
    BY <1>2, <1>3, <1>5, <2>1, <2>4 DEF LiveTypeOK
<1>7. MarksTypeOK'
  <2>1. gate'.ts = n
    BY <1>3 DEF Payload
  <2>2. gate.ts \in 0..n /\ loop.ts \in 0..gate.ts /\ uncounted \in 0..n /\ unseen \in 0..n
        /\ lapses \in 0..MaxLapses
    BY <1>1 DEF Typed, MarksTypeOK
  <2>3. lapses' \in 0..MaxLapses /\ unseen' \in 0..n /\ loop.ts \in 0..n /\ n \in 0..n
    BY <1>2, <1>5, <2>2, SignalAssumption
  <2>. QED
    BY <1>5, <2>1, <2>2, <2>3 DEF MarksTypeOK
<1>. QED
  BY <1>1, <1>5, <1>6, <1>7 DEF Typed, CandlesOK

LEMMA RestartKeepsTypes ==
  ASSUME Typed, ServiceRestarts \/ LoopRestarts
  PROVE  Typed'
<1>1. PICK n \in Nat : n = Now
  BY LenProperties DEF Typed, CandlesOK, Now
<1>2. candles' = candles /\ Now' = n /\ gate' = gate /\ lapses < MaxLapses /\ lapses' = lapses + 1
  BY <1>1 DEF ServiceRestarts, LoopRestarts, Missed, Now
<1>3. /\ live' = live \/ live' = NewLive
      /\ loop' = loop \/ loop' = NewLoop
      /\ \/ uncounted' = n /\ unseen' = unseen
         \/ uncounted' = uncounted /\ unseen' = gate.ts
  BY <1>1 DEF ServiceRestarts, LoopRestarts, Missed
<1>4. LiveTypeOK'
  <2>1. CASE live' = live
    BY <1>1, <1>2, <2>1 DEF Typed, LiveTypeOK
  <2>2. CASE live' = NewLive
    <3>1. <<>> \in Seq(Hazards) /\ Len(<<>>) <= MaxSamples /\ <<>> \in Seq(1..n) /\ 0 \in 0..n
      BY <1>1, WindowAssumption
    <3>2. NoHistory \in [Signatures -> Seq(1..n)]
      BY <3>1 DEF NoHistory
    <3>. QED
      BY <1>2, <2>2, <3>1, <3>2 DEF NewLive, LiveTypeOK
  <2>. QED
    BY <1>3, <2>1, <2>2
<1>5. MarksTypeOK'
  <2>1. gate.ts \in 0..n /\ loop.ts \in 0..gate.ts /\ uncounted \in 0..n /\ unseen \in 0..n
        /\ lapses \in 0..MaxLapses
    BY <1>1 DEF Typed, MarksTypeOK
  <2>2. lapses' \in 0..MaxLapses /\ uncounted' \in 0..n /\ unseen' \in 0..n
    BY <1>1, <1>2, <1>3, <2>1, SignalAssumption
  <2>3. loop'.ts \in 0..gate.ts
    BY <1>1, <1>3, <2>1 DEF NewLoop
  <2>. QED
    BY <1>2, <2>1, <2>2, <2>3 DEF MarksTypeOK
<1>. QED
  BY <1>1, <1>2, <1>4, <1>5 DEF Typed, CandlesOK

LEMMA JudgingKeepsTypes ==
  ASSUME Typed, LoadGate
  PROVE  Typed'
<1>1. PICK n \in Nat : n = Now
  BY LenProperties DEF Typed, CandlesOK, Now
<1>2. /\ candles' = candles /\ Now' = n /\ gate' = gate /\ live' = live /\ loop'.ts = gate.ts
      /\ uncounted' = uncounted /\ unseen' = unseen /\ lapses' = lapses
  BY <1>1 DEF LoadGate, Now
<1>3. gate.ts \in 0..n /\ gate.ts \in 0..gate.ts
  BY <1>1 DEF Typed, MarksTypeOK
<1>. QED
  BY <1>1, <1>2, <1>3 DEF Typed, CandlesOK, LiveTypeOK, MarksTypeOK

(***************************************************************************)
(* The types are kept: the service never files more hazards than it may,   *)
(* counts no window that has not closed, and the loop judges no gate that  *)
(* was not written.                                                        *)
(***************************************************************************)
THEOREM TypeCorrect == Spec => []TypeOK
<1>1. Init => Typed
  <2>. SUFFICES ASSUME Init PROVE Typed
    OBVIOUS
  <2>1. /\ candles = <<>> /\ Now = 0 /\ live = NewLive /\ gate.ts = 0 /\ loop.ts = 0
        /\ uncounted = 0 /\ unseen = 0 /\ lapses = 0
    BY DEF Init, NewLoop, NoGate, Now
  <2>2. /\ live.emitted = 0 /\ live.samples = <<>> /\ Len(live.samples) = 0
        /\ live.history \in [Signatures -> Seq(1..0)]
    BY <2>1 DEF NewLive, NoHistory
  <2>. QED
    BY <2>1, <2>2, SignalAssumption, WindowAssumption
    DEF Typed, CandlesOK, LiveTypeOK, MarksTypeOK
<1>2. Typed /\ [Next]_vars => Typed'
  <2>. SUFFICES ASSUME Typed, [Next]_vars PROVE Typed'
    OBVIOUS
  <2>1. CASE \E k \in Kinds, v \in Volumes : CandleCloses(k, v)
    BY <2>1, CandleKeepsTypes
  <2>2. CASE ProcessInstrument
    BY <2>2, PassKeepsTypes
  <2>3. CASE ServiceRestarts \/ LoopRestarts
    BY <2>3, RestartKeepsTypes
  <2>4. CASE LoadGate
    BY <2>4, JudgingKeepsTypes
  <2>5. CASE UNCHANGED vars
    BY <2>5 DEF vars, Typed, CandlesOK, LiveTypeOK, MarksTypeOK, Now
  <2>. QED
    BY <2>1, <2>2, <2>3, <2>4, <2>5 DEF Next
<1>3. Typed => TypeOK
  BY DEF Typed, CandlesOK, Candles, LiveTypeOK, MarksTypeOK, TypeOK
<1>. QED
  BY <1>1, <1>2, <1>3, PTL DEF Spec

=============================================================================
