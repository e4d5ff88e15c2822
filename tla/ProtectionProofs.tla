---------------------------- MODULE ProtectionProofs ----------------------------
(***************************************************************************)
(* Proofs about what protects the account.  PositionExits: the clocks and  *)
(* the moving stops of the open tickets, for every hold time, every tick,  *)
(* every set of prices and every way in which orders and reconciles may    *)
(* fail.  KillSwitch: what may resume trading, and what may trip the       *)
(* breaker, for every account, every threshold and every set of failures.  *)
(***************************************************************************)
EXTENDS PositionExits, KillSwitch, BookTheorems

------------------------------------------------------------------------------
(* The exits *)


Slots == DOMAIN tickets

(***************************************************************************)
(* Every ticket was entered before the pass at hand, or at its end.        *)
(***************************************************************************)
EnteredInTime(k) ==
  /\ k.since <= time
  /\ stage # "idle" => k.since < time

(***************************************************************************)
(* How much of what a pass may add to a clock is still to come.            *)
(***************************************************************************)
ToCome ==
  CASE stage = "idle"  -> 0
    [] stage = "stack" -> StackTick
    [] OTHER           -> LoopTick + StackTick

(***************************************************************************)
(* The ticks of the pass that reconciled, which the mark does not count.   *)
(***************************************************************************)
Extra(k) == IF k.since < synced THEN LoopTick + StackTick ELSE 0

ClockAhead(k) ==
  k.elapsed + ToCome <= Held(k) + StackTick * (time - Mark(k)) + Extra(k)

(***************************************************************************)
(* What a clock was set to by the last reconcile, with the tick of that    *)
(* pass, and the enforcer's tick of every pass since.                      *)
(***************************************************************************)
Counted(k) == IF k.since < synced THEN synced - k.since + LoopTick ELSE 0

Ticking == stage \notin {"stack", "idle"}

ClockBehind(k) ==
  ~k.hindered =>
    /\ time - Mark(k) <= MaxPass * (k.elapsed - Counted(k) + (IF Ticking THEN 1 ELSE 0))
    /\ ~Ticking => k.elapsed < Hold

(***************************************************************************)
(* What the state of the checker carries from candle to candle.            *)
(***************************************************************************)
StopsCarry(k) ==
  k.since >= synced /\ ~k.hindered =>
    /\ Breakeven > 0 /\ Gained(k, k.best, Breakeven) => k.armed
    /\ Trailing > 0 => k.peak = k.best

TicketOK(k) == EnteredInTime(k) /\ ClockAhead(k) /\ ClockBehind(k) /\ StopsCarry(k)

Open == {tickets[i] : i \in Slots}

TicketsOK == \A k \in Open : TicketOK(k)

(***************************************************************************)
(* An exit was made by a clock that is within its bound too.               *)
(***************************************************************************)
InBound(k) ==
  k.elapsed <= Held(k) + StackTick * (time - Mark(k)) + Extra(k)

ExitsOK == \A e \in exited : InBound(e.ticket)

IInv == TypeOK /\ TicketsOK /\ ExitsOK /\ StopsProtect

------------------------------------------------------------------------------
(* Products *)

LEMMA ProductGrows ==
  ASSUME NEW p \in Nat, NEW x \in Int, NEW d \in Nat \ {0}
  PROVE  p * x \in Int /\ p * (x + d) \in Int /\ p * (x + d) >= p * x + p
<1>1. p * (x + d) = p * x + p * d OBVIOUS
<1>2. p * d >= p OBVIOUS
<1>3. p * x \in Int /\ p * d \in Int OBVIOUS
<1>4. QED BY <1>1, <1>2, <1>3

LEMMA ProductKeeps ==
  ASSUME NEW p \in Nat, NEW x \in Int, NEW d \in Nat
  PROVE  p * (x + d) \in Int /\ p * (x + d) >= p * x
<1>1. CASE d = 0
  <2>1. x + d = x /\ p * x \in Int BY <1>1
  <2>2. QED BY <2>1
<1>2. CASE d # 0
  <2>1. p * x \in Int /\ p * (x + d) \in Int /\ p * (x + d) >= p * x + p
    BY <1>2, ProductGrows
  <2>2. QED BY <2>1
<1>3. QED BY <1>1, <1>2

LEMMA ProductOfNothing == ASSUME NEW p \in Nat PROVE p * 0 = 0
OBVIOUS

LEMMA ProductType ==
  ASSUME NEW p \in Nat, NEW x \in Int PROVE p * x \in Int
OBVIOUS

------------------------------------------------------------------------------
(* Types *)

LEMMA PricesType == Prices \cup {EntryPrice} \subseteq Nat
BY ExitsAssumption DEF ExitsAssumption

LEMMA ConstantsType ==
  /\ MaxTime \in Nat /\ MaxPass \in Nat \ {0} /\ MaxTickets \in Nat \ {0}
  /\ Hold \in Nat \ {0} /\ StackTick \in Nat /\ LoopTick = 1
BY ExitsAssumption DEF LoopTick

LEMMA TicketType ==
  ASSUME NEW k \in Tickets
  PROVE  /\ k.dir \in {1, -1} /\ k.entry = EntryPrice
         /\ k.peak \in Prices \cup {EntryPrice} /\ k.best \in Prices \cup {EntryPrice}
         /\ k.armed \in BOOLEAN /\ k.hindered \in BOOLEAN
         /\ k.since \in 0..MaxTime /\ k.since \in Nat /\ k.elapsed \in Nat
BY ConstantsType DEF Tickets

LEMMA TimesType ==
  ASSUME TypeOK
  PROVE  /\ time \in 0..MaxTime /\ time \in Nat
         /\ synced \in Nat /\ synced <= time
         /\ ToCome \in Nat
BY ConstantsType DEF TypeOK, ToCome

LEMMA SlotsType ==
  ASSUME TypeOK
  PROVE  /\ tickets \in Seq(Tickets)
         /\ Len(tickets) \in Nat /\ Slots = 1..Len(tickets)
         /\ \A i \in Slots : tickets[i] \in Tickets
BY LenProperties, ElementOfSeq DEF TypeOK, Slots

LEMMA MarkType ==
  ASSUME TypeOK, NEW k \in Tickets
  PROVE  Mark(k) \in Nat /\ Extra(k) \in Nat /\ Counted(k) \in Nat
<1>1. k.since \in Nat /\ synced \in Nat BY TicketType, TimesType
<1>2. QED BY <1>1, ConstantsType DEF Mark, Extra, Counted

(***************************************************************************)
(* A book mapped slot by slot is a book of the same slots.                 *)
(***************************************************************************)
LEMMA MappedBook ==
  ASSUME TypeOK, NEW f, DOMAIN f = Slots, f = [i \in Slots |-> f[i]],
         \A i \in Slots : f[i] \in Tickets
  PROVE  f \in Seq(Tickets) /\ Len(f) = Len(tickets)
<1>1. f \in [1..Len(tickets) -> Tickets] /\ Len(tickets) \in Nat BY SlotsType
<1>2. f \in Seq(Tickets) BY <1>1, IsASeq
<1>3. QED BY <1>1, <1>2, LenProperties

LEMMA HinderedBook ==
  ASSUME TypeOK, NEW f \in Seq(Tickets), DOMAIN f = Slots, NEW slots
  PROVE  /\ Hindered(f, slots) \in Seq(Tickets)
         /\ Len(Hindered(f, slots)) = Len(tickets)
         /\ DOMAIN Hindered(f, slots) = Slots
         /\ \A i \in Slots :
              Hindered(f, slots)[i] = [f[i] EXCEPT !.hindered = @ \/ i \in slots]
<1>. DEFINE h == Hindered(f, slots)
<1>1. /\ DOMAIN h = Slots /\ h = [i \in Slots |-> h[i]]
      /\ \A i \in Slots : h[i] = [f[i] EXCEPT !.hindered = @ \/ i \in slots]
  BY DEF Hindered
<1>2. \A i \in Slots : f[i] \in Tickets BY ElementOfSeq, LenProperties
<1>3. ASSUME NEW i \in Slots PROVE h[i] \in Tickets
  BY <1>1, <1>2 DEF Tickets
<1>. HIDE DEF h
<1>4. h \in Seq(Tickets) /\ Len(h) = Len(tickets) BY <1>1, <1>3, MappedBook
<1>. QED BY <1>1, <1>4 DEF h

LEMMA AgedBook ==
  ASSUME TypeOK, NEW tick \in Nat
  PROVE  /\ Aged(tick) \in Seq(Tickets)
         /\ Len(Aged(tick)) = Len(tickets)
         /\ DOMAIN Aged(tick) = Slots
         /\ \A i \in Slots :
              Aged(tick)[i] = [tickets[i] EXCEPT !.elapsed = @ + tick]
<1>. DEFINE a == Aged(tick)
<1>1. /\ DOMAIN a = Slots /\ a = [i \in Slots |-> a[i]]
      /\ \A i \in Slots : a[i] = [tickets[i] EXCEPT !.elapsed = @ + tick]
  BY DEF Aged, Slots
<1>2. ASSUME NEW i \in Slots PROVE a[i] \in Tickets
  <2>1. tickets[i] \in Tickets /\ tickets[i].elapsed + tick \in Nat
    BY SlotsType, TicketType
  <2>. QED BY <1>1, <2>1 DEF Tickets
<1>. HIDE DEF a
<1>3. a \in Seq(Tickets) /\ Len(a) = Len(tickets) BY <1>1, <1>2, MappedBook
<1>. QED BY <1>1, <1>3 DEF a

------------------------------------------------------------------------------
(* What a check leaves of a ticket *)

LEMMA CandleType ==
  ASSUME NEW c \in Candles, NEW k \in Tickets
  PROVE  /\ Adverse(k, c) \in Prices /\ Favorable(k, c) \in Prices
         /\ Adverse(k, c) \in Nat /\ Favorable(k, c) \in Nat
BY PricesType DEF Candles, Adverse, Favorable

LEMMA CheckedType ==
  ASSUME NEW c \in Candles, NEW k \in Tickets
  PROVE  Checked(k, c) \in Tickets
<1>1. Favorable(k, c) \in Prices BY CandleType
<1>2. Peak(k, c) \in Prices \cup {EntryPrice} /\ Best(k, c) \in Prices \cup {EntryPrice}
  BY <1>1, TicketType DEF Peak, Best
<1>3. Armed(k, c) \in BOOLEAN BY DEF Armed
<1>4. CheckedState(k, c) \in Tickets
  BY <1>2, <1>3 DEF CheckedState, Tickets
<1>. QED BY <1>2, <1>4 DEF Checked, Tickets

LEMMA CheckedFields ==
  ASSUME NEW c \in Candles, NEW k \in Tickets
  PROVE  LET l == Checked(k, c)
         IN  /\ l.dir = k.dir /\ l.entry = k.entry /\ l.since = k.since
             /\ l.elapsed = k.elapsed /\ l.hindered = k.hindered
             /\ l.best = Best(k, c)
             /\ Verdict(k, c) = "none" => l.armed = Armed(k, c) /\ l.peak = Peak(k, c)
<1>. DEFINE m == CheckedState(k, c)
<1>1. /\ m.dir = k.dir /\ m.entry = k.entry /\ m.since = k.since
      /\ m.elapsed = k.elapsed /\ m.hindered = k.hindered
      /\ Verdict(k, c) = "none" => m.armed = Armed(k, c) /\ m.peak = Peak(k, c)
      /\ DOMAIN m = DOMAIN k
  BY DEF CheckedState, Tickets
<1>2. Checked(k, c) = [m EXCEPT !.best = Best(k, c)] BY DEF Checked
<1>3. DOMAIN m = {"dir", "entry", "peak", "armed", "since", "elapsed", "best", "hindered"}
  BY <1>1 DEF Tickets
<1>. HIDE DEF m
<1>. QED BY <1>1, <1>2, <1>3

(***************************************************************************)
(* A check without a verdict found neither moving stop hit, and leaves a   *)
(* state that knows of the best candle.                                    *)
(***************************************************************************)
MovingStopsHold(l, c) ==
  /\ Breakeven > 0 /\ Gained(l, l.best, Breakeven) => ~Lost(l, Adverse(l, c), 0)
  /\ Trailing > 0 /\ (l.best - l.entry) * l.dir > 0 =>
       (100 * Adverse(l, c) - l.best * (100 - Trailing * l.dir)) * l.dir > 0

LEMMA NoVerdict ==
  ASSUME NEW c, NEW k, Verdict(k, c) = "none"
  PROVE  ~HitsBreakeven(k, c) /\ ~HitsTrail(k, c)
BY DEF Verdict

LEMMA TrailingDistanceType ==
  ASSUME NEW adverse \in Int, NEW best \in Int, NEW dir \in Int, NEW t \in Int
  PROVE  (100 * adverse - best * (100 - t * dir)) * dir \in Int
<1>1. best * (100 - t * dir) \in Int OBVIOUS
<1>. QED BY <1>1

LEMMA PeakIsBest ==
  ASSUME NEW c, NEW k, Trailing > 0, k.peak = k.best
  PROVE  Peak(k, c) = Best(k, c)
BY DEF Peak, Best

LEMMA BestGained ==
  ASSUME NEW c, NEW k, Breakeven > 0, Gained(k, k.best, Breakeven) => k.armed,
         Gained(k, Best(k, c), Breakeven)
  PROVE  Armed(k, c)
<1>1. Best(k, c) \in {Favorable(k, c), k.best} BY DEF Best
<1>2. CASE Best(k, c) = Favorable(k, c) BY <1>2 DEF Armed
<1>3. CASE Best(k, c) = k.best BY <1>3 DEF Armed
<1>. QED BY <1>1, <1>2, <1>3

LEMMA CheckHolds ==
  ASSUME NEW c \in Candles, NEW k \in Tickets, NEW l \in Tickets,
         Verdict(k, c) = "none",
         Breakeven > 0 /\ Gained(k, k.best, Breakeven) => k.armed,
         Trailing > 0 => k.peak = k.best,
         l.dir = k.dir, l.entry = k.entry, l.best = Best(k, c),
         l.armed = Armed(k, c), l.peak = Peak(k, c)
  PROVE  /\ Breakeven > 0 /\ Gained(l, l.best, Breakeven) => l.armed
         /\ Trailing > 0 => l.peak = l.best
         /\ MovingStopsHold(l, c)
<1>1. /\ \A price, pct : Gained(l, price, pct) = Gained(k, price, pct)
      /\ \A price, pct : Lost(l, price, pct) = Lost(k, price, pct)
      /\ Adverse(l, c) = Adverse(k, c)
  BY DEF Gained, Lost, Adverse
<1>2. ~HitsBreakeven(k, c) /\ ~HitsTrail(k, c) BY NoVerdict
<1>3. Breakeven > 0 /\ Gained(l, l.best, Breakeven) => l.armed
  BY <1>1, BestGained
<1>4. Trailing > 0 => l.peak = l.best BY PeakIsBest
<1>5. Breakeven > 0 /\ Gained(l, l.best, Breakeven) => ~Lost(l, Adverse(l, c), 0)
  BY <1>1, <1>2, <1>3 DEF HitsBreakeven
<1>6. ASSUME Trailing > 0, (l.best - l.entry) * l.dir > 0
      PROVE  (100 * Adverse(l, c) - l.best * (100 - Trailing * l.dir)) * l.dir > 0
  <2>. DEFINE x == (100 * Adverse(l, c) - l.best * (100 - Trailing * l.dir)) * l.dir
  <2>1. Peak(k, c) = l.best BY <1>4, <1>6
  <2>2. (Peak(k, c) - k.entry) * k.dir > 0 BY <1>6, <2>1
  <2>3. ~((100 * Adverse(k, c) - Peak(k, c) * (100 - Trailing * k.dir)) * k.dir <= 0)
    BY <1>2, <1>6, <2>2, Zenon DEF HitsTrail
  <2>4. ~(x <= 0) BY <1>1, <2>1, <2>3
  <2>5. x \in Int
    <3>1. Adverse(l, c) \in Int /\ l.best \in Int /\ l.dir \in Int /\ Trailing \in Int
      BY CandleType, TicketType, PricesType, TpslAssumption
    <3>. QED BY <3>1, TrailingDistanceType
  <2>. HIDE DEF x
  <2>6. x > 0 BY <2>4, <2>5
  <2>. QED BY <2>6 DEF x
<1>. QED BY <1>3, <1>4, <1>5, <1>6 DEF MovingStopsHold

(***************************************************************************)
(* What may become of ticket k in a pass over the expired ones: its clock  *)
(* advanced, unless all closes were refused, and it is unhindered only     *)
(* when it was not due.                                                    *)
(***************************************************************************)
Outlives(l, k, tick) ==
  /\ l \in Tickets
  /\ l.since = k.since /\ l.best = k.best /\ l.peak = k.peak /\ l.armed = k.armed
  /\ l.dir = k.dir /\ l.entry = k.entry
  /\ l.elapsed \in {k.elapsed, k.elapsed + tick}
  /\ ~l.hindered => ~k.hindered /\ l.elapsed = k.elapsed + tick /\ l.elapsed < Hold

LEMMA ExpiryLeaves ==
  ASSUME TypeOK, NEW tick \in Nat, NEW done \in Taken(Due(Aged(tick)))
  PROVE  LET left == LeftByExpiry(Aged(tick), done)
         IN  /\ left \in Seq(Tickets)
             /\ Len(left) <= Len(tickets)
             /\ \A i \in DOMAIN left :
                  \E j \in Slots : Outlives(left[i], tickets[j], tick)
<1>. DEFINE aged == Aged(tick)
            due  == Due(aged)
            left == LeftByExpiry(aged, done)
            all  == Hindered(tickets, DOMAIN tickets)
            rest == Hindered(aged, due)
<1>1. /\ aged \in Seq(Tickets) /\ DOMAIN aged = Slots
      /\ \A i \in Slots : aged[i] = [tickets[i] EXCEPT !.elapsed = @ + tick]
  BY AgedBook
<1>2. \A i \in Slots : i \notin due => aged[i].elapsed < Hold
  <2>1. ASSUME NEW i \in Slots, i \notin due PROVE aged[i].elapsed < Hold
    <3>1. ~(aged[i].elapsed >= Hold) BY <1>1, <2>1 DEF Due, Expired
    <3>2. aged[i].elapsed \in Nat BY <1>1, ElementOfSeq, LenProperties, TicketType
    <3>. QED BY <3>1, <3>2, ConstantsType
  <2>. QED BY <2>1
<1>. HIDE DEF aged, due
<1>3. /\ all \in Seq(Tickets) /\ Len(all) = Len(tickets) /\ DOMAIN all = Slots
      /\ \A i \in Slots : all[i] = [tickets[i] EXCEPT !.hindered = @ \/ i \in Slots]
  BY SlotsType, HinderedBook DEF Slots
<1>4. /\ rest \in Seq(Tickets) /\ Len(rest) = Len(tickets) /\ DOMAIN rest = Slots
      /\ \A i \in Slots : rest[i] = [aged[i] EXCEPT !.hindered = @ \/ i \in due]
  BY <1>1, HinderedBook
<1>. HIDE DEF all, rest
<1>5. ASSUME NEW i \in Slots PROVE Outlives(all[i], tickets[i], tick)
  <2>1. all[i] \in Tickets /\ tickets[i] \in Tickets
    BY <1>3, ElementOfSeq, LenProperties, SlotsType
  <2>2. all[i] = [tickets[i] EXCEPT !.hindered = TRUE] BY <1>3, <1>5, <2>1
  <2>. QED BY <2>1, <2>2 DEF Outlives, Tickets
<1>6. ASSUME NEW i \in Slots PROVE Outlives(rest[i], tickets[i], tick)
  <2>1. rest[i] \in Tickets /\ tickets[i] \in Tickets
    BY <1>4, ElementOfSeq, LenProperties, SlotsType
  <2>2. aged[i] = [tickets[i] EXCEPT !.elapsed = @ + tick] BY <1>1, <1>6
  <2>3. rest[i] = [aged[i] EXCEPT !.hindered = @ \/ i \in due] BY <1>4, <1>6
  <2>4. /\ rest[i].since = tickets[i].since /\ rest[i].best = tickets[i].best
        /\ rest[i].peak = tickets[i].peak /\ rest[i].armed = tickets[i].armed
        /\ rest[i].dir = tickets[i].dir /\ rest[i].entry = tickets[i].entry
        /\ rest[i].elapsed = tickets[i].elapsed + tick
        /\ rest[i].hindered = (tickets[i].hindered \/ i \in due)
        /\ aged[i].elapsed = rest[i].elapsed
    BY <2>1, <2>2, <2>3 DEF Tickets
  <2>. QED BY <1>2, <2>1, <2>4 DEF Outlives
<1>7. left = IF due # {} /\ done = {} THEN all ELSE Without(rest, done)
  BY DEF LeftByExpiry, all, rest, due
<1>. HIDE DEF left
<1>. DEFINE Good == /\ left \in Seq(Tickets)
                    /\ Len(left) <= Len(tickets)
                    /\ \A i \in DOMAIN left :
                         \E j \in Slots : Outlives(left[i], tickets[j], tick)
<1>8. ASSUME left = all PROVE Good BY <1>3, <1>5, <1>8, SlotsType
<1>9. ASSUME left = Without(rest, done) PROVE Good
  <2>1. /\ left \in Seq(Tickets) /\ Len(left) <= Len(rest)
        /\ \A i \in DOMAIN left :
             LET j == SlotsLeft(Len(rest), done)[i]
             IN  j \in DOMAIN rest \ done /\ left[i] = rest[j]
    BY <1>4, <1>9, WithoutElements
  <2>2. ASSUME NEW i \in DOMAIN left
        PROVE  \E j \in Slots : Outlives(left[i], tickets[j], tick)
    <3>1. PICK j \in Slots : left[i] = rest[j] BY <1>4, <2>1, <2>2
    <3>. QED BY <1>6, <3>1
  <2>. QED BY <1>4, <2>1, <2>2
<1>10. Good BY <1>7, <1>8, <1>9
<1>. QED BY <1>10 DEF left, aged

------------------------------------------------------------------------------
(* Every ticket keeps what is known of it *)

LEMMA BeginPassTicket ==
  ASSUME TypeOK, TypeOK', BeginPass, NEW k \in Tickets, TicketOK(k)
  PROVE  TicketOK(k)'
<1>1. PICK d \in 1..MaxPass : time' = time + d
  BY DEF BeginPass
<1>2. /\ stage = "idle" /\ stage' \in {"reconcile", "exits"} /\ synced' = synced
      /\ d \in Nat \ {0} /\ d <= MaxPass
  BY ConstantsType DEF BeginPass
<1>3. /\ time \in Nat /\ synced \in Nat /\ k.since \in Nat /\ k.elapsed \in Nat
      /\ Mark(k) \in Nat /\ Extra(k) \in Nat /\ Counted(k) \in Nat
  BY TimesType, TicketType, MarkType
<1>4. Mark(k)' = Mark(k) /\ Extra(k)' = Extra(k) /\ Counted(k)' = Counted(k)
  BY <1>2 DEF Mark, Extra, Counted
<1>5. EnteredInTime(k)' BY <1>1, <1>2, <1>3 DEF TicketOK, EnteredInTime
<1>6. ClockAhead(k)'
  <2>. DEFINE x == time - Mark(k)
  <2>1. x \in Int /\ time' - Mark(k) = x + d BY <1>1, <1>2, <1>3
  <2>2. k.elapsed <= time - k.since + StackTick * x + Extra(k)
    BY <1>2, <1>3 DEF TicketOK, ClockAhead, ToCome, Held
  <2>3. ToCome' = LoopTick + StackTick BY <1>2 DEF ToCome
  <2>. HIDE DEF x
  <2>4. /\ StackTick * x \in Int /\ StackTick * (x + d) \in Int
        /\ StackTick * (x + d) >= StackTick * x + StackTick
    BY <1>2, <2>1, ConstantsType, ProductGrows
  <2>5. k.elapsed + (LoopTick + StackTick) <= (time + d) - k.since + StackTick * (x + d) + Extra(k)
    BY <1>2, <1>3, <2>2, <2>4, ConstantsType
  <2>6. k.elapsed + ToCome' <= time' - k.since + StackTick * (time' - Mark(k)) + Extra(k)
    <3>1. StackTick * (x + d) = StackTick * (time' - Mark(k)) BY <2>1
    <3>2. (time + d) - k.since = time' - k.since BY <1>1
    <3>. QED BY <2>3, <2>5, <3>1, <3>2, Zenon
  <2>. QED BY <1>4, <2>6, Zenon DEF ClockAhead, Held
<1>7. ClockBehind(k)'
  <2>1. SUFFICES ASSUME ~k.hindered
                 PROVE time' - Mark(k) <= MaxPass * (k.elapsed - Counted(k) + 1)
    BY <1>2, <1>4 DEF ClockBehind, Ticking
  <2>. DEFINE x == k.elapsed - Counted(k)
  <2>2. x \in Int BY <1>3
  <2>3. time - Mark(k) <= MaxPass * (x + 0)
    BY <1>2, <2>1 DEF TicketOK, ClockBehind, Ticking
  <2>. HIDE DEF x
  <2>4. time - Mark(k) <= MaxPass * x BY <2>2, <2>3
  <2>5. /\ MaxPass * x \in Int /\ MaxPass * (x + 1) \in Int
        /\ MaxPass * (x + 1) >= MaxPass * x + MaxPass
    BY <2>2, ConstantsType, ProductGrows
  <2>6. (time + d) - Mark(k) <= MaxPass * (x + 1)
    BY <1>2, <1>3, <2>4, <2>5, ConstantsType
  <2>7. (time + d) - Mark(k) = time' - Mark(k) BY <1>1
  <2>. QED BY <2>6, <2>7, Zenon DEF x
<1>8. StopsCarry(k)' BY <1>2 DEF TicketOK, StopsCarry
<1>. QED BY <1>5, <1>6, <1>7, <1>8 DEF TicketOK

LEMMA RebuiltType ==
  ASSUME TypeOK, NEW k \in Tickets, k.since <= time
  PROVE  Rebuilt(k) \in Tickets
<1>1. time - k.since \in Nat /\ k.entry \in {EntryPrice}
  BY TimesType, TicketType
<1>. QED BY <1>1 DEF Rebuilt, Tickets

LEMMA ReconciledTicket ==
  ASSUME TypeOK, ReconcilePortfolio, NEW k \in Tickets, TicketOK(k),
         NEW l, l = Rebuilt(k)
  PROVE  TicketOK(l)'
<1>1. /\ stage = "reconcile" /\ stage' = "exits" /\ synced' = time /\ time' = time
  BY DEF ReconcilePortfolio
<1>2. /\ time \in Nat /\ k.since \in Nat /\ k.since < time
  BY <1>1, TimesType, TicketType DEF TicketOK, EnteredInTime
<1>5. l.since = k.since /\ l.elapsed = time - k.since
  BY DEF Rebuilt, Tickets
<1>6. EnteredInTime(l)' BY <1>1, <1>2, <1>5 DEF EnteredInTime
<1>7. Mark(l)' = time /\ Extra(l)' = LoopTick + StackTick
      /\ Counted(l)' = time - k.since + LoopTick
  BY <1>1, <1>2, <1>5 DEF Mark, Extra, Counted
<1>a. time - time = 0 BY <1>2
<1>8. ClockAhead(l)'
  <2>1. StackTick * (time - time) = 0 BY <1>a, ConstantsType, ProductOfNothing, Zenon
  <2>2. ToCome' = LoopTick + StackTick BY <1>1 DEF ToCome
  <2>. DEFINE none == StackTick * (time - time)
  <2>. HIDE DEF none
  <2>3. l.elapsed + (LoopTick + StackTick)
          <= time - l.since + none + (LoopTick + StackTick)
    BY <1>2, <1>5, <2>1, ConstantsType DEF none
  <2>. QED BY <1>1, <1>7, <2>2, <2>3, Zenon DEF ClockAhead, Held, none
<1>9. ClockBehind(l)'
  <2>1. MaxPass * ((time - k.since) - (time - k.since + LoopTick) + 1) = 0
    <3>1. (time - k.since) - (time - k.since + LoopTick) + 1 = 0
      BY <1>2, ConstantsType
    <3>. QED BY <3>1, ConstantsType, ProductOfNothing, Zenon
  <2>2. 0 <= 0 OBVIOUS
  <2>3. time - time <= MaxPass * (l.elapsed - (time - k.since + LoopTick) + 1)
    BY <1>5, <1>a, <2>1, <2>2, Zenon
  <2>4. Ticking' BY <1>1 DEF Ticking
  <2>5. time' - Mark(l)' <= MaxPass * (l.elapsed - Counted(l)' + 1)
    BY <1>1, <1>7, <2>3, Zenon
  <2>. QED BY <2>4, <2>5, Zenon DEF ClockBehind
<1>10. StopsCarry(l)' BY <1>1, <1>2, <1>5 DEF StopsCarry
<1>. QED BY <1>6, <1>8, <1>9, <1>10 DEF TicketOK

(***************************************************************************)
(* A step between two stages with as much to come, or less, leaves alone   *)
(* what is known of a ticket that is hindered or of which nothing changed. *)
(***************************************************************************)
LEMMA SkippedTicket ==
  ASSUME TypeOK, UNCHANGED <<time, synced>>, NEW k \in Tickets, TicketOK(k),
         NEW l \in Tickets, l.since = k.since, l.elapsed = k.elapsed,
         stage # "idle", l.hindered \/ (~k.hindered /\ (Ticking' <=> Ticking)),
         ToCome' \in Nat, ToCome' <= ToCome,
         StopsCarry(l)'
  PROVE  TicketOK(l)'
<1>1. EnteredInTime(l)' BY DEF TicketOK, EnteredInTime
<1>2. Mark(l)' = Mark(k) /\ Extra(l)' = Extra(k) /\ Counted(l)' = Counted(k)
  BY DEF Mark, Extra, Counted
<1>3. ClockAhead(l)'
  <2>. DEFINE bound == time - k.since + StackTick * (time - Mark(k)) + Extra(k)
  <2>1. bound \in Int
    <3>1. time \in Nat /\ k.since \in Nat /\ Mark(k) \in Nat /\ Extra(k) \in Nat
      BY TimesType, TicketType, MarkType
    <3>2. StackTick * (time - Mark(k)) \in Int
      BY <3>1, ConstantsType, ProductType
    <3>. QED BY <3>1, <3>2
  <2>2. k.elapsed + ToCome <= bound BY DEF TicketOK, ClockAhead, Held
  <2>3. bound = (time - l.since + StackTick * (time - Mark(l)) + Extra(l))'
    BY <1>2
  <2>. HIDE DEF bound
  <2>4. l.elapsed + ToCome' <= bound
    BY <2>1, <2>2, TicketType, TimesType
  <2>. QED BY <2>3, <2>4 DEF ClockAhead, Held
<1>4. ClockBehind(l)' BY <1>2 DEF TicketOK, ClockBehind
<1>. QED BY <1>1, <1>3, <1>4 DEF TicketOK

LEMMA CheckedTicket ==
  ASSUME TypeOK, CheckTpslExit, NEW k \in Tickets, TicketOK(k),
         NEW hit \in BOOLEAN, Verdict(k, candle) # "none" => hit,
         NEW l \in Tickets, l = [Checked(k, candle) EXCEPT !.hindered = @ \/ hit]
  PROVE  /\ TicketOK(l)'
         /\ l.since >= synced /\ ~l.hindered => MovingStopsHold(l, candle)
<1>1. /\ stage = "exits" /\ stage' = "expiry" /\ UNCHANGED <<time, synced, candle>>
      /\ candle \in Candles
  BY DEF CheckTpslExit, TypeOK
<1>. DEFINE m == Checked(k, candle)
<1>2. /\ m \in Tickets
      /\ m.dir = k.dir /\ m.entry = k.entry /\ m.since = k.since
      /\ m.elapsed = k.elapsed /\ m.hindered = k.hindered
      /\ m.best = Best(k, candle)
      /\ Verdict(k, candle) = "none" =>
           m.armed = Armed(k, candle) /\ m.peak = Peak(k, candle)
  BY <1>1, CheckedType, CheckedFields
<1>. HIDE DEF m
<1>3. /\ l.dir = k.dir /\ l.entry = k.entry /\ l.since = k.since
      /\ l.elapsed = k.elapsed /\ l.best = Best(k, candle)
      /\ l.hindered = (k.hindered \/ hit)
      /\ Verdict(k, candle) = "none" =>
           l.armed = Armed(k, candle) /\ l.peak = Peak(k, candle)
  <2>1. l = [m EXCEPT !.hindered = @ \/ hit] BY DEF m
  <2>2. DOMAIN m = {"dir", "entry", "peak", "armed", "since", "elapsed", "best", "hindered"}
    BY <1>2 DEF Tickets
  <2>. QED BY <1>2, <2>1, <2>2
<1>4. ASSUME l.since >= synced, ~l.hindered
      PROVE  /\ Breakeven > 0 /\ Gained(l, l.best, Breakeven) => l.armed
             /\ Trailing > 0 => l.peak = l.best
             /\ MovingStopsHold(l, candle)
  <2>1. Verdict(k, candle) = "none" /\ ~k.hindered /\ k.since >= synced
    BY <1>3, <1>4
  <2>2. /\ Breakeven > 0 /\ Gained(k, k.best, Breakeven) => k.armed
        /\ Trailing > 0 => k.peak = k.best
    BY <2>1 DEF TicketOK, StopsCarry
  <2>. QED BY <1>1, <1>3, <2>1, <2>2, CheckHolds
<1>5. StopsCarry(l)' BY <1>1, <1>4 DEF StopsCarry
<1>6. Ticking /\ Ticking' /\ ToCome' = ToCome BY <1>1 DEF Ticking, ToCome
<1>7. l.hindered \/ (~k.hindered /\ (Ticking' <=> Ticking)) BY <1>3, <1>6
<1>8. ToCome' \in Nat /\ ToCome' <= ToCome BY <1>6, TimesType
<1>9. UNCHANGED <<time, synced>> /\ stage # "idle" BY <1>1
<1>10. l.since = k.since /\ l.elapsed = k.elapsed BY <1>3
<1>11. TicketOK(l)'
  BY <1>5, <1>7, <1>8, <1>9, <1>10, SkippedTicket, Zenon
<1>. QED BY <1>4, <1>11

LEMMA ExpiryTicket ==
  ASSUME TypeOK, UNCHANGED <<time, synced>>, stage # "idle", ~Ticking',
         NEW tick \in Nat, Ticking => tick = 1,
         ToCome' \in Nat, ToCome = ToCome' + tick,
         NEW k \in Tickets, TicketOK(k), NEW l, Outlives(l, k, tick)
  PROVE  TicketOK(l)'
<1>1. /\ time \in Nat /\ k.since \in Nat /\ k.elapsed \in Nat
      /\ Mark(k) \in Nat /\ Extra(k) \in Nat /\ Counted(k) \in Nat
  BY TimesType, TicketType, MarkType
<1>2. l.since = k.since /\ l.elapsed \in {k.elapsed, k.elapsed + tick}
  BY DEF Outlives
<1>3. Mark(l)' = Mark(k) /\ Extra(l)' = Extra(k) /\ Counted(l)' = Counted(k)
  BY <1>2 DEF Mark, Extra, Counted
<1>4. EnteredInTime(l)' BY <1>2 DEF TicketOK, EnteredInTime
<1>5. ClockAhead(l)'
  <2>. DEFINE bound == time - k.since + StackTick * (time - Mark(k)) + Extra(k)
  <2>1. bound \in Int
    <3>1. StackTick * (time - Mark(k)) \in Int
      BY <1>1, ConstantsType, ProductType
    <3>. QED BY <1>1, <3>1
  <2>2. k.elapsed + ToCome <= bound BY DEF TicketOK, ClockAhead, Held
  <2>3. bound = (time - l.since + StackTick * (time - Mark(l)) + Extra(l))'
    BY <1>2, <1>3
  <2>. HIDE DEF bound
  <2>4. l.elapsed + ToCome' <= bound BY <1>1, <1>2, <2>1, <2>2
  <2>. QED BY <2>3, <2>4 DEF ClockAhead, Held
<1>6. ClockBehind(l)'
  <2>1. SUFFICES ASSUME ~l.hindered
                 PROVE /\ time - Mark(k) <= MaxPass * (l.elapsed - Counted(k) + 0)
                       /\ l.elapsed < Hold
    BY <1>3, Zenon DEF ClockBehind
  <2>2. ~k.hindered /\ l.elapsed = k.elapsed + tick /\ l.elapsed < Hold
    BY <2>1 DEF Outlives
  <2>. DEFINE b == IF Ticking THEN 1 ELSE 0
              x == (k.elapsed - Counted(k)) + b
  <2>3. x \in Int /\ b \in Nat /\ tick - b \in Nat
        /\ x + (tick - b) = (l.elapsed - Counted(k)) + 0
    BY <1>1, <2>2
  <2>4. time - Mark(k) <= MaxPass * x
    BY <2>2, Zenon DEF TicketOK, ClockBehind
  <2>. HIDE DEF x, b
  <2>5. /\ MaxPass * x \in Int /\ MaxPass * (x + (tick - b)) \in Int
        /\ MaxPass * (x + (tick - b)) >= MaxPass * x
    <3>1. MaxPass \in Nat BY ConstantsType
    <3>. QED BY <2>3, <3>1, ProductKeeps, ProductType, Zenon
  <2>6. time - Mark(k) <= MaxPass * (x + (tick - b))
    BY <1>1, <2>4, <2>5
  <2>. QED BY <2>2, <2>3, <2>6, Zenon
<1>7. StopsCarry(l)'
  <2>1. \A price, pct : Gained(l, price, pct) = Gained(k, price, pct)
    BY DEF Outlives, Gained
  <2>. QED BY <2>1 DEF TicketOK, StopsCarry, Outlives
<1>. QED BY <1>4, <1>5, <1>6, <1>7 DEF TicketOK

LEMMA EntryGainsNothing ==
  ASSUME NEW entry \in Nat \ {0}, NEW pct \in Nat \ {0}, NEW dir \in {1, -1}
  PROVE  ~((100 * entry - entry * (100 + pct * dir)) * dir >= 0)
<1>1. entry * pct > 0 /\ entry * pct \in Int OBVIOUS
<1>2. CASE dir = 1
  <2>1. (100 * entry - entry * (100 + pct * 1)) * 1 = -(entry * pct) OBVIOUS
  <2>. QED BY <1>1, <1>2, <2>1
<1>3. CASE dir = -1
  <2>1. (100 * entry - entry * (100 + pct * (-1))) * (-1) = -(entry * pct) OBVIOUS
  <2>. QED BY <1>1, <1>3, <2>1
<1>. QED BY <1>2, <1>3

LEMMA OpenedTicket ==
  ASSUME TypeOK, UNCHANGED <<time, synced>>, stage' = "idle",
         NEW dir \in {1, -1}, NEW l, l = Opened(dir)
  PROVE  l \in Tickets /\ TicketOK(l)'
<1>1. /\ time \in Nat /\ synced \in Nat /\ synced <= time /\ time \in 0..MaxTime
  BY TimesType
<1>2. /\ l.since = time /\ l.elapsed = 0 /\ l.best = EntryPrice /\ l.peak = EntryPrice
      /\ l.entry = EntryPrice /\ l.dir = dir
  BY DEF Opened
<1>3. l \in Tickets BY <1>1 DEF Opened, Tickets
<1>4. Mark(l)' = time /\ Extra(l)' = 0 /\ Counted(l)' = 0
  BY <1>1, <1>2 DEF Mark, Extra, Counted
<1>5. EnteredInTime(l)' BY <1>1, <1>2 DEF EnteredInTime
<1>6. time - time = 0 /\ StackTick * 0 = 0 /\ MaxPass * 0 = 0
  BY <1>1, ConstantsType, ProductOfNothing
<1>7. ClockAhead(l)'
  <2>1. ToCome' = 0 BY DEF ToCome
  <2>2. 0 + 0 <= 0 + 0 + 0 OBVIOUS
  <2>3. l.elapsed + ToCome' <= (time - l.since) + StackTick * (time - time) + 0
    BY <1>2, <1>6, <2>1, <2>2, Zenon
  <2>. QED BY <1>4, <2>3, Zenon DEF ClockAhead, Held
<1>8. ClockBehind(l)'
  <2>1. ~Ticking' BY DEF Ticking
  <2>2. (0 - 0) + 0 = 0 /\ 0 <= 0 /\ 0 < Hold BY ConstantsType
  <2>3. time - time <= MaxPass * ((l.elapsed - 0) + 0)
    BY <1>2, <1>6, <2>2, Zenon
  <2>. QED BY <1>2, <1>4, <2>1, <2>2, <2>3, Zenon DEF ClockBehind
<1>9. Breakeven > 0 => ~Gained(l, l.best, Breakeven)
  <2>1. Breakeven > 0 => Breakeven \in Nat \ {0} BY TpslAssumption
  <2>2. EntryPrice \in Nat \ {0} BY ExitsAssumption
  <2>. QED BY <1>2, <2>1, <2>2, EntryGainsNothing DEF Gained
<1>10. StopsCarry(l)' BY <1>2, <1>9 DEF StopsCarry
<1>. QED BY <1>3, <1>5, <1>7, <1>8, <1>10 DEF TicketOK

(***************************************************************************)
(* A ticket that is closed now had a clock within its bound.               *)
(***************************************************************************)
LEMMA ClosedTicket ==
  ASSUME TypeOK, UNCHANGED <<time, synced>>, NEW k \in Tickets, TicketOK(k),
         NEW l, l.since = k.since, l.elapsed \in Nat, l.elapsed <= k.elapsed + ToCome
  PROVE  InBound(l)'
<1>1. /\ time \in Nat /\ k.since \in Nat /\ k.elapsed \in Nat /\ ToCome \in Nat
      /\ Mark(k) \in Nat /\ Extra(k) \in Nat
  BY TimesType, TicketType, MarkType
<1>2. Mark(l)' = Mark(k) /\ Extra(l)' = Extra(k) BY DEF Mark, Extra
<1>. DEFINE bound == time - k.since + StackTick * (time - Mark(k)) + Extra(k)
<1>3. bound \in Int
  <2>1. StackTick * (time - Mark(k)) \in Int BY <1>1, ConstantsType, ProductType
  <2>. QED BY <1>1, <2>1
<1>4. k.elapsed + ToCome <= bound BY DEF TicketOK, ClockAhead, Held
<1>5. bound = (time - l.since + StackTick * (time - Mark(l)) + Extra(l))'
  BY <1>2
<1>. HIDE DEF bound
<1>6. l.elapsed <= bound BY <1>1, <1>3, <1>4
<1>. QED BY <1>5, <1>6 DEF InBound, Held

LEMMA OpenInBound ==
  ASSUME TypeOK, NEW k \in Tickets, TicketOK(k)
  PROVE  InBound(k)
<1>1. /\ time \in Nat /\ k.since \in Nat /\ k.elapsed \in Nat /\ ToCome \in Nat
      /\ Mark(k) \in Nat /\ Extra(k) \in Nat
  BY TimesType, TicketType, MarkType
<1>2. StackTick * (time - Mark(k)) \in Int BY <1>1, ConstantsType, ProductType
<1>3. k.elapsed + ToCome <= Held(k) + StackTick * (time - Mark(k)) + Extra(k)
  BY DEF TicketOK, ClockAhead
<1>. QED BY <1>1, <1>2, <1>3 DEF InBound, Held

------------------------------------------------------------------------------
(* The steps of a pass *)

Kept == TypeOK' /\ TicketsOK' /\ ExitsOK' /\ StopsProtect'

LEMMA BeginPassKeeps ==
  ASSUME TypeOK, TicketsOK, BeginPass
  PROVE  Kept
<1>1. PICK d \in 1..MaxPass : time + d <= MaxTime /\ time' = time + d
  BY DEF BeginPass
<1>2. /\ stage' \in {"reconcile", "exits"} /\ candle' \in Candles
      /\ tickets' = tickets /\ synced' = synced /\ exited' = {}
  BY DEF BeginPass, Quiet
<1>3. time' \in 0..MaxTime /\ synced' \in 0..time'
  BY <1>1, <1>2, TimesType, ConstantsType
<1>4. TypeOK' BY <1>2, <1>3 DEF TypeOK
<1>5. Open' = Open BY <1>2 DEF Open, Slots
<1>6. ASSUME NEW k \in Open' PROVE TicketOK(k)'
  <2>1. k \in Tickets /\ TicketOK(k)
    BY <1>5, <1>6, SlotsType DEF Open, TicketsOK
  <2>. QED BY <1>4, <2>1, BeginPassTicket
<1>7. TicketsOK' BY <1>6 DEF TicketsOK
<1>8. ExitsOK' /\ StopsProtect' BY <1>2 DEF ExitsOK, StopsProtect
<1>. QED BY <1>4, <1>7, <1>8 DEF Kept

LEMMA ReconcileKeeps ==
  ASSUME TypeOK, TicketsOK, ReconcilePortfolio
  PROVE  Kept
<1>1. /\ stage = "reconcile" /\ stage' = "exits" /\ synced' = time /\ exited' = {}
      /\ UNCHANGED <<time, candle>>
      /\ tickets' = [i \in Slots |-> Rebuilt(tickets[i])]
  BY DEF ReconcilePortfolio, Quiet, Slots
<1>2. \A i \in Slots : tickets[i] \in Tickets /\ TicketOK(tickets[i])
  BY SlotsType DEF Open, TicketsOK
<1>3. \A i \in Slots : tickets'[i] = Rebuilt(tickets[i]) /\ tickets'[i] \in Tickets
  BY <1>1, <1>2, RebuiltType DEF TicketOK, EnteredInTime
<1>4. DOMAIN tickets' = Slots /\ tickets' = [i \in Slots |-> tickets'[i]] BY <1>1
<1>5. tickets' \in Seq(Tickets) /\ Len(tickets') = Len(tickets)
  BY <1>3, <1>4, MappedBook
<1>6. TypeOK'
  <2>1. synced' \in 0..time' BY <1>1, TimesType
  <2>2. Len(tickets') <= MaxTickets BY <1>5 DEF TypeOK
  <2>. QED BY <1>1, <1>5, <2>1, <2>2, Zenon DEF TypeOK
<1>7. ASSUME NEW l \in Open' PROVE TicketOK(l)'
  <2>1. PICK i \in Slots : l = tickets'[i] BY <1>4, <1>7 DEF Open, Slots
  <2>2. l = Rebuilt(tickets[i]) /\ tickets[i] \in Tickets /\ TicketOK(tickets[i])
    BY <1>2, <1>3, <2>1
  <2>3. PICK k : k = tickets[i] OBVIOUS
  <2>. QED BY <2>2, <2>3, ReconciledTicket
<1>8. TicketsOK' BY <1>7 DEF TicketsOK
<1>9. ExitsOK' /\ StopsProtect' BY <1>1 DEF ExitsOK, StopsProtect
<1>. QED BY <1>6, <1>8, <1>9 DEF Kept

LEMMA ReconcileRaisesKeeps ==
  ASSUME TypeOK, TicketsOK, ReconcileRaises
  PROVE  Kept
<1>1. /\ stage = "reconcile" /\ stage' = "exits" /\ exited' = {}
      /\ UNCHANGED <<time, candle, tickets, synced>>
  BY DEF ReconcileRaises, Quiet
<1>2. TypeOK' BY <1>1 DEF TypeOK
<1>3. ASSUME NEW k \in Open' PROVE TicketOK(k)'
  <2>1. k \in Tickets /\ TicketOK(k)
    BY <1>1, <1>3, SlotsType DEF Open, Slots, TicketsOK
  <2>2. /\ EnteredInTime(k)' /\ StopsCarry(k)'
        /\ Mark(k)' = Mark(k) /\ Extra(k)' = Extra(k) /\ Counted(k)' = Counted(k)
        /\ Held(k)' = Held(k) /\ ToCome' = ToCome /\ Ticking /\ Ticking'
    BY <1>1, <2>1
    DEF TicketOK, EnteredInTime, StopsCarry, Mark, Extra, Counted, Held, ToCome, Ticking
  <2>3. ClockAhead(k)' BY <1>1, <2>1, <2>2 DEF TicketOK, ClockAhead
  <2>4. ClockBehind(k)' BY <1>1, <2>1, <2>2 DEF TicketOK, ClockBehind
  <2>. QED BY <2>2, <2>3, <2>4 DEF TicketOK
<1>4. TicketsOK' BY <1>3 DEF TicketsOK
<1>5. ExitsOK' /\ StopsProtect' BY <1>1 DEF ExitsOK, StopsProtect
<1>. QED BY <1>2, <1>4, <1>5 DEF Kept

LEMMA PausedPassKeeps ==
  ASSUME TypeOK, TicketsOK, PausedPass
  PROVE  Kept
<1>1. /\ stage = "exits" /\ stage' = "idle" /\ exited' = {}
      /\ UNCHANGED <<time, candle, synced>>
      /\ tickets' = Hindered(tickets, Slots)
  BY DEF PausedPass, Quiet, Slots
<1>2. /\ tickets' \in Seq(Tickets) /\ Len(tickets') = Len(tickets)
      /\ DOMAIN tickets' = Slots
      /\ \A i \in Slots : tickets'[i] = [tickets[i] EXCEPT !.hindered = @ \/ i \in Slots]
  BY <1>1, SlotsType, HinderedBook DEF Slots
<1>3. TypeOK' BY <1>1, <1>2 DEF TypeOK
<1>4. ASSUME NEW l \in Open' PROVE TicketOK(l)'
  <2>1. PICK i \in Slots : l = tickets'[i] BY <1>2, <1>4 DEF Open, Slots
  <2>2. PICK k : k = tickets[i] OBVIOUS
  <2>3. k \in Tickets /\ TicketOK(k) BY <2>2, SlotsType DEF Open, TicketsOK
  <2>4. l = [k EXCEPT !.hindered = TRUE] BY <1>2, <2>1, <2>2, <2>3
  <2>5. /\ l \in Tickets /\ l.hindered
        /\ l.since = k.since /\ l.elapsed = k.elapsed
    BY <2>3, <2>4 DEF Tickets
  <2>6. StopsCarry(l)' BY <2>5 DEF StopsCarry
  <2>7. ToCome' \in Nat /\ ToCome' <= ToCome BY <1>1, ConstantsType DEF ToCome
  <2>8. UNCHANGED <<time, synced>> /\ stage # "idle" BY <1>1
  <2>. QED BY <2>3, <2>5, <2>6, <2>7, <2>8, SkippedTicket, Zenon
<1>5. TicketsOK' BY <1>4 DEF TicketsOK
<1>6. ExitsOK' /\ StopsProtect' BY <1>1 DEF ExitsOK, StopsProtect
<1>. QED BY <1>3, <1>5, <1>6 DEF Kept

LEMMA CheckTpslExitKeeps ==
  ASSUME TypeOK, TicketsOK, CheckTpslExit
  PROVE  Kept
<1>. DEFINE due  == {i \in Slots : Verdict(tickets[i], candle) # "none"}
            seen == [i \in Slots |-> Checked(tickets[i], candle)]
            hind == Hindered(seen, due)
<1>1. /\ stage = "exits" /\ stage' = "expiry" /\ UNCHANGED <<time, candle, synced>>
      /\ candle \in Candles
  BY DEF CheckTpslExit, TypeOK
<1>2. PICK done \in Taken(due) :
        /\ tickets' = Without(hind, done)
        /\ exited' = {[reason |-> Verdict(tickets[i], candle), ticket |-> seen[i]] : i \in done}
  BY Zenon DEF CheckTpslExit, Slots
<1>3. done \subseteq due BY DEF Taken
<1>4. \A i \in Slots : tickets[i] \in Tickets /\ TicketOK(tickets[i])
  BY SlotsType DEF Open, TicketsOK
<1>5. \A i \in Slots : seen[i] = Checked(tickets[i], candle) /\ seen[i] \in Tickets
  BY <1>1, <1>4, CheckedType
<1>6. DOMAIN seen = Slots /\ seen = [i \in Slots |-> seen[i]] OBVIOUS
<1>7. \A i \in Slots : i \notin due => Verdict(tickets[i], candle) = "none" OBVIOUS
<1>8. due \subseteq Slots /\ \A i \in due : Verdict(tickets[i], candle) \in Reasons
  BY DEF Verdict, Reasons
<1>. HIDE DEF seen, due
<1>9. seen \in Seq(Tickets) BY <1>5, <1>6, MappedBook, Zenon
<1>10. /\ hind \in Seq(Tickets) /\ Len(hind) = Len(tickets) /\ DOMAIN hind = Slots
       /\ \A i \in Slots : hind[i] = [seen[i] EXCEPT !.hindered = @ \/ i \in due]
  BY <1>6, <1>9, HinderedBook
<1>. HIDE DEF hind
<1>11. /\ tickets' \in Seq(Tickets) /\ Len(tickets') <= Len(tickets)
       /\ \A i \in DOMAIN tickets' : \E j \in Slots : tickets'[i] = hind[j]
  BY <1>2, <1>10, WithoutElements
<1>12. ASSUME NEW e \in exited'
       PROVE  /\ e.reason \in Reasons /\ e.ticket \in Tickets
              /\ InBound(e.ticket)'
  <2>1. PICK i \in done : e = [reason |-> Verdict(tickets[i], candle), ticket |-> seen[i]]
    BY <1>2, <1>12
  <2>2. i \in Slots /\ i \in due BY <1>3, <1>8
  <2>3. PICK k, l : k = tickets[i] /\ l = seen[i] OBVIOUS
  <2>4. /\ k \in Tickets /\ TicketOK(k) /\ l \in Tickets
        /\ l.since = k.since /\ l.elapsed = k.elapsed
    BY <1>1, <1>4, <1>5, <2>2, <2>3, CheckedFields
  <2>5. l.elapsed \in Nat /\ l.elapsed <= k.elapsed + ToCome
    BY <2>4, TicketType, TimesType
  <2>6. InBound(l)' BY <1>1, <2>4, <2>5, ClosedTicket
  <2>7. e.ticket = l /\ e.reason \in Reasons BY <1>8, <2>1, <2>2, <2>3
  <2>8. PICK m : m = e.ticket OBVIOUS
  <2>. QED BY <2>4, <2>6, <2>7
<1>13. TypeOK'
  <2>1. Len(tickets') \in Nat /\ Len(tickets) \in Nat BY <1>11, SlotsType, LenProperties
  <2>2. Len(tickets') <= MaxTickets BY <1>11, <2>1, ConstantsType DEF TypeOK
  <2>. QED BY <1>1, <1>11, <1>12, <2>2 DEF TypeOK
<1>14. ASSUME NEW l \in Open'
       PROVE  /\ TicketOK(l)'
              /\ l.since >= synced /\ ~l.hindered => MovingStopsHold(l, candle)
  <2>1. PICK j \in Slots : l = hind[j] BY <1>11, <1>14 DEF Open, Slots
  <2>2. PICK k, hit : k = tickets[j] /\ hit = (j \in due) OBVIOUS
  <2>3. k \in Tickets /\ TicketOK(k) /\ hit \in BOOLEAN BY <1>4, <2>2
  <2>4. Verdict(k, candle) # "none" => hit BY <1>7, <2>2
  <2>5. l = [Checked(k, candle) EXCEPT !.hindered = @ \/ hit]
    BY <1>5, <1>10, <2>1, <2>2
  <2>6. l \in Tickets BY <1>10, <2>1, ElementOfSeq, LenProperties
  <2>. QED BY <2>3, <2>4, <2>5, <2>6, CheckedTicket
<1>15. TicketsOK' BY <1>14 DEF TicketsOK
<1>16. ExitsOK' BY <1>12 DEF ExitsOK
<1>17. StopsProtect'
  <2>1. \A i \in DOMAIN tickets' : tickets'[i] \in Open' BY DEF Open, Slots
  <2>2. ASSUME NEW i \in DOMAIN tickets',
               tickets'[i].since >= synced', ~tickets'[i].hindered
        PROVE  MovingStopsHold(tickets'[i], candle')
    BY <1>1, <1>14, <2>1, <2>2
  <2>. QED BY <2>2, Zenon DEF StopsProtect, MovingStopsHold
<1>. QED BY <1>13, <1>15, <1>16, <1>17 DEF Kept

(***************************************************************************)
(* What a pass over the expired tickets leaves and reports.                *)
(***************************************************************************)
LEMMA ExpiryKeeps ==
  ASSUME TypeOK, TicketsOK, UNCHANGED <<time, candle, synced>>,
         stage # "idle", ~Ticking', stage' \in {"stack", "idle"},
         NEW tick \in Nat, Ticking => tick = 1,
         ToCome' \in Nat, ToCome = ToCome' + tick,
         NEW done \in Taken(Due(Aged(tick))),
         exited' = ExitsByExpiry(Aged(tick), done)
  PROVE  /\ LeftByExpiry(Aged(tick), done) \in Seq(Tickets)
         /\ Len(LeftByExpiry(Aged(tick), done)) <= MaxTickets
         /\ \A i \in DOMAIN LeftByExpiry(Aged(tick), done) :
              \A l : l = LeftByExpiry(Aged(tick), done)[i] => TicketOK(l)'
         /\ \A e \in exited' : e.reason \in Reasons /\ e.ticket \in Tickets
         /\ ExitsOK'
<1>. DEFINE left == LeftByExpiry(Aged(tick), done)
<1>1. /\ left \in Seq(Tickets) /\ Len(left) <= Len(tickets)
      /\ \A i \in DOMAIN left : \E j \in Slots : Outlives(left[i], tickets[j], tick)
  BY ExpiryLeaves
<1>2. \A i \in Slots : tickets[i] \in Tickets /\ TicketOK(tickets[i])
  BY SlotsType DEF Open, TicketsOK
<1>3. Len(left) <= MaxTickets
  <2>1. Len(left) \in Nat /\ Len(tickets) \in Nat BY <1>1, SlotsType, LenProperties
  <2>. QED BY <1>1, <2>1, ConstantsType DEF TypeOK
<1>. HIDE DEF left
<1>4. ASSUME NEW i \in DOMAIN left, NEW l, l = left[i] PROVE TicketOK(l)'
  <2>1. PICK j \in Slots : Outlives(l, tickets[j], tick) BY <1>1, <1>4
  <2>2. PICK k : k = tickets[j] OBVIOUS
  <2>3. k \in Tickets /\ TicketOK(k) /\ Outlives(l, k, tick) BY <1>2, <2>1, <2>2
  <2>. QED BY <2>3, ExpiryTicket
<1>5. done \subseteq Slots /\ \A i \in Slots :
        /\ Aged(tick)[i] \in Tickets
        /\ Aged(tick)[i] = [tickets[i] EXCEPT !.elapsed = @ + tick]
  BY AgedBook, ElementOfSeq, LenProperties DEF Taken, Due
<1>6. ASSUME NEW e \in exited'
      PROVE  e.reason \in Reasons /\ e.ticket \in Tickets /\ InBound(e.ticket)'
  <2>1. PICK i \in done : e = [reason |-> "hold_expiry", ticket |-> Aged(tick)[i]]
    BY <1>6 DEF ExitsByExpiry
  <2>2. PICK k, l : k = tickets[i] /\ l = Aged(tick)[i] OBVIOUS
  <2>3. k \in Tickets /\ TicketOK(k) /\ l \in Tickets BY <1>2, <1>5, <2>1, <2>2
  <2>4. l = [k EXCEPT !.elapsed = @ + tick] BY <1>5, <2>1, <2>2
  <2>5. l.since = k.since /\ l.elapsed = k.elapsed + tick BY <2>3, <2>4 DEF Tickets
  <2>6. l.elapsed \in Nat /\ l.elapsed <= k.elapsed + ToCome
    BY <2>3, <2>5, TicketType
  <2>7. InBound(l)' BY <2>3, <2>5, <2>6, ClosedTicket
  <2>8. e.ticket = l /\ e.reason \in Reasons BY <2>1, <2>2 DEF Reasons
  <2>. QED BY <2>3, <2>7, <2>8
<1>7. ExitsOK' BY <1>6 DEF ExitsOK
<1>. QED BY <1>1, <1>3, <1>4, <1>6, <1>7 DEF left

LEMMA EnforceTimeExitsKeeps ==
  ASSUME TypeOK, TicketsOK, EnforceTimeExits
  PROVE  Kept
<1>1. /\ stage = "expiry" /\ stage' = "stack" /\ UNCHANGED <<time, candle, synced>>
  BY DEF EnforceTimeExits
<1>2. PICK done \in Taken(Due(Aged(LoopTick))) :
        /\ tickets' = LeftByExpiry(Aged(LoopTick), done)
        /\ exited' = ExitsByExpiry(Aged(LoopTick), done)
  BY DEF EnforceTimeExits
<1>3. /\ LoopTick \in Nat /\ LoopTick = 1 /\ ToCome' \in Nat /\ ToCome = ToCome' + LoopTick
      /\ ~Ticking' /\ Ticking
  BY <1>1, ConstantsType DEF ToCome, Ticking
<1>4. /\ tickets' \in Seq(Tickets) /\ Len(tickets') <= MaxTickets
      /\ \A i \in DOMAIN tickets' : \A l : l = tickets'[i] => TicketOK(l)'
      /\ \A e \in exited' : e.reason \in Reasons /\ e.ticket \in Tickets
      /\ ExitsOK'
  BY <1>1, <1>2, <1>3, ExpiryKeeps
<1>5. TypeOK' BY <1>1, <1>4, Zenon DEF TypeOK
<1>6. TicketsOK'
  <2>1. ASSUME NEW l \in Open' PROVE TicketOK(l)' BY <1>4, <2>1 DEF Open, Slots
  <2>. QED BY <2>1 DEF TicketsOK
<1>7. StopsProtect' BY <1>1 DEF StopsProtect
<1>. QED BY <1>4, <1>5, <1>6, <1>7 DEF Kept

LEMMA NoDirectionKeeps ==
  ASSUME TypeOK, TicketsOK, NoDirection
  PROVE  Kept
<1>1. /\ stage = "stack" /\ stage' = "idle" /\ exited' = {}
      /\ UNCHANGED <<time, candle, tickets, synced>>
  BY DEF NoDirection, Quiet
<1>2. TypeOK' BY <1>1, Zenon DEF TypeOK
<1>3. ASSUME NEW k \in Open' PROVE TicketOK(k)'
  <2>1. k \in Tickets /\ TicketOK(k)
    BY <1>1, <1>3, SlotsType DEF Open, Slots, TicketsOK
  <2>2. StopsCarry(k)' BY <1>1, <2>1 DEF TicketOK, StopsCarry
  <2>3. ~Ticking' /\ ~Ticking /\ ToCome' \in Nat /\ ToCome' <= ToCome
    BY <1>1, ConstantsType DEF Ticking, ToCome
  <2>4. UNCHANGED <<time, synced>> /\ stage # "idle" BY <1>1
  <2>5. k.hindered \/ (~k.hindered /\ (Ticking' <=> Ticking)) BY <2>3
  <2>. QED BY <2>1, <2>2, <2>3, <2>4, <2>5, SkippedTicket, Zenon
<1>4. TicketsOK' BY <1>3 DEF TicketsOK
<1>5. ExitsOK' /\ StopsProtect' BY <1>1 DEF ExitsOK, StopsProtect
<1>. QED BY <1>2, <1>4, <1>5 DEF Kept

LEMMA ExecuteAllocationKeeps ==
  ASSUME TypeOK, TicketsOK, ExecuteAllocation
  PROVE  Kept
<1>1. /\ stage = "stack" /\ stage' = "idle" /\ UNCHANGED <<time, candle, synced>>
  BY DEF ExecuteAllocation
<1>2. PICK done \in Taken(Due(Aged(StackTick))) :
        LET left == LeftByExpiry(Aged(StackTick), done)
        IN  /\ tickets' \in {left} \cup Entries(left)
            /\ exited' = ExitsByExpiry(Aged(StackTick), done)
  BY DEF ExecuteAllocation
<1>. DEFINE left == LeftByExpiry(Aged(StackTick), done)
<1>3. /\ StackTick \in Nat /\ ToCome' \in Nat /\ ToCome = ToCome' + StackTick
      /\ ~Ticking' /\ ~Ticking
  BY <1>1, ConstantsType DEF ToCome, Ticking
<1>4. /\ left \in Seq(Tickets) /\ Len(left) <= MaxTickets
      /\ \A i \in DOMAIN left : \A l : l = left[i] => TicketOK(l)'
      /\ \A e \in exited' : e.reason \in Reasons /\ e.ticket \in Tickets
      /\ ExitsOK'
  BY <1>1, <1>2, <1>3, ExpiryKeeps
<1>5. tickets' = left \/ \E dir \in {1, -1} : tickets' = Append(left, Opened(dir)) /\ HasRoom(left)
  BY <1>2 DEF Entries
<1>. HIDE DEF left
<1>6. /\ tickets' \in Seq(Tickets) /\ Len(tickets') <= MaxTickets
      /\ \A i \in DOMAIN tickets' : \A l : l = tickets'[i] => TicketOK(l)'
  <2>1. CASE tickets' = left BY <1>4, <2>1
  <2>2. ASSUME NEW dir \in {1, -1}, tickets' = Append(left, Opened(dir)), HasRoom(left)
        PROVE  /\ tickets' \in Seq(Tickets) /\ Len(tickets') <= MaxTickets
               /\ \A i \in DOMAIN tickets' : \A l : l = tickets'[i] => TicketOK(l)'
    <3>1. PICK k : k = Opened(dir) OBVIOUS
    <3>2. k \in Tickets /\ TicketOK(k)' BY <1>1, <3>1, OpenedTicket
    <3>3. /\ tickets' \in Seq(Tickets) /\ Len(tickets') = Len(left) + 1
          /\ tickets'[Len(left) + 1] = k
          /\ \A i \in 1..Len(left) : tickets'[i] = left[i]
      BY <1>4, <2>2, <3>1, <3>2, AppendProperties
    <3>4. Len(left) \in Nat /\ DOMAIN left = 1..Len(left) /\ DOMAIN tickets' = 1..Len(tickets')
      BY <1>4, <3>3, LenProperties
    <3>5. Len(tickets') <= MaxTickets
      BY <2>2, <3>3, <3>4, ConstantsType DEF HasRoom
    <3>6. ASSUME NEW i \in DOMAIN tickets', NEW l, l = tickets'[i] PROVE TicketOK(l)'
      <4>1. i \in DOMAIN left \/ i = Len(left) + 1 BY <3>3, <3>4, <3>6
      <4>2. CASE i \in DOMAIN left BY <1>4, <3>3, <3>4, <3>6, <4>2
      <4>3. CASE i = Len(left) + 1 BY <3>2, <3>3, <3>6, <4>3
      <4>. QED BY <4>1, <4>2, <4>3
    <3>. QED BY <3>3, <3>5, <3>6
  <2>. QED BY <1>5, <2>1, <2>2
<1>7. TypeOK' BY <1>1, <1>4, <1>6, Zenon DEF TypeOK
<1>8. TicketsOK'
  <2>1. ASSUME NEW l \in Open' PROVE TicketOK(l)' BY <1>6, <2>1 DEF Open, Slots
  <2>. QED BY <2>1 DEF TicketsOK
<1>9. StopsProtect' BY <1>1 DEF StopsProtect
<1>. QED BY <1>4, <1>7, <1>8, <1>9 DEF Kept

LEMMA StutterKeeps ==
  ASSUME IInv, UNCHANGED vars
  PROVE  IInv'
<1>1. TypeOK' BY Zenon DEF IInv, vars, TypeOK
<1>2. Open' = Open BY DEF vars, Open, Slots
<1>3. ASSUME NEW k PROVE TicketOK(k)' = TicketOK(k) /\ InBound(k)' = InBound(k)
  BY DEF vars, TicketOK, EnteredInTime, ClockAhead, ClockBehind, StopsCarry, InBound,
         Held, Mark, Extra, Counted, ToCome, Ticking
<1>4. TicketsOK' BY <1>2, <1>3 DEF IInv, TicketsOK
<1>5. exited' = exited BY DEF vars
<1>6. ExitsOK' BY <1>3, <1>5 DEF IInv, ExitsOK
<1>7. StopsProtect' BY Zenon DEF IInv, vars, StopsProtect
<1>. QED BY <1>1, <1>4, <1>6, <1>7 DEF IInv

------------------------------------------------------------------------------

LEMMA NextKeeps == IInv /\ [Next]_vars => IInv'
<1> SUFFICES ASSUME IInv, [Next]_vars PROVE IInv' OBVIOUS
<1>1. TypeOK /\ TicketsOK BY DEF IInv
<1>2. Kept => IInv' BY DEF Kept, IInv
<1>3. CASE BeginPass BY <1>1, <1>2, <1>3, BeginPassKeeps
<1>4. CASE ReconcilePortfolio BY <1>1, <1>2, <1>4, ReconcileKeeps
<1>5. CASE ReconcileRaises BY <1>1, <1>2, <1>5, ReconcileRaisesKeeps
<1>6. CASE PausedPass BY <1>1, <1>2, <1>6, PausedPassKeeps
<1>7. CASE CheckTpslExit BY <1>1, <1>2, <1>7, CheckTpslExitKeeps
<1>8. CASE EnforceTimeExits BY <1>1, <1>2, <1>8, EnforceTimeExitsKeeps
<1>9. CASE NoDirection BY <1>1, <1>2, <1>9, NoDirectionKeeps
<1>10. CASE ExecuteAllocation BY <1>1, <1>2, <1>10, ExecuteAllocationKeeps
<1>11. CASE UNCHANGED vars BY <1>11, StutterKeeps
<1>. QED
  BY <1>3, <1>4, <1>5, <1>6, <1>7, <1>8, <1>9, <1>10, <1>11 DEF Next

LEMMA InitHolds == Init => IInv
<1> SUFFICES ASSUME Init PROVE IInv OBVIOUS
<1>1. TypeOK
  BY ConstantsType, EmptySeq DEF Init, TypeOK
<1>2. Open = {} BY DEF Init, Open, Slots
<1>. QED BY <1>1, <1>2 DEF Init, IInv, TicketsOK, ExitsOK, StopsProtect

LEMMA InvariantHolds == Spec => []IInv
BY InitHolds, NextKeeps, PTL DEF Spec

(***************************************************************************)
(* The variables keep their types, and no book outgrows the cap of         *)
(* max_positions_per_pair.                                                 *)
(***************************************************************************)
THEOREM TypeCorrect == Spec => []TypeOK
<1>1. IInv => TypeOK BY DEF IInv
<1>. QED BY <1>1, InvariantHolds, PTL

(***************************************************************************)
(* Breakeven and trailing stops hold what was won: peak_price and          *)
(* breakeven_activated carry from pass to pass all that the candles of a   *)
(* ticket's life have shown, until a reconcile resets them or a close is   *)
(* refused.                                                                *)
(***************************************************************************)
THEOREM MovingStopsProtect == Spec => []StopsProtect
<1>1. IInv => StopsProtect BY DEF IInv
<1>. QED BY <1>1, InvariantHolds, PTL

(***************************************************************************)
(* elapsed_secs runs ahead of the age of a ticket by at most one tick of   *)
(* the stack a pass.                                                       *)
(***************************************************************************)
THEOREM ClocksBounded == Spec => []ClockBounded
<1>1. ASSUME IInv PROVE ClockBounded
  <2>1. TypeOK /\ TicketsOK /\ ExitsOK BY <1>1 DEF IInv
  <2>2. ASSUME NEW k \in Known PROVE InBound(k)
    <3>1. CASE k \in Open
      <4>1. k \in Tickets /\ TicketOK(k) BY <2>1, <3>1, SlotsType DEF Open, TicketsOK
      <4>. QED BY <2>1, <4>1, OpenInBound
    <3>2. CASE k \in {e.ticket : e \in exited} BY <2>1, <3>2 DEF ExitsOK
    <3>. QED BY <2>2, <3>1, <3>2 DEF Known, Open, Slots
  <2>. QED BY <2>2, Zenon DEF ClockBounded, InBound, Extra
<1>. QED BY <1>1, InvariantHolds, PTL

(***************************************************************************)
(* No ticket overstays: hold expiry closes it once the passes since its    *)
(* entry or the last reconcile have counted its hold time.                 *)
(***************************************************************************)
THEOREM NoTicketOverstays == Spec => []NoOverstay
<1>1. ASSUME IInv PROVE NoOverstay
  <2>1. TypeOK /\ TicketsOK BY <1>1 DEF IInv
  <2>2. ASSUME NEW i \in DOMAIN tickets, stage \in {"stack", "idle"}, ~tickets[i].hindered
        PROVE  time - Mark(tickets[i]) < MaxPass * (Hold - Counted(tickets[i]))
    <3>. DEFINE k == tickets[i]
                x == k.elapsed - Counted(k)
    <3>1. k \in Tickets /\ TicketOK(k) BY <2>1, <2>2, SlotsType DEF Open, Slots, TicketsOK
    <3>2. /\ time \in Nat /\ Mark(k) \in Nat /\ Counted(k) \in Nat /\ k.elapsed \in Nat
      BY <2>1, <3>1, TimesType, MarkType, TicketType
    <3>3. ~Ticking BY <2>2 DEF Ticking
    <3>4. time - Mark(k) <= MaxPass * (x + 0) /\ k.elapsed < Hold
      BY <2>2, <3>1, <3>3, Zenon DEF TicketOK, ClockBehind
    <3>. HIDE DEF k
    <3>5. x \in Int /\ x + 0 = x BY <3>2
    <3>6. Hold - k.elapsed \in Nat \ {0} /\ x + (Hold - k.elapsed) = Hold - Counted(k)
      BY <3>2, <3>4, ConstantsType
    <3>. HIDE DEF x
    <3>7. /\ MaxPass * x \in Int /\ MaxPass * (x + (Hold - k.elapsed)) \in Int
          /\ MaxPass * (x + (Hold - k.elapsed)) >= MaxPass * x + MaxPass
      BY <3>5, <3>6, ConstantsType, ProductGrows
    <3>8. time - Mark(k) <= MaxPass * x BY <3>4, <3>5, Zenon
    <3>9. time - Mark(k) < MaxPass * (x + (Hold - k.elapsed))
      BY <3>2, <3>7, <3>8, ConstantsType
    <3>. QED BY <3>6, <3>9, Zenon DEF k
  <2>. QED BY <2>2, Zenon DEF NoOverstay, Counted
<1>. QED BY <1>1, InvariantHolds, PTL

------------------------------------------------------------------------------
(* The switch *)


(***************************************************************************)
(* The key says "0" only as long as the operator last said so, or said     *)
(* something that did not reach Valkey.                                    *)
(***************************************************************************)
ClearKeyIsSaid == key = "0" => word \in {"clear", "unsaved"}

(***************************************************************************)
(* While the account stands still and was never out of sight, everything   *)
(* the daemon has seen is the account or nothing:                          *)
(*   - the summary, the sample and the breaker hold its figures or zero,   *)
(*   - an exposure once seen is not followed by a figure of zero without   *)
(*     the net asset value being zero too,                                 *)
(*   - a sample without value finds a breaker that has seen nothing.       *)
(***************************************************************************)
Seen(figures) ==
  /\ figures.nav \in {0, nav}
  /\ figures.exposure \in {0, exposure}

Steady ==
  /\ Seen(summary)
  /\ Seen(sample)
  /\ breaker.peak \in {0, nav}
  /\ breaker.dayStart \in {0, breaker.peak}
  /\ breaker.exposure \in {0, exposure}
  /\ breaker.exposure + sample.exposure > 0 =>
       summary.nav = 0 \/ summary.exposure = exposure
  /\ daemon = "checking" /\ sample.nav = 0 =>
       breaker.peak = 0 /\ breaker.exposure = 0
  /\ daemon = "checking" /\ breaker.exposure > 0 => sample.exposure = exposure

TrippedForCause ==
  daemon # "down" /\ ~moved /\ ~lapsed => Steady /\ ~breaker.tripped

(***************************************************************************)
(* A daemon that is down has seen nothing, and only a check under way has  *)
(* a sample.                                                               *)
(***************************************************************************)
DownIsFresh ==
  /\ daemon = "down" => breaker = FreshBreaker
  /\ daemon # "checking" => sample = NoSummary

SwitchInv == SwitchTypeOK /\ ClearKeyIsSaid /\ DownIsFresh /\ TrippedForCause

------------------------------------------------------------------------------
(* The thresholds *)

(***************************************************************************)
(* A figure that did not change has not lost or moved any percentage of    *)
(* itself.                                                                 *)
(***************************************************************************)
LEMMA NoShareOfNothing ==
  ASSUME NEW pct \in Nat \ {0}, NEW n \in Nat \ {0}
  PROVE  ~(0 >= pct * n)
BY SMT

LEMMA ZeroFallsNowhere ==
  ASSUME NEW to, NEW pct PROVE ~Fell(0, to, pct)
BY DEF Fell

LEMMA SameIsNoFall ==
  ASSUME NEW n \in Nat \ {0}, NEW pct \in Nat \ {0}
  PROVE  ~Fell(n, n, pct)
<1>1. (n - n) * 100 = 0 BY SMT
<1>2. QED BY <1>1, NoShareOfNothing DEF Fell

LEMMA SameIsNoMove ==
  ASSUME NEW n \in Nat \ {0}, NEW pct \in Nat \ {0}
  PROVE  ~(Distance(n, n) * 100 >= pct * n)
<1>1. Distance(n, n) * 100 = 0 BY SMT DEF Distance
<1>2. QED BY <1>1, NoShareOfNothing

LEMMA FiguresType ==
  ASSUME SwitchTypeOK
  PROVE  /\ nav \in Nat \ {0}
         /\ exposure \in Nat
         /\ summary.nav \in Nat /\ summary.exposure \in Nat
         /\ sample.nav \in Nat /\ sample.exposure \in Nat
         /\ breaker.peak \in Nat /\ breaker.dayStart \in Nat
         /\ breaker.exposure \in Nat
<1>1. Navs \subseteq Nat \ {0} /\ Exposures \subseteq Nat
  BY ThresholdsAssumption
<1>2. summary.nav \in Navs \cup {0} /\ summary.exposure \in Exposures \cup {0}
  BY DEF SwitchTypeOK, Summaries
<1>3. sample.nav \in Navs \cup {0} /\ sample.exposure \in Exposures \cup {0}
  BY DEF SwitchTypeOK, Summaries
<1>4. /\ breaker.peak \in Navs \cup {0} /\ breaker.dayStart \in Navs \cup {0}
      /\ breaker.exposure \in Exposures \cup {0}
  BY DEF SwitchTypeOK, Breakers
<1>5. nav \in Navs /\ exposure \in Exposures BY DEF SwitchTypeOK
<1>6. Navs \cup {0} \subseteq Nat /\ Exposures \cup {0} \subseteq Nat BY <1>1
<1>7. nav \in Nat \ {0} /\ exposure \in Nat BY <1>1, <1>5
<1>8. /\ summary.nav \in Nat /\ summary.exposure \in Nat
      /\ sample.nav \in Nat /\ sample.exposure \in Nat
  BY <1>2, <1>3, <1>6
<1>9. breaker.peak \in Nat /\ breaker.dayStart \in Nat /\ breaker.exposure \in Nat
  BY <1>4, <1>6
<1>10. QED BY <1>7, <1>8, <1>9

(***************************************************************************)
(* A check of a sample that Steady describes finds no breach and leaves a  *)
(* breaker that Steady describes.                                          *)
(***************************************************************************)
LEMMA SteadyCheckIsQuiet ==
  ASSUME SwitchTypeOK, Steady, daemon = "checking"
  PROVE  LET state == Refreshed(breaker, sample.nav)
         IN  /\ ~Breaches(state, sample)
             /\ state.peak \in {0, nav}
             /\ state.dayStart \in {0, state.peak}
<1> DEFINE state == Refreshed(breaker, sample.nav)
<1>1. /\ state.peak = IF sample.nav > breaker.peak THEN sample.nav ELSE breaker.peak
      /\ state.dayStart = IF breaker.dated THEN breaker.dayStart ELSE sample.nav
      /\ state.exposure = breaker.exposure
      /\ state.snapped = breaker.snapped
  BY DEF Refreshed, SwitchTypeOK, Breakers
<1> HIDE DEF state
<1>2. sample.nav \in {0, nav} /\ sample.exposure \in {0, exposure}
  BY DEF Steady, Seen
<1>3. state.peak \in {0, nav} /\ state.dayStart \in {0, state.peak}
  BY <1>1, <1>2, FiguresType DEF Steady
<1>4. sample.nav = 0 => state.peak = 0 /\ state.dayStart = 0
  BY <1>1, <1>2, FiguresType DEF Steady
<1>5. ~Fell(state.dayStart, sample.nav, DailyLossPct)
  BY <1>2, <1>3, <1>4, ZeroFallsNowhere, SameIsNoFall, FiguresType, ThresholdsAssumption
<1>6. ~Fell(state.peak, sample.nav, MaxDrawdownPct)
  BY <1>2, <1>3, <1>4, ZeroFallsNowhere, SameIsNoFall, FiguresType, ThresholdsAssumption
<1>7. ASSUME state.exposure > 0
      PROVE  ~(Distance(sample.exposure, state.exposure) * 100
                 >= RapidChangePct * state.exposure)
  <2>1. state.exposure \in Nat \ {0} /\ sample.exposure = state.exposure
    BY <1>1, <1>7, FiguresType DEF Steady
  <2>2. QED BY <2>1, SameIsNoMove, ThresholdsAssumption
<1>8. ~Breaches(state, sample)
  BY <1>5, <1>6, <1>7 DEF Breaches
<1>9. QED BY <1>3, <1>8 DEF state

------------------------------------------------------------------------------
(* Types *)

LEMMA RefreshedType ==
  ASSUME SwitchTypeOK
  PROVE  Refreshed(breaker, sample.nav) \in Breakers
BY DEF SwitchTypeOK, Refreshed, Breakers, Summaries

LEMMA TypeKept == SwitchTypeOK /\ [SwitchNext]_switchVars => SwitchTypeOK'
<1> SUFFICES ASSUME SwitchTypeOK, [SwitchNext]_switchVars PROVE SwitchTypeOK' OBVIOUS
<1> USE DEF SwitchTypeOK, account, store, process, health, ghosts
<1>1. CASE ServiceStarts BY <1>1 DEF ServiceStarts, Loaded
<1>2. CASE ServiceStops BY <1>2 DEF ServiceStops
<1>3. CASE PublishRisk
  BY <1>3 DEF PublishRisk, Summaries
<1>4. ASSUME NEW enabled \in BOOLEAN, SetKillSwitch(enabled) PROVE SwitchTypeOK'
  BY <1>4 DEF SetKillSwitch
<1>5. CASE DaemonStarts BY <1>5 DEF DaemonStarts, FreshBreaker, Breakers
<1>6. CASE DaemonStops
  BY <1>6 DEF DaemonStops, FreshBreaker, Breakers, NoSummary, Summaries
<1>7. CASE GatherRisk BY <1>7 DEF GatherRisk, NoSummary, Summaries
<1>8. CASE CheckRisk
  <2> DEFINE state == Refreshed(breaker, sample.nav)
             breach == Breaches(state, sample)
  <2>1. state \in Breakers BY RefreshedType
  <2>2. breach \in BOOLEAN BY DEF Breaches
  <2>3. breaker' = [state EXCEPT !.exposure = sample.exposure, !.snapped = TRUE,
                                 !.tripped = @ \/ breach]
    BY <1>8 DEF CheckRisk
  <2>4. key' \in {"none", "0", "1"} BY <1>8 DEF CheckRisk
  <2> HIDE DEF state, breach
  <2>5. breaker' \in Breakers BY <2>1, <2>2, <2>3 DEF Breakers, Summaries
  <2>6. QED BY <1>8, <2>4, <2>5 DEF CheckRisk, NoSummary, Summaries
<1>9. CASE SeedDefaults BY <1>9 DEF SeedDefaults
<1>10. CASE AccountMoves BY <1>10 DEF AccountMoves
<1>11. CASE DayTurns
  <2>1. breaker' = [breaker EXCEPT !.dated = FALSE] /\ breaker \in Breakers
    BY <1>11 DEF DayTurns
  <2>2. breaker' \in Breakers BY <2>1 DEF Breakers
  <2>3. QED BY <1>11, <2>2 DEF DayTurns
<1>12. CASE SummaryExpires BY <1>12 DEF SummaryExpires, NoSummary, Summaries
<1>13. CASE ValkeyFails BY <1>13 DEF ValkeyFails
<1>14. CASE UNCHANGED switchVars BY <1>14 DEF switchVars
<1>15. QED
  BY <1>1, <1>2, <1>3, <1>4, <1>5, <1>6, <1>7, <1>8, <1>9, <1>10, <1>11, <1>12,
     <1>13, <1>14 DEF SwitchNext

------------------------------------------------------------------------------
(* Who clears the key *)

LEMMA ClearKeyKept == ClearKeyIsSaid /\ [SwitchNext]_switchVars => ClearKeyIsSaid'
<1> SUFFICES ASSUME ClearKeyIsSaid, [SwitchNext]_switchVars PROVE ClearKeyIsSaid' OBVIOUS
<1> USE DEF ClearKeyIsSaid, account, store, process, health, ghosts
<1>1. ASSUME NEW enabled \in BOOLEAN, SetKillSwitch(enabled) PROVE ClearKeyIsSaid'
  BY <1>1 DEF SetKillSwitch
<1>2. CASE CheckRisk BY <1>2 DEF CheckRisk
<1>3. CASE SeedDefaults BY <1>3 DEF SeedDefaults
<1>4. CASE ServiceStarts \/ ServiceStops \/ PublishRisk
  BY <1>4 DEF ServiceStarts, ServiceStops, PublishRisk
<1>5. CASE DaemonStarts \/ DaemonStops \/ GatherRisk
  BY <1>5 DEF DaemonStarts, DaemonStops, GatherRisk
<1>6. CASE AccountMoves \/ DayTurns \/ SummaryExpires \/ ValkeyFails
  BY <1>6 DEF AccountMoves, DayTurns, SummaryExpires, ValkeyFails
<1>7. CASE UNCHANGED switchVars BY <1>7 DEF switchVars
<1>8. QED BY <1>1, <1>2, <1>3, <1>4, <1>5, <1>6, <1>7 DEF SwitchNext

(***************************************************************************)
(* A step that lets the service trade is the operator's, or the start of a *)
(* service that found the key cleared.                                     *)
(***************************************************************************)
LEMMA StepResumesByOperator ==
  ASSUME SwitchTypeOK, ClearKeyIsSaid, [SwitchNext]_switchVars, ~Trading, Trading'
  PROVE  word' \in {"clear", "unsaved"}
<1> USE DEF Trading, account, store, process, health, ghosts
<1>1. CASE ServiceStarts
  BY <1>1 DEF ServiceStarts, Loaded, ClearKeyIsSaid
<1>2. ASSUME NEW enabled \in BOOLEAN, SetKillSwitch(enabled)
      PROVE  word' \in {"clear", "unsaved"}
  BY <1>2 DEF SetKillSwitch, SwitchTypeOK
<1>3. CASE ServiceStops BY <1>3 DEF ServiceStops
<1>4. CASE PublishRisk \/ SeedDefaults
  BY <1>4 DEF PublishRisk, SeedDefaults
<1>5. CASE DaemonStarts \/ DaemonStops \/ GatherRisk \/ CheckRisk
  BY <1>5 DEF DaemonStarts, DaemonStops, GatherRisk, CheckRisk
<1>6. CASE AccountMoves \/ DayTurns \/ SummaryExpires \/ ValkeyFails
  BY <1>6 DEF AccountMoves, DayTurns, SummaryExpires, ValkeyFails
<1>7. CASE UNCHANGED switchVars BY <1>7 DEF switchVars
<1>8. QED BY <1>1, <1>2, <1>3, <1>4, <1>5, <1>6, <1>7 DEF SwitchNext

------------------------------------------------------------------------------
(* What the daemon has seen *)

SteadyDaemon == DownIsFresh /\ TrippedForCause

LEMMA DaemonStartsKeeps ==
  ASSUME SwitchTypeOK, SteadyDaemon, DaemonStarts
  PROVE  SteadyDaemon'
<1>1. /\ daemon' = "idle" /\ breaker' = FreshBreaker /\ sample' = NoSummary
      /\ UNCHANGED <<nav, exposure, summary>>
  BY DEF DaemonStarts, SteadyDaemon, DownIsFresh, account, store
<1>2. ~moved' => summary.nav \in {0, nav} /\ summary.exposure \in {0, exposure}
  BY DEF DaemonStarts
<1>3. ~moved' => Steady'
  BY <1>1, <1>2, FiguresType DEF Steady, Seen, FreshBreaker, NoSummary
<1>4. QED
  BY <1>1, <1>3 DEF SteadyDaemon, DownIsFresh, TrippedForCause, FreshBreaker

LEMMA GatherRiskKeeps ==
  ASSUME SwitchTypeOK, SteadyDaemon, GatherRisk
  PROVE  SteadyDaemon'
<1>1. /\ daemon = "idle" /\ daemon' = "checking"
      /\ UNCHANGED <<nav, exposure, summary, breaker, moved>>
  BY DEF GatherRisk, account, store
<1>2. sample' = summary \/ sample' = NoSummary BY DEF GatherRisk
<1>3. ~lapsed' =>
        ~lapsed /\ ~(sample'.nav = 0 /\ breaker.peak + breaker.exposure > 0)
  BY DEF GatherRisk
<1>4. ASSUME Steady, ~lapsed' PROVE Steady'
  <2>1. Seen(summary)' /\ Seen(sample)'
    BY <1>1, <1>2, <1>4, FiguresType DEF Steady, Seen, NoSummary
  <2>2. sample'.nav = 0 => breaker.peak = 0 /\ breaker.exposure = 0
    BY <1>3, <1>4, FiguresType
  <2>3. breaker.exposure > 0 => sample'.exposure = exposure
    BY <1>2, <2>2, <1>4, FiguresType DEF Steady, Seen, NoSummary
  <2>4. breaker.exposure + sample'.exposure > 0 =>
          summary.nav = 0 \/ summary.exposure = exposure
    BY <1>2, <1>4, FiguresType DEF Steady, Seen, NoSummary
  <2>5. QED BY <1>1, <1>4, <2>1, <2>2, <2>3, <2>4 DEF Steady
<1>5. QED
  BY <1>1, <1>3, <1>4 DEF SteadyDaemon, DownIsFresh, TrippedForCause

LEMMA CheckRiskKeeps ==
  ASSUME SwitchTypeOK, SteadyDaemon, CheckRisk
  PROVE  SteadyDaemon'
<1> DEFINE state == Refreshed(breaker, sample.nav)
           breach == Breaches(state, sample)
<1>1. state \in Breakers BY RefreshedType
<1>2. /\ breaker' = [state EXCEPT !.exposure = sample.exposure, !.snapped = TRUE,
                                  !.tripped = @ \/ breach]
      /\ state.tripped = breaker.tripped
  BY DEF CheckRisk, Refreshed, SwitchTypeOK, Breakers
<1>3. daemon = "checking" /\ daemon' = "idle" /\ sample' = NoSummary
  BY DEF CheckRisk
<1>4. UNCHANGED <<nav, exposure, summary, moved, lapsed>>
  BY DEF CheckRisk, account, ghosts
<1> HIDE DEF state, breach
<1>5. /\ breaker'.peak = state.peak
      /\ breaker'.dayStart = state.dayStart
      /\ breaker'.exposure = sample.exposure
      /\ breaker'.tripped = (breaker.tripped \/ breach)
  BY <1>1, <1>2 DEF Breakers
<1>6. ASSUME ~moved, ~lapsed PROVE Steady' /\ ~breaker'.tripped
  <2>1. Steady /\ ~breaker.tripped
    BY <1>3, <1>6 DEF SteadyDaemon, TrippedForCause
  <2>2. ~breach /\ state.peak \in {0, nav} /\ state.dayStart \in {0, state.peak}
    BY <1>3, <2>1, SteadyCheckIsQuiet DEF state, breach
  <2>3. ~breaker'.tripped BY <1>5, <2>1, <2>2
  <2>4. Steady'
    BY <1>3, <1>4, <1>5, <2>1, <2>2, FiguresType DEF Steady, Seen, NoSummary
  <2>5. QED BY <2>3, <2>4
<1>7. QED
  BY <1>3, <1>4, <1>6 DEF SteadyDaemon, DownIsFresh, TrippedForCause

LEMMA SteadyKept ==
  ASSUME SwitchTypeOK, SteadyDaemon, [SwitchNext]_switchVars
  PROVE  SteadyDaemon'
<1> USE DEF account, store, process, health, ghosts
<1>1. CASE DaemonStarts BY <1>1, DaemonStartsKeeps DEF DaemonStarts
<1>2. CASE GatherRisk BY <1>2, GatherRiskKeeps
<1>3. CASE CheckRisk BY <1>3, CheckRiskKeeps
<1>4. CASE DaemonStops
  BY <1>4 DEF DaemonStops, SteadyDaemon, DownIsFresh, TrippedForCause
<1>5. CASE PublishRisk
  BY <1>5, FiguresType
  DEF PublishRisk, SteadyDaemon, DownIsFresh, TrippedForCause, Steady, Seen
<1>6. CASE SummaryExpires
  BY <1>6
  DEF SummaryExpires, SteadyDaemon, DownIsFresh, TrippedForCause, Steady, Seen, NoSummary
<1>7. CASE AccountMoves
  BY <1>7 DEF AccountMoves, SteadyDaemon, DownIsFresh, TrippedForCause
<1>8. CASE DayTurns
  BY <1>8, FiguresType
  DEF DayTurns, SteadyDaemon, DownIsFresh, TrippedForCause, Steady, Seen,
      FreshBreaker, SwitchTypeOK, Breakers
<1>9. UNCHANGED <<nav, exposure, summary, sample, breaker, daemon, moved, lapsed>>
        => SteadyDaemon'
  BY DEF SteadyDaemon, DownIsFresh, TrippedForCause, Steady, Seen
<1>10. CASE \/ ServiceStarts \/ ServiceStops \/ SeedDefaults \/ ValkeyFails
            \/ UNCHANGED switchVars
  BY <1>9, <1>10 DEF ServiceStarts, ServiceStops, SeedDefaults, ValkeyFails, switchVars
<1>11. ASSUME NEW enabled \in BOOLEAN, SetKillSwitch(enabled) PROVE SteadyDaemon'
  BY <1>9, <1>11 DEF SetKillSwitch
<1>12. QED
  BY <1>1, <1>2, <1>3, <1>4, <1>5, <1>6, <1>7, <1>8, <1>10, <1>11 DEF SwitchNext

------------------------------------------------------------------------------

LEMMA SwitchInvStarts == SwitchInit => SwitchInv
<1> SUFFICES ASSUME SwitchInit PROVE SwitchInv OBVIOUS
<1>1. NoSummary \in Summaries BY DEF NoSummary, Summaries
<1>2. FreshBreaker \in Breakers BY DEF FreshBreaker, Breakers
<1>3. SwitchTypeOK BY <1>1, <1>2 DEF SwitchInit, SwitchTypeOK
<1>4. ClearKeyIsSaid /\ DownIsFresh /\ TrippedForCause
  BY DEF SwitchInit, ClearKeyIsSaid, DownIsFresh, TrippedForCause
<1>5. QED BY <1>3, <1>4 DEF SwitchInv

LEMMA SwitchInvHolds == SwitchSpec => []SwitchInv
<1>1. SwitchInv /\ [SwitchNext]_switchVars => SwitchInv'
  BY TypeKept, ClearKeyKept, SteadyKept DEF SwitchInv, SteadyDaemon
<1>2. QED BY SwitchInvStarts, <1>1, PTL DEF SwitchSpec

(***************************************************************************)
(* The variables keep their types.                                         *)
(***************************************************************************)
THEOREM SwitchTypeCorrect == SwitchSpec => []SwitchTypeOK
<1>1. SwitchInv => SwitchTypeOK BY DEF SwitchInv
<1>2. QED BY <1>1, SwitchInvHolds, PTL

(***************************************************************************)
(* Trading resumes on the operator's word only, whatever restarts, is      *)
(* seeded, trips or fails in between: _load_kill_switch_state and the      *)
(* daemon never undo what was said, unless Valkey was away.                *)
(***************************************************************************)
THEOREM OperatorResumes == SwitchSpec => ResumesByOperator
<1>1. SwitchInv /\ [SwitchNext]_switchVars =>
        [~Trading /\ Trading' => word' \in {"clear", "unsaved"}]_switchVars
  BY StepResumesByOperator DEF SwitchInv
<1>2. QED BY <1>1, SwitchInvHolds, PTL DEF SwitchSpec, ResumesByOperator

(***************************************************************************)
(* The circuit breaker of the health daemon trips on an account that moved,*)
(* or after it lost sight of the account, and never else: figures that     *)
(* arrive late, twice, or of an account held at zero breach no threshold.  *)
(***************************************************************************)
THEOREM BreakerTripsForCause == SwitchSpec => []TripHasCause
<1>1. SwitchInv => TripHasCause
  BY DEF SwitchInv, SwitchTypeOK, DownIsFresh, TrippedForCause, TripHasCause, FreshBreaker
<1>2. QED BY <1>1, SwitchInvHolds, PTL

===============================================================================
