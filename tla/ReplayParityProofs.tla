-------------------------- MODULE ReplayParityProofs --------------------------
(***************************************************************************)
(* Both replays keep the contract of a replay, and do the same as long as  *)
(* the sweep does not look at the trend, for every set of candles, gates   *)
(* and hazards and every parameter set.  Each is shown to make the same    *)
(* move on the book it represents, the move that enters the first free     *)
(* slot, and the contract allows that move.                                *)
(***************************************************************************)
EXTENDS ReplayParity, FiniteSetTheorems, NaturalsInduction, WellFoundedInduction, TLAPS

------------------------------------------------------------------------------
(* Positions *)

Position == [dir : {-1, 1}, entry : Closes, held : Nat, best : Nat]

Books == [Slots -> Position \cup {Free}]

OneSided(book) ==
  \A i, j \in Slots : book[i] # Free /\ book[j] # Free => book[i].dir = book[j].dir

(***************************************************************************)
(* The move that both replays make.                                        *)
(***************************************************************************)
Aged(book, c) ==
  [i \in Slots |-> IF book[i] = Free THEN Free ELSE Contract!Older(book[i], c)]

Gone(book, c, h) ==
  {i \in Slots : book[i] # Free /\ Contract!Ends(Aged(book, c)[i], c, h)}

Left(book, c, h) ==
  [i \in Slots |-> IF i \in Gone(book, c, h) THEN Free ELSE Aged(book, c)[i]]

Ready(ticks) == IF ticks > 0 THEN ticks - 1 ELSE 0

Lets(g, st) ==
  /\ g.action # 0 /\ g.sound
  /\ IF MeanReversion THEN g.hazard >= HazardLimit ELSE g.hazard <= HazardLimit
  /\ MeanReversion /\ RequireStPeak => st > 0 /\ g.tension < st
  /\ UseRegime => g.aligned

Opens(left, ticks, st, g) ==
  /\ Lets(g, st) /\ Ready(ticks) = 0
  /\ \E i \in Slots : left[i] = Free
  /\ \A i \in Slots : left[i] # Free => left[i].dir = Contract!Side(g)

FirstFree(left) ==
  CHOOSE i \in Slots : left[i] = Free /\ \A j \in Slots : left[j] = Free => i <= j

Moved(left, opens, c, g) ==
  IF opens THEN [left EXCEPT ![FirstFree(left)] = Contract!Opening(g, c)] ELSE left

Results(book, c, h) ==
  [i \in Slots |->
     IF i \in Gone(book, c, h)
     THEN [dir |-> Aged(book, c)[i].dir, entry |-> Aged(book, c)[i].entry,
           held |-> Aged(book, c)[i].held, exit |-> Contract!ExitAt(Aged(book, c)[i], c)]
     ELSE NoTrade]

------------------------------------------------------------------------------
(* Facts about the data *)

LEMMA CandleType ==
  ASSUME NEW c \in Candles
  PROVE  /\ c.high \in Nat \ {0} /\ c.low \in Nat \ {0} /\ c.close \in Nat \ {0}
         /\ c.low <= c.close /\ c.close <= c.high
         /\ c.close \in Closes
  BY ReplayAssumption DEF Closes

(***************************************************************************)
(* An entry price is a close: no candle is 49 times away from it.          *)
(***************************************************************************)
LEMMA EntryType ==
  ASSUME NEW e \in Closes, NEW c \in Candles
  PROVE  /\ e \in Nat \ {0}
         /\ c.high - e < 49 * e /\ e - c.low < e
         /\ c.high < 50 * e /\ c.low > 0
<1>1. PICK d \in Candles : e = d.close
  BY DEF Closes
<1>2. c.high < 50 * d.low
  BY PricesAssumption
<1>. QED
  BY <1>1, <1>2, CandleType

LEMMA GateType ==
  ASSUME NEW g \in Gates \cup {NoGate}
  PROVE  g.action \in {-1, 0, 1} /\ g.hazard \in Nat /\ g.tension \in Nat
         /\ g.sound \in BOOLEAN /\ g.aligned \in BOOLEAN
<1>1. CASE g \in Gates
  <2>1. g \in [action : {-1, 0, 1}, hazard : Nat, sound : BOOLEAN,
               tension : Nat, aligned : BOOLEAN, admit : BOOLEAN]
    BY <1>1, ReplayAssumption
  <2>. QED
    BY <2>1
<1>2. CASE g = NoGate
  BY <1>2, SMT DEF NoGate
<1>. QED
  BY <1>1, <1>2

(***************************************************************************)
(* The sign of the sum of the directions of a book on one side.            *)
(***************************************************************************)
LEMMA SignOfSum ==
  ASSUME NEW L, L \subseteq Slots, NEW S, S \subseteq Slots, L = {} \/ S = {}
  PROVE  /\ Cardinality(L) - Cardinality(S) > 0 <=> L # {}
         /\ Cardinality(L) - Cardinality(S) < 0 <=> S # {}
<1>1. IsFiniteSet(Slots)
  BY FS_Interval, ReplayAssumption DEF Slots
<1>2. IsFiniteSet(L) /\ IsFiniteSet(S)
  BY <1>1, FS_Subset
<1>3. Cardinality(L) \in Nat /\ Cardinality(S) \in Nat
  BY <1>2, FS_CardinalityType
<1>4. (Cardinality(L) = 0 <=> L = {}) /\ (Cardinality(S) = 0 <=> S = {})
  BY <1>2, FS_EmptySet
<1>. QED
  BY <1>3, <1>4

(***************************************************************************)
(* When a slot is free there is a first one.                               *)
(***************************************************************************)
LEMMA FirstOf ==
  ASSUME NEW T, T \subseteq Slots, T # {}
  PROVE  \E i \in T : \A j \in T : i <= j
<1>. DEFINE R == OpToRel(<, Nat)
<1>1. T \subseteq Nat
  BY ReplayAssumption DEF Slots
<1>2. IsWellFoundedOn(R, Nat)
  BY NatLessThanWellFounded, Zenon
<1>3. \A x, y \in Nat : x < y => <<x, y>> \in R
  BY Zenon DEF OpToRel
<1>. HIDE DEF R
<1>4. PICK i \in T : \A j \in T : ~(<<j, i>> \in R)
  BY <1>1, <1>2, WFMin, Zenon
<1>5. \A j \in T : ~(j < i)
  BY <1>1, <1>3, <1>4, Zenon
<1>6. \A j \in T : i <= j
  BY <1>1, <1>5
<1>. QED
  BY <1>6, Zenon

------------------------------------------------------------------------------
(* The move keeps a book a book *)

LEMMA FreeIsNoPosition == Free \notin Position
  BY DEF Free, Position

(***************************************************************************)
(* A position is its four fields.                                          *)
(***************************************************************************)
LEMMA SamePosition ==
  ASSUME NEW p \in Position, NEW q \in Position,
         p.dir = q.dir, p.entry = q.entry, p.held = q.held, p.best = q.best
  PROVE  p = q
  BY DEF Position

LEMMA OlderType ==
  ASSUME NEW p \in Position, NEW c \in Candles
  PROVE  /\ Contract!Older(p, c) \in Position
         /\ Contract!Older(p, c).dir = p.dir
         /\ Contract!Older(p, c).entry = p.entry
         /\ Contract!Older(p, c).held = p.held + 1
         /\ Contract!Older(p, c).best
            = IF Contract!For(p, c) > p.best THEN Contract!For(p, c) ELSE p.best
<1>1. p.entry \in Nat /\ p.dir \in {-1, 1} /\ p.best \in Nat /\ p.held \in Nat
  BY EntryType DEF Position
<1>2. c.high \in Nat /\ c.low \in Nat
  BY CandleType
<1>3. Contract!For(p, c) \in Int
  BY <1>1, <1>2 DEF Contract!For
<1>. DEFINE b == IF Contract!For(p, c) > p.best THEN Contract!For(p, c) ELSE p.best
<1>4. b \in Nat /\ p.held + 1 \in Nat
  BY <1>1, <1>3
<1>5. Contract!Older(p, c) = [p EXCEPT !.held = p.held + 1, !.best = b]
  BY DEF Contract!Older
<1>. HIDE DEF b
<1>6. /\ [p EXCEPT !.held = p.held + 1, !.best = b] \in Position
      /\ [p EXCEPT !.held = p.held + 1, !.best = b].dir = p.dir
      /\ [p EXCEPT !.held = p.held + 1, !.best = b].entry = p.entry
      /\ [p EXCEPT !.held = p.held + 1, !.best = b].held = p.held + 1
      /\ [p EXCEPT !.held = p.held + 1, !.best = b].best = b
  BY <1>4 DEF Position
<1>. QED
  BY <1>5, <1>6 DEF b

LEMMA AgedType ==
  ASSUME NEW book \in Books, NEW c \in Candles, NEW h \in Hazards
  PROVE  /\ Aged(book, c) \in Books /\ Left(book, c, h) \in Books
         /\ \A i \in Slots : Left(book, c, h)[i] # Free =>
              book[i] # Free /\ Left(book, c, h)[i].dir = book[i].dir
<1>1. ASSUME NEW p \in Position
      PROVE  Contract!Older(p, c) \in Position /\ Contract!Older(p, c).dir = p.dir
  BY OlderType
<1>2. Aged(book, c) \in Books
  BY <1>1 DEF Aged, Books
<1>3. Left(book, c, h) \in Books
  BY <1>2 DEF Left, Books
<1>4. ASSUME NEW i \in Slots, Left(book, c, h)[i] # Free
      PROVE  book[i] # Free /\ Left(book, c, h)[i].dir = book[i].dir
  <2>1. Left(book, c, h)[i] = Aged(book, c)[i] /\ Aged(book, c)[i] # Free
    BY <1>4 DEF Left
  <2>2. book[i] # Free /\ Aged(book, c)[i] = Contract!Older(book[i], c)
    BY <2>1 DEF Aged
  <2>3. book[i] \in Position
    BY <2>2 DEF Books
  <2>. QED
    BY <2>1, <2>2, <2>3, <1>1
<1>. QED
  BY <1>2, <1>3, <1>4

LEMMA FirstFreeType ==
  ASSUME NEW left \in Books, \E i \in Slots : left[i] = Free
  PROVE  FirstFree(left) \in Slots /\ left[FirstFree(left)] = Free
<1>. DEFINE T == {i \in Slots : left[i] = Free}
<1>1. PICK i \in T : \A j \in T : i <= j
  BY FirstOf, Zenon
<1>2. \E k \in Slots : left[k] = Free /\ \A j \in Slots : left[j] = Free => k <= j
  BY <1>1
<1>. QED
  BY <1>2 DEF FirstFree

LEMMA OpeningType ==
  ASSUME NEW g \in Gates \cup {NoGate}, NEW c \in Candles, g.action # 0
  PROVE  /\ Contract!Opening(g, c) \in Position
         /\ Contract!Opening(g, c).dir = Contract!Side(g)
<1>1. g.action \in {-1, 1}
  BY GateType
<1>2. Contract!Side(g) \in {-1, 1}
  BY <1>1 DEF Contract!Side
<1>. QED
  BY <1>2, CandleType DEF Contract!Opening, Position

(***************************************************************************)
(* After a move the book is still one, and still on one side.              *)
(***************************************************************************)
LEMMA MovedType ==
  ASSUME NEW left \in Books, OneSided(left), NEW c \in Candles,
         NEW g \in Gates \cup {NoGate}, NEW ticks, NEW st
  PROVE  LET new == Moved(left, Opens(left, ticks, st, g), c, g)
         IN new \in Books /\ OneSided(new)
<1>. DEFINE opens == Opens(left, ticks, st, g)
            new == Moved(left, opens, c, g)
<1>1. CASE ~opens
  BY <1>1 DEF Moved
<1>2. CASE opens
  <2>1. g.action # 0
    BY <1>2 DEF Opens, Lets
  <2>2. FirstFree(left) \in Slots
    BY <1>2, FirstFreeType DEF Opens
  <2>3. new = [left EXCEPT ![FirstFree(left)] = Contract!Opening(g, c)]
    BY <1>2 DEF Moved
  <2>4. \A i \in Slots : new[i] = IF i = FirstFree(left) THEN Contract!Opening(g, c) ELSE left[i]
    BY <2>2, <2>3 DEF Books
  <2>5. \A i \in Slots : new[i] # Free => new[i].dir = Contract!Side(g)
    BY <1>2, <2>1, <2>4, OpeningType DEF Opens
  <2>6. OneSided(new)
    BY <2>5 DEF OneSided
  <2>7. new \in Books
    BY <2>1, <2>2, <2>3, OpeningType DEF Books
  <2>. QED
    BY <2>6, <2>7
<1>. QED
  BY <1>1, <1>2

(***************************************************************************)
(* The first free slot is the only one that comes before all others.       *)
(***************************************************************************)
LEMMA FirstFreeOnly ==
  ASSUME NEW left \in Books, NEW i \in Slots, left[i] = Free,
         \A j \in Slots : left[j] = Free => i <= j
  PROVE  FirstFree(left) = i
<1>. DEFINE First(k) == left[k] = Free /\ \A j \in Slots : left[j] = Free => k <= j
<1>1. First(i)
  OBVIOUS
<1>2. PICK k \in Slots : First(k) /\ FirstFree(left) = k
  BY <1>1 DEF FirstFree
<1>3. i <= k /\ k <= i
  BY <1>1, <1>2
<1>4. i \in Nat /\ k \in Nat
  BY ReplayAssumption DEF Slots
<1>. QED
  BY <1>2, <1>3, <1>4

(***************************************************************************)
(* A gate is against the book when the sum of the directions says so.      *)
(***************************************************************************)
LEMMA ConflictOfSum ==
  ASSUME NEW left \in Books, OneSided(left), NEW d \in {-1, 1}
  PROVE  LET signed == Cardinality({i \in Slots : left[i] # Free /\ left[i].dir = 1})
                       - Cardinality({i \in Slots : left[i] # Free /\ left[i].dir = -1})
             side   == IF signed > 0 THEN 1 ELSE IF signed < 0 THEN -1 ELSE 0
         IN  ~(side # 0 /\ side # d) <=> \A i \in Slots : left[i] # Free => left[i].dir = d
<1>. DEFINE L == {i \in Slots : left[i] # Free /\ left[i].dir = 1}
            S == {i \in Slots : left[i] # Free /\ left[i].dir = -1}
            signed == Cardinality(L) - Cardinality(S)
            side == IF signed > 0 THEN 1 ELSE IF signed < 0 THEN -1 ELSE 0
<1>1. L = {} \/ S = {}
  BY DEF OneSided
<1>2. (signed > 0 <=> L # {}) /\ (signed < 0 <=> S # {})
  BY <1>1, SignOfSum
<1>3. \A i \in Slots : left[i] # Free => left[i].dir \in {-1, 1}
  BY DEF Books, Position
<1>4. \A i \in Slots : left[i] # Free => i \in L \/ i \in S
  BY <1>3
<1>5. CASE L # {}
  <2>1. signed > 0 /\ S = {}
    BY <1>1, <1>2, <1>5
  <2>2. side = 1
    BY <2>1
  <2>3. PICK i \in Slots : left[i] # Free /\ left[i].dir = 1
    BY <1>5
  <2>. HIDE DEF side, signed
  <2>4. \A j \in Slots : left[j] # Free => left[j].dir = 1
    BY <1>4, <2>1
  <2>. QED
    BY <2>2, <2>3, <2>4 DEF side, signed
<1>6. CASE S # {}
  <2>1. signed < 0 /\ ~(signed > 0) /\ L = {}
    BY <1>1, <1>2, <1>6
  <2>2. side = -1
    BY <2>1
  <2>3. PICK i \in Slots : left[i] # Free /\ left[i].dir = -1
    BY <1>6
  <2>. HIDE DEF side, signed
  <2>4. \A j \in Slots : left[j] # Free => left[j].dir = -1
    BY <1>4, <2>1
  <2>. QED
    BY <2>2, <2>3, <2>4 DEF side, signed
<1>7. CASE L = {} /\ S = {}
  <2>1. ~(signed > 0) /\ ~(signed < 0)
    BY <1>2, <1>7
  <2>2. side = 0
    BY <2>1
  <2>. HIDE DEF side, signed
  <2>3. \A j \in Slots : left[j] = Free
    BY <1>4, <1>7
  <2>. QED
    BY <2>2, <2>3 DEF side, signed
<1>. QED
  BY <1>5, <1>6, <1>7

------------------------------------------------------------------------------
(* One slot of the replay that is exported *)

AsPosition(s) ==
  [dir |-> s.direction, entry |-> s.entry_price, held |-> s.hold_ticks,
   best |-> s.peak_profit]

(***************************************************************************)
(* The flag remembers just what the best price says.                       *)
(***************************************************************************)
FlagOf(s) ==
  s.breakeven_activated <=> Breakeven > 0 /\ 100 * s.peak_profit >= Breakeven * s.entry_price

LEMMA ParitySlotTypes ==
  ASSUME NEW s \in ParitySlots
  PROVE  /\ s.direction \in {-1, 1} /\ s.entry_price \in Closes /\ s.hold_ticks \in Nat
         /\ s.peak_profit \in Nat /\ s.breakeven_activated \in BOOLEAN
         /\ AsPosition(s) \in Position
         /\ AsPosition(s).dir = s.direction /\ AsPosition(s).entry = s.entry_price
         /\ AsPosition(s).held = s.hold_ticks /\ AsPosition(s).best = s.peak_profit
  BY DEF ParitySlots, AsPosition, Position

LEMMA ParitySlotAges ==
  ASSUME NEW s \in ParitySlots, FlagOf(s), NEW c \in Candles
  PROVE  /\ Updated(s, c) \in ParitySlots /\ FlagOf(Updated(s, c))
         /\ AsPosition(Updated(s, c)) = Contract!Older(AsPosition(s), c)
<1>. DEFINE u == Updated(s, c)
            p == AsPosition(s)
            q == Contract!Older(p, c)
            b == IF Favour(s, c) > s.peak_profit THEN Favour(s, c) ELSE s.peak_profit
            f == s.breakeven_activated
                 \/ (Breakeven > 0 /\ 100 * Favour(s, c) >= Breakeven * s.entry_price)
<1>1. s.entry_price \in Nat /\ c.high \in Nat /\ c.low \in Nat
  BY ParitySlotTypes, EntryType, CandleType
<1>2. Favour(s, c) \in Int /\ Favour(s, c) = Contract!For(p, c)
  BY <1>1, ParitySlotTypes DEF Favour, Contract!For
<1>3. b \in Nat /\ f \in BOOLEAN /\ s.hold_ticks + 1 \in Nat
  BY <1>2, ParitySlotTypes
<1>4. u = [s EXCEPT !.hold_ticks = s.hold_ticks + 1, !.peak_profit = b,
                    !.breakeven_activated = f]
  BY DEF Updated
<1>. HIDE DEF b, f, u
<1>5. /\ u \in ParitySlots
      /\ u.direction = s.direction /\ u.entry_price = s.entry_price
      /\ u.hold_ticks = s.hold_ticks + 1 /\ u.peak_profit = b
      /\ u.breakeven_activated = f
  BY <1>3, <1>4 DEF ParitySlots
<1>6. AsPosition(u) = q
  <2>1. AsPosition(u) \in Position /\ p \in Position
    BY <1>5, ParitySlotTypes
  <2>2. q \in Position /\ q.dir = p.dir /\ q.entry = p.entry /\ q.held = p.held + 1
        /\ q.best = IF Contract!For(p, c) > p.best THEN Contract!For(p, c) ELSE p.best
    BY <2>1, OlderType
  <2>3. q.best = b
    BY <1>2, <2>2, ParitySlotTypes DEF b
  <2>. HIDE DEF p, q
  <2>4. /\ AsPosition(u).dir = q.dir /\ AsPosition(u).entry = q.entry
        /\ AsPosition(u).held = q.held /\ AsPosition(u).best = q.best
    BY <1>5, <2>2, <2>3, ParitySlotTypes DEF p
  <2>. QED
    BY <2>1, <2>2, <2>4, SamePosition
<1>7. FlagOf(u)
  <2>. DEFINE e == Breakeven * s.entry_price
  <2>1. e \in Int
    BY <1>1, ReplayAssumption
  <2>2. u.breakeven_activated <=>
          (Breakeven > 0 /\ 100 * s.peak_profit >= e)
          \/ (Breakeven > 0 /\ 100 * Favour(s, c) >= e)
    BY <1>5 DEF f, FlagOf
  <2>. HIDE DEF e
  <2>3. 100 * b >= e <=> 100 * s.peak_profit >= e \/ 100 * Favour(s, c) >= e
    BY <1>2, <2>1, ParitySlotTypes DEF b
  <2>4. u.breakeven_activated <=> Breakeven > 0 /\ 100 * b >= e
    BY <2>2, <2>3
  <2>. QED
    BY <1>5, <2>4 DEF FlagOf, e
<1>. QED
  BY <1>5, <1>6, <1>7 DEF u

LEMMA ParitySlotEnds ==
  ASSUME NEW s \in ParitySlots, FlagOf(s), s.hold_ticks > 0,
         NEW c \in Candles, NEW h \in Hazards
  PROVE  /\ Exits(s, c, h) <=> Contract!Ends(AsPosition(s), c, h)
         /\ ExitPrice(s, c) = Contract!ExitAt(AsPosition(s), c)
<1>. DEFINE p == AsPosition(s)
<1>1. /\ s.direction = p.dir /\ s.entry_price = p.entry
      /\ s.hold_ticks = p.held /\ s.peak_profit = p.best
      /\ p \in Position
  BY ParitySlotTypes
<1>2. p.entry \in Nat /\ p.dir \in {-1, 1} /\ c.high \in Nat /\ c.low \in Nat /\ c.close \in Nat
  BY <1>1, ParitySlotTypes, EntryType, CandleType
<1>. HIDE DEF p
<1>3. Favour(s, c) = Contract!For(p, c) /\ Draw(s, c) = Contract!Against(p, c)
  BY <1>1 DEF Favour, Draw, Contract!For, Contract!Against
<1>4. HitSl(s, c) <=> Contract!Stopped(p, c)
  BY <1>1, <1>3 DEF HitSl, Contract!Stopped
<1>5. HitTp(s, c) <=> Contract!Reached(p, c)
  BY <1>1, <1>3 DEF HitTp, Contract!Reached
<1>6. HitBe(s, c) <=> Contract!BackAtEntry(p, c)
  BY <1>1, <1>3 DEF HitBe, Contract!BackAtEntry, FlagOf
<1>7. HitTrail(s, c) <=> Contract!Trailed(p, c)
  BY <1>1, <1>3 DEF HitTrail, Contract!Trailed
<1>8. HitHazard(s, h) <=> Contract!Calmed(h)
  BY DEF HitHazard, Contract!Calmed
<1>9. HitTime(s) <=> p.held >= Hold
  BY <1>1, ReplayAssumption DEF HitTime
<1>10. Exits(s, c, h) <=> Contract!Ends(p, c, h)
  BY <1>4, <1>5, <1>6, <1>7, <1>8, <1>9 DEF Exits, Contract!Ends
<1>11. /\ s.entry_price * (100 + TakeProfit * s.direction)
          = 100 * p.entry + TakeProfit * p.entry * p.dir
       /\ s.entry_price * (100 - StopLoss * s.direction)
          = 100 * p.entry - StopLoss * p.entry * p.dir
  BY <1>1, <1>2, ReplayAssumption, TpslAssumption
<1>12. ExitPrice(s, c) = Contract!ExitAt(p, c)
  BY <1>1, <1>4, <1>5, <1>6, <1>7, <1>11 DEF ExitPrice, Contract!ExitAt
<1>. QED
  BY <1>10, <1>12 DEF p

------------------------------------------------------------------------------
(* The replay that is exported, candle by candle *)

ParityInv ==
  /\ slots \in [Slots -> ParitySlots \cup {None}]
  /\ \A i \in Slots : slots[i] # None => FlagOf(slots[i])
  /\ OneSided(ParityBook)
  /\ cooldown_ticks \in Nat

LEMMA NoneIsNoSlot == None \notin ParitySlots
  BY DEF None, ParitySlots

LEMMA ParityBookType ==
  ASSUME ParityInv
  PROVE  /\ ParityBook \in Books
         /\ \A i \in Slots : ParityBook[i] = Free <=> slots[i] = None
         /\ \A i \in Slots : slots[i] # None =>
              slots[i] \in ParitySlots /\ ParityBook[i] = AsPosition(slots[i])
<1>1. \A i \in Slots : slots[i] # None =>
        slots[i] \in ParitySlots /\ AsPosition(slots[i]) \in Position
  BY ParitySlotTypes DEF ParityInv
<1>2. \A i \in Slots : ParityBook[i] = IF slots[i] = None THEN Free ELSE AsPosition(slots[i])
  BY DEF ParityBook, AsPosition
<1>3. ParityBook = [i \in Slots |-> IF slots[i] = None THEN Free ELSE AsPosition(slots[i])]
  BY DEF ParityBook, AsPosition
<1>. QED
  BY <1>1, <1>2, <1>3, FreeIsNoPosition DEF Books

(***************************************************************************)
(* What the replay does to its slots, seen as a book.                      *)
(***************************************************************************)
ParityAged == [i \in Slots |-> IF slots[i] = None THEN None ELSE Updated(slots[i], candle')]

ParityGone == {i \in Slots : ParityAged[i] # None /\ Exits(ParityAged[i], candle', hazard')}

ParityLeft == [i \in Slots |-> IF i \in ParityGone THEN None ELSE ParityAged[i]]

ParityEnters ==
  /\ GateValid(gate') /\ Ready(cooldown_ticks) = 0
  /\ \E i \in Slots : ParityLeft[i] = None
  /\ ~SideConflict(ParityLeft, gate')

LEMMA ParityAgedSlot ==
  ASSUME ParityInv, NextCandle, NEW i \in Slots, slots[i] # None
  PROVE  /\ ParityAged[i] = Updated(slots[i], candle')
         /\ ParityAged[i] \in ParitySlots /\ ParityAged[i] # None
         /\ FlagOf(ParityAged[i]) /\ ParityAged[i].hold_ticks > 0
         /\ AsPosition(ParityAged[i]) = Aged(ParityBook, candle')[i]
<1>1. candle' \in Candles
  BY DEF NextCandle
<1>2. slots[i] \in ParitySlots /\ FlagOf(slots[i]) /\ ParityBook[i] = AsPosition(slots[i])
  BY ParityBookType DEF ParityInv
<1>3. ParityAged[i] = Updated(slots[i], candle')
  BY DEF ParityAged
<1>4. /\ ParityAged[i] \in ParitySlots /\ FlagOf(ParityAged[i])
      /\ AsPosition(ParityAged[i]) = Contract!Older(AsPosition(slots[i]), candle')
  BY <1>1, <1>2, <1>3, ParitySlotAges
<1>5. AsPosition(ParityAged[i]) = Aged(ParityBook, candle')[i]
  BY <1>2, <1>4, ParityBookType DEF Aged
<1>6. ParityAged[i].hold_ticks = slots[i].hold_ticks + 1 /\ slots[i].hold_ticks \in Nat
  BY <1>2, <1>3 DEF Updated, ParitySlots
<1>. QED
  BY <1>3, <1>4, <1>5, <1>6, NoneIsNoSlot

LEMMA ParityLeftSlots ==
  ASSUME ParityInv, NextCandle
  PROVE  LET left == Left(ParityBook, candle', hazard')
         IN  /\ ParityGone = Gone(ParityBook, candle', hazard')
             /\ ParityLeft \in [Slots -> ParitySlots \cup {None}]
             /\ \A i \in Slots : ParityLeft[i] # None => FlagOf(ParityLeft[i])
             /\ \A i \in Slots : left[i] = Free <=> ParityLeft[i] = None
             /\ \A i \in Slots : ParityLeft[i] # None => left[i] = AsPosition(ParityLeft[i])
<1>. DEFINE c == candle'
            h == hazard'
            left == Left(ParityBook, c, h)
<1>1. c \in Candles /\ h \in Hazards
  BY DEF NextCandle
<1>2. \A i \in Slots : slots[i] = None =>
        ParityAged[i] = None /\ Aged(ParityBook, c)[i] = Free /\ ParityBook[i] = Free
  BY ParityBookType DEF ParityAged, Aged
<1>3. \A i \in Slots : slots[i] # None =>
        Exits(ParityAged[i], c, h) <=> Contract!Ends(Aged(ParityBook, c)[i], c, h)
  BY <1>1, ParityAgedSlot, ParitySlotEnds
<1>4. \A i \in Slots : i \in ParityGone <=> i \in Gone(ParityBook, c, h)
  BY <1>2, <1>3, ParityAgedSlot, ParityBookType DEF ParityGone, Gone
<1>5. ParityGone = Gone(ParityBook, c, h)
  BY <1>4 DEF ParityGone, Gone
<1>6. \A i \in Slots :
        /\ ParityLeft[i] = IF i \in ParityGone THEN None ELSE ParityAged[i]
        /\ left[i] = IF i \in ParityGone THEN Free ELSE Aged(ParityBook, c)[i]
  BY <1>5 DEF ParityLeft, Left
<1>7. \A i \in Slots : ParityAged[i] \in ParitySlots \cup {None}
  BY <1>2, ParityAgedSlot
<1>8. ParityLeft \in [Slots -> ParitySlots \cup {None}]
  BY <1>7 DEF ParityLeft
<1>9. \A i \in Slots : ParityLeft[i] # None =>
        /\ slots[i] # None /\ ParityLeft[i] = ParityAged[i]
        /\ left[i] = Aged(ParityBook, c)[i]
  BY <1>2, <1>6
<1>10. \A i \in Slots : ParityLeft[i] # None =>
         /\ ParityLeft[i] \in ParitySlots /\ FlagOf(ParityLeft[i])
         /\ left[i] = AsPosition(ParityLeft[i])
  BY <1>9, ParityAgedSlot
<1>11. \A i \in Slots : ParityLeft[i] # None => left[i] # Free
  BY <1>10, ParitySlotTypes, FreeIsNoPosition
<1>12. \A i \in Slots : ParityLeft[i] = None => left[i] = Free
  BY <1>2, <1>6, ParityAgedSlot
<1>. QED
  BY <1>5, <1>8, <1>10, <1>11, <1>12

LEMMA ParityResults ==
  ASSUME ParityInv, NextCandle, ParityCandle
  PROVE  trades' = Results(ParityBook, candle', hazard')
<1>1. candle' \in Candles /\ hazard' \in Hazards
  BY DEF NextCandle
<1>2. trades' = [i \in Slots |-> IF i \in ParityGone THEN TradeOf(ParityAged[i], candle')
                                                    ELSE NoTrade]
  BY DEF ParityCandle, ParityAged, ParityGone
<1>3. ParityGone = Gone(ParityBook, candle', hazard')
  BY ParityLeftSlots
<1>4. ASSUME NEW i \in ParityGone
      PROVE  TradeOf(ParityAged[i], candle')
             = [dir |-> Aged(ParityBook, candle')[i].dir,
                entry |-> Aged(ParityBook, candle')[i].entry,
                held |-> Aged(ParityBook, candle')[i].held,
                exit |-> Contract!ExitAt(Aged(ParityBook, candle')[i], candle')]
  <2>1. i \in Slots /\ slots[i] # None
    BY DEF ParityGone, ParityAged
  <2>2. /\ ParityAged[i] \in ParitySlots /\ FlagOf(ParityAged[i])
        /\ ParityAged[i].hold_ticks > 0
        /\ AsPosition(ParityAged[i]) = Aged(ParityBook, candle')[i]
    BY <2>1, ParityAgedSlot
  <2>3. ExitPrice(ParityAged[i], candle')
        = Contract!ExitAt(Aged(ParityBook, candle')[i], candle')
    BY <1>1, <2>2, ParitySlotEnds
  <2>. QED
    BY <2>2, <2>3, ParitySlotTypes DEF TradeOf
<1>. QED
  BY <1>2, <1>3, <1>4 DEF Results

LEMMA ParityOpens ==
  ASSUME ParityInv, NextCandle, UseRegime = FALSE
  PROVE  ParityEnters
         <=> Opens(Left(ParityBook, candle', hazard'), cooldown_ticks, prev_st, gate')
<1>. DEFINE g == gate'
            left == Left(ParityBook, candle', hazard')
<1>1. g \in Gates \cup {NoGate} /\ candle' \in Candles /\ hazard' \in Hazards
  BY DEF NextCandle
<1>2. g.action \in {-1, 0, 1}
  BY <1>1, GateType
<1>3. Direction(g) = Contract!Side(g) /\ (Direction(g) # 0 <=> g.action # 0)
  BY <1>2 DEF Direction, Contract!Side
<1>4. GateValid(g) <=> Lets(g, prev_st)
  BY <1>3 DEF GateValid, Lets, StPeak
<1>5. left \in Books /\ OneSided(left)
  BY <1>1, AgedType, ParityBookType DEF OneSided, ParityInv
<1>6. \A i \in Slots :
        /\ left[i] = Free <=> ParityLeft[i] = None
        /\ ParityLeft[i] # None =>
             ParityLeft[i] \in ParitySlots /\ left[i] = AsPosition(ParityLeft[i])
  BY ParityLeftSlots
<1>. HIDE DEF g, left
<1>7. \A i \in Slots : \A d \in {-1, 1} :
        ParityLeft[i].direction = d <=> left[i] # Free /\ left[i].dir = d
  BY <1>6, ParitySlotTypes DEF None
<1>8. \A d \in {-1, 1} : {i \in Slots : ParityLeft[i].direction = d}
                         = {i \in Slots : left[i] # Free /\ left[i].dir = d}
  BY <1>7
<1>9. ASSUME g.action # 0
      PROVE  ~SideConflict(ParityLeft, g)
             <=> \A i \in Slots : left[i] # Free => left[i].dir = Contract!Side(g)
  <2>1. Contract!Side(g) \in {-1, 1}
    BY <1>2, <1>9 DEF Contract!Side
  <2>. QED
    BY <1>3, <1>5, <1>8, <2>1, ConflictOfSum DEF SideConflict
<1>10. GateValid(g) => g.action # 0
  BY <1>3 DEF GateValid
<1>11. ParityEnters
       <=> /\ GateValid(g) /\ Ready(cooldown_ticks) = 0
           /\ \E i \in Slots : ParityLeft[i] = None
           /\ ~SideConflict(ParityLeft, g)
  BY DEF ParityEnters, g
<1>12. Opens(left, cooldown_ticks, prev_st, g)
       <=> /\ Lets(g, prev_st) /\ Ready(cooldown_ticks) = 0
           /\ \E i \in Slots : left[i] = Free
           /\ \A i \in Slots : left[i] # Free => left[i].dir = Contract!Side(g)
  BY DEF Opens
<1>13. ParityEnters <=> Opens(left, cooldown_ticks, prev_st, g)
  BY <1>4, <1>6, <1>9, <1>10, <1>11, <1>12
<1>. QED
  BY <1>13 DEF g, left

(***************************************************************************)
(* The replay makes the move, and its flags keep up with its peaks.        *)
(***************************************************************************)
LEMMA ParityMoves ==
  ASSUME ParityInv, NextCandle, ParityCandle, UseRegime = FALSE
  PROVE  LET left  == Left(ParityBook, candle', hazard')
             opens == Opens(left, cooldown_ticks, prev_st, gate')
         IN  /\ ParityBook' = Moved(left, opens, candle', gate')
             /\ cooldown_ticks' = IF opens THEN Cooldown ELSE Ready(cooldown_ticks)
             /\ prev_st' = IF gate'.action # 0 THEN gate'.tension ELSE prev_st
             /\ ParityInv'
<1>. DEFINE c == candle'
            g == gate'
            left == Left(ParityBook, c, hazard')
            opens == Opens(left, cooldown_ticks, prev_st, g)
            first == FirstOpen(ParityLeft)
<1>1. c \in Candles /\ hazard' \in Hazards /\ g \in Gates \cup {NoGate}
  BY DEF NextCandle
<1>2. left \in Books /\ OneSided(left)
  BY <1>1, AgedType, ParityBookType DEF OneSided, ParityInv
<1>3. opens <=> ParityEnters
  BY ParityOpens
<1>4. /\ slots' = IF ParityEnters THEN [ParityLeft EXCEPT ![first] = Entered(g, c)]
                                  ELSE ParityLeft
      /\ cooldown_ticks' = IF ParityEnters THEN Cooldown ELSE Ready(cooldown_ticks)
      /\ prev_st' = IF g.action # 0 THEN g.tension ELSE prev_st
  <2>. DEFINE ticks == IF cooldown_ticks > 0 THEN cooldown_ticks - 1 ELSE cooldown_ticks
  <2>1. ticks = Ready(cooldown_ticks)
    BY DEF Ready, ParityInv
  <2>. HIDE DEF ticks
  <2>2. ParityEnters <=> /\ GateValid(g) /\ ticks = 0
                         /\ \E i \in Slots : ParityLeft[i] = None
                         /\ ~SideConflict(ParityLeft, g)
    BY <2>1 DEF ParityEnters
  <2>. QED
    BY <2>1, <2>2, Zenon DEF ParityCandle, ParityAged, ParityGone, ParityLeft, ticks
<1>5. /\ ParityLeft \in [Slots -> ParitySlots \cup {None}]
      /\ \A i \in Slots : ParityLeft[i] # None =>
           FlagOf(ParityLeft[i]) /\ left[i] = AsPosition(ParityLeft[i])
      /\ \A i \in Slots : left[i] = Free <=> ParityLeft[i] = None
  BY ParityLeftSlots
<1>. cooldown_ticks' \in Nat
  BY <1>4, ReplayAssumption DEF Ready, ParityInv
<1>6. ParityBook' = [i \in Slots |-> IF slots'[i] = None THEN Free ELSE AsPosition(slots'[i])]
  BY DEF ParityBook, AsPosition
<1>. HIDE DEF left
<1>7. left = [i \in Slots |-> left[i]]
  BY <1>2 DEF Books
<1>8. CASE ~opens
  <2>1. slots' = ParityLeft
    BY <1>3, <1>4, <1>8
  <2>2. ParityBook' = left
    BY <1>5, <1>6, <1>7, <2>1
  <2>3. ParityInv'
    BY <1>2, <1>5, <2>1, <2>2 DEF ParityInv, OneSided, FlagOf
  <2>. QED
    BY <1>3, <1>4, <1>8, <2>2, <2>3 DEF Moved, left
<1>9. CASE opens
  <2>. DEFINE new == Entered(g, c)
  <2>1. g.action \in {-1, 1} /\ c.close \in Closes /\ c.close \in Nat \ {0}
    BY <1>1, <1>9, GateType, CandleType DEF Opens, Lets
  <2>2. new \in ParitySlots /\ FlagOf(new) /\ AsPosition(new) = Contract!Opening(g, c)
    <3>1. Direction(g) \in {-1, 1} /\ Direction(g) = Contract!Side(g)
      BY <2>1 DEF Direction, Contract!Side
    <3>2. Breakeven > 0 => ~(100 * 0 >= Breakeven * c.close)
      BY <2>1, ReplayAssumption
    <3>. QED
      BY <2>1, <3>1, <3>2
         DEF Entered, ParitySlots, FlagOf, AsPosition, Contract!Opening
  <2>3. \E i \in Slots : left[i] = Free
    BY <1>9 DEF Opens
  <2>4. first \in Slots /\ ParityLeft[first] = None
        /\ \A j \in Slots : ParityLeft[j] = None => first <= j
    <3>1. PICK i \in {j \in Slots : left[j] = Free} : \A j \in {k \in Slots : left[k] = Free} : i <= j
      BY <2>3, FirstOf, Zenon
    <3>2. \E k \in Slots : ParityLeft[k] = None /\ \A j \in Slots : ParityLeft[j] = None => k <= j
      BY <1>5, <3>1
    <3>. QED
      BY <3>2 DEF FirstOpen
  <2>5. first = FirstFree(left)
    BY <1>2, <1>5, <2>4, FirstFreeOnly
  <2>. HIDE DEF first, new
  <2>6. slots' = [ParityLeft EXCEPT ![first] = new]
    BY <1>3, <1>4, <1>9 DEF first, new
  <2>7. \A i \in Slots : slots'[i] = IF i = first THEN new ELSE ParityLeft[i]
    BY <1>5, <2>4, <2>6
  <2>8. new # None
    BY <2>2, NoneIsNoSlot
  <2>9. ParityBook' = [left EXCEPT ![first] = Contract!Opening(g, c)]
    BY <1>2, <1>5, <1>6, <2>2, <2>4, <2>7, <2>8 DEF Books
  <2>10. ParityBook' = Moved(left, opens, c, g)
    BY <1>9, <2>5, <2>9 DEF Moved
  <2>11. OneSided(ParityBook')
    BY <1>1, <1>2, <2>10, MovedType
  <2>12. /\ slots' \in [Slots -> ParitySlots \cup {None}]
         /\ \A i \in Slots : slots'[i] # None => FlagOf(slots'[i])
    BY <1>5, <2>2, <2>4, <2>6, <2>7
  <2>13. ParityInv'
    BY <2>11, <2>12 DEF ParityInv, OneSided, FlagOf
  <2>. QED
    BY <1>3, <1>4, <1>9, <2>10, <2>13 DEF left
<1>. QED
  BY <1>8, <1>9

------------------------------------------------------------------------------
(* The exported replay keeps the contract *)

(***************************************************************************)
(* The two instances of the contract are one contract.                     *)
(***************************************************************************)
LEMMA OneContract ==
  /\ Promise!Slots = Slots /\ Contract!Slots = Slots
  /\ Promise!Free = Free /\ Contract!Free = Free
  /\ Promise!NoTrade = NoTrade /\ Contract!NoTrade = NoTrade
  /\ Promise!NoGate = NoGate /\ Contract!NoGate = NoGate
  /\ \A k, c : Promise!Older(k, c) = Contract!Older(k, c)
  /\ \A k, c, h : Promise!Ends(k, c, h) <=> Contract!Ends(k, c, h)
  /\ \A k, c : Promise!ExitAt(k, c) = Contract!ExitAt(k, c)
  /\ \A g, c : Promise!Side(g) = Contract!Side(g)
               /\ Promise!Opening(g, c) = Contract!Opening(g, c)
<1>1. \A k, c : /\ Promise!For(k, c) = Contract!For(k, c)
                /\ Promise!Against(k, c) = Contract!Against(k, c)
  BY DEF Promise!For, Contract!For, Promise!Against, Contract!Against
<1>2. \A k, c : /\ Promise!Stopped(k, c) <=> Contract!Stopped(k, c)
                /\ Promise!Reached(k, c) <=> Contract!Reached(k, c)
                /\ Promise!BackAtEntry(k, c) <=> Contract!BackAtEntry(k, c)
                /\ Promise!Trailed(k, c) <=> Contract!Trailed(k, c)
  BY <1>1 DEF Promise!Stopped, Contract!Stopped, Promise!Reached, Contract!Reached,
              Promise!BackAtEntry, Contract!BackAtEntry, Promise!Trailed, Contract!Trailed
<1>3. \A h : Promise!Calmed(h) <=> Contract!Calmed(h)
  BY DEF Promise!Calmed, Contract!Calmed
<1>4. \A k, c : Promise!Older(k, c) = Contract!Older(k, c)
  BY <1>1 DEF Promise!Older, Contract!Older
<1>5. \A k, c, h : Promise!Ends(k, c, h) <=> Contract!Ends(k, c, h)
  BY <1>2, <1>3 DEF Promise!Ends, Contract!Ends
<1>6. \A k, c : Promise!ExitAt(k, c) = Contract!ExitAt(k, c)
  BY <1>2 DEF Promise!ExitAt, Contract!ExitAt
<1>7. \A g : Promise!Side(g) = Contract!Side(g)
  BY DEF Promise!Side, Contract!Side
<1>8. \A g, c : Promise!Opening(g, c) = Contract!Opening(g, c)
  BY <1>7 DEF Promise!Opening, Contract!Opening
<1>9. Promise!Slots = Slots /\ Contract!Slots = Slots
  BY DEF Promise!Slots, Contract!Slots, Slots
<1>10. /\ Promise!Free = Free /\ Contract!Free = Free
       /\ Promise!NoTrade = NoTrade /\ Contract!NoTrade = NoTrade
  BY DEF Promise!Free, Contract!Free, Free, Promise!NoTrade, Contract!NoTrade, NoTrade
<1>11. Promise!NoGate = NoGate /\ Contract!NoGate = NoGate
  BY SMT DEF Promise!NoGate, Contract!NoGate, NoGate
<1>. QED
  BY <1>4, <1>5, <1>6, <1>7, <1>8, <1>9, <1>10, <1>11

LEMMA ParityStep ==
  ASSUME ParityInv, NextCandle, ParityCandle, UseRegime = FALSE
  PROVE  Promise!Replay
<1>. DEFINE c == candle'
            h == hazard'
            g == gate'
            left == Left(ParityBook, c, h)
            opens == Opens(left, cooldown_ticks, prev_st, g)
            aged == [i \in Promise!Slots |-> IF ParityBook[i] = Promise!Free THEN Promise!Free
                                             ELSE Promise!Older(ParityBook[i], c)]
            gone == {i \in Promise!Slots : ParityBook[i] # Promise!Free
                                           /\ Promise!Ends(aged[i], c, h)}
            rest == [i \in Promise!Slots |-> IF i \in gone THEN Promise!Free ELSE aged[i]]
            room == {i \in Promise!Slots : rest[i] = Promise!Free}
            ready == IF cooldown_ticks > 0 THEN cooldown_ticks - 1 ELSE 0
            lets == /\ Promise!Passes(g) /\ ready = 0 /\ room # {}
                    /\ \A i \in Promise!Slots \ room : rest[i].dir = Promise!Side(g)
<1>1. aged = Aged(ParityBook, c)
  BY OneContract DEF Aged
<1>. HIDE DEF aged
<1>2. gone = Gone(ParityBook, c, h)
  BY <1>1, OneContract DEF Gone
<1>. HIDE DEF gone
<1>3. rest = left
  BY <1>1, <1>2, OneContract DEF Left
<1>4. c \in Candles /\ h \in Hazards /\ left \in Books
  BY AgedType, ParityBookType DEF NextCandle
<1>. HIDE DEF left, rest
<1>5. room = {i \in Slots : left[i] = Free}
  BY <1>3, OneContract
<1>. HIDE DEF room
<1>6. Promise!Passes(g) <=> Lets(g, prev_st)
  BY DEF Promise!Passes, Lets
<1>7. lets <=> opens
  BY <1>3, <1>5, <1>6, OneContract DEF Opens, Ready
<1>8. trades' = [i \in Promise!Slots |->
        IF i \in gone
        THEN [dir |-> aged[i].dir, entry |-> aged[i].entry, held |-> aged[i].held,
              exit |-> Promise!ExitAt(aged[i], c)]
        ELSE Promise!NoTrade]
  BY <1>1, <1>2, ParityResults, OneContract DEF Results
<1>9. /\ ParityBook' = Moved(left, opens, c, g)
      /\ cooldown_ticks' = IF opens THEN Cooldown ELSE Ready(cooldown_ticks)
      /\ prev_st' = IF g.action # 0 THEN g.tension ELSE prev_st
  BY ParityMoves DEF left
<1>10. IF lets
       THEN \E i \in room : /\ ParityBook' = [rest EXCEPT ![i] = Promise!Opening(g, c)]
                            /\ cooldown_ticks' = Cooldown
       ELSE ParityBook' = rest /\ cooldown_ticks' = ready
  <2>1. CASE opens
    <3>1. FirstFree(left) \in room
      BY <1>4, <1>5, <2>1, FirstFreeType DEF Opens
    <3>2. ParityBook' = [rest EXCEPT ![FirstFree(left)] = Promise!Opening(g, c)]
      BY <1>3, <1>9, <2>1, OneContract DEF Moved
    <3>. QED
      BY <1>7, <1>9, <2>1, <3>1, <3>2
  <2>2. CASE ~opens
    BY <1>3, <1>7, <1>9, <2>2 DEF Moved, Ready
  <2>. QED
    BY <2>1, <2>2
<1>. QED
  BY <1>8, <1>9, <1>10, Zenon DEF Promise!Replay, aged, gone, rest, room

LEMMA ParityStarts ==
  ASSUME ParityInit
  PROVE  ParityInv /\ ParityBook = [i \in Slots |-> Free]
<1>1. \A i \in Slots : slots[i] = None
  BY DEF ParityInit
<1>2. ParityBook = [i \in Slots |-> Free]
  BY <1>1 DEF ParityBook
<1>. QED
  BY <1>1, <1>2 DEF ParityInit, ParityInv, OneSided

(***************************************************************************)
(* The replay that writes the trades of a parameter set keeps the contract *)
(* of a replay, when the set does not ask for the trend: gate_valid of     *)
(* gpu_parity_replay.py does not look at it.                               *)
(***************************************************************************)
THEOREM ParityKeepsContract ==
  ASSUME UseRegime = FALSE
  PROVE  ParitySpec => ParityContract
<1>1. candle \in Candles /\ gate = NoGate /\ hazard \in Hazards /\ ParityInit
      => ParityInv /\ Promise!ContractInit
  BY ParityStarts, OneContract
     DEF ParityInit, Promise!ContractInit
<1>2. ParityInv /\ [NextCandle /\ ParityCandle]_<<feed, parityVars>> => ParityInv'
  <2>1. ASSUME ParityInv, NextCandle, ParityCandle
        PROVE  ParityInv'
    BY <2>1, ParityMoves
  <2>2. ASSUME ParityInv, UNCHANGED <<feed, parityVars>>
        PROVE  ParityInv'
    BY <2>2 DEF ParityInv, parityVars, ParityBook, OneSided, FlagOf
  <2>. QED
    BY <2>1, <2>2
<1>3. ParityInv /\ [NextCandle /\ ParityCandle]_<<feed, parityVars>>
      => [Promise!ContractNext]_<<Promise!feed, Promise!contractVars>>
  <2>1. ASSUME ParityInv, NextCandle, ParityCandle
        PROVE  Promise!ContractNext
    BY <2>1, ParityStep, OneContract
       DEF Promise!ContractNext, Promise!NextCandle, NextCandle
  <2>2. ASSUME UNCHANGED <<feed, parityVars>>
        PROVE  UNCHANGED <<Promise!feed, Promise!contractVars>>
    BY <2>2 DEF feed, parityVars, Promise!feed, Promise!contractVars, ParityBook
  <2>. QED
    BY <2>1, <2>2
<1>. QED
  BY <1>1, <1>2, <1>3, PTL DEF ParitySpec, ParityContract, Promise!ContractSpec

------------------------------------------------------------------------------
(* One slot of the sweep *)

(***************************************************************************)
(* A slot in a trade: its peak is out of reach of the limit of 9900% that  *)
(* stands for None, and its flag remembers just what the peak says.  What  *)
(* a slot out of a trade holds does not matter.                            *)
(***************************************************************************)
SlotOK(i) ==
  /\ trade_dir[i] \in {-1, 1} /\ entry_price[i] \in Closes /\ hold_timer[i] \in Nat
  /\ peak_profit[i] \in Nat /\ peak_profit[i] < 49 * entry_price[i]
  /\ be_activated[i] \in BOOLEAN
  /\ be_activated[i] <=> Breakeven > 0 /\ 100 * peak_profit[i] >= Breakeven * entry_price[i]

SlotPosition(i) ==
  [dir |-> trade_dir[i], entry |-> entry_price[i], held |-> hold_timer[i],
   best |-> peak_profit[i]]

SlotAged(i, c) ==
  [dir |-> trade_dir[i], entry |-> entry_price[i], held |-> held(i), best |-> peak(i, c)]

LEMMA SweepSlotAges ==
  ASSUME NEW i \in Slots, in_trade[i], SlotOK(i), NEW c \in Candles
  PROVE  /\ SlotPosition(i) \in Position /\ SlotAged(i, c) \in Position
         /\ SlotAged(i, c) = Contract!Older(SlotPosition(i), c)
         /\ held(i) \in Nat /\ held(i) > 0
         /\ peak(i, c) \in Nat /\ peak(i, c) < 49 * entry_price[i]
         /\ activated(i, c) <=> Breakeven > 0 /\ 100 * peak(i, c) >= Breakeven * entry_price[i]
<1>. DEFINE e == entry_price[i]
            p == SlotPosition(i)
            q == Contract!Older(p, c)
<1>1. /\ e \in Nat \ {0} /\ e \in Closes /\ c.high \in Nat /\ c.low \in Nat
      /\ c.high - e < 49 * e /\ e - c.low < e
      /\ trade_dir[i] \in {-1, 1} /\ hold_timer[i] \in Nat
      /\ peak_profit[i] \in Nat /\ peak_profit[i] < 49 * e
  BY EntryType, CandleType DEF SlotOK
<1>2. /\ p \in Position /\ p.dir = trade_dir[i] /\ p.entry = e
      /\ p.held = hold_timer[i] /\ p.best = peak_profit[i]
  BY <1>1 DEF SlotPosition, Position
<1>3. profit(i, c) = Contract!For(p, c) /\ profit(i, c) \in Int /\ profit(i, c) < 49 * e
  <2>1. CASE trade_dir[i] = 1
    BY <1>1, <1>2, <2>1 DEF profit, Contract!For
  <2>2. CASE trade_dir[i] = -1
    BY <1>1, <1>2, <2>2 DEF profit, Contract!For
  <2>. QED
    BY <1>1, <2>1, <2>2
<1>4. /\ peak(i, c) = IF profit(i, c) > peak_profit[i] THEN profit(i, c) ELSE peak_profit[i]
      /\ peak(i, c) \in Nat /\ peak(i, c) < 49 * e
      /\ held(i) = hold_timer[i] + 1
  BY <1>1, <1>3 DEF peak, held
<1>5. SlotAged(i, c) \in Position
  BY <1>1, <1>4 DEF SlotAged, Position
<1>6. SlotAged(i, c) = q
  <2>1. q \in Position /\ q.dir = p.dir /\ q.entry = p.entry /\ q.held = p.held + 1
        /\ q.best = IF Contract!For(p, c) > p.best THEN Contract!For(p, c) ELSE p.best
    BY <1>2, OlderType
  <2>. HIDE DEF p, q
  <2>2. /\ SlotAged(i, c).dir = q.dir /\ SlotAged(i, c).entry = q.entry
        /\ SlotAged(i, c).held = q.held /\ SlotAged(i, c).best = q.best
    BY <1>2, <1>3, <1>4, <2>1 DEF SlotAged
  <2>. QED
    BY <1>5, <2>1, <2>2, SamePosition
<1>7. activated(i, c) <=> Breakeven > 0 /\ 100 * peak(i, c) >= Breakeven * e
  <2>. DEFINE be == Breakeven * e
              flag == Breakeven > 0 /\ 100 * peak_profit[i] >= be
  <2>1. be \in Int
    BY <1>1, ReplayAssumption
  <2>2. activated(i, c) <=> flag \/ 100 * profit(i, c) >= Limit(Breakeven) * e
    BY DEF activated, SlotOK
  <2>3. 100 * profit(i, c) >= Limit(Breakeven) * e
        <=> Breakeven > 0 /\ 100 * profit(i, c) >= be
    <3>1. CASE Breakeven = 0
      BY <1>1, <1>3, <3>1 DEF Limit
    <3>2. CASE Breakeven > 0
      BY <3>2, ReplayAssumption DEF Limit
    <3>. QED
      BY <3>1, <3>2, ReplayAssumption
  <2>. HIDE DEF be
  <2>4. 100 * peak(i, c) >= be <=> 100 * peak_profit[i] >= be \/ 100 * profit(i, c) >= be
    BY <1>1, <1>3, <1>4, <2>1
  <2>5. activated(i, c) <=> Breakeven > 0 /\ 100 * peak(i, c) >= be
    BY <2>2, <2>3, <2>4
  <2>. QED
    BY <2>5 DEF be
<1>. QED
  BY <1>1, <1>2, <1>4, <1>5, <1>6, <1>7

LEMMA SweepSlotEnds ==
  ASSUME NEW i \in Slots, in_trade[i], SlotOK(i), NEW c \in Candles, NEW h \in Hazards
  PROVE  /\ valid_exit(i, c, h) <=> Contract!Ends(SlotAged(i, c), c, h)
         /\ exit_price_val(i, c) = Contract!ExitAt(SlotAged(i, c), c)
<1>. DEFINE e == entry_price[i]
            k == SlotAged(i, c)
<1>1. /\ e \in Nat \ {0} /\ c.high \in Nat /\ c.low \in Nat /\ c.close \in Nat
      /\ c.high - e < 49 * e /\ e - c.low < e
      /\ c.high < 50 * e /\ c.low > 0 /\ c.low <= c.high
      /\ trade_dir[i] \in {-1, 1} /\ held(i) \in Nat /\ held(i) > 0
      /\ peak(i, c) \in Nat /\ peak(i, c) < 49 * e
  BY EntryType, CandleType, SweepSlotAges DEF SlotOK
<1>2. k.dir = trade_dir[i] /\ k.entry = e /\ k.held = held(i) /\ k.best = peak(i, c)
  BY DEF SlotAged
<1>. HIDE DEF k
<1>3. /\ profit(i, c) = Contract!For(k, c) /\ drawdown(i, c) = Contract!Against(k, c)
      /\ profit(i, c) \in Int /\ profit(i, c) < 49 * e
      /\ drawdown(i, c) \in Int /\ drawdown(i, c) > -(49 * e)
  <2>1. CASE trade_dir[i] = 1
    BY <1>1, <1>2, <2>1 DEF profit, drawdown, Contract!For, Contract!Against
  <2>2. CASE trade_dir[i] = -1
    BY <1>1, <1>2, <2>2 DEF profit, drawdown, Contract!For, Contract!Against
  <2>. QED
    BY <1>1, <2>1, <2>2
<1>4. hit_sl(i, c) <=> Contract!Stopped(k, c)
  <2>1. CASE StopLoss = 0
    BY <1>1, <1>3, <2>1 DEF hit_sl, Contract!Stopped, Limit
  <2>2. CASE StopLoss > 0
    BY <1>2, <1>3, <2>2, TpslAssumption DEF hit_sl, Contract!Stopped, Limit
  <2>. QED
    BY <2>1, <2>2, TpslAssumption
<1>5. hit_tp(i, c) <=> Contract!Reached(k, c)
  <2>1. CASE TakeProfit = 0
    BY <1>1, <1>3, <2>1 DEF hit_tp, Contract!Reached, Limit
  <2>2. CASE TakeProfit > 0
    BY <1>2, <1>3, <2>2, ReplayAssumption DEF hit_tp, Contract!Reached, Limit
  <2>. QED
    BY <2>1, <2>2, ReplayAssumption
<1>6. hit_be(i, c) <=> Contract!BackAtEntry(k, c)
  BY <1>2, <1>3, SweepSlotAges DEF hit_be, Contract!BackAtEntry
<1>7. hit_trail(i, c) <=> Contract!Trailed(k, c)
  <2>1. CASE Trailing = 0
    BY <1>1, <1>3, <2>1 DEF hit_trail, Contract!Trailed, Limit
  <2>2. CASE Trailing > 0
    BY <1>2, <1>3, <2>2, TpslAssumption DEF hit_trail, Contract!Trailed, Limit
  <2>. QED
    BY <2>1, <2>2, TpslAssumption
<1>8. hit_haz_exit(i, h) <=> Contract!Calmed(h)
  BY <1>1, ReplayAssumption DEF hit_haz_exit, Contract!Calmed
<1>9. hit_time(i) <=> k.held >= Hold
  BY <1>2 DEF hit_time
<1>10. valid_exit(i, c, h) <=> Contract!Ends(k, c, h)
  BY <1>4, <1>5, <1>6, <1>7, <1>8, <1>9 DEF valid_exit, Contract!Ends
<1>11. (IF trade_dir[i] = 1 THEN 1 ELSE -1) = k.dir
  BY <1>1, <1>2
<1>12. exit_price_val(i, c) = Contract!ExitAt(k, c)
  <2>1. Contract!Stopped(k, c) => Limit(StopLoss) = StopLoss
    BY DEF Contract!Stopped, Limit
  <2>2. Contract!Reached(k, c) => Limit(TakeProfit) = TakeProfit
    BY DEF Contract!Reached, Limit
  <2>3. Contract!Trailed(k, c) => Limit(Trailing) = Trailing
    BY DEF Contract!Trailed, Limit
  <2>. QED
    BY <1>2, <1>4, <1>5, <1>6, <1>7, <1>11, <2>1, <2>2, <2>3
       DEF exit_price_val, Masked, Contract!ExitAt
<1>. QED
  BY <1>10, <1>12 DEF k

------------------------------------------------------------------------------
(* The sweep, candle by candle *)

SweepInv ==
  /\ in_trade \in [Slots -> BOOLEAN]
  /\ \A i \in Slots : in_trade[i] => SlotOK(i)
  /\ OneSided(SweepBook)
  /\ cooldown_timer \in Nat

LEMMA SweepBookType ==
  ASSUME SweepInv
  PROVE  /\ SweepBook \in Books
         /\ \A i \in Slots : SweepBook[i] = Free <=> ~in_trade[i]
         /\ \A i \in Slots : in_trade[i] => SweepBook[i] = SlotPosition(i)
<1>1. \A i \in Slots : in_trade[i] => SlotPosition(i) \in Position
  BY DEF SweepInv, SlotOK, SlotPosition, Position
<1>2. SweepBook = [i \in Slots |-> IF in_trade[i] THEN SlotPosition(i) ELSE Free]
  BY DEF SweepBook, SlotPosition
<1>. QED
  BY <1>1, <1>2, FreeIsNoPosition DEF Books

SweepExits == {i \in Slots : valid_exit(i, candle', hazard')}

SweepTrading == [i \in Slots |-> in_trade[i] /\ i \notin SweepExits]

LEMMA SweepLeftSlots ==
  ASSUME SweepInv, NextCandle
  PROVE  LET left == Left(SweepBook, candle', hazard')
         IN  /\ SweepExits = Gone(SweepBook, candle', hazard')
             /\ \A i \in Slots : left[i] = Free <=> ~SweepTrading[i]
             /\ \A i \in Slots : in_trade[i] =>
                  SlotOK(i) /\ Aged(SweepBook, candle')[i] = SlotAged(i, candle')
             /\ \A i \in Slots : SweepTrading[i] =>
                  in_trade[i] /\ left[i] = SlotAged(i, candle')
<1>. DEFINE c == candle'
            h == hazard'
            left == Left(SweepBook, c, h)
<1>1. c \in Candles /\ h \in Hazards
  BY DEF NextCandle
<1>2. \A i \in Slots : ~in_trade[i] =>
        SweepBook[i] = Free /\ Aged(SweepBook, c)[i] = Free /\ i \notin SweepExits
  BY SweepBookType DEF Aged, SweepExits, valid_exit
<1>3. \A i \in Slots : in_trade[i] =>
        /\ SlotOK(i) /\ SweepBook[i] # Free
        /\ SweepBook[i] = SlotPosition(i)
        /\ Aged(SweepBook, c)[i] = Contract!Older(SlotPosition(i), c)
  BY SweepBookType DEF Aged, SweepInv
<1>4. \A i \in Slots : in_trade[i] =>
        Aged(SweepBook, c)[i] = SlotAged(i, c) /\ SlotAged(i, c) \in Position
  BY <1>1, <1>3, SweepSlotAges
<1>5. \A i \in Slots : in_trade[i] =>
        (valid_exit(i, c, h) <=> Contract!Ends(Aged(SweepBook, c)[i], c, h))
  BY <1>1, <1>3, <1>4, SweepSlotEnds
<1>6. \A i \in Slots : i \in SweepExits <=> i \in Gone(SweepBook, c, h)
  BY <1>2, <1>3, <1>5 DEF SweepExits, Gone
<1>7. SweepExits = Gone(SweepBook, c, h)
  BY <1>6 DEF SweepExits, Gone
<1>8. \A i \in Slots : left[i] = IF i \in SweepExits THEN Free ELSE Aged(SweepBook, c)[i]
  BY <1>7 DEF Left
<1>9. \A i \in Slots : SweepTrading[i] =>
        in_trade[i] /\ left[i] = SlotAged(i, c) /\ left[i] # Free
  BY <1>4, <1>8, FreeIsNoPosition DEF SweepTrading
<1>10. \A i \in Slots : ~SweepTrading[i] => left[i] = Free
  BY <1>2, <1>8 DEF SweepTrading
<1>. QED
  BY <1>3, <1>4, <1>7, <1>9, <1>10

LEMMA SweepResults ==
  ASSUME SweepInv, NextCandle, SweepCandle
  PROVE  credited' = Results(SweepBook, candle', hazard')
<1>1. candle' \in Candles /\ hazard' \in Hazards
  BY DEF NextCandle
<1>2. credited' = [i \in Slots |->
        IF i \in SweepExits
        THEN [dir |-> trade_dir[i], entry |-> entry_price[i], held |-> held(i),
              exit |-> exit_price_val(i, candle')]
        ELSE NoTrade]
  BY DEF SweepCandle, SweepExits
<1>3. SweepExits = Gone(SweepBook, candle', hazard')
  BY SweepLeftSlots
<1>4. ASSUME NEW i \in SweepExits
      PROVE  [dir |-> trade_dir[i], entry |-> entry_price[i], held |-> held(i),
              exit |-> exit_price_val(i, candle')]
             = [dir |-> Aged(SweepBook, candle')[i].dir,
                entry |-> Aged(SweepBook, candle')[i].entry,
                held |-> Aged(SweepBook, candle')[i].held,
                exit |-> Contract!ExitAt(Aged(SweepBook, candle')[i], candle')]
  <2>1. i \in Slots /\ in_trade[i]
    BY DEF SweepExits, valid_exit
  <2>2. SlotOK(i) /\ Aged(SweepBook, candle')[i] = SlotAged(i, candle')
    BY <2>1, SweepLeftSlots
  <2>3. exit_price_val(i, candle') = Contract!ExitAt(SlotAged(i, candle'), candle')
    BY <1>1, <2>1, <2>2, SweepSlotEnds
  <2>. QED
    BY <2>2, <2>3 DEF SlotAged
<1>. QED
  BY <1>2, <1>3, <1>4 DEF Results

SweepReady == IF cooldown_timer > 0 THEN cooldown_timer - 1 ELSE cooldown_timer

LEMMA SweepOpens ==
  ASSUME SweepInv, NextCandle
  PROVE  new_entry(SweepTrading, SweepReady, gate')
         <=> Opens(Left(SweepBook, candle', hazard'), cooldown_timer, st_shifted, gate')
<1>. DEFINE g == gate'
            left == Left(SweepBook, candle', hazard')
<1>1. g \in Gates \cup {NoGate} /\ candle' \in Candles /\ hazard' \in Hazards
  BY DEF NextCandle
<1>2. g.action \in {-1, 0, 1}
  BY <1>1, GateType
<1>3. actual_dir(g) = Contract!Side(g)
  BY DEF actual_dir, Contract!Side
<1>4. valid_gate(g) <=> Lets(g, st_shifted)
  BY DEF valid_gate, is_peak, Lets
<1>5. left \in Books /\ OneSided(left)
  BY <1>1, AgedType, SweepBookType DEF OneSided, SweepInv
<1>6. \A i \in Slots :
        /\ left[i] = Free <=> ~SweepTrading[i]
        /\ SweepTrading[i] => left[i].dir = trade_dir[i]
  <2>1. \A i \in Slots : SlotAged(i, candle').dir = trade_dir[i]
    BY DEF SlotAged
  <2>. QED
    BY <2>1, SweepLeftSlots
<1>. HIDE DEF g, left
<1>7. \A d : {i \in Slots : SweepTrading[i] /\ trade_dir[i] = d}
             = {i \in Slots : left[i] # Free /\ left[i].dir = d}
  BY <1>6
<1>8. ASSUME g.action # 0
      PROVE  ~side_conflict(SweepTrading, g)
             <=> \A i \in Slots : left[i] # Free => left[i].dir = Contract!Side(g)
  <2>1. Contract!Side(g) \in {-1, 1}
    BY <1>2, <1>8 DEF Contract!Side
  <2>. QED
    BY <1>3, <1>5, <1>7, <2>1, ConflictOfSum DEF side_conflict, Count
<1>9. SweepReady = Ready(cooldown_timer)
  BY DEF SweepReady, Ready, SweepInv
<1>10. valid_gate(g) => g.action # 0
  BY DEF valid_gate
<1>11. new_entry(SweepTrading, SweepReady, g)
       <=> /\ valid_gate(g) /\ Ready(cooldown_timer) = 0
           /\ \E i \in Slots : ~SweepTrading[i]
           /\ ~side_conflict(SweepTrading, g)
  BY <1>9 DEF new_entry
<1>12. Opens(left, cooldown_timer, st_shifted, g)
       <=> /\ Lets(g, st_shifted) /\ Ready(cooldown_timer) = 0
           /\ \E i \in Slots : left[i] = Free
           /\ \A i \in Slots : left[i] # Free => left[i].dir = Contract!Side(g)
  BY DEF Opens
<1>13. new_entry(SweepTrading, SweepReady, g) <=> Opens(left, cooldown_timer, st_shifted, g)
  BY <1>4, <1>6, <1>8, <1>10, <1>11, <1>12
<1>. QED
  BY <1>13 DEF g, left

(***************************************************************************)
(* The sweep makes the move: the columns of the slot that it enters start  *)
(* anew, whatever they held.                                               *)
(***************************************************************************)
LEMMA SweepMoves ==
  ASSUME SweepInv, NextCandle, SweepCandle
  PROVE  LET left  == Left(SweepBook, candle', hazard')
             opens == Opens(left, cooldown_timer, st_shifted, gate')
         IN  /\ SweepBook' = Moved(left, opens, candle', gate')
             /\ cooldown_timer' = IF opens THEN Cooldown ELSE Ready(cooldown_timer)
             /\ st_shifted' = IF gate'.action # 0 THEN gate'.tension ELSE st_shifted
             /\ SweepInv'
<1>. DEFINE c == candle'
            g == gate'
            left == Left(SweepBook, c, hazard')
            opens == Opens(left, cooldown_timer, st_shifted, g)
            first == first_open_idx(SweepTrading)
            mask == IF opens THEN {first} ELSE {}
            enters == new_entry(SweepTrading, SweepReady, g)
<1>1. c \in Candles /\ hazard' \in Hazards /\ g \in Gates \cup {NoGate}
  BY DEF NextCandle
<1>2. left \in Books /\ OneSided(left)
  BY <1>1, AgedType, SweepBookType DEF OneSided, SweepInv
<1>3. opens <=> enters
  BY SweepOpens
<1>4. SweepReady = Ready(cooldown_timer)
  BY DEF SweepReady, Ready, SweepInv
<1>5. LET entered == IF enters THEN {first} ELSE {}
      IN  /\ in_trade' = Written(SweepTrading, entered, TRUE)
          /\ trade_dir' = Written(trade_dir, entered, actual_dir(g))
          /\ entry_price' = Written(entry_price, entered, c.close)
          /\ hold_timer' = Written([i \in Slots |-> held(i)], entered, 0)
          /\ peak_profit' = Reset([i \in Slots |-> peak(i, c)], entered, 0)
          /\ be_activated' = Reset([i \in Slots |-> activated(i, c)], entered, FALSE)
          /\ cooldown_timer' = IF entered # {} THEN Cooldown ELSE SweepReady
          /\ st_shifted' = IF g.action # 0 THEN g.tension ELSE st_shifted
  BY DEF SweepCandle, SweepTrading, SweepExits, SweepReady
<1>. HIDE DEF opens, enters, left
<1>6. \A i \in Slots :
        /\ in_trade'[i] = IF i \in mask THEN TRUE ELSE SweepTrading[i]
        /\ trade_dir'[i] = IF i \in mask THEN actual_dir(g) ELSE trade_dir[i]
        /\ entry_price'[i] = IF i \in mask THEN c.close ELSE entry_price[i]
        /\ hold_timer'[i] = IF i \in mask THEN 0 ELSE held(i)
        /\ peak_profit'[i] = IF i \in mask THEN 0 ELSE peak(i, c)
        /\ be_activated'[i] = IF i \in mask THEN FALSE ELSE activated(i, c)
  BY <1>3, <1>5 DEF Written, Reset
<1>7. in_trade' \in [Slots -> BOOLEAN]
  <2>1. SweepTrading \in [Slots -> BOOLEAN]
    BY DEF SweepTrading
  <2>. QED
    BY <1>5, <2>1 DEF Written
<1>8. /\ cooldown_timer' = IF opens THEN Cooldown ELSE Ready(cooldown_timer)
      /\ cooldown_timer' \in Nat
  BY <1>3, <1>4, <1>5, ReplayAssumption DEF Ready, SweepInv
<1>9. \A i \in Slots :
        /\ left[i] = Free <=> ~SweepTrading[i]
        /\ SweepTrading[i] => in_trade[i] /\ SlotOK(i) /\ left[i] = SlotAged(i, c)
  BY SweepLeftSlots DEF left
<1>10. SweepBook' = [i \in Slots |->
         IF in_trade'[i]
         THEN [dir |-> trade_dir'[i], entry |-> entry_price'[i], held |-> hold_timer'[i],
               best |-> peak_profit'[i]]
         ELSE Free]
  BY DEF SweepBook
<1>11. ASSUME NEW i \in Slots, i \notin mask
       PROVE  /\ SweepBook'[i] = left[i] /\ in_trade'[i] = SweepTrading[i]
              /\ in_trade'[i] => SlotOK(i)'
  <2>1. /\ in_trade'[i] = SweepTrading[i] /\ trade_dir'[i] = trade_dir[i]
        /\ entry_price'[i] = entry_price[i] /\ hold_timer'[i] = held(i)
        /\ peak_profit'[i] = peak(i, c) /\ be_activated'[i] = activated(i, c)
    BY <1>6, <1>11
  <2>2. SweepBook'[i] = IF SweepTrading[i] THEN SlotAged(i, c) ELSE Free
    BY <1>10, <2>1 DEF SlotAged
  <2>3. ASSUME in_trade'[i]
        PROVE  SlotOK(i)'
    <3>1. in_trade[i] /\ SlotOK(i)
      BY <1>9, <2>1, <2>3
    <3>2. activated(i, c) \in BOOLEAN
      BY <3>1 DEF activated, SlotOK
    <3>. QED
      BY <1>1, <2>1, <3>1, <3>2, SweepSlotAges DEF SlotOK
  <2>. QED
    BY <1>9, <2>1, <2>2, <2>3
<1>12. CASE ~opens
  <2>1. mask = {}
    BY <1>12
  <2>2. SweepBook' = left
    BY <1>2, <1>10, <1>11, <2>1 DEF Books
  <2>3. SweepInv'
    BY <1>2, <1>7, <1>8, <1>11, <2>1, <2>2 DEF SweepInv, OneSided
  <2>. QED
    BY <1>5, <1>8, <1>12, <2>2, <2>3 DEF Moved, left, opens
<1>13. CASE opens
  <2>1. /\ g.action \in {-1, 1} /\ c.close \in Closes /\ c.close \in Nat \ {0}
        /\ \E i \in Slots : left[i] = Free
    BY <1>1, <1>13, GateType, CandleType DEF opens, Opens, Lets
  <2>2. first \in Slots /\ ~SweepTrading[first]
        /\ \A j \in Slots : ~SweepTrading[j] => first <= j
    <3>1. PICK i \in {j \in Slots : left[j] = Free} : \A j \in {k \in Slots : left[k] = Free} : i <= j
      BY <2>1, FirstOf, Zenon
    <3>2. \E k \in Slots : ~SweepTrading[k] /\ \A j \in Slots : ~SweepTrading[j] => k <= j
      BY <1>9, <3>1
    <3>. QED
      BY <3>2 DEF first_open_idx
  <2>3. first = FirstFree(left)
    BY <1>2, <1>9, <2>2, FirstFreeOnly
  <2>. HIDE DEF first
  <2>4. PICK k \in Slots : k = first
    BY <2>2
  <2>5. /\ in_trade'[k] /\ trade_dir'[k] = Contract!Side(g)
        /\ entry_price'[k] = c.close /\ hold_timer'[k] = 0
        /\ peak_profit'[k] = 0 /\ be_activated'[k] = FALSE
    BY <1>6, <1>13, <2>4 DEF actual_dir, Contract!Side
  <2>6. SweepBook'[k] = Contract!Opening(g, c)
    BY <1>10, <2>5 DEF Contract!Opening
  <2>7. SlotOK(k)'
    <3>1. Contract!Side(g) \in {-1, 1}
      BY <2>1 DEF Contract!Side
    <3>2. 0 < 49 * c.close /\ (Breakeven > 0 => ~(100 * 0 >= Breakeven * c.close))
      BY <2>1, ReplayAssumption
    <3>3. /\ trade_dir'[k] \in {-1, 1} /\ entry_price'[k] \in Closes
          /\ hold_timer'[k] \in Nat /\ peak_profit'[k] \in Nat
      BY <2>1, <2>5, <3>1
    <3>4. be_activated'[k] \in BOOLEAN /\ ~be_activated'[k]
      BY <2>5, Zenon
    <3>5. peak_profit'[k] < 49 * entry_price'[k]
      BY <2>5, <3>2
    <3>6. ~(Breakeven > 0 /\ 100 * peak_profit'[k] >= Breakeven * entry_price'[k])
      BY <2>5, <3>2
    <3>. QED
      BY <3>3, <3>4, <3>5, <3>6 DEF SlotOK
  <2>8. \A i \in Slots : i # k => SweepBook'[i] = left[i]
    BY <1>11, <2>4
  <2>9. SweepBook' = [left EXCEPT ![k] = Contract!Opening(g, c)]
    BY <1>2, <1>10, <2>6, <2>8 DEF Books
  <2>10. SweepBook' = Moved(left, opens, c, g)
    BY <1>13, <2>3, <2>9, <2>4 DEF Moved
  <2>11. OneSided(SweepBook')
    BY <1>1, <1>2, <2>10, MovedType DEF opens
  <2>12. \A i \in Slots : in_trade'[i] => SlotOK(i)'
    <3>1. ASSUME NEW i \in Slots, in_trade'[i], i # k
          PROVE  SlotOK(i)'
      BY <1>11, <2>4, <3>1
    <3>. QED
      BY <2>7, <3>1
  <2>13. SweepInv'
    BY <1>7, <1>8, <2>11, <2>12 DEF SweepInv, OneSided
  <2>. QED
    BY <1>5, <1>8, <1>13, <2>10, <2>13 DEF left, opens
<1>. QED
  BY <1>12, <1>13

LEMMA SweepStep ==
  ASSUME SweepInv, NextCandle, SweepCandle
  PROVE  Contract!Replay
<1>. DEFINE c == candle'
            h == hazard'
            g == gate'
            left == Left(SweepBook, c, h)
            opens == Opens(left, cooldown_timer, st_shifted, g)
            aged == [i \in Contract!Slots |-> IF SweepBook[i] = Contract!Free THEN Contract!Free
                                              ELSE Contract!Older(SweepBook[i], c)]
            gone == {i \in Contract!Slots : SweepBook[i] # Contract!Free
                                            /\ Contract!Ends(aged[i], c, h)}
            rest == [i \in Contract!Slots |-> IF i \in gone THEN Contract!Free ELSE aged[i]]
            room == {i \in Contract!Slots : rest[i] = Contract!Free}
            ready == IF cooldown_timer > 0 THEN cooldown_timer - 1 ELSE 0
            lets == /\ Contract!Passes(g) /\ ready = 0 /\ room # {}
                    /\ \A i \in Contract!Slots \ room : rest[i].dir = Contract!Side(g)
<1>1. aged = Aged(SweepBook, c)
  BY OneContract DEF Aged
<1>. HIDE DEF aged
<1>2. gone = Gone(SweepBook, c, h)
  BY <1>1, OneContract DEF Gone
<1>. HIDE DEF gone
<1>3. rest = left
  BY <1>1, <1>2, OneContract DEF Left
<1>4. c \in Candles /\ h \in Hazards /\ left \in Books
  BY AgedType, SweepBookType DEF NextCandle
<1>. HIDE DEF left, rest
<1>5. room = {i \in Slots : left[i] = Free}
  BY <1>3, OneContract
<1>. HIDE DEF room
<1>6. Contract!Passes(g) <=> Lets(g, st_shifted)
  BY DEF Contract!Passes, Lets
<1>7. lets <=> opens
  BY <1>3, <1>5, <1>6, OneContract DEF Opens, Ready
<1>8. credited' = [i \in Contract!Slots |->
        IF i \in gone
        THEN [dir |-> aged[i].dir, entry |-> aged[i].entry, held |-> aged[i].held,
              exit |-> Contract!ExitAt(aged[i], c)]
        ELSE Contract!NoTrade]
  BY <1>1, <1>2, SweepResults, OneContract DEF Results
<1>9. /\ SweepBook' = Moved(left, opens, c, g)
      /\ cooldown_timer' = IF opens THEN Cooldown ELSE Ready(cooldown_timer)
      /\ st_shifted' = IF g.action # 0 THEN g.tension ELSE st_shifted
  BY SweepMoves DEF left
<1>10. IF lets
       THEN \E i \in room : /\ SweepBook' = [rest EXCEPT ![i] = Contract!Opening(g, c)]
                            /\ cooldown_timer' = Cooldown
       ELSE SweepBook' = rest /\ cooldown_timer' = ready
  <2>1. CASE opens
    <3>1. FirstFree(left) \in room
      BY <1>4, <1>5, <2>1, FirstFreeType DEF Opens
    <3>2. SweepBook' = [rest EXCEPT ![FirstFree(left)] = Contract!Opening(g, c)]
      BY <1>3, <1>9, <2>1 DEF Moved
    <3>. QED
      BY <1>7, <1>9, <2>1, <3>1, <3>2
  <2>2. CASE ~opens
    BY <1>3, <1>7, <1>9, <2>2 DEF Moved, Ready
  <2>. QED
    BY <2>1, <2>2
<1>. QED
  BY <1>8, <1>9, <1>10, Zenon DEF Contract!Replay, aged, gone, rest, room

LEMMA SweepStarts ==
  ASSUME SweepInit
  PROVE  SweepInv /\ SweepBook = [i \in Slots |-> Free]
<1>1. \A i \in Slots : ~in_trade[i]
  BY DEF SweepInit
<1>2. SweepBook = [i \in Slots |-> Free]
  BY <1>1 DEF SweepBook
<1>. QED
  BY <1>1, <1>2 DEF SweepInit, SweepInv, OneSided

(***************************************************************************)
(* The sweep of gpu_runner.py keeps the contract of a replay, whatever its *)
(* closed slots still hold, with or without the check of the trend.        *)
(***************************************************************************)
THEOREM SweepKeepsContract == SweepSpec => SweepContract
<1>1. candle \in Candles /\ gate = NoGate /\ hazard \in Hazards /\ SweepInit
      => SweepInv /\ Contract!ContractInit
  BY SweepStarts, OneContract DEF SweepInit, Contract!ContractInit
<1>2. SweepInv /\ [NextCandle /\ SweepCandle]_<<feed, sweepVars>> => SweepInv'
  <2>1. ASSUME SweepInv, NextCandle, SweepCandle
        PROVE  SweepInv'
    BY <2>1, SweepMoves
  <2>2. ASSUME SweepInv, UNCHANGED <<feed, sweepVars>>
        PROVE  SweepInv'
    BY <2>2 DEF SweepInv, sweepVars, SweepBook, OneSided, SlotOK
  <2>. QED
    BY <2>1, <2>2
<1>3. SweepInv /\ [NextCandle /\ SweepCandle]_<<feed, sweepVars>>
      => [Contract!ContractNext]_<<Contract!feed, Contract!contractVars>>
  <2>1. ASSUME SweepInv, NextCandle, SweepCandle
        PROVE  Contract!ContractNext
    BY <2>1, SweepStep, OneContract
       DEF Contract!ContractNext, Contract!NextCandle, NextCandle
  <2>2. ASSUME UNCHANGED <<feed, sweepVars>>
        PROVE  UNCHANGED <<Contract!feed, Contract!contractVars>>
    BY <2>2 DEF feed, sweepVars, Contract!feed, Contract!contractVars, SweepBook
  <2>. QED
    BY <2>1, <2>2
<1>. QED
  BY <1>1, <1>2, <1>3, PTL DEF SweepSpec, SweepContract, Contract!ContractSpec

------------------------------------------------------------------------------
(* The exported trades are the scored ones *)

Together ==
  /\ SweepInv /\ ParityInv
  /\ SweepBook = ParityBook /\ credited = trades
  /\ cooldown_timer = cooldown_ticks /\ st_shifted = prev_st

LEMMA TogetherStep ==
  ASSUME Together, NextCandle, SweepCandle, ParityCandle, UseRegime = FALSE
  PROVE  Together'
<1>1. credited' = trades'
  BY SweepResults, ParityResults DEF Together
<1>. DEFINE left == Left(SweepBook, candle', hazard')
            opens == Opens(left, cooldown_timer, st_shifted, gate')
<1>2. /\ SweepBook' = Moved(left, opens, candle', gate')
      /\ cooldown_timer' = IF opens THEN Cooldown ELSE Ready(cooldown_timer)
      /\ st_shifted' = IF gate'.action # 0 THEN gate'.tension ELSE st_shifted
      /\ SweepInv'
  BY SweepMoves DEF Together
<1>3. /\ ParityBook' = Moved(left, opens, candle', gate')
      /\ cooldown_ticks' = IF opens THEN Cooldown ELSE Ready(cooldown_timer)
      /\ prev_st' = IF gate'.action # 0 THEN gate'.tension ELSE st_shifted
      /\ ParityInv'
  BY ParityMoves DEF Together
<1>. QED
  BY <1>1, <1>2, <1>3 DEF Together

(***************************************************************************)
(* When the parameter set does not ask for the trend, the replay that      *)
(* exports it does what the sweep scored: the same positions and the same  *)
(* trades at the same prices, after every candle.                          *)
(***************************************************************************)
THEOREM ExportIsScored ==
  ASSUME UseRegime = FALSE
  PROVE  Spec => []SameTrades
<1>1. Init => Together
  BY SweepStarts, ParityStarts DEF Init, SweepInit, ParityInit, Together
<1>2. Together /\ [Next]_vars => Together'
  <2>1. ASSUME Together, Next
        PROVE  Together'
    BY <2>1, TogetherStep DEF Next, QuietCandle, GateCandle
  <2>2. ASSUME Together, UNCHANGED vars
        PROVE  Together'
    BY <2>2 DEF vars, sweepVars, parityVars, Together, SweepInv, ParityInv, SweepBook,
                ParityBook, OneSided, SlotOK, FlagOf
  <2>. QED
    BY <2>1, <2>2
<1>3. Together => SameTrades
  BY DEF Together, SameTrades
<1>. QED
  BY <1>1, <1>2, <1>3, PTL DEF Spec


------------------------------------------------------------------------------
(* Types *)

(***************************************************************************)
(* What a candle makes of one column, in a trade or not: numbers, and a    *)
(* timer within the hold limit.                                            *)
(***************************************************************************)
LEMMA ColumnTypes ==
  ASSUME SweepTypeOK, NEW c \in Candles, NEW i \in Slots
  PROVE  /\ held(i) \in 0..Hold /\ (in_trade[i] => held(i) \in 1..Hold)
         /\ profit(i, c) \in Int /\ peak(i, c) \in Nat /\ activated(i, c) \in BOOLEAN
         /\ exit_price_val(i, c) \in Int
<1>1. /\ entry_price[i] \in Nat /\ c.high \in Nat /\ c.low \in Nat /\ c.close \in Nat
      /\ hold_timer[i] \in 0..Hold /\ Hold \in Nat \ {0}
      /\ in_trade[i] => hold_timer[i] < Hold
      /\ peak_profit[i] \in Nat /\ be_activated[i] \in BOOLEAN
  BY EntryType, CandleType, ReplayAssumption DEF SweepTypeOK
<1>2. held(i) \in 0..Hold /\ (in_trade[i] => held(i) \in 1..Hold)
  BY <1>1 DEF held
<1>3. profit(i, c) \in Int
  BY <1>1 DEF profit
<1>4. peak(i, c) \in Nat
  BY <1>1, <1>3 DEF peak
<1>5. activated(i, c) \in BOOLEAN
  BY <1>1 DEF activated
<1>6. /\ Limit(StopLoss) \in Nat /\ Limit(TakeProfit) \in Nat /\ Limit(Trailing) \in Nat
  BY ReplayAssumption, TpslAssumption DEF Limit
<1>7. exit_price_val(i, c) \in Int
  <2>. DEFINE e == entry_price[i]
              side == IF trade_dir[i] = 1 THEN 1 ELSE -1
              sl == Masked(100 * c.close, hit_sl(i, c), 100 * e - Limit(StopLoss) * e * side)
              tp == Masked(sl, hit_tp(i, c), 100 * e + Limit(TakeProfit) * e * side)
              trail == Masked(tp, hit_trail(i, c),
                         100 * e + (100 * peak(i, c) - Limit(Trailing) * e) * side)
  <2>1. side \in Int /\ e \in Int
    BY <1>1
  <2>. HIDE DEF side, e
  <2>2. /\ 100 * e - Limit(StopLoss) * e * side \in Int
        /\ 100 * e + Limit(TakeProfit) * e * side \in Int
        /\ 100 * e + (100 * peak(i, c) - Limit(Trailing) * e) * side \in Int
        /\ 100 * c.close \in Int /\ 100 * e \in Int
    BY <1>1, <1>4, <1>6, <2>1
  <2>3. sl \in Int
    BY <2>2 DEF Masked
  <2>4. tp \in Int
    BY <2>2, <2>3 DEF Masked
  <2>5. trail \in Int
    BY <2>2, <2>4 DEF Masked
  <2>6. exit_price_val(i, c) = Masked(trail, hit_be(i, c), 100 * e)
    BY DEF exit_price_val, side, e
  <2>. QED
    BY <2>2, <2>5, <2>6 DEF Masked
<1>. QED
  BY <1>2, <1>3, <1>4, <1>5, <1>7

LEMMA SweepTypesKept ==
  ASSUME SweepTypeOK, NextCandle, SweepCandle
  PROVE  SweepTypeOK'
<1>. DEFINE c == candle'
            g == gate'
            exits == {i \in Slots : valid_exit(i, c, hazard')}
            trading == [i \in Slots |-> in_trade[i] /\ i \notin exits]
            timer == IF cooldown_timer > 0 THEN cooldown_timer - 1 ELSE cooldown_timer
            enters == new_entry(trading, timer, g)
            mask == IF enters THEN {first_open_idx(trading)} ELSE {}
<1>1. /\ c \in Candles /\ hazard' \in Hazards /\ g \in Gates \cup {NoGate}
      /\ c.close \in Closes
  BY CandleType DEF NextCandle
<1>2. /\ credited' = [i \in Slots |->
           IF i \in exits
           THEN [dir |-> trade_dir[i], entry |-> entry_price[i], held |-> held(i),
                 exit |-> exit_price_val(i, c)]
           ELSE NoTrade]
      /\ in_trade' = Written(trading, mask, TRUE)
      /\ trade_dir' = Written(trade_dir, mask, actual_dir(g))
      /\ entry_price' = Written(entry_price, mask, c.close)
      /\ hold_timer' = Written([i \in Slots |-> held(i)], mask, 0)
      /\ peak_profit' = Written([i \in Slots |-> peak(i, c)], mask, 0)
      /\ be_activated' = Written([i \in Slots |-> activated(i, c)], mask, FALSE)
      /\ cooldown_timer' = IF mask # {} THEN Cooldown ELSE timer
      /\ st_shifted' = IF g.action # 0 THEN g.tension ELSE st_shifted
  BY Zenon DEF SweepCandle, Reset
<1>3. enters => actual_dir(g) \in {-1, 1}
  <2>1. enters => g.action # 0
    BY DEF new_entry, valid_gate
  <2>2. g.action \in {-1, 0, 1}
    BY <1>1, GateType
  <2>. QED
    BY <2>1, <2>2 DEF actual_dir
<1>4. /\ in_trade \in [Slots -> BOOLEAN] /\ trade_dir \in [Slots -> {-1, 0, 1}]
      /\ entry_price \in [Slots -> Closes \cup {0}]
      /\ cooldown_timer \in 0..Cooldown /\ st_shifted \in Nat
      /\ Cooldown \in Nat /\ Hold \in Nat \ {0}
  BY ReplayAssumption DEF SweepTypeOK
<1>5. /\ \A i \in mask : enters
      /\ trading \in [Slots -> BOOLEAN]
      /\ timer \in 0..Cooldown
  BY <1>4
<1>6. \A i \in Slots : i \in exits <=> valid_exit(i, c, hazard')
  OBVIOUS
<1>7. \A i \in Slots : trading[i] <=> in_trade[i] /\ i \notin exits
  OBVIOUS
<1>. HIDE DEF exits, trading, timer, enters, mask, c, g
<1>8. FeedTypeOK'
  BY <1>1 DEF FeedTypeOK, NextCandle, c, g
<1>9. in_trade' \in [Slots -> BOOLEAN] /\ be_activated' \in [Slots -> BOOLEAN]
  BY <1>1, <1>2, <1>5, ColumnTypes DEF Written
<1>10. trade_dir' \in [Slots -> {-1, 0, 1}] /\ entry_price' \in [Slots -> Closes \cup {0}]
  BY <1>1, <1>2, <1>3, <1>4, <1>5 DEF Written
<1>11. hold_timer' \in [Slots -> 0..Hold] /\ peak_profit' \in [Slots -> Nat]
  BY <1>1, <1>2, <1>4, ColumnTypes DEF Written
<1>12. cooldown_timer' \in 0..Cooldown /\ st_shifted' \in Nat
  BY <1>1, <1>2, <1>4, <1>5, GateType
<1>13. credited' \in [Slots -> Trades \cup {NoTrade}]
  <2>1. ASSUME NEW i \in exits, i \in Slots
        PROVE  [dir |-> trade_dir[i], entry |-> entry_price[i], held |-> held(i),
                exit |-> exit_price_val(i, c)] \in Trades
    <3>1. in_trade[i]
      BY <1>6, <2>1 DEF valid_exit
    <3>2. trade_dir[i] \in {-1, 1} /\ entry_price[i] \in Closes
      BY <1>4, <2>1, <3>1 DEF SweepTypeOK
    <3>3. held(i) \in Nat /\ exit_price_val(i, c) \in Int
      BY <1>1, <1>4, <2>1, ColumnTypes
    <3>. QED
      BY <3>2, <3>3 DEF Trades
  <2>. QED
    BY <1>2, <2>1
<1>14. ASSUME NEW i \in Slots, in_trade'[i]
       PROVE  trade_dir'[i] # 0 /\ entry_price'[i] \in Closes /\ hold_timer'[i] < Hold
  <2>1. CASE i \in mask
    BY <1>1, <1>2, <1>3, <1>4, <1>5, <2>1 DEF Written
  <2>2. CASE i \notin mask
    <3>1. /\ trading[i] /\ trade_dir'[i] = trade_dir[i]
          /\ entry_price'[i] = entry_price[i] /\ hold_timer'[i] = held(i)
      BY <1>2, <1>14, <2>2 DEF Written
    <3>2. in_trade[i] /\ ~valid_exit(i, c, hazard')
      BY <1>6, <1>7, <3>1
    <3>3. held(i) \in 0..Hold /\ ~(held(i) >= Hold)
      BY <1>1, <3>2, ColumnTypes DEF valid_exit, hit_time
    <3>. QED
      BY <1>4, <3>1, <3>2, <3>3 DEF SweepTypeOK
  <2>. QED
    BY <2>1, <2>2
<1>. QED
  BY <1>8, <1>9, <1>10, <1>11, <1>12, <1>13, <1>14 DEF SweepTypeOK

(***************************************************************************)
(* What a candle makes of a slot of the replay.                            *)
(***************************************************************************)
LEMMA SlotTypesKept ==
  ASSUME NEW s \in ParitySlots, NEW c \in Candles
  PROVE  Updated(s, c) \in ParitySlots /\ TradeOf(s, c) \in Trades
<1>1. /\ s.direction \in {-1, 1} /\ s.entry_price \in Closes /\ s.entry_price \in Nat
      /\ s.hold_ticks \in Nat /\ s.peak_profit \in Nat /\ s.breakeven_activated \in BOOLEAN
      /\ c.high \in Nat /\ c.low \in Nat /\ c.close \in Nat
  BY ParitySlotTypes, EntryType, CandleType
<1>2. Favour(s, c) \in Int
  BY <1>1 DEF Favour
<1>3. Updated(s, c) \in ParitySlots
  <2>. DEFINE b == IF Favour(s, c) > s.peak_profit THEN Favour(s, c) ELSE s.peak_profit
              f == s.breakeven_activated
                   \/ (Breakeven > 0 /\ 100 * Favour(s, c) >= Breakeven * s.entry_price)
  <2>1. b \in Nat /\ f \in BOOLEAN /\ s.hold_ticks + 1 \in Nat
    BY <1>1, <1>2
  <2>2. Updated(s, c) = [s EXCEPT !.hold_ticks = s.hold_ticks + 1, !.peak_profit = b,
                                  !.breakeven_activated = f]
    BY DEF Updated
  <2>. HIDE DEF b, f
  <2>. QED
    BY <2>1, <2>2 DEF ParitySlots
<1>4. ExitPrice(s, c) \in Int
  <2>1. /\ 100 * s.entry_price \in Int
        /\ 100 * s.entry_price + (100 * s.peak_profit - Trailing * s.entry_price) * s.direction
             \in Int
        /\ s.entry_price * (100 + TakeProfit * s.direction) \in Int
        /\ s.entry_price * (100 - StopLoss * s.direction) \in Int
        /\ 100 * c.close \in Int
    BY <1>1, ReplayAssumption, TpslAssumption
  <2>. QED
    BY <2>1 DEF ExitPrice
<1>. QED
  BY <1>1, <1>3, <1>4 DEF TradeOf, Trades

LEMMA ParityTypesKept ==
  ASSUME ParityTypeOK, NextCandle, ParityCandle
  PROVE  ParityTypeOK'
<1>. DEFINE c == candle'
            g == gate'
            aged == [i \in Slots |-> IF slots[i] = None THEN None ELSE Updated(slots[i], c)]
            gone == {i \in Slots : aged[i] # None /\ Exits(aged[i], c, hazard')}
            left == [i \in Slots |-> IF i \in gone THEN None ELSE aged[i]]
            ticks == IF cooldown_ticks > 0 THEN cooldown_ticks - 1 ELSE cooldown_ticks
            enter == /\ GateValid(g) /\ ticks = 0
                     /\ \E i \in Slots : left[i] = None
                     /\ ~SideConflict(left, g)
<1>1. c \in Candles /\ g \in Gates \cup {NoGate} /\ c.close \in Closes
  BY CandleType DEF NextCandle
<1>2. /\ trades' = [i \in Slots |-> IF i \in gone THEN TradeOf(aged[i], c) ELSE NoTrade]
      /\ slots' = IF enter THEN [left EXCEPT ![FirstOpen(left)] = Entered(g, c)] ELSE left
      /\ cooldown_ticks' = IF enter THEN Cooldown ELSE ticks
      /\ prev_st' = IF g.action # 0 THEN g.tension ELSE prev_st
  BY Zenon DEF ParityCandle
<1>3. \A i \in Slots : slots[i] \in ParitySlots \cup {None}
  BY DEF ParityTypeOK
<1>4. \A i \in Slots : aged[i] = IF slots[i] = None THEN None ELSE Updated(slots[i], c)
  OBVIOUS
<1>5. \A i \in Slots : aged[i] \in ParitySlots \cup {None}
  BY <1>1, <1>3, <1>4, SlotTypesKept
<1>6. \A i \in gone : i \in Slots /\ aged[i] # None
  OBVIOUS
<1>. HIDE DEF aged
<1>7. left \in [Slots -> ParitySlots \cup {None}]
  BY <1>5
<1>8. /\ cooldown_ticks \in 0..Cooldown /\ Cooldown \in Nat /\ ticks \in 0..Cooldown
      /\ prev_st \in Nat
  BY ReplayAssumption DEF ParityTypeOK
<1>9. enter => Entered(g, c) \in ParitySlots
  <2>1. GateValid(g) => Direction(g) \in {-1, 1}
    BY <1>1, GateType DEF GateValid, Direction
  <2>. QED
    BY <1>1, <2>1 DEF Entered, ParitySlots
<1>. HIDE DEF gone, left, ticks, enter, c, g
<1>10. slots' \in [Slots -> ParitySlots \cup {None}]
  BY <1>2, <1>7, <1>9
<1>11. trades' \in [Slots -> Trades \cup {NoTrade}]
  BY <1>1, <1>2, <1>5, <1>6, SlotTypesKept
<1>12. cooldown_ticks' \in 0..Cooldown /\ prev_st' \in Nat
  BY <1>1, <1>2, <1>8, GateType
<1>. QED
  BY <1>10, <1>11, <1>12 DEF ParityTypeOK

(***************************************************************************)
(* Both replays stay well typed, whatever the parameter set: timers within *)
(* the hold limit, also those of closed slots, and whole prices.           *)
(***************************************************************************)
THEOREM TypeCorrect == Spec => []TypeOK
<1>1. Init => TypeOK
  <2>. SUFFICES ASSUME Init PROVE TypeOK
    OBVIOUS
  <2>1. 0 \in 0..Cooldown /\ 0 \in 0..Hold
    BY ReplayAssumption
  <2>2. SweepTypeOK
    BY <2>1 DEF Init, SweepInit, SweepTypeOK, FeedTypeOK
  <2>3. ParityTypeOK
    BY <2>1 DEF Init, ParityInit, ParityTypeOK
  <2>. QED
    BY <2>2, <2>3 DEF Init, TypeOK
<1>2. TypeOK /\ [Next]_vars => TypeOK'
  <2>1. ASSUME TypeOK, Next
        PROVE  TypeOK'
    <3>1. NextCandle /\ SweepCandle /\ ParityCandle /\ Compared
      BY <2>1 DEF Next, QuietCandle, GateCandle
    <3>. QED
      BY <2>1, <3>1, SweepTypesKept, ParityTypesKept DEF TypeOK, Compared
  <2>2. ASSUME TypeOK, UNCHANGED vars
        PROVE  TypeOK'
    BY <2>2 DEF vars, feed, sweepVars, parityVars, TypeOK, SweepTypeOK, ParityTypeOK, FeedTypeOK
  <2>. QED
    BY <2>1, <2>2
<1>. QED
  BY <1>1, <1>2, PTL DEF Spec

=============================================================================
