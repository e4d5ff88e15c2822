------------------------------ MODULE ParityReplay ------------------------------
(***************************************************************************)
(* replay_gpu_parity, the replay that writes the trades of the winning     *)
(* parameter set: a list of slots, each None or a ParitySlot.  Sizes,      *)
(* commissions and the equity curve are left out; every size is positive.  *)
(***************************************************************************)
EXTENDS ReplayRules

VARIABLES
  slots,           \* None or a slot
  cooldown_ticks,
  prev_st,         \* the tension of the last directional gate, 0 before any
  trades           \* what every slot appends to the trades on this candle

parityVars == <<slots, cooldown_ticks, prev_st, trades>>

None == [direction |-> 0, entry_price |-> 0, hold_ticks |-> 0, peak_profit |-> 0,
         breakeven_activated |-> FALSE]

ParitySlots ==
  [direction : {-1, 1}, entry_price : Closes, hold_ticks : Nat, peak_profit : Nat,
   breakeven_activated : BOOLEAN]

ParityTypeOK ==
  /\ slots \in [Slots -> ParitySlots \cup {None}]
  /\ cooldown_ticks \in 0..Cooldown
  /\ prev_st \in Nat
  /\ trades \in [Slots -> Trades \cup {NoTrade}]

ParityInit ==
  /\ slots = [i \in Slots |-> None]
  /\ cooldown_ticks = 0
  /\ prev_st = 0
  /\ trades = [i \in Slots |-> NoTrade]

------------------------------------------------------------------------------
(* The exits of one slot *)

Favour(s, c) == IF s.direction = 1 THEN c.high - s.entry_price ELSE s.entry_price - c.low

Draw(s, c) == IF s.direction = 1 THEN c.low - s.entry_price ELSE s.entry_price - c.high

(***************************************************************************)
(* The slot after its ticks, peak and breakeven flag were updated.         *)
(***************************************************************************)
Updated(s, c) ==
  [s EXCEPT
     !.hold_ticks = @ + 1,
     !.peak_profit = IF Favour(s, c) > @ THEN Favour(s, c) ELSE @,
     !.breakeven_activated =
        @ \/ (Breakeven > 0 /\ 100 * Favour(s, c) >= Breakeven * s.entry_price)]

HitSl(s, c) == StopLoss > 0 /\ 100 * Draw(s, c) <= -(StopLoss * s.entry_price)

HitTp(s, c) == TakeProfit > 0 /\ 100 * Favour(s, c) >= TakeProfit * s.entry_price

HitBe(s, c) == s.breakeven_activated /\ Draw(s, c) <= 0

HitTrail(s, c) ==
  /\ Trailing > 0 /\ s.peak_profit > 0
  /\ 100 * (s.peak_profit - Draw(s, c)) >= Trailing * s.entry_price

HitHazard(s, h) ==
  HazardExit # -1 /\ HazardExit < 999 /\ s.hold_ticks > 0 /\ h <= HazardExit

HitTime(s) == Hold > 0 /\ s.hold_ticks >= Hold

Exits(s, c, h) ==
  HitSl(s, c) \/ HitTp(s, c) \/ HitBe(s, c) \/ HitHazard(s, h) \/ HitTrail(s, c) \/ HitTime(s)

(***************************************************************************)
(* exit_price, times 100, as the last reason that holds sets it.  The      *)
(* variant lets the stop loss keep the price.                              *)
(***************************************************************************)
ExitPriceStopFirst(s, c) ==
  CASE HitSl(s, c) -> s.entry_price * (100 - StopLoss * s.direction)
    [] ~HitSl(s, c) /\ HitBe(s, c) -> 100 * s.entry_price
    [] ~HitSl(s, c) /\ ~HitBe(s, c) /\ HitTrail(s, c) ->
         100 * s.entry_price
         + (100 * s.peak_profit - Trailing * s.entry_price) * s.direction
    [] OTHER -> IF HitTp(s, c) THEN s.entry_price * (100 + TakeProfit * s.direction)
                               ELSE 100 * c.close

ExitPrice(s, c) ==
  CASE HitBe(s, c) -> 100 * s.entry_price
    [] ~HitBe(s, c) /\ HitTrail(s, c) ->
         100 * s.entry_price
         + (100 * s.peak_profit - Trailing * s.entry_price) * s.direction
    [] ~HitBe(s, c) /\ ~HitTrail(s, c) /\ HitTp(s, c) ->
         s.entry_price * (100 + TakeProfit * s.direction)
    [] OTHER -> IF HitSl(s, c) THEN s.entry_price * (100 - StopLoss * s.direction)
                               ELSE 100 * c.close

TradeOf(s, c) ==
  [dir |-> s.direction, entry |-> s.entry_price, held |-> s.hold_ticks, exit |-> ExitPrice(s, c)]

------------------------------------------------------------------------------
(* The entry on a gate *)

Direction(g) == IF MeanReversion THEN -g.action ELSE g.action

(***************************************************************************)
(* A directional gate of less tension than the one before; the variant     *)
(* takes one of more.                                                      *)
(***************************************************************************)
StRise(g) == prev_st > 0 /\ g.tension > prev_st

StPeak(g) == prev_st > 0 /\ g.tension < prev_st

(***************************************************************************)
(* gate_valid reads neither the admit flag that the export sets on gates   *)
(* against the trend nor the trend itself.                                 *)
(***************************************************************************)
GateValid(g) ==
  /\ Direction(g) # 0
  /\ IF MeanReversion THEN g.hazard >= HazardLimit ELSE g.hazard <= HazardLimit
  /\ g.sound
  /\ MeanReversion /\ RequireStPeak => StPeak(g)

SideConflict(book, g) ==
  LET signed == Cardinality({i \in Slots : book[i].direction = 1})
                - Cardinality({i \in Slots : book[i].direction = -1})
      side   == IF signed > 0 THEN 1 ELSE IF signed < 0 THEN -1 ELSE 0
  IN side # 0 /\ side # Direction(g)

FirstOpen(book) ==
  CHOOSE i \in Slots : book[i] = None /\ \A j \in Slots : book[j] = None => i <= j

Entered(g, c) ==
  [direction |-> Direction(g), entry_price |-> c.close, hold_ticks |-> 0,
   peak_profit |-> 0, breakeven_activated |-> FALSE]

(***************************************************************************)
(* One candle of the replay.                                               *)
(***************************************************************************)
ParityCandle ==
  LET c     == candle'
      g     == gate'
      aged  == [i \in Slots |-> IF slots[i] = None THEN None ELSE Updated(slots[i], c)]
      gone  == {i \in Slots : aged[i] # None /\ Exits(aged[i], c, hazard')}
      left  == [i \in Slots |-> IF i \in gone THEN None ELSE aged[i]]
      ticks == IF cooldown_ticks > 0 THEN cooldown_ticks - 1 ELSE cooldown_ticks
      enter == /\ GateValid(g) /\ ticks = 0
               /\ \E i \in Slots : left[i] = None
               /\ ~SideConflict(left, g)
  IN /\ trades' = [i \in Slots |-> IF i \in gone THEN TradeOf(aged[i], c) ELSE NoTrade]
     /\ slots' = IF enter THEN [left EXCEPT ![FirstOpen(left)] = Entered(g, c)] ELSE left
     /\ cooldown_ticks' = IF enter THEN Cooldown ELSE ticks
     /\ prev_st' = IF g.action # 0 THEN g.tension ELSE prev_st

ParityBook ==
  [i \in Slots |->
     IF slots[i] = None THEN Free
     ELSE [dir |-> slots[i].direction, entry |-> slots[i].entry_price,
           held |-> slots[i].hold_ticks, best |-> slots[i].peak_profit]]

Promise == INSTANCE ReplayContract
  WITH book <- ParityBook, pause <- cooldown_ticks, lastSt <- prev_st, outcome <- trades

ParitySpec ==
  candle \in Candles /\ gate = NoGate /\ hazard \in Hazards /\ ParityInit
  /\ [][NextCandle /\ ParityCandle]_<<feed, parityVars>>

(***************************************************************************)
(* The parity replay keeps the contract of a replay.                       *)
(***************************************************************************)
ParityContract == Promise!ContractSpec
=============================================================================
