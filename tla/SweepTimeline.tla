----------------------------- MODULE SweepTimeline -----------------------------
(***************************************************************************)
(* _process_timeline of the optimizer for one parameter set: a row of      *)
(* tensors with a column per slot.  Columns of closed slots keep what they *)
(* held, and the masks decide what counts.  Single-precision rounding is   *)
(* left out.                                                               *)
(***************************************************************************)
EXTENDS ReplayRules

VARIABLES
  in_trade, be_activated, trade_dir, entry_price, hold_timer,
  peak_profit,      \* times the entry price
  cooldown_timer,
  st_shifted,       \* the tension of the gate before, 0 for the first
  credited          \* the trade every slot adds to the totals on this candle

sweepVars == <<in_trade, be_activated, trade_dir, entry_price, hold_timer,
               peak_profit, cooldown_timer, st_shifted, credited>>

SweepTypeOK ==
  /\ FeedTypeOK
  /\ in_trade \in [Slots -> BOOLEAN]
  /\ be_activated \in [Slots -> BOOLEAN]
  /\ trade_dir \in [Slots -> {-1, 0, 1}]
  /\ entry_price \in [Slots -> Closes \cup {0}]
  /\ hold_timer \in [Slots -> 0..Hold]
  /\ peak_profit \in [Slots -> Nat]
  /\ cooldown_timer \in 0..Cooldown
  /\ st_shifted \in Nat
  /\ credited \in [Slots -> Trades \cup {NoTrade}]
  /\ \A i \in Slots : in_trade[i] =>
       trade_dir[i] # 0 /\ entry_price[i] \in Closes /\ hold_timer[i] < Hold

(***************************************************************************)
(* initialize_tensors                                                      *)
(***************************************************************************)
SweepInit ==
  /\ in_trade = [i \in Slots |-> FALSE]
  /\ be_activated = [i \in Slots |-> FALSE]
  /\ trade_dir = [i \in Slots |-> 0]
  /\ entry_price = [i \in Slots |-> 0]
  /\ hold_timer = [i \in Slots |-> 0]
  /\ peak_profit = [i \in Slots |-> 0]
  /\ cooldown_timer = 0
  /\ st_shifted = 0
  /\ credited = [i \in Slots |-> NoTrade]

Limit(pct) == IF pct = 0 THEN 9900 ELSE pct

------------------------------------------------------------------------------
(* The exits *)

profit(i, c) ==
  IF trade_dir[i] = 1 THEN c.high - entry_price[i] ELSE entry_price[i] - c.low

drawdown(i, c) ==
  IF trade_dir[i] = 1 THEN c.low - entry_price[i] ELSE entry_price[i] - c.high

held(i) == IF in_trade[i] THEN hold_timer[i] + 1 ELSE hold_timer[i]

(***************************************************************************)
(* The peaks and the breakeven flags are updated when any slot is in a     *)
(* trade, the flags those of closed slots too.                             *)
(***************************************************************************)
peak(i, c) ==
  IF in_trade[i] /\ profit(i, c) > peak_profit[i] THEN profit(i, c) ELSE peak_profit[i]

activated(i, c) ==
  \/ be_activated[i]
  \/ /\ \E j \in Slots : in_trade[j]
     /\ 100 * profit(i, c) >= Limit(Breakeven) * entry_price[i]

hit_sl(i, c) == 100 * drawdown(i, c) <= -(Limit(StopLoss) * entry_price[i])

hit_tp(i, c) == 100 * profit(i, c) >= Limit(TakeProfit) * entry_price[i]

hit_be(i, c) == activated(i, c) /\ drawdown(i, c) <= 0

hit_haz_exit(i, h) == held(i) > 0 /\ h <= HazardExit /\ HazardExit < 999

hit_trail(i, c) ==
  /\ peak(i, c) > 0
  /\ 100 * (peak(i, c) - drawdown(i, c)) >= Limit(Trailing) * entry_price[i]

hit_time(i) == held(i) >= Hold

valid_exit(i, c, h) ==
  /\ in_trade[i]
  /\ \/ hit_sl(i, c) \/ hit_tp(i, c) \/ hit_be(i, c)
     \/ hit_haz_exit(i, h) \/ hit_trail(i, c) \/ hit_time(i)

(***************************************************************************)
(* The masks applied one after the other: the last that hits sets the      *)
(* price, here times 100.                                                  *)
(***************************************************************************)
Masked(price, hit, other) == IF hit THEN other ELSE price

exit_price_val(i, c) ==
  LET entry == 100 * entry_price[i]
      side  == IF trade_dir[i] = 1 THEN 1 ELSE -1
      sl    == Masked(100 * c.close, hit_sl(i, c),
                      entry - Limit(StopLoss) * entry_price[i] * side)
      tp    == Masked(sl, hit_tp(i, c), entry + Limit(TakeProfit) * entry_price[i] * side)
      trail == Masked(tp, hit_trail(i, c),
                      entry + (100 * peak(i, c) - Limit(Trailing) * entry_price[i]) * side)
  IN Masked(trail, hit_be(i, c), entry)

------------------------------------------------------------------------------
(* The entry *)

actual_dir(g) == IF MeanReversion THEN -g.action ELSE g.action

is_peak(g) == g.tension < st_shifted /\ st_shifted > 0

valid_gate(g) ==
  /\ g.action # 0
  /\ UseRegime => g.aligned
  /\ g.sound
  /\ IF MeanReversion
     THEN g.hazard >= HazardLimit /\ (RequireStPeak => is_peak(g))
     ELSE g.hazard <= HazardLimit

(***************************************************************************)
(* The side of the slots that are still in a trade, by the sign of their   *)
(* sum.                                                                    *)
(***************************************************************************)
Count(trading, dir) == Cardinality({i \in Slots : trading[i] /\ trade_dir[i] = dir})

side_conflict(trading, g) ==
  LET signed == Count(trading, 1) - Count(trading, -1)
      side   == IF signed > 0 THEN 1 ELSE IF signed < 0 THEN -1 ELSE 0
  IN side # 0 /\ side # actual_dir(g)

first_open_idx(trading) ==
  CHOOSE i \in Slots : ~trading[i] /\ \A j \in Slots : ~trading[j] => i <= j

new_entry(trading, timer, g) ==
  /\ valid_gate(g)
  /\ \E i \in Slots : ~trading[i]
  /\ timer = 0
  /\ ~side_conflict(trading, g)

(***************************************************************************)
(* What of an array is rewritten at an entry, where the mask says so: the  *)
(* trade, and the peak and flag that start anew.  The variant leaves those *)
(* as the slot's last trade left them.                                     *)
(***************************************************************************)
Written(array, mask, value) == [i \in Slots |-> IF i \in mask THEN value ELSE array[i]]

StaleReset(array, mask, value) == array

Reset(array, mask, value) == Written(array, mask, value)

(***************************************************************************)
(* One step of the timeline.                                               *)
(***************************************************************************)
SweepCandle ==
  LET c       == candle'
      g       == gate'
      exits   == {i \in Slots : valid_exit(i, c, hazard')}
      trading == [i \in Slots |-> in_trade[i] /\ i \notin exits]
      timer   == IF cooldown_timer > 0 THEN cooldown_timer - 1 ELSE cooldown_timer
      mask    == IF new_entry(trading, timer, g) THEN {first_open_idx(trading)} ELSE {}
  IN /\ credited' = [i \in Slots |->
           IF i \in exits
           THEN [dir |-> trade_dir[i], entry |-> entry_price[i], held |-> held(i),
                 exit |-> exit_price_val(i, c)]
           ELSE NoTrade]
     /\ in_trade' = Written(trading, mask, TRUE)
     /\ trade_dir' = Written(trade_dir, mask, actual_dir(g))
     /\ entry_price' = Written(entry_price, mask, c.close)
     /\ hold_timer' = Written([i \in Slots |-> held(i)], mask, 0)
     /\ peak_profit' = Reset([i \in Slots |-> peak(i, c)], mask, 0)
     /\ be_activated' = Reset([i \in Slots |-> activated(i, c)], mask, FALSE)
     /\ cooldown_timer' = IF mask # {} THEN Cooldown ELSE timer
     /\ st_shifted' = IF g.action # 0 THEN g.tension ELSE st_shifted

------------------------------------------------------------------------------
(* The sweep as a replay *)

SweepBook ==
  [i \in Slots |->
     IF in_trade[i]
     THEN [dir |-> trade_dir[i], entry |-> entry_price[i], held |-> hold_timer[i],
           best |-> peak_profit[i]]
     ELSE Free]

Contract == INSTANCE ReplayContract
  WITH book <- SweepBook, pause <- cooldown_timer, lastSt <- st_shifted,
       outcome <- credited

SweepSpec ==
  candle \in Candles /\ gate = NoGate /\ hazard \in Hazards /\ SweepInit
  /\ [][NextCandle /\ SweepCandle]_<<feed, sweepVars>>

(***************************************************************************)
(* The sweep keeps the contract of a replay, whatever its closed slots     *)
(* still hold.                                                             *)
(***************************************************************************)
SweepContract == Contract!ContractSpec
=============================================================================
