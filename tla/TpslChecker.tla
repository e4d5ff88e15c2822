----------------------------- MODULE TpslChecker -----------------------------
(***************************************************************************)
(* The stop loss, take profit, breakeven and trailing stop of one ticket,  *)
(* checked on the high and low of a candle (scripts/trading/tpsl), as the  *)
(* trading loop and the backtest share it.  A ticket k has a direction, an *)
(* entry price, the best price since the entry and whether the breakeven   *)
(* stop is armed; percentages are whole and 0 stands for None.  Products   *)
(* by 100 keep the comparisons exact.                                      *)
(***************************************************************************)
EXTENDS Integers

CONSTANTS
  StopLoss,      \* stop_loss_pct
  TakeProfit,    \* take_profit_pct
  Breakeven,     \* breakeven_trigger_pct
  Trailing       \* trailing_stop_pct

ASSUME TpslAssumption ==
  /\ StopLoss \in 0..99 /\ TakeProfit \in Nat
  /\ Breakeven \in Nat /\ Trailing \in 0..99

Adverse(k, c) == IF k.dir = 1 THEN c.low ELSE c.high

Favorable(k, c) == IF k.dir = 1 THEN c.high ELSE c.low

(***************************************************************************)
(* A price at least pct percent away from the entry, for and against it.   *)
(***************************************************************************)
Gained(k, price, pct) == (100 * price - k.entry * (100 + pct * k.dir)) * k.dir >= 0

Lost(k, price, pct) == (100 * price - k.entry * (100 - pct * k.dir)) * k.dir <= 0

HitsStop(k, c) == StopLoss > 0 /\ Lost(k, Adverse(k, c), StopLoss)

HitsTarget(k, c) == TakeProfit > 0 /\ Gained(k, Favorable(k, c), TakeProfit)

(***************************************************************************)
(* The breakeven stop is armed by the candle that reaches the trigger and  *)
(* stays armed.  The variant arms it for that candle only.                 *)
(***************************************************************************)
ArmedByCandle(k, c) == Breakeven > 0 /\ Gained(k, Favorable(k, c), Breakeven)

Armed(k, c) ==
  Breakeven > 0 /\ (k.armed \/ Gained(k, Favorable(k, c), Breakeven))

HitsBreakeven(k, c) == Armed(k, c) /\ Lost(k, Adverse(k, c), 0)

(***************************************************************************)
(* update_peak: the best price since the entry.                            *)
(***************************************************************************)
Peak(k, c) ==
  IF Trailing > 0 /\ (Favorable(k, c) - k.peak) * k.dir > 0
  THEN Favorable(k, c) ELSE k.peak

HitsTrail(k, c) ==
  /\ Trailing > 0
  /\ (Peak(k, c) - k.entry) * k.dir > 0
  /\ (100 * Adverse(k, c) - Peak(k, c) * (100 - Trailing * k.dir)) * k.dir <= 0

(***************************************************************************)
(* check_intra_candle: the first that is hit, in this order.               *)
(***************************************************************************)
Verdict(k, c) ==
  CASE HitsStop(k, c) -> "stop_loss"
    [] ~HitsStop(k, c) /\ HitsTarget(k, c) -> "take_profit"
    [] ~HitsStop(k, c) /\ ~HitsTarget(k, c) /\ HitsBreakeven(k, c) -> "breakeven"
    [] OTHER -> IF HitsTrail(k, c) THEN "trailing" ELSE "none"

(***************************************************************************)
(* What the check leaves in the state of the ticket: an exit returns       *)
(* before what comes after it is updated.                                  *)
(***************************************************************************)
CheckedState(k, c) ==
  [k EXCEPT
     !.armed = IF Verdict(k, c) \in {"stop_loss", "take_profit"} THEN @ ELSE Armed(k, c),
     !.peak  = IF Verdict(k, c) \in {"trailing", "none"} THEN Peak(k, c) ELSE @]

(***************************************************************************)
(* The price an exit is booked at, times 100.                              *)
(***************************************************************************)
TriggerPrice(k, c) ==
  CASE Verdict(k, c) = "stop_loss"   -> k.entry * (100 - StopLoss * k.dir)
    [] Verdict(k, c) = "take_profit" -> k.entry * (100 + TakeProfit * k.dir)
    [] Verdict(k, c) = "breakeven"   -> 100 * k.entry
    [] Verdict(k, c) = "trailing"    -> Peak(k, c) * (100 - Trailing * k.dir)
    [] OTHER -> 0
=============================================================================
