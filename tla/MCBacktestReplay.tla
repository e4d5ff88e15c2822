--------------------------- MODULE MCBacktestReplay ---------------------------
(***************************************************************************)
(* Candles that stay, that arm the breakeven stop, that fall back to the   *)
(* entry of some tickets and to the stop of others, and that rise to the   *)
(* target of some.                                                         *)
(***************************************************************************)
EXTENDS BacktestReplay

C(high, low, close) == [high |-> high, low |-> low, close |-> close]

MCCandles == {C(101, 100, 101), C(104, 101, 103), C(102, 99, 100)}
=============================================================================
