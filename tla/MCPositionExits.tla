---------------------------- MODULE MCPositionExits ----------------------------
(***************************************************************************)
(* One instrument bought and sold at 100, with candles that reach the      *)
(* stop, the entry, the breakeven trigger, a peak to trail, the target.    *)
(***************************************************************************)
EXTENDS PositionExits

MCPrices == {98, 100, 101, 103, 104}
=============================================================================
