---------------------------- MODULE MCReplayParity ----------------------------
(***************************************************************************)
(* Candles that stay, that arm the breakeven stop and that reach stop and  *)
(* target at once, and gates with more and with less tension, of both      *)
(* sides and one of them against the trend.                                *)
(***************************************************************************)
EXTENDS ReplayParity

C(high, low, close) == [high |-> high, low |-> low, close |-> close]

G(action, hz, tension, aligned) ==
  [action |-> action, hazard |-> hz, sound |-> TRUE, tension |-> tension,
   aligned |-> aligned, admit |-> aligned]

MCCandles == {C(100, 100, 100), C(104, 96, 100), C(102, 99, 102)}

MCGates == {G(-1, 900, 2, TRUE), G(-1, 900, 1, TRUE), G(1, 900, 1, FALSE)}

MCHazards == {300, 900}
=============================================================================
