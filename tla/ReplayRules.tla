------------------------------ MODULE ReplayRules ------------------------------
(***************************************************************************)
(* What a replay of stored candles is given: the parameter set of one run  *)
(* and the candles, gates and hazards of a timeline with one candle per    *)
(* time.  Percentages are whole and 0 stands for None; a distance from the *)
(* entry price divides by it in the code and is compared here after        *)
(* multiplying by it and by 100.                                           *)
(***************************************************************************)
EXTENDS TpslChecker, FiniteSets

CONSTANTS
  MaxTrades,      \* MAX_TRADES, the slots of a replay
  Hold,           \* the hold limit in ticks
  Cooldown,       \* ticks between two entries
  HazardExit,     \* hazard_exit_threshold in thousandths, -1 for None
  HazardLimit,    \* the hazard a gate may have at most, or must have at least
  MeanReversion,  \* whether gates are faded
  RequireStPeak,  \* whether a faded gate must come after a peak of tension
  UseRegime,      \* whether the sweep checks the trend before an entry
  Candles,        \* [high, low, close]
  Gates,          \* [action, hazard, sound, tension, aligned, admit]
  Hazards         \* the continuous hazard, in thousandths

ASSUME ReplayAssumption ==
  /\ MaxTrades \in Nat \ {0}
  /\ TakeProfit \in 0..99 /\ Breakeven \in 0..99
  /\ Hold \in Nat \ {0} /\ Cooldown \in Nat
  /\ HazardExit \in Nat \cup {-1} /\ HazardLimit \in Nat
  /\ MeanReversion \in BOOLEAN /\ RequireStPeak \in BOOLEAN /\ UseRegime \in BOOLEAN
  /\ Candles \subseteq [high : Nat \ {0}, low : Nat \ {0}, close : Nat \ {0}]
  /\ \A c \in Candles : c.low <= c.close /\ c.close <= c.high
  /\ Gates \subseteq [action : {-1, 0, 1}, hazard : Nat, sound : BOOLEAN,
                      tension : Nat, aligned : BOOLEAN, admit : BOOLEAN]
  /\ Hazards \subseteq Nat

(***************************************************************************)
(* No price is 50 times another, so the limit of 9900% that stands for     *)
(* None in the sweep is out of reach.                                      *)
(***************************************************************************)
ASSUME PricesAssumption == \A c, d \in Candles : c.high < 50 * d.low

Slots == 1..MaxTrades

NoGate == [action |-> 0, hazard |-> 999000, sound |-> FALSE, tension |-> 0,
           aligned |-> FALSE, admit |-> FALSE]

(***************************************************************************)
(* A free slot, and the outcome of a slot that closed no trade.            *)
(***************************************************************************)
Free == [dir |-> 0, entry |-> 0, held |-> 0, best |-> 0]

NoTrade == [dir |-> 0, entry |-> 0, held |-> 0, exit |-> 0]

Closes == {c.close : c \in Candles}

Trades == [dir : {-1, 1}, entry : Closes, held : Nat, exit : Int]

VARIABLES
  candle,   \* the candle at hand
  gate,     \* its gate, or NoGate
  hazard    \* the continuous hazard at its time

feed == <<candle, gate, hazard>>

FeedTypeOK == candle \in Candles /\ gate \in Gates \cup {NoGate} /\ hazard \in Hazards

NextCandle ==
  /\ candle' \in Candles
  /\ gate' \in Gates \cup {NoGate}
  /\ hazard' \in Hazards
=============================================================================
