----------------------------- MODULE ReplayParity -----------------------------
(***************************************************************************)
(* The sweep that scores a parameter set and the replay that writes its    *)
(* trades, run on the same candles and gates, next to the live check.      *)
(***************************************************************************)
EXTENDS SweepTimeline, ParityReplay

VARIABLE
  unlike    \* the slots whose exit the live check would not book at that price

vars == <<feed, sweepVars, parityVars, unlike>>

Init ==
  /\ candle \in Candles /\ gate = NoGate /\ hazard \in Hazards
  /\ SweepInit /\ ParityInit
  /\ unlike = {}

(***************************************************************************)
(* The ticket that the live check would hold for a slot.                   *)
(***************************************************************************)
LiveTicket(s) ==
  [dir |-> s.direction, entry |-> s.entry_price,
   peak |-> s.entry_price + s.peak_profit * s.direction, armed |-> s.breakeven_activated]

PriceReason(s, c) == HitSl(s, c) \/ HitTp(s, c) \/ HitBe(s, c) \/ HitTrail(s, c)

Differs(s, c) ==
  LET k == LiveTicket(s) IN
  IF PriceReason(Updated(s, c), c) THEN ExitPrice(Updated(s, c), c) # TriggerPrice(k, c)
                                   ELSE Verdict(k, c) # "none"

Compared ==
  unlike' = {i \in Slots : slots[i] # None /\ Differs(slots[i], candle')}

QuietCandle == NextCandle /\ gate'.action = 0 /\ SweepCandle /\ ParityCandle /\ Compared

GateCandle == NextCandle /\ gate'.action # 0 /\ SweepCandle /\ ParityCandle /\ Compared

Next == QuietCandle \/ GateCandle

Spec == Init /\ [][Next]_vars

TypeOK == SweepTypeOK /\ ParityTypeOK /\ unlike \subseteq Slots

------------------------------------------------------------------------------
(* Properties *)

(***************************************************************************)
(* The replay that is exported is the run that was scored: the same        *)
(* positions, and the same trades at the same prices, candle by candle.    *)
(***************************************************************************)
SameTrades == SweepBook = ParityBook /\ credited = trades

(***************************************************************************)
(* The TP/SL logic is the same on the GPU and live.  It is not: of two     *)
(* stops that one candle hits the live check books the stop loss and the   *)
(* replay the better one, and trailing is measured from the peak live and  *)
(* in percent of the entry in the replay.                                  *)
(***************************************************************************)
ExitsAsLive == unlike = {}
=============================================================================
