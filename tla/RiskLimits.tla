----------------------------- MODULE RiskLimits -----------------------------
(***************************************************************************)
(* The guardrails of scripts/trading/risk_limits.py over the inventory of  *)
(* net units per instrument.  Prices are 1, so exposure in USD is a number *)
(* of units.  RISK_MAX_TOTAL_UNITS is left unset, as in every compose file *)
(* of the repository.                                                      *)
(***************************************************************************)
EXTENDS PositionTracker

CONSTANTS
  MaxNetUnits,      \* max_net_units_per_pair
  MaxPositions,     \* max_total_positions: open instruments, and stacked trades
  MaxPositionSize,  \* max_position_size, 0 when there is no cap
  MaxExposure       \* max_total_exposure, 0 when there is no cap

ASSUME LimitsAssumption ==
  /\ MaxNetUnits \in Nat \ {0}
  /\ MaxPositions \in Nat \ {0}
  /\ MaxPositionSize \in Nat
  /\ MaxExposure \in Nat

(***************************************************************************)
(* The gross exposure: the sum of the magnitudes.  The instruments of an   *)
(* inventory are numbered from 1, as the tickets of a book are.            *)
(***************************************************************************)
Gross(inventory) == [i \in DOMAIN inventory |-> Magnitude(inventory[i])]

Exposure(inventory) == NetUnits(Gross(inventory))

OpenPositions(inventory) ==
  Cardinality({i \in DOMAIN inventory : inventory[i] # 0})

(***************************************************************************)
(* Whether planned more units of instrument i respect the limits.  An      *)
(* order against the held side counts as reducing, even one that overshoots*)
(* zero, and reducing orders are exempt from the size and exposure caps.   *)
(* The variant holds the exposure cap against the instrument alone.        *)
(***************************************************************************)
CanAddAlone(inventory, i, planned) ==
  LET proposed == Magnitude(inventory[i] + planned)
  IN  /\ proposed <= MaxNetUnits
      /\ inventory[i] = 0 => OpenPositions(inventory) < MaxPositions
      /\ MaxPositionSize > 0 => proposed <= MaxPositionSize
      /\ MaxExposure > 0 => proposed <= MaxExposure

CanAdd(inventory, i, planned) ==
  LET current  == inventory[i]
      proposed == current + planned
      isNew    == current = 0 /\ proposed # 0
      reducing == /\ current # 0
                  /\ \/ Side(planned) = -Side(current)
                     \/ Magnitude(proposed) < Magnitude(current)
      total    == Exposure(inventory) - Magnitude(current) + Magnitude(proposed)
  IN  \/ planned = 0
      \/ /\ Magnitude(proposed) <= MaxNetUnits
         /\ isNew => OpenPositions(inventory) < MaxPositions
         /\ \/ reducing
            \/ /\ MaxPositionSize > 0 => Magnitude(proposed) <= MaxPositionSize
               /\ MaxExposure > 0 => total <= MaxExposure

=============================================================================
