--------------------------- MODULE PositionTracker ---------------------------
(***************************************************************************)
(* The arithmetic of the local ticket book of one instrument               *)
(* (scripts/trading/position_tracker.py).  A ticket is abstracted to its   *)
(* signed units: entry price, cost and TP/SL state do not decide what is   *)
(* open.                                                                   *)
(***************************************************************************)
EXTENDS Integers, SequencesExt

Magnitude(u) == IF u < 0 THEN -u ELSE u

Side(u) == IF u > 0 THEN 1 ELSE IF u < 0 THEN -1 ELSE 0

(***************************************************************************)
(* The signed units held by a sequence of tickets, as the sum of its       *)
(* prefixes.                                                               *)
(***************************************************************************)
NetUnits(tickets) ==
  LET net[n \in 0..Len(tickets)] ==
        IF n = 0 THEN 0 ELSE net[n - 1] + tickets[n]
  IN  net[Len(tickets)]

(***************************************************************************)
(* The tickets after the tracker was told to hold target units.  A target  *)
(* on the other side, or smaller, closes every ticket and opens one for    *)
(* the whole target; a larger one opens one ticket for the difference.     *)
(* The variant opens a ticket for the difference whatever was held.        *)
(***************************************************************************)
SyncByDifference(tickets, target) ==
  IF NetUnits(tickets) = target THEN tickets
  ELSE Append(tickets, target - NetUnits(tickets))

SyncToNetPosition(tickets, target) ==
  LET held     == NetUnits(tickets)
      sameSide == \/ held = 0
                  \/ target = 0
                  \/ Side(held) = Side(target)
      shrinks  == Magnitude(target) < Magnitude(held)
  IN  CASE held = target                              -> tickets
        [] held # target /\ sameSide /\ ~shrinks      -> Append(tickets, target - held)
        [] held # target /\ (~sameSide \/ shrinks)    ->
             IF target = 0 THEN <<>> ELSE <<target>>

(***************************************************************************)
(* No ticket of the book offsets another, and none is empty: the book is   *)
(* flat exactly when its net is zero, which has_position relies on.        *)
(***************************************************************************)
OneSided(tickets) ==
  \/ \A k \in DOMAIN tickets : tickets[k] > 0
  \/ \A k \in DOMAIN tickets : tickets[k] < 0

=============================================================================
