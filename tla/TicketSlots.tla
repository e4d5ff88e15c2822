------------------------------ MODULE TicketSlots ------------------------------
(***************************************************************************)
(* Closing several slots of a list of tickets or trades                    *)
(* (scripts/trading/execution_engine.py and the trackers): the slots are   *)
(* popped from the last one down, so that none has moved when its turn     *)
(* comes.                                                                  *)
(***************************************************************************)
EXTENDS Integers, Sequences

(***************************************************************************)
(* The slots of 1..n that are left, in order.                              *)
(***************************************************************************)
SlotsLeft(n, slots) ==
  LET left[k \in 0..n] ==
        IF k = 0 THEN <<>>
        ELSE IF k \in slots THEN left[k - 1] ELSE Append(left[k - 1], k)
  IN  left[n]

(***************************************************************************)
(* What is left of a book when some of its slots are closed.               *)
(***************************************************************************)
Without(book, slots) ==
  LET left == SlotsLeft(Len(book), slots)
  IN  [i \in DOMAIN left |-> book[left[i]]]
=============================================================================
