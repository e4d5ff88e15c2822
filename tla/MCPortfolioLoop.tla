--------------------------- MODULE MCPortfolioLoop ---------------------------
(***************************************************************************)
(* Instances of PortfolioLoop for TLC.                                     *)
(***************************************************************************)
EXTENDS PortfolioLoop

One == {1}
OneTwo == {1, 2}
Two == {2}
Nobody == {}
Somebody == {-1, 1}

(* Every order is filled or turned down, and the answer says which. *)
AnsweredReplies == {Filled, Rejected}

(* An HTTP error may be the answer, too. *)
OrRefused == {Filled, Rejected, Refused}

(* Every answer with which a broker and a network may confuse the loop. *)
AllReplies == {r \in Reply : Possible(r)}

Answered == {"ok"}
AllReconciles == {"ok", "skipped"}

=============================================================================
