---------------------------- MODULE AccountContract ----------------------------
(***************************************************************************)
(* What the service promises the owner of the account, in terms of the     *)
(* account and of the verdicts of the regime service only.  The service    *)
(* takes up verdicts at times of its own, so the one it acts on may be     *)
(* older than the last, and acts on each at most once between two times.   *)
(* It trusts its books of an instrument from a reconcile until an answer   *)
(* about it is lost, or somebody else trades it.  While it does, the       *)
(* position changes in two ways: by an entry of one size on the side of    *)
(* the verdict taken up, never against what is held and never beyond the   *)
(* limits; or by an exit of a part of what is held.                        *)
(***************************************************************************)
EXTENDS RiskLimits

CONSTANTS
  Instruments,
  Sizes         \* the units of an entry

VARIABLES
  position,     \* the units held at the broker, per instrument
  verdict,      \* the last gate of the regime service, with a side
  taken,        \* the verdict the service took up and has not used yet
  trusted       \* whether the books of an instrument can be relied on

accountVars == <<position, verdict, taken, trusted>>

NoVerdict == [ts |-> 0, side |-> 0]

(***************************************************************************)
(* Verdicts taken up may be dropped at any time, whatever for.             *)
(***************************************************************************)
MayDrop == \A i \in Instruments : taken'[i] \in {taken[i], NoVerdict}

(***************************************************************************)
(* The limits of an instrument always count.  Those on the sum and on the  *)
(* number of open positions need books that are right about the others.    *)
(***************************************************************************)
WithinOwnLimits(units) ==
  /\ Magnitude(units) <= MaxNetUnits
  /\ MaxPositionSize > 0 => Magnitude(units) <= MaxPositionSize

WithinJointLimits(i) ==
  /\ position[i] = 0 => OpenPositions(position) < MaxPositions
  /\ MaxExposure > 0 => Exposure(position') <= MaxExposure

Enter(i) ==
  LET side == taken[i].side IN
  /\ trusted[i] /\ side # 0
  /\ Side(position[i]) \in {0, side}
  /\ \E size \in Sizes :
       /\ position' = [position EXCEPT ![i] = @ + side * size]
       /\ WithinOwnLimits(position'[i])
  /\ (\A j \in Instruments : trusted[j]) => WithinJointLimits(i)
  /\ taken' = [taken EXCEPT ![i] = NoVerdict]
  /\ UNCHANGED <<verdict, trusted>>

Leave(i) ==
  /\ trusted[i]
  /\ \E units \in 1..Magnitude(position[i]) :
       position' = [position EXCEPT ![i] = @ - Side(@) * units]
  /\ UNCHANGED <<verdict, taken, trusted>>

(***************************************************************************)
(* An answer is lost or misread, or an order came from elsewhere: nothing  *)
(* is said of the position of this instrument, and the books of it are no  *)
(* longer trusted.                                                         *)
(***************************************************************************)
Stray(i) ==
  /\ position' = [position EXCEPT ![i] = position'[i]]
  /\ trusted' = [trusted EXCEPT ![i] = FALSE]
  /\ MayDrop
  /\ UNCHANGED verdict

(***************************************************************************)
(* Books are rebuilt from the account, all of them, or given up where they *)
(* may be wrong: an empty book is right about a flat account.              *)
(***************************************************************************)
Rebuild ==
  /\ trusted' = [i \in Instruments |-> TRUE]
  /\ UNCHANGED <<position, verdict, taken>>

GiveUp ==
  /\ trusted' \in [Instruments -> BOOLEAN]
  /\ \A i \in Instruments : trusted'[i] => trusted[i] \/ position[i] = 0
  /\ MayDrop
  /\ UNCHANGED <<position, verdict>>

(***************************************************************************)
(* The regime service gives a verdict on one instrument; the trading       *)
(* service takes up the last ones, or finds none.                          *)
(***************************************************************************)
Judge(i) ==
  /\ \E side \in {-1, 0, 1} :
       verdict' = [verdict EXCEPT ![i] = [ts |-> @.ts + 1, side |-> side]]
  /\ UNCHANGED <<position, taken, trusted>>

TakeUp ==
  /\ taken' \in [Instruments -> UNION {{verdict[i], NoVerdict} : i \in Instruments}]
  /\ \A i \in Instruments : taken'[i] \in {verdict[i], NoVerdict}
  /\ UNCHANGED <<position, verdict, trusted>>

AccountInit ==
  /\ position = [i \in Instruments |-> 0]
  /\ verdict = [i \in Instruments |-> NoVerdict]
  /\ taken = [i \in Instruments |-> NoVerdict]
  /\ trusted = [i \in Instruments |-> TRUE]

AccountNext ==
  \/ \E i \in Instruments : Enter(i) \/ Leave(i) \/ Stray(i) \/ Judge(i)
  \/ TakeUp \/ Rebuild \/ GiveUp

AccountSpec == AccountInit /\ [][AccountNext]_accountVars
================================================================================
