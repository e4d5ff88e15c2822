---------------------------- MODULE MCKillSwitch ----------------------------
(***************************************************************************)
(* Instances of KillSwitch for TLC.  The account loses 11 percent, past    *)
(* both default thresholds, and its exposure grows or shrinks past the     *)
(* third.                                                                  *)
(***************************************************************************)
EXTENDS KillSwitch

TwoNavs == {89, 100}
OneExposure == {2}
TwoExposures == {0, 2}

NoFailures == {}
AllFailures == Kinds

=============================================================================
