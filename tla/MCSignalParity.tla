----------------------------- MODULE MCSignalParity -----------------------------
(***************************************************************************)
(* Instances of SignalParity for TLC.  Hazards, coherence, entropy and     *)
(* confidence are in hundredths.                                           *)
(***************************************************************************)
EXTENDS SignalParity, TLC

Kind(shape, regime, hazard, coherence, entropy, confidence) ==
  [shape |-> shape, regime |-> regime, hazard |-> hazard, coherence |-> coherence,
   entropy |-> entropy, confidence |-> confidence]

Quiet  == Kind(1, "trend_bull", 10, 40, 100, 70)
Rising == Kind(2, "trend_bull", 45, 60, 140, 70)
Broken == Kind(2, "trend_bear", 75, 40, 155, 60)
Noisy  == Kind(3, "neutral", 20, 10, 170, 50)

AllKinds == {Quiet, Rising, Broken, Noisy}
TwoKinds == {Quiet, Rising}

(* With volumes that differ the replay looks ahead of the live service. *)
Level == {2}
Uneven == {1, 3}

Trends == {"trend_bull", "trend_bear"}

Decays == 10 :> 905 @@ 20 :> 819 @@ 45 :> 638 @@ 75 :> 472

Entry(reps, peak, regimes, invert) ==
  [hazards |-> 20..99, reps |-> reps, guards |-> [min_coherence |-> 30, max_entropy |-> 160],
   st_peak |-> peak, regimes |-> regimes, confidence |-> 55, invert |-> invert]

(***************************************************************************)
(* A profile as the one of the repository, one that waits for a peak, and  *)
(* one that filters by regime.                                             *)
(***************************************************************************)
ThreeProfiles ==
  {Entry(2, FALSE, {}, TRUE), Entry(1, TRUE, {}, TRUE),
   Entry(1, FALSE, {"long_ok", "short_ok"}, FALSE)}

=============================================================================
