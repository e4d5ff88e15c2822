------------------------------- MODULE GateRules -------------------------------
(***************************************************************************)
(* Whether a profile lets a gate through: the same code judges the gates   *)
(* of the live loop and those of a backtest.                               *)
(*                                                                         *)
(* A payload is [hazard, direction, reps, reasons, metrics, st_peak,       *)
(* regime, confidence]; its metrics are a function of the names the        *)
(* encoder knew.  A profile is [hazards, reps, guards, st_peak, regimes,   *)
(* confidence, invert]: hazards is the range from hazard_min to            *)
(* hazard_max, guards a function of the guards that are set.               *)
(***************************************************************************)
EXTENDS Integers

(***************************************************************************)
(* The guards of gate_evaluation: the metric each looks at, whether the    *)
(* threshold is its least or its largest value, and whether a payload      *)
(* without the metric fails.                                               *)
(***************************************************************************)
LeastOf(metric, needed) == [metric |-> metric, least |-> TRUE, needed |-> needed]
MostOf(metric, needed)  == [metric |-> metric, least |-> FALSE, needed |-> needed]

Guard ==
  [min_coherence           |-> LeastOf("coherence", FALSE),
   min_stability           |-> LeastOf("stability", FALSE),
   max_entropy             |-> MostOf("entropy", FALSE),
   max_coherence_tau_slope |-> MostOf("coherence_tau_slope", TRUE),
   max_domain_wall_slope   |-> MostOf("domain_wall_slope", TRUE),
   min_low_freq_share      |-> LeastOf("spectral_lowf_share", TRUE),
   max_reynolds_ratio      |-> MostOf("reynolds_ratio", TRUE),
   min_temporal_half_life  |-> LeastOf("temporal_half_life", TRUE),
   min_spatial_corr_length |-> LeastOf("spatial_corr_length", TRUE),
   min_pinned_alignment    |-> LeastOf("pinned_alignment", TRUE)]

(* _apply_guard *)
Passes(metrics, guard, threshold) ==
  IF guard.metric \in DOMAIN metrics
  THEN IF guard.least THEN metrics[guard.metric] >= threshold
                      ELSE metrics[guard.metric] <= threshold
  ELSE ~guard.needed

(***************************************************************************)
(* gate_evaluation, once it is past its early returns: nothing is held     *)
(* against the gate, by those who made it or by the profile.               *)
(***************************************************************************)
Complaints(p, profile) ==
  \/ p.reasons # {}
  \/ p.reps < profile.reps
  \/ \E g \in DOMAIN profile.guards : ~Passes(p.metrics, Guard[g], profile.guards[g])
  \/ profile.st_peak /\ ~p.st_peak
  \/ profile.regimes # {} /\ p.regime \notin profile.regimes
  \/ p.confidence < profile.confidence

GateEvaluation(p, profile) ==
  /\ p.direction # "FLAT"
  /\ p.hazard \in profile.hazards
  /\ ~Complaints(p, profile)

(***************************************************************************)
(* relaxed_gate_profile, for a profile with ml_primary_gate.               *)
(***************************************************************************)
Relaxed(profile) ==
  [hazards |-> Nat, reps |-> 1,
   guards |-> [min_coherence |-> 1, min_stability |-> 0, max_entropy |-> 500],
   st_peak |-> FALSE, regimes |-> {}, confidence |-> 0, invert |-> profile.invert]

(***************************************************************************)
(* evaluate_gate_and_bundles.  No code of the repository puts a hit into   *)
(* bundle_hits: evaluate_bundles returns what it is given and nothing is a *)
(* bundle entry.                                                           *)
(***************************************************************************)
GateAndBundles(p, profile, mlPrimary, bundlesOnly) ==
  /\ GateEvaluation(p, IF mlPrimary THEN Relaxed(profile) ELSE profile)
  /\ ~bundlesOnly

=============================================================================
