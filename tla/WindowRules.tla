------------------------------ MODULE WindowRules ------------------------------
(***************************************************************************)
(* What the makers of gates remember of the windows they have encoded: the *)
(* hazards a threshold is taken from, and the times a signature was seen.  *)
(* The live service and the replay of history hold a copy of this code     *)
(* each.                                                                   *)
(***************************************************************************)
EXTENDS Integers, Sequences, FiniteSets, FiniteSetsExt

CONSTANTS
  Retention,  \* signature_retention_minutes, in candles
  MaxSamples, \* max_samples of the hazard calibrator
  Percentile  \* hazard_percentile, in percent

ASSUME WindowAssumption ==
  /\ Retention \in Nat
  /\ MaxSamples \in Nat \ {0}
  /\ Percentile \in 5..99

(***************************************************************************)
(* HazardCalibrator.update: the value is filed by its size, behind those   *)
(* as large as it, and when there are too many the first goes, which is    *)
(* the smallest and not the oldest.                                        *)
(***************************************************************************)
Filed(sorted, value) ==
  LET upTo == Cardinality({i \in DOMAIN sorted : sorted[i] <= value})
  IN SubSeq(sorted, 1, upTo) \o <<value>> \o SubSeq(sorted, upTo + 1, Len(sorted))

Updated(sorted, value) ==
  IF Len(sorted) < MaxSamples THEN Filed(sorted, value) ELSE Tail(Filed(sorted, value))

(***************************************************************************)
(* Of a calibrator that was given a hazard: update comes before threshold. *)
(***************************************************************************)
Threshold(sorted) == sorted[(Percentile * (Len(sorted) - 1)) \div 100 + 1]

(***************************************************************************)
(* _update_signature_history: a window is counted, and those of the same   *)
(* signature are forgotten, oldest first, up to one that is young enough.  *)
(* The variant forgets none.                                               *)
(***************************************************************************)
CountedForever(seen, t) == Append(seen, t)

Counted(seen, t) ==
  LET all   == Append(seen, t)
      young == {i \in DOMAIN all : t - all[i] <= Retention}
  IN SubSeq(all, Min(young), Len(all))

=============================================================================
