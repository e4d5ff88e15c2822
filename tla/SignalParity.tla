------------------------------ MODULE SignalParity ------------------------------
(***************************************************************************)
(* A signal is made in four places: live, where the regime service writes  *)
(* a gate for the newest window and the loop judges it; in the replay of   *)
(* history (derive_regime_manifold_gates), which a backtest and the        *)
(* sweep on the GPU read; in derive_signals, the synthetic gates of other  *)
(* backtests; and in the filter of a backtest.  Here candles close, the    *)
(* live parts come late or restart, and at each moment the replay can be   *)
(* made of the candles so far.                                             *)
(***************************************************************************)
EXTENDS GateRules, WindowRules

CONSTANTS
  Kinds,         \* what a window may look like
  Volumes,       \* of a candle
  MaxCandles,    \* bound on the candles
  MaxLapses,     \* bound on what the live side misses
  LookBack,      \* the candles the service reads, 2880 there
  HazardCap,     \* hazard_max of the profile, and hazard_cap of the replay
  AdmitRegimes, MinConfidence,
  Decay,         \* exp(-hazard), in thousandths
  Profiles       \* the instruments' entries in the strategy

ASSUME SignalAssumption ==
  /\ \A k \in Kinds : /\ k.hazard \in DOMAIN Decay /\ Decay[k.hazard] \in Nat \ {0}
                       /\ k.confidence \in Nat
  /\ MinConfidence \in Nat
  /\ Volumes # {} /\ Volumes \subseteq Nat
  /\ MaxCandles \in Nat /\ MaxLapses \in Nat /\ LookBack \in Nat \ {0}

VARIABLES
  candles,  \* what closed: the kind of the window that ends there, and the volume
  live,     \* the service: the window of the last gate, samples, history
  gate,     \* gate:last
  loop,     \* _last_gate_ts, _previous_active_st and _last_peak_eval
  uncounted, unseen, lapses
  (* Observations: the last window the service does not remember, the last *)
  (* gate the loop does not remember, and how much was missed in all.      *)

vars == <<candles, live, gate, loop, uncounted, unseen, lapses>>

------------------------------------------------------------------------------
(* Encoding *)

(***************************************************************************)
(* statistics.median, doubled: the value in the middle of the order, or    *)
(* the two next to it.                                                     *)
(***************************************************************************)
Ranked(values, n) ==
  CHOOSE v \in {values[i] : i \in DOMAIN values} :
    /\ Cardinality({i \in DOMAIN values : values[i] < v}) < n
    /\ n <= Cardinality({i \in DOMAIN values : values[i] <= v})

Median2(values) ==
  LET n == Len(values) IN Ranked(values, (n + 1) \div 2) + Ranked(values, n \div 2 + 1)

(***************************************************************************)
(* volume_split: encode takes the median over all candles it is given, the *)
(* window itself being only the last of them or any of them.               *)
(***************************************************************************)
Split(given) == Median2([i \in DOMAIN given |-> given[i].volume])

Signature(c, split) == <<c.kind.shape, 2 * c.volume >= split>>

Signatures == {k.shape : k \in Kinds} \X BOOLEAN

DirectionOf(regime) ==
  CASE regime = "trend_bull" -> "BUY"
    [] regime = "trend_bear" -> "SELL"
    [] OTHER -> "FLAT"

Tension(reps, k) == reps * k.coherence * Decay[k.hazard]

(***************************************************************************)
(* _build_payload, and the same in the replay and in derive_signals.  The  *)
(* service and the replay put no st_peak into a gate, which reads as FALSE. *)
(***************************************************************************)
Payload(source, t, k, reps, reasons) ==
  [source |-> source, ts |-> t, hazard |-> k.hazard, direction |-> DirectionOf(k.regime), reps |-> reps,
   reasons |-> reasons, metrics |-> [coherence |-> k.coherence, entropy |-> k.entropy],
   st_peak |-> FALSE, regime |-> k.regime, confidence |-> k.confidence,
   tension |-> Tension(reps, k)]

Capped(threshold) == IF threshold < HazardCap THEN threshold ELSE HazardCap

------------------------------------------------------------------------------
(* The regime manifold service and the trading loop *)

NoHistory == [s \in Signatures |-> <<>>]

NewLive == [emitted |-> 0, samples |-> <<>>, history |-> NoHistory]

NewLoop == [ts |-> 0, st |-> -1, peak |-> FALSE]

NoGate == [ts |-> 0]

Init ==
  /\ candles = <<>> /\ live = NewLive /\ gate = NoGate /\ loop = NewLoop
  /\ uncounted = 0 /\ unseen = 0 /\ lapses = 0

Now == Len(candles)

(* _evaluate_window *)
Reasons(k, threshold) ==
  {r \in {"hazard_exceeds_adaptive_threshold", "regime_filtered", "regime_confidence_low"} :
     CASE r = "regime_filtered"       -> k.regime \notin AdmitRegimes
       [] r = "regime_confidence_low" -> k.confidence < MinConfidence
       [] OTHER                       -> k.hazard > threshold}

Missed(counter, latest) ==
  /\ lapses < MaxLapses /\ lapses' = lapses + 1
  /\ counter' = latest

(***************************************************************************)
(* A candle closes, perhaps before the service came to the one before.     *)
(***************************************************************************)
CandleCloses(k, volume) ==
  /\ Now < MaxCandles
  /\ candles' = Append(candles, [kind |-> k, volume |-> volume])
  /\ IF live.emitted = Now THEN UNCHANGED <<uncounted, lapses>> ELSE Missed(uncounted, Now)
  /\ UNCHANGED <<live, gate, loop, unseen>>

(***************************************************************************)
(* _process_instrument, of the newest window, encoded with the candles of  *)
(* the last hours.  The loop may not have seen the gate this one replaces. *)
(***************************************************************************)
ProcessInstrument ==
  /\ Now > 0 /\ live.emitted # Now
  /\ LET given == SubSeq(candles, IF Now > LookBack THEN Now - LookBack + 1 ELSE 1, Now)
         c     == candles[Now]
         s     == Signature(c, Split(given))
         past  == Updated(live.samples, c.kind.hazard)
         seen  == Counted(live.history[s], Now)
     IN /\ gate' = Payload("regime_manifold", Now, c.kind, Len(seen),
                         Reasons(c.kind, Capped(Threshold(past))))
        /\ live' = [emitted |-> Now, samples |-> past,
                    history |-> [live.history EXCEPT ![s] = seen]]
  /\ IF loop.ts = gate.ts THEN UNCHANGED <<unseen, lapses>> ELSE Missed(unseen, gate.ts)
  /\ UNCHANGED <<candles, loop, uncounted>>

ServiceRestarts ==
  /\ live # NewLive
  /\ Missed(uncounted, Now)
  /\ live' = NewLive
  /\ UNCHANGED <<candles, gate, loop, unseen>>

(***************************************************************************)
(* loop_once on a gate: a peak is a fall of the tension since the last     *)
(* gate with a direction, judged once for each gate.  Every pass judges    *)
(* the gate it has read before it hands it on.                             *)
(***************************************************************************)
LoadGate ==
  /\ gate # NoGate /\ loop.ts # gate.ts
  /\ LET active == gate.direction # "FLAT"
     IN loop' = [ts   |-> gate.ts,
                 st   |-> IF active THEN gate.tension ELSE loop.st,
                 peak |-> active /\ loop.st > 0 /\ gate.tension < loop.st]
  /\ UNCHANGED <<candles, live, gate, uncounted, unseen, lapses>>

(***************************************************************************)
(* A gate as loop_once hands it to process_instrument, with the verdict on *)
(* the peak and the label of the regime written into it.  The variant      *)
(* keeps the verdict to itself.                                            *)
(***************************************************************************)
HandedUnjudged(g, peak, label) == [g EXCEPT !.regime = label]

Handed(g, peak, label) == [g EXCEPT !.st_peak = peak, !.regime = label]

(***************************************************************************)
(* The label that is written: where the profile filters by regime, it says *)
(* on which side of the average of the stored candles the last one closed, *)
(* which may be either, and it stays as it was while they are too few.     *)
(***************************************************************************)
Labels(g, profile, mlPrimary) ==
  IF profile.regimes = {} \/ mlPrimary THEN {g.regime}
  ELSE {g.regime, "long_ok", "short_ok"}

(***************************************************************************)
(* What process_instrument holds against the signal itself: the profile,   *)
(* and a label that does not favour the side the order would be on.        *)
(***************************************************************************)
FavourableTo(direction, invert) ==
  IF (direction = "BUY") = invert THEN "short_ok" ELSE "long_ok"

AlongRegime(g, profile, mlPrimary) ==
  (profile.regimes # {} /\ ~mlPrimary)
    => g.regime = FavourableTo(g.direction, profile.invert)

EntersLive(g, profile, mlPrimary) ==
  /\ GateEvaluation(g, IF mlPrimary THEN Relaxed(profile) ELSE profile)
  /\ AlongRegime(g, profile, mlPrimary)

LoopRestarts ==
  /\ loop # NewLoop
  /\ Missed(unseen, gate.ts)
  /\ loop' = NewLoop
  /\ UNCHANGED <<candles, live, gate, uncounted>>

Next ==
  \/ \E k \in Kinds, v \in Volumes : CandleCloses(k, v)
  \/ ProcessInstrument \/ ServiceRestarts
  \/ LoadGate \/ LoopRestarts

Spec == Init /\ [][Next]_vars

------------------------------------------------------------------------------
(* The replay of history *)

(***************************************************************************)
(* The hazard is held against a gate as in the service; empty admit_labels *)
(* and a confidence of 0 ask for nothing.                                  *)
(***************************************************************************)
DenseReasons(k, threshold) ==
  {r \in Reasons(k, threshold) :
     CASE r = "regime_filtered"       -> AdmitRegimes # {}
       [] r = "regime_confidence_low" -> MinConfidence > 0
       [] OTHER                       -> TRUE}

(***************************************************************************)
(* derive_regime_manifold_gates: every window in turn, encoded with the    *)
(* whole history.  Gates are kept by their time.                           *)
(***************************************************************************)
NextReplayed(before, t, c, split) ==
  LET s    == Signature(c, split)
      past == Updated(before.samples, c.kind.hazard)
      seen == Counted(before.history[s], t)
  IN [samples |-> past, history |-> [before.history EXCEPT ![s] = seen],
      gate |-> Payload("regime_manifold", t, c.kind, Len(seen),
                       DenseReasons(c.kind, Capped(Threshold(past))))]

Replayed(cs) ==
  LET split == Split(cs)
      after[t \in 0..Len(cs)] ==
        IF t = 0 THEN [samples |-> <<>>, history |-> NoHistory, gate |-> NoGate]
        ELSE NextReplayed(after[t - 1], t, cs[t], split)
  IN after

DenseGates ==
  LET after == Replayed(candles) IN [t \in 1..Now |-> after[t].gate]

(***************************************************************************)
(* load_data_to_gpu: among the gates with a direction, those whose tension *)
(* is lower than that of the one before.  The variant takes all gates.     *)
(***************************************************************************)
AllOf(gates) == DOMAIN gates

Active(gates) == {t \in DOMAIN gates : gates[t].direction # "FLAT"}

GpuPeaks(gates) ==
  {t \in Active(gates) :
     LET earlier == {p \in Active(gates) : p < t}
     IN /\ earlier # {}
        /\ gates[Max(earlier)].tension > 0
        /\ gates[t].tension < gates[Max(earlier)].tension}

(***************************************************************************)
(* derive_signals.  A squeeze begins in a silent window, is broken by      *)
(* noise, and fires when the hazard expands; a fire is dropped when the    *)
(* entropy is high.  Without a squeeze a high hazard is an extension.      *)
(* Repetitions are windows of the same regime in a row.  It encodes with a *)
(* stride of 16, so that its windows are others than those of the replay.  *)
(* A signal says itself whether it is a peak, a fall of the tension since  *)
(* the signal before, whatever its direction.                              *)
(***************************************************************************)
Silent(k) == k.entropy < 110 /\ k.hazard < 25
Noise(k)  == k.entropy > 160 /\ k.hazard < 30
Fires(k)  == k.hazard >= 40

(* squeeze_active after a window. *)
Squeezed(before, k) == IF before THEN ~Noise(k) /\ ~Fires(k) ELSE Silent(k)

SignalOf(squeezed, k) ==
  IF squeezed /\ ~Noise(k) /\ Fires(k)
  THEN IF k.entropy <= 150 THEN "squeeze_breakout" ELSE "none"
  ELSE IF k.hazard >= 70 THEN "structural_extension" ELSE "none"

NextDerived(before, k) ==
  [squeezed |-> Squeezed(before.squeezed, k), regime |-> k.regime,
   reps |-> IF k.regime = before.regime THEN before.reps + 1 ELSE 1]

Derived(cs) ==
  LET after[t \in 0..Len(cs)] ==
        IF t = 0 THEN [squeezed |-> FALSE, regime |-> "none", reps |-> 0]
        ELSE NextDerived(after[t - 1], cs[t].kind)
  IN after

Signals ==
  LET after     == Derived(candles)
      signal(t) == SignalOf(after[t - 1].squeezed, candles[t].kind)
      times     == {t \in 1..Now : signal(t) # "none"}
      event(t)  == Payload(signal(t), t, candles[t].kind, after[t].reps, {})
      peak(t)   == LET earlier == {u \in times : u < t}
                   IN /\ earlier # {} /\ event(Max(earlier)).tension > 0
                      /\ event(t).tension < event(Max(earlier)).tension
  IN [t \in times |-> [event(t) EXCEPT !.st_peak = peak(t)]]

(***************************************************************************)
(* StructuralTensionFilter in peak mode: the gates it leaves admitted.  A  *)
(* gate without structural_tension gets one from its components, where the *)
(* gates of the regime replay have no coherence (they have it in           *)
(* structure).  The variant compares with the last gate it kept.           *)
(***************************************************************************)
FilterTension(g) == IF g.source = "regime_manifold" THEN 0 ELSE g.tension

KeptOnly(prev, st) == IF st < prev THEN st ELSE prev

LastActive(prev, st) == st

(* last_st after the gates up to each time. *)
Remembered(gates) ==
  LET after[t \in 0..Now] ==
        IF t = 0 THEN -1
        ELSE LET prev == after[t - 1]
             IN IF t \in DOMAIN gates /\ gates[t].direction # "FLAT"
                THEN LastActive(prev, FilterTension(gates[t])) ELSE prev
  IN after

FilterPeaks(gates) ==
  LET after == Remembered(gates)
  IN {t \in DOMAIN gates :
        /\ gates[t].direction # "FLAT"
        /\ after[t - 1] > 0 /\ FilterTension(gates[t]) < after[t - 1]}

------------------------------------------------------------------------------
(* What the copies of the signal promise each other *)

TypeOK ==
  /\ candles \in Seq([kind : Kinds, volume : Volumes]) /\ Now <= MaxCandles
  /\ live.emitted \in 0..Now /\ Len(live.samples) <= MaxSamples
  /\ live.history \in [Signatures -> Seq(1..Now)]
  /\ gate.ts \in 0..Now /\ loop.ts \in 0..gate.ts
  /\ uncounted \in 0..Now /\ unseen \in 0..Now /\ lapses \in 0..MaxLapses

Judged == gate # NoGate /\ loop.ts = gate.ts

(***************************************************************************)
(* Whether a profile looks at nothing but what the service wrote.          *)
(***************************************************************************)
AsksForGateOnly(profile, mlPrimary) ==
  mlPrimary \/ (~profile.st_peak /\ profile.regimes = {})

(***************************************************************************)
(* "Derive dense historical gates that mirror the live rolling regime      *)
(* service" (derive_regime_manifold_gates), for as long as the service has *)
(* missed nothing: a gate that loop_once hands on enters the market        *)
(* (process_instrument) exactly if it does in a backtest of the same       *)
(* candles (evaluate_gate_and_bundles), under a profile that asks neither  *)
(* for a peak nor for a regime.  Under any other one no dense gate is as   *)
(* the loop hands it on: there, if the loop has missed nothing either, a   *)
(* gate enters exactly if the label is that of its side and the backtest   *)
(* would let in the dense gate with that label and the peak the sweep on   *)
(* the GPU sees at it (load_data_to_gpu).                                  *)
(***************************************************************************)
GateMirrored ==
  (Judged /\ uncounted = 0) =>
    LET dense == DenseGates[gate.ts]
        peak  == gate.ts \in GpuPeaks(DenseGates)
    IN /\ gate.reps = dense.reps
       /\ \A profile \in Profiles, mlPrimary \in BOOLEAN :
            \A label \in Labels(gate, profile, mlPrimary) :
              LET enters   == EntersLive(Handed(gate, loop.peak, label), profile, mlPrimary)
                  asInLoop == [dense EXCEPT !.st_peak = peak, !.regime = label]
              IN /\ AsksForGateOnly(profile, mlPrimary) =>
                      (enters <=> GateAndBundles(dense, profile, mlPrimary, FALSE))
                 /\ unseen = 0 =>
                      (enters <=> /\ GateAndBundles(asInLoop, profile, mlPrimary, FALSE)
                                  /\ AlongRegime(asInLoop, profile, mlPrimary))

(***************************************************************************)
(* A restart or a window that came and went is forgotten with time: once   *)
(* it is older than the retention, the repetitions of the service are      *)
(* those of the replay again (_update_signature_history).                  *)
(***************************************************************************)
RepetitionsHeal ==
  (gate # NoGate /\ gate.ts - uncounted > Retention) =>
    gate.reps = DenseGates[gate.ts].reps

(***************************************************************************)
(* The peaks of the loop, which remembers one tension, are those the sweep *)
(* computes over the whole history, as soon as the loop and the service    *)
(* have been whole for the last two gates with a direction (loop_once,     *)
(* load_data_to_gpu).                                                      *)
(***************************************************************************)
PeaksHeal ==
  LET active == {t \in Active(DenseGates) : t < gate.ts /\ t > unseen}
      whole  == unseen = 0 \/ active # {}
      since  == IF active = {} THEN gate.ts ELSE Max(active)
  IN (Judged /\ whole /\ gate.ts > unseen
        /\ (uncounted = 0 \/ since - uncounted > Retention)) =>
       (loop.peak <=> gate.ts \in GpuPeaks(DenseGates))

(***************************************************************************)
(* "GPU tensor_builder computes ST Peaks identically across ALL gates      *)
(* sequentially" (backtest_simulator.py:388): the filter of a backtest     *)
(* leaves the gates at which the sweep sees a peak.                        *)
(***************************************************************************)
FilterMatchesGpu == FilterPeaks(Signals) = GpuPeaks(Signals)

(***************************************************************************)
(* The same of the dense gates, "across ALL gates".  They do not agree:    *)
(* these gates keep their coherence in the structure, and the filter takes *)
(* the tension from the components.                                        *)
(***************************************************************************)
FilterMatchesGpuOnDense == FilterPeaks(DenseGates) = GpuPeaks(DenseGates)

(***************************************************************************)
(* "Squeeze starts when market is dead silent": between a breakout and the *)
(* one before, the market was silent, and has not been noisy since         *)
(* (derive_signals).                                                       *)
(***************************************************************************)
SqueezeNeedsSilence ==
  LET breakouts == {t \in DOMAIN Signals : Signals[t].source = "squeeze_breakout"}
  IN \A b \in breakouts : \E s \in 1..(b - 1) :
       /\ Silent(candles[s].kind)
       /\ \A t \in (s + 1)..(b - 1) : ~Noise(candles[t].kind) /\ t \notin breakouts

=============================================================================
