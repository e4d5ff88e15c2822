------------------------------ MODULE GateWriter ------------------------------
(***************************************************************************)
(* The way of a signal from the stored candles to the trading loop: the    *)
(* regime manifold service writes at most one gate for each closed candle, *)
(* the gate expires by itself, and the loop looks at it when it comes by.  *)
(***************************************************************************)
EXTENDS CandleStream, WindowRules

CONSTANTS
  Window,       \* window_candles: the candles an encoding needs
  GateTtl,      \* gate_ttl_seconds, in candles
  AdmitRegimes, \* admit_regimes
  Signature,    \* of the window that ends with a candle
  Hazard,       \* of that window, a small number
  Regime,       \* of that window
  GateFaults    \* what may fail: members of GateKinds

(***************************************************************************)
(* The service ends; the loop ends; Valkey leaves between the reading of   *)
(* the candles and the writing of the gate.                                *)
(***************************************************************************)
GateKinds == {"service", "loop", "write"}

ASSUME GateAssumption ==
  /\ Window \in Nat \ {0} /\ GateTtl \in Nat \ {0}
  /\ DOMAIN Signature = Times
  /\ Hazard \in [Times -> Nat]
  /\ DOMAIN Regime = Times
  /\ GateFaults \subseteq GateKinds

Signatures == {Signature[t] : t \in Times}
MaxHazard == Max({Hazard[t] : t \in Times})

VARIABLES
  service,    \* the regime manifold service: "down" or "up"
  emitted,    \* _last_emitted_ts_ms, Never after a start
  history,    \* _signature_history: the windows of each signature, oldest first
  samples,    \* the calibrator's hazards in ascending order
  gate,       \* gate:last, NoGate once it has expired
  index,      \* the times of gate:index
  loop,       \* what the trading loop remembers of the gates it saw
  (* Observations, read by no action of the system. *)
  hazards,    \* the hazards the calibrator was given, oldest first
  unwritten   \* the service counted a window whose gate Valkey did not take

gates == <<service, emitted, history, samples, gate, index, loop, hazards, unwritten>>
vars  == <<steady, store, stream, gates>>

NoGate == [ts |-> Never, reps |-> 0, admit |-> FALSE, active |-> FALSE, born |-> 0]

(***************************************************************************)
(* _last_gate_ts, _previous_active_st and _last_peak_eval.                 *)
(***************************************************************************)
NewLoop == [ts |-> Never, st |-> -1, peak |-> FALSE]

TypeOK ==
  /\ StreamTypeOK
  /\ service \in {"down", "up"}
  /\ emitted \in Times \cup {Never}
  /\ history \in [Signatures -> Seq(Times)]
  /\ samples \in Seq(Nat) /\ Len(samples) <= MaxSamples
  /\ gate.ts \in Times \cup {Never} /\ gate.reps \in Nat
  /\ gate.admit \in BOOLEAN /\ gate.active \in BOOLEAN /\ gate.born \in Times
  /\ index \subseteq Times
  /\ loop.ts \in Times \cup {Never} /\ loop.st \in Int /\ loop.peak \in BOOLEAN
  /\ hazards \in Seq(Nat) /\ unwritten \in BOOLEAN

Init ==
  /\ StreamInit
  /\ service = "down" /\ emitted = Never
  /\ history = [s \in Signatures |-> <<>>] /\ samples = <<>>
  /\ gate = NoGate /\ index = {} /\ loop = NewLoop
  /\ hazards = <<>> /\ unwritten = FALSE

GateFails(kind) ==
  /\ kind \in GateFaults /\ faults < MaxFaults
  /\ faults' = faults + 1

------------------------------------------------------------------------------
(* The regime manifold service *)

ServiceStarts ==
  /\ service = "down"
  /\ service' = "up"
  /\ emitted' = Never
  /\ history' = [s \in Signatures |-> <<>>]
  /\ samples' = <<>> /\ hazards' = <<>> /\ unwritten' = FALSE
  /\ UNCHANGED <<steady, store, stream, gate, index, loop>>

ServiceEnds ==
  /\ service = "up" /\ GateFails("service")
  /\ service' = "down"
  /\ UNCHANGED <<clock, store, stream, emitted, history, samples, gate,
                 index, loop, hazards, unwritten>>

(***************************************************************************)
(* The window is that of the newest candles in store.  It is new when it   *)
(* ends elsewhere than the one of the last gate.  The variant takes every  *)
(* window for new.                                                         *)
(***************************************************************************)
Latest == Newest(TimesOf(store))

AnyWindow == Cardinality(store) >= Window

NewWindow == Cardinality(store) >= Window /\ emitted # Latest

(***************************************************************************)
(* The window of the last gate, unchanged when Valkey did not take it.     *)
(* The variant notes it before the gate is written.                        *)
(***************************************************************************)
EmittedAnyway(taken) == Latest

EmittedOnceTaken(taken) == IF taken THEN Latest ELSE emitted

(***************************************************************************)
(* _process_instrument: the hazard is filed and the window counted before  *)
(* the gate is written; when the write fails the window stays unemitted    *)
(* and the next pass files and counts it again.                            *)
(***************************************************************************)
ProcessInstrument ==
  /\ service = "up" /\ valkey
  /\ NewWindow
  /\ LET t    == Latest
         past == Updated(samples, Hazard[t])
         seen == Counted(history[Signature[t]], t)
         new  == [ts     |-> t,
                  reps   |-> Len(seen),
                  admit  |-> Hazard[t] <= Threshold(past) /\ Regime[t] \in AdmitRegimes,
                  active |-> Regime[t] # "neutral",
                  born   |-> now]
     IN /\ samples' = past
        /\ hazards' = Append(hazards, Hazard[t])
        /\ history' = [history EXCEPT ![Signature[t]] = seen]
        /\ \/ /\ gate' = new /\ index' = index \cup {t}
              /\ emitted' = EmittedOnceTaken(TRUE)
              /\ UNCHANGED <<unwritten, faults>>
           \/ /\ GateFails("write")
              /\ emitted' = EmittedOnceTaken(FALSE)
              /\ unwritten' = TRUE /\ UNCHANGED <<gate, index>>
  /\ UNCHANGED <<clock, store, stream, service, loop>>

------------------------------------------------------------------------------
(* The trading loop *)

(***************************************************************************)
(* reps * coherence * exp(-hazard), by what it grows and falls with.       *)
(***************************************************************************)
Tension(g) == g.reps * (MaxHazard + 1 - Hazard[g.ts])

(***************************************************************************)
(* The verdict of loop_once on a gate: a peak is a fall of the tension     *)
(* since the last active gate, judged once for each gate.                  *)
(***************************************************************************)
Judged(l, g) ==
  IF g.ts = l.ts THEN l
  ELSE [ts   |-> g.ts,
        st   |-> IF g.active THEN Tension(g) ELSE l.st,
        peak |-> g.active /\ l.st > 0 /\ Tension(g) < l.st]

LoadGate ==
  /\ valkey /\ gate # NoGate
  /\ loop' = Judged(loop, gate)
  /\ UNCHANGED <<steady, store, stream, service, emitted, history, samples, gate,
                 index, hazards, unwritten>>

LoopRestarts ==
  /\ loop # NewLoop /\ GateFails("loop")
  /\ loop' = NewLoop
  /\ UNCHANGED <<clock, store, stream, service, emitted, history, samples, gate,
                 index, hazards, unwritten>>

------------------------------------------------------------------------------
(***************************************************************************)
(* A gate lives for its time to live and is gone afterwards.               *)
(***************************************************************************)
Living(g, time) == IF g # NoGate /\ time - g.born < GateTtl THEN g ELSE NoGate

TimePasses ==
  /\ Tick
  /\ gate' = Living(gate, now + 1)
  /\ UNCHANGED <<store, service, emitted, history, samples, index, loop, hazards,
                 unwritten>>

Next ==
  \/ StreamNext /\ UNCHANGED gates
  \/ ServiceStarts \/ ServiceEnds \/ ProcessInstrument
  \/ LoadGate \/ LoopRestarts
  \/ TimePasses
  \/ (ValkeyFails \/ ValkeyReturns \/ Pruned \/ SessionSticks) /\ UNCHANGED gates

Spec == Init /\ [][Next]_vars

(***************************************************************************)
(* The containers are restarted unless stopped, Valkey comes back, and the *)
(* loops of both services go on.                                           *)
(***************************************************************************)
Fairness ==
  /\ WF_stream((StreamerStarts \/ CountCached \/ Fetch \/ WriteCandles) /\ UNCHANGED gates)
  /\ WF_gates(ServiceStarts \/ ProcessInstrument)
  /\ WF_valkey(ValkeyReturns /\ UNCHANGED gates)

FairSpec == Spec /\ Fairness

------------------------------------------------------------------------------
(* What the gates promise *)

(***************************************************************************)
(* A window is counted once, so that the repetitions of a signature are    *)
(* windows and not passes of the loop ("Emit at most once per completed S5 *)
(* candle", _process_instrument), unless Valkey refused a gate.            *)
(***************************************************************************)
CountedOnce ==
  ~unwritten =>
    \A s \in Signatures : \A i, j \in DOMAIN history[s] :
      history[s][i] = history[s][j] => i = j

(***************************************************************************)
(* No gate is replaced by that of an earlier candle, even if the stored    *)
(* candles were pruned and fetched anew (the order kept by the store, its  *)
(* trimming and the emission).                                             *)
(***************************************************************************)
GatesMoveForward ==
  [][gate' # gate /\ gate # NoGate /\ gate' # NoGate
       => gate'.ts >= gate.ts]_vars

(***************************************************************************)
(* Nor does the loop judge the gate of an earlier candle than one it has   *)
(* judged, so that a peak is a fall in the order of time: it tests only    *)
(* that the times differ (loop_once), while gates expire, candles are      *)
(* pruned and fetched anew and the service restarts between two looks.     *)
(***************************************************************************)
VerdictsMoveForward == [][loop' # NewLoop => loop'.ts >= loop.ts]_vars

(***************************************************************************)
(* In the end the newest stored window has a gate: neither a failed write  *)
(* nor a restart of the service loses it (_process_instrument, run).       *)
(***************************************************************************)
GateFollows == <>[](Cardinality(store) >= Window => Latest \in index)

(***************************************************************************)
(* "Rolling percentile tracker": the calibrator's samples are the hazards  *)
(* of the last windows.                                                    *)
(***************************************************************************)
RollingSamples ==
  LET recent == Max({1, Len(hazards) - MaxSamples + 1})..Len(hazards)
  IN \A v \in {hazards[i] : i \in DOMAIN hazards} :
       Cardinality({i \in DOMAIN samples : samples[i] = v})
         = Cardinality({i \in recent : hazards[i] = v})

=============================================================================
