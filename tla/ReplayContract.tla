---------------------------- MODULE ReplayContract ----------------------------
(***************************************************************************)
(* What a replay of one parameter set promises: a book of at most          *)
(* MaxTrades positions, all on one side.  Each is held for Hold candles    *)
(* unless its stop, its target, the stop at its entry that its best price  *)
(* arms, the distance from that best price or the hazard ends it before;   *)
(* at most one is entered per candle, on a gate that passes and not within *)
(* Cooldown candles of another.                                            *)
(***************************************************************************)
EXTENDS ReplayRules

VARIABLES
  book,      \* the position of every slot, or Free
  pause,     \* candles until the next entry may happen
  lastSt,    \* the tension of the last gate with a direction
  outcome    \* the trade that every slot closed on this candle, or NoTrade

contractVars == <<book, pause, lastSt, outcome>>

ContractInit ==
  /\ candle \in Candles /\ gate = NoGate /\ hazard \in Hazards
  /\ book = [i \in Slots |-> Free]
  /\ pause = 0 /\ lastSt = 0
  /\ outcome = [i \in Slots |-> NoTrade]

(***************************************************************************)
(* How far a candle went for and against a position.                       *)
(***************************************************************************)
For(k, c) == IF k.dir = 1 THEN c.high - k.entry ELSE k.entry - c.low

Against(k, c) == IF k.dir = 1 THEN c.low - k.entry ELSE k.entry - c.high

Older(k, c) ==
  [k EXCEPT !.held = @ + 1, !.best = IF For(k, c) > @ THEN For(k, c) ELSE @]

Stopped(k, c) == StopLoss > 0 /\ 100 * Against(k, c) <= -(StopLoss * k.entry)

Reached(k, c) == TakeProfit > 0 /\ 100 * For(k, c) >= TakeProfit * k.entry

BackAtEntry(k, c) ==
  Breakeven > 0 /\ 100 * k.best >= Breakeven * k.entry /\ Against(k, c) <= 0

Trailed(k, c) ==
  Trailing > 0 /\ k.best > 0 /\ 100 * (k.best - Against(k, c)) >= Trailing * k.entry

Calmed(h) == HazardExit # -1 /\ HazardExit < 999 /\ h <= HazardExit

Ends(k, c, h) ==
  \/ Stopped(k, c) \/ Reached(k, c) \/ BackAtEntry(k, c) \/ Trailed(k, c)
  \/ Calmed(h) \/ k.held >= Hold

(***************************************************************************)
(* The price, times 100, that the best of the reasons to leave gives.      *)
(***************************************************************************)
ExitAt(k, c) ==
  CASE BackAtEntry(k, c) -> 100 * k.entry
    [] ~BackAtEntry(k, c) /\ Trailed(k, c) ->
         100 * k.entry + (100 * k.best - Trailing * k.entry) * k.dir
    [] ~BackAtEntry(k, c) /\ ~Trailed(k, c) /\ Reached(k, c) ->
         100 * k.entry + TakeProfit * k.entry * k.dir
    [] OTHER -> IF Stopped(k, c) THEN 100 * k.entry - StopLoss * k.entry * k.dir
                                 ELSE 100 * c.close

(***************************************************************************)
(* The side a gate asks for, and whether it passes.                        *)
(***************************************************************************)
Side(g) == IF MeanReversion THEN -g.action ELSE g.action

Passes(g) ==
  /\ g.action # 0 /\ g.sound
  /\ IF MeanReversion THEN g.hazard >= HazardLimit ELSE g.hazard <= HazardLimit
  /\ MeanReversion /\ RequireStPeak => lastSt > 0 /\ g.tension < lastSt
  /\ UseRegime => g.aligned

Opening(g, c) == [dir |-> Side(g), entry |-> c.close, held |-> 0, best |-> 0]

(***************************************************************************)
(* One candle: positions age and leave, then one may enter any free slot.  *)
(***************************************************************************)
Replay ==
  LET aged  == [i \in Slots |-> IF book[i] = Free THEN Free ELSE Older(book[i], candle')]
      gone  == {i \in Slots : book[i] # Free /\ Ends(aged[i], candle', hazard')}
      left  == [i \in Slots |-> IF i \in gone THEN Free ELSE aged[i]]
      room  == {i \in Slots : left[i] = Free}
      ready == IF pause > 0 THEN pause - 1 ELSE 0
  IN /\ outcome' = [i \in Slots |->
           IF i \in gone
           THEN [dir |-> aged[i].dir, entry |-> aged[i].entry, held |-> aged[i].held,
                 exit |-> ExitAt(aged[i], candle')]
           ELSE NoTrade]
     /\ IF /\ Passes(gate') /\ ready = 0 /\ room # {}
           /\ \A i \in Slots \ room : left[i].dir = Side(gate')
        THEN \E i \in room : /\ book' = [left EXCEPT ![i] = Opening(gate', candle')]
                             /\ pause' = Cooldown
        ELSE book' = left /\ pause' = ready
     /\ lastSt' = IF gate'.action # 0 THEN gate'.tension ELSE lastSt

ContractNext == NextCandle /\ Replay

ContractSpec == ContractInit /\ [][ContractNext]_<<feed, contractVars>>
=============================================================================
