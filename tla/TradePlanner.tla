---------------------------- MODULE TradePlanner ----------------------------
(***************************************************************************)
(* The trade state store (scripts/trading/trade_state.py) and the planner  *)
(* that edits it (scripts/trading/trade_planner.py).  The state of an      *)
(* instrument is a snapshot: its active trades, the pending-close flag and *)
(* the key of the last entry signal.  A signal is the timestamp of a gate, *)
(* and 0 stands for no signal.                                             *)
(***************************************************************************)
EXTENDS PositionTracker

CONSTANT MaxPerPair  \* max_positions_per_pair, 0 when there is no cap

ASSUME PlannerAssumption == MaxPerPair \in Nat

(***************************************************************************)
(* remove_trades: no trades, no pending close, no memory of a signal.      *)
(***************************************************************************)
NoTrades == [trades |-> <<>>, pending |-> FALSE, last |-> 0]

TradeUnits(trades) == [k \in DOMAIN trades |-> trades[k].units]

NetOfTrades(trades) == NetUnits(TradeUnits(trades))

TotalTrades(store) == MapThenSumSet(LAMBDA i : Len(store[i].trades), DOMAIN store)

(***************************************************************************)
(* restore: the planned snapshot goes back to every field of the prior one.*)
(* The two variants leave something of the plan behind.                    *)
(***************************************************************************)
RestoredWithSignal(planned, prior) ==
  [planned EXCEPT !.trades = prior.trades, !.pending = prior.pending]

RestoredWithTrades(planned, prior) ==
  [planned EXCEPT !.pending = prior.pending, !.last = prior.last]

Restored(planned, prior) ==
  [planned EXCEPT !.trades = prior.trades, !.pending = prior.pending, !.last = prior.last]

(***************************************************************************)
(* Saving a list of trades after exits: replace_trades keeps the rest of   *)
(* the snapshot, an empty list is removed with the signal memory.  The     *)
(* variant forgets the signal with every save.                             *)
(***************************************************************************)
SaveTradesForgetting(snapshot, trades) == [NoTrades EXCEPT !.trades = trades]

SaveTrades(snapshot, trades) ==
  IF trades = <<>> THEN NoTrades ELSE [snapshot EXCEPT !.trades = trades]

(***************************************************************************)
(* An allocation request: blocked when the session forbids trading, ready  *)
(* when the gate admits an entry of size units on side for signal.         *)
(* Admits says that the planner turns the request into a new trade.  The   *)
(* variant does not look at the side held.                                 *)
(***************************************************************************)
AdmitsEitherSide(store, i, request, maxTotal) ==
  /\ ~request.blocked
  /\ request.ready
  /\ request.side # 0
  /\ request.size > 0
  /\ request.signal # store[i].last
  /\ MaxPerPair > 0 => Len(store[i].trades) < MaxPerPair
  /\ TotalTrades(store) < maxTotal

Admits(store, i, request, maxTotal) ==
  LET trades == store[i].trades
      held   == Side(NetOfTrades(trades))
  IN  /\ ~request.blocked
      /\ request.ready
      /\ request.side # 0
      /\ held \in {0, request.side}
      /\ request.size > 0
      /\ request.signal # store[i].last
      /\ MaxPerPair > 0 => Len(trades) < MaxPerPair
      /\ TotalTrades(store) < maxTotal

(***************************************************************************)
(* plan_allocation: the snapshot of instrument i once the request has been *)
(* planned against an inventory of current units.                          *)
(***************************************************************************)
PlanAllocation(store, i, current, request, maxTotal) ==
  LET before  == store[i]
      pending == before.pending /\ NetOfTrades(before.trades) # current
      opened  == [units |-> request.side * request.size, signal |-> request.signal]
  IN  CASE request.blocked ->
             [NoTrades EXCEPT !.pending = before.trades # <<>>]
        [] Admits(store, i, request, maxTotal) ->
             [trades  |-> Append(before.trades, opened),
              pending |-> pending,
              last    |-> request.signal]
        [] ~request.blocked /\ ~Admits(store, i, request, maxTotal) ->
             SaveTrades([before EXCEPT !.pending = pending], before.trades)

=============================================================================
