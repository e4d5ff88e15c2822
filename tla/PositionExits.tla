----------------------------- MODULE PositionExits -----------------------------
(***************************************************************************)
(* The exits of the positions of one instrument, pass by pass of the       *)
(* trading loop: stop loss, take profit, breakeven and trailing stop are   *)
(* checked on the newest stored candle, the hold time on a counter that    *)
(* both the enforcer and the trade stack advance, and a reconcile rebuilds *)
(* every ticket from what the broker says.  The ticket and the trade of a  *)
(* position are one record here: PortfolioLoop is about how they part.     *)
(***************************************************************************)
EXTENDS TpslChecker, TicketSlots

CONSTANTS
  MaxTime,       \* the passes end here; the unit of time is loop_seconds
  MaxPass,       \* how long a pass may take
  MaxTickets,    \* max_positions_per_pair
  Prices,        \* highs and lows of candles
  EntryPrice,    \* what an order fills at
  Hold,          \* hold_secs
  StackTick,     \* tick_elapsed_secs of execute_allocation
  ReconcileEvery, \* reconcile interval
  BrokerRefuses,  \* whether OANDA may refuse an order
  ReconcileFails, \* whether a reconcile may fail
  KillSwitch      \* whether the kill switch may be on during a pass

ASSUME ExitsAssumption ==
  /\ MaxTime \in Nat /\ MaxPass \in Nat \ {0} /\ MaxTickets \in Nat \ {0}
  /\ Prices \subseteq Nat \ {0} /\ EntryPrice \in Nat \ {0}
  /\ Hold \in Nat \ {0} /\ StackTick \in Nat /\ ReconcileEvery \in Nat \ {0}
  /\ BrokerRefuses \in BOOLEAN /\ ReconcileFails \in BOOLEAN /\ KillSwitch \in BOOLEAN

LoopTick == 1

VARIABLES
  time,      \* when the pass at hand began
  stage,     \* of the pass: "idle", "reconcile", "exits", "expiry" or "stack"
  candle,    \* the newest stored candle
  tickets,   \* the positions, oldest first
  synced,    \* when a reconcile last succeeded, or the start
  (* Observation, read by no action of the system. *)
  exited     \* the exits of the last step, each with its reason and its ticket

vars == <<time, stage, candle, tickets, synced, exited>>

Candles == {c \in [high : Prices, low : Prices] : c.low <= c.high}

(***************************************************************************)
(* entry_price, peak_price, breakeven_activated, entry_ts, elapsed_secs    *)
(* and, as observations, the best price of the candles that were checked   *)
(* since the entry and whether an exit of the ticket was ever refused or   *)
(* skipped.                                                                *)
(***************************************************************************)
Tickets ==
  [dir : {1, -1}, entry : {EntryPrice}, peak : Prices \cup {EntryPrice},
   armed : BOOLEAN, since : 0..MaxTime, elapsed : Nat,
   best : Prices \cup {EntryPrice}, hindered : BOOLEAN]

Reasons == {"stop_loss", "take_profit", "breakeven", "trailing", "hold_expiry"}

TypeOK ==
  /\ time \in 0..MaxTime
  /\ stage \in {"idle", "reconcile", "exits", "expiry", "stack"}
  /\ candle \in Candles
  /\ tickets \in Seq(Tickets) /\ Len(tickets) <= MaxTickets
  /\ synced \in 0..time
  /\ \A e \in exited : e.reason \in Reasons /\ e.ticket \in Tickets

Init ==
  /\ time = 0 /\ stage = "idle"
  /\ candle \in Candles
  /\ tickets = <<>>
  /\ synced = 0
  /\ exited = {}

(***************************************************************************)
(* The best price of the candles checked since the entry.                  *)
(***************************************************************************)
Best(k, c) ==
  IF (Favorable(k, c) - k.best) * k.dir > 0 THEN Favorable(k, c) ELSE k.best

Checked(k, c) == [CheckedState(k, c) EXCEPT !.best = Best(k, c)]

------------------------------------------------------------------------------
(* A pass of the loop *)

Quiet == exited' = {}

(***************************************************************************)
(* The loop begins a pass at least loop_seconds after the last one, and    *)
(* finds the candle it knows or another.  Reconciling comes first when it  *)
(* is due.                                                                 *)
(***************************************************************************)
BeginPass ==
  /\ stage = "idle"
  /\ \E d \in 1..MaxPass :
       /\ time + d <= MaxTime
       /\ time' = time + d
       /\ stage' = IF time + d - synced >= ReconcileEvery THEN "reconcile" ELSE "exits"
  /\ candle' \in Candles
  /\ Quiet /\ UNCHANGED <<tickets, synced>>

(***************************************************************************)
(* Rebuilt from the broker: the elapsed time is the true age, and the      *)
(* TP/SL state is reset.  The variant leaves the elapsed time as it is.    *)
(***************************************************************************)
RebuiltButElapsed(k) == [k EXCEPT !.peak = k.entry, !.armed = FALSE]

Rebuilt(k) ==
  [k EXCEPT !.elapsed = time - k.since, !.peak = k.entry, !.armed = FALSE]

ReconcilePortfolio ==
  /\ stage = "reconcile"
  /\ stage' = "exits"
  /\ tickets' = [i \in DOMAIN tickets |-> Rebuilt(tickets[i])]
  /\ synced' = time
  /\ Quiet /\ UNCHANGED <<time, candle>>

ReconcileRaises ==
  /\ stage = "reconcile" /\ ReconcileFails
  /\ stage' = "exits"
  /\ Quiet /\ UNCHANGED <<time, candle, tickets, synced>>

(***************************************************************************)
(* The orders OANDA takes out of those it is sent.                         *)
(***************************************************************************)
Taken(slots) == IF BrokerRefuses THEN SUBSET slots ELSE {slots}

(***************************************************************************)
(* With the kill switch on, loop_once returns before the exits.            *)
(***************************************************************************)
Hindered(book, slots) ==
  [i \in DOMAIN book |-> [book[i] EXCEPT !.hindered = @ \/ i \in slots]]

PausedPass ==
  /\ stage = "exits" /\ KillSwitch
  /\ stage' = "idle"
  /\ tickets' = Hindered(tickets, DOMAIN tickets)
  /\ Quiet /\ UNCHANGED <<time, candle, synced>>

(***************************************************************************)
(* check_tpsl_exit_intra_candle over all tickets.  The check changes the   *)
(* state of every ticket, refused or not.                                  *)
(***************************************************************************)
CheckTpslExit ==
  /\ stage = "exits"
  /\ stage' = "expiry"
  /\ LET due  == {i \in DOMAIN tickets : Verdict(tickets[i], candle) # "none"}
         seen == [i \in DOMAIN tickets |-> Checked(tickets[i], candle)]
     IN \E done \in Taken(due) :
          /\ tickets' = Without(Hindered(seen, due), done)
          /\ exited' = {[reason |-> Verdict(tickets[i], candle), ticket |-> seen[i]] :
                          i \in done}
  /\ UNCHANGED <<time, candle, synced>>

(***************************************************************************)
(* check_time_expiry: every counter advances by the tick and those at the  *)
(* limit are closed; when all of them are refused, the counters of this    *)
(* pass are dropped.  The variant closes past the limit only.              *)
(***************************************************************************)
ExpiredLater(k) == k.elapsed > Hold

Expired(k) == k.elapsed >= Hold

Aged(tick) == [i \in DOMAIN tickets |-> [tickets[i] EXCEPT !.elapsed = @ + tick]]

Due(aged) == {i \in DOMAIN aged : Expired(aged[i])}

LeftByExpiry(aged, done) ==
  IF Due(aged) # {} /\ done = {}
  THEN Hindered(tickets, DOMAIN tickets)
  ELSE Without(Hindered(aged, Due(aged)), done)

ExitsByExpiry(aged, done) == {[reason |-> "hold_expiry", ticket |-> aged[i]] : i \in done}

EnforceTimeExits ==
  /\ stage = "expiry"
  /\ stage' = "stack"
  /\ \E done \in Taken(Due(Aged(LoopTick))) :
       /\ tickets' = LeftByExpiry(Aged(LoopTick), done)
       /\ exited' = ExitsByExpiry(Aged(LoopTick), done)
  /\ UNCHANGED <<time, candle, synced>>

(***************************************************************************)
(* process_instrument without a directional gate returns at once.          *)
(***************************************************************************)
NoDirection ==
  /\ stage = "stack"
  /\ stage' = "idle"
  /\ Quiet /\ UNCHANGED <<time, candle, tickets, synced>>

(***************************************************************************)
(* With one, execute_allocation advances the same counters by its own tick *)
(* and closes what expires; what it may then enter is on the side of the   *)
(* position that is left and within the cap.                               *)
(***************************************************************************)
Opened(dir) ==
  [dir |-> dir, entry |-> EntryPrice, peak |-> EntryPrice, armed |-> FALSE,
   since |-> time, elapsed |-> 0, best |-> EntryPrice, hindered |-> FALSE]

HasRoom(book) == Len(book) < MaxTickets

Entries(book) ==
  {Append(book, Opened(dir)) :
     dir \in {d \in {1, -1} : HasRoom(book) /\ \A i \in DOMAIN book : book[i].dir = d}}

ExecuteAllocation ==
  /\ stage = "stack"
  /\ stage' = "idle"
  /\ \E done \in Taken(Due(Aged(StackTick))) :
       LET left == LeftByExpiry(Aged(StackTick), done) IN
       /\ tickets' \in {left} \cup Entries(left)
       /\ exited' = ExitsByExpiry(Aged(StackTick), done)
  /\ UNCHANGED <<time, candle, synced>>

Next ==
  \/ BeginPass \/ ReconcilePortfolio \/ ReconcileRaises \/ PausedPass
  \/ CheckTpslExit \/ EnforceTimeExits
  \/ NoDirection \/ ExecuteAllocation

Spec == Init /\ [][Next]_vars

------------------------------------------------------------------------------
(* Properties *)

(***************************************************************************)
(* When the present counting of a ticket began: its entry or the last      *)
(* reconcile.                                                              *)
(***************************************************************************)
Mark(k) == IF k.since < synced THEN synced ELSE k.since

Held(k) == time - k.since

Known == {tickets[i] : i \in DOMAIN tickets} \cup {e.ticket : e \in exited}

(***************************************************************************)
(* The stops that move hold what was won: a ticket that no reconcile has   *)
(* rebuilt and no exit of which was refused does not outlive a candle that *)
(* falls back to the entry after any earlier candle of its life reached    *)
(* the breakeven trigger, nor one that falls to the trailing distance from *)
(* the best of those candles.  The code knows of the earlier candles only  *)
(* what peak_price and breakeven_activated carry from pass to pass.        *)
(***************************************************************************)
StopsProtect ==
  stage = "expiry" =>
    \A i \in DOMAIN tickets :
      LET k == tickets[i] IN
      k.since >= synced /\ ~k.hindered =>
        /\ Breakeven > 0 /\ Gained(k, k.best, Breakeven) => ~Lost(k, Adverse(k, candle), 0)
        /\ Trailing > 0 /\ (k.best - k.entry) * k.dir > 0 =>
             (100 * Adverse(k, candle) - k.best * (100 - Trailing * k.dir)) * k.dir > 0

(***************************************************************************)
(* The clock of a ticket runs ahead of the time it is held by at most one  *)
(* stack tick a pass since its entry or the last reconcile, and the ticks  *)
(* of the pass that reconciled: nothing that the loop does twice, or does  *)
(* again after a refused close, adds more.                                 *)
(***************************************************************************)
ClockBounded ==
  \A k \in Known :
    k.elapsed <= Held(k) + StackTick * (time - Mark(k))
                 + (IF k.since < synced THEN LoopTick + StackTick ELSE 0)

(***************************************************************************)
(* No ticket stays past its time: one of which no exit was refused or      *)
(* skipped is gone once the passes since its entry, each at most MaxPass   *)
(* long, or the true age the last reconcile gave it, the tick of that pass *)
(* and the passes since, make up its hold time.                            *)
(***************************************************************************)
NoOverstay ==
  stage \in {"stack", "idle"} =>
    \A i \in DOMAIN tickets :
      LET k == tickets[i]
          counted == IF k.since < synced THEN synced - k.since + LoopTick ELSE 0
      IN ~k.hindered => time - Mark(k) < MaxPass * (Hold - counted)

(***************************************************************************)
(* A position is held for its target duration.  It is not: with a gate     *)
(* that has a direction the two ticks of every pass add up.                *)
(***************************************************************************)
HeldForItsTime == \A e \in exited : e.reason = "hold_expiry" => Held(e.ticket) >= Hold

(***************************************************************************)
(* Once the threshold was reached the stop is at the entry for good.  It   *)
(* is not: a reconcile forgets it.                                         *)
(***************************************************************************)
BreakevenStays ==
  stage = "expiry" =>
    \A i \in DOMAIN tickets :
      LET k == tickets[i] IN
      ~k.hindered /\ Gained(k, k.best, Breakeven) => ~Lost(k, Adverse(k, candle), 0)
=============================================================================
