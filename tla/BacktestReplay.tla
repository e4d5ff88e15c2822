---------------------------- MODULE BacktestReplay ----------------------------
(***************************************************************************)
(* The high-fidelity backtest of one instrument                            *)
(* (scripts/research/simulator): every candle goes through the trading     *)
(* engine, with a tracker of simulated fills in place of the broker.  The  *)
(* tickets of the tracker, the trades of the trade state and the net units *)
(* of the risk manager say the same thing three times.  A time unit is a   *)
(* tick; signal keys are absent as in the gate caches, and the equity that *)
(* a size is computed from is left out: the size is any of a set.          *)
(***************************************************************************)
EXTENDS TpslChecker, TicketSlots, RiskLimits, SessionPolicy

CONSTANTS
  MaxTime,        \* the timeline ends here
  MaxGap,         \* ticks between two candles
  MaxTrades,      \* max_positions_per_pair
  Sizes,          \* what compute_position_size may give
  Hold,           \* hold_secs, in ticks
  Cooldown,       \* 60 seconds, in ticks
  GateAge,        \* 15 seconds, in ticks
  Dawn,           \* the minute of the day at which the timeline begins
  TicksPerMinute, \* 12 of 5 seconds
  AllowFallback,  \* whether momentum decides for a gate without a direction
  Stacking,       \* not disable_stacking
  HazardExit,     \* whether hazard_exit_threshold is set
  Candles         \* [high, low, close]

ASSUME BacktestAssumption ==
  /\ MaxTime \in Nat /\ MaxGap \in Nat \ {0} /\ MaxTrades \in Nat \ {0}
  /\ Sizes \subseteq Nat \ {0} /\ Hold \in Nat \ {0} /\ Cooldown \in Nat /\ GateAge \in Nat
  /\ Dawn \in 0..Day - 1 /\ TicksPerMinute \in Nat \ {0}
  /\ AllowFallback \in BOOLEAN /\ Stacking \in BOOLEAN /\ HazardExit \in BOOLEAN
  /\ Candles \subseteq [high : Nat \ {0}, low : Nat \ {0}, close : Nat \ {0}]

VARIABLES
  time, candle,
  tickets,     \* of TPSLPositionTracker, oldest first
  trades,      \* of TradeStateStore
  netUnits,    \* of RiskManager
  lastEntry,   \* last_entry_time, or -Cooldown for None
  ended,       \* whether the loop over the candles is over
  (* Observation, read by no action. *)
  exited,      \* the tickets closed on this candle, with their reason
  filled       \* the units of the order filled on this candle, 0 for none

vars == <<time, candle, tickets, trades, netUnits, lastEntry, ended, exited, filled>>

(***************************************************************************)
(* A gate that the validation or its bundles admit has a direction or      *)
(* none, and an age when a candle meets it.  One that is not admitted      *)
(* enters nothing and counts as none.                                      *)
(***************************************************************************)
GateEvents == [dir : {-1, 0, 1}, age : 0..MaxGap - 1]

NoGate == [dir |-> 0, age |-> -1]

TicketsOf(book) == {book[i] : i \in DOMAIN book}

Net(book) == NetUnits([i \in DOMAIN book |-> book[i].units])

Init ==
  /\ time = 0
  /\ candle \in Candles
  /\ tickets = <<>> /\ trades = <<>> /\ netUnits = 0
  /\ lastEntry = -Cooldown
  /\ ended = FALSE
  /\ exited = {} /\ filled = 0

------------------------------------------------------------------------------
(* The stages of a candle, each from a book of the three ledgers to the    *)
(* next.                                                                   *)

(* reason says why for every slot. *)
Exits(book, slots, reason) == {[reason |-> reason[i], ticket |-> book[i]] : i \in slots}

ForAll(book, why) == [i \in DOMAIN book |-> why]

(***************************************************************************)
(* process_exits, first part: the hazard closes every ticket of the        *)
(* tracker, and nothing else.                                              *)
(***************************************************************************)
HazardClosed(b, calm) ==
  IF HazardExit /\ calm /\ Net(b.tickets) # 0
  THEN [b EXCEPT !.tickets = <<>>,
                 !.exited = @ \cup Exits(b.tickets, DOMAIN b.tickets, ForAll(b.tickets, "hazard_exit"))]
  ELSE b

(***************************************************************************)
(* Tickets and trades are closed by the same indices, from the last one    *)
(* down, as far as both have them; what the tracker is left with is what   *)
(* the risk manager is told.  The variant goes up, so that the trades that *)
(* follow a closed one have moved when their turn comes.                   *)
(***************************************************************************)
ClosedUpwards(b, slots, reason) ==
  LET moved == {i - Cardinality({j \in slots : j < i}) : i \in slots} \cap DOMAIN b.trades
  IN [b EXCEPT !.tickets = Without(@, slots),
               !.trades = Without(@, IF Cardinality(slots) > 1 THEN moved ELSE slots),
               !.netUnits = Net(Without(b.tickets, slots)),
               !.exited = @ \cup Exits(b.tickets, slots, reason)]

Closed(b, slots, reason) ==
  [b EXCEPT !.tickets = Without(@, slots),
            !.trades = Without(@, slots),
            !.netUnits = Net(Without(b.tickets, slots)),
            !.exited = @ \cup Exits(b.tickets, slots, reason)]

(***************************************************************************)
(* check_tpsl_exit_intra_candle: the checker updates the state of every    *)
(* ticket; those to close are skipped when the trade state has no trade    *)
(* for them.                                                               *)
(***************************************************************************)
TpslExits(b, c) ==
  LET seen == [b EXCEPT !.tickets = [i \in DOMAIN @ |-> CheckedState(@[i], c)]]
      hits == {i \in DOMAIN b.tickets : Verdict(b.tickets[i], c) # "none"} \cap DOMAIN b.trades
  IN CASE Net(b.tickets) = 0                 -> b
       [] Net(b.tickets) # 0 /\ hits = {}    -> seen
       [] Net(b.tickets) # 0 /\ hits # {}    ->
            Closed(seen, hits, [i \in hits |-> Verdict(b.tickets[i], c)])

(***************************************************************************)
(* check_time_expiry: every trade ages by a tick; the expired ones are     *)
(* closed where the tracker has a ticket for them, and when it has none    *)
(* the ages of this candle are lost.  The variant closes a candle before   *)
(* the limit.                                                              *)
(***************************************************************************)
ExpiredEarly(k) == k.elapsed + 1 >= Hold

ExpiredNow(k) == k.elapsed >= Hold

Aged(k) == [k EXCEPT !.elapsed = @ + 1]

TimeExits(b) ==
  LET aged == [b EXCEPT !.trades = [i \in DOMAIN @ |-> Aged(@[i])]]
      due  == {i \in DOMAIN aged.trades : ExpiredNow(aged.trades[i])}
      here == due \cap DOMAIN b.tickets
  IN CASE b.netUnits = 0                            -> b
       [] b.netUnits # 0 /\ due = {}                -> aged
       [] b.netUnits # 0 /\ due # {} /\ here = {}   -> b
       [] b.netUnits # 0 /\ here # {}               -> Closed(aged, here, ForAll(b.tickets, "hold_expiry"))

(***************************************************************************)
(* The direction of the gate, or of the move since the candle before.      *)
(***************************************************************************)
RequestedSide(g, c) ==
  CASE g.dir # 0                     -> g.dir
    [] g.dir = 0 /\ ~AllowFallback   -> 0
    [] g.dir = 0 /\ AllowFallback    ->
         IF time = 0 \/ c.close >= candle.close THEN 1 ELSE -1

Opened(units, now, c) ==
  [dir |-> Side(units), entry |-> c.close, peak |-> c.close, armed |-> FALSE,
   units |-> units, since |-> now]

(***************************************************************************)
(* sync_to_net_position of the simulated tracker.                          *)
(***************************************************************************)
Synced(b, target, now, c) ==
  LET held   == Net(b.tickets)
      shrink == \/ held # 0 /\ target # 0 /\ Side(held) # Side(target)
                \/ Magnitude(target) < Magnitude(held)
      base   == IF shrink THEN 0 ELSE held
      kept   == IF shrink THEN <<>> ELSE b.tickets
  IN IF held = target THEN b
     ELSE [b EXCEPT
            !.tickets = IF target = base THEN kept ELSE Append(kept, Opened(target - base, now, c)),
            !.exited = IF shrink
                       THEN @ \cup Exits(b.tickets, DOMAIN b.tickets, ForAll(b.tickets, "position_sync"))
                       ELSE @]

(***************************************************************************)
(* plan_allocation: a session that is closed drops the trades; otherwise   *)
(* the request becomes a trade on the side that is held, if any, within    *)
(* the cap.                                                                *)
(***************************************************************************)
Planned(b, blocked, ready, side, size) ==
  LET held == Side(Net(b.trades)) IN
  IF blocked THEN <<>>
  ELSE IF /\ ready /\ side # 0
          /\ held \in {0, side} /\ (held # 0 => Stacking)
          /\ Len(b.trades) < MaxTrades
       THEN Append(b.trades, [units |-> side * size, elapsed |-> 0])
       ELSE b.trades

(***************************************************************************)
(* execute_allocation: the plan is dropped when the limits refuse the      *)
(* difference, and filled otherwise.  The inventory is one instrument's.   *)
(***************************************************************************)
Allocated(b, blocked, ready, side, size, now, c) ==
  LET plan   == Planned(b, blocked, ready, side, size)
      target == Net(plan)
      delta  == target - b.netUnits
  IN CASE delta = 0 -> [b EXCEPT !.trades = plan]
       [] delta # 0 /\ ~CanAdd(<<b.netUnits>>, 1, delta) -> b
       [] delta # 0 /\ CanAdd(<<b.netUnits>>, 1, delta) ->
            Synced([b EXCEPT !.trades = plan, !.netUnits = target, !.filled = delta,
                             !.lastEntry = IF ready /\ Side(delta) = side THEN now ELSE @],
                   target, now, c)

(***************************************************************************)
(* evaluate_entry, on the book before and after the time exits: within     *)
(* the cooldown no gate is ready, and in a closed session only a held      *)
(* position is left alone.                                                 *)
(***************************************************************************)
Minute(now) == (Dawn + now \div TicksPerMinute) % Day

Cooling(b, now) == now - b.lastEntry < Cooldown

Entered(before, after, g, size, now, c) ==
  LET blocked == ~Tradable(Minute(now), Net(before.tickets) # 0)
      ready   == g # NoGate /\ ~Cooling(before, now) /\ ~blocked
  IN Allocated(after, blocked, ready, RequestedSide(g, c), size, now, c)

(***************************************************************************)
(* mark: the peak of every ticket, that of a new one too, follows the      *)
(* candle.                                                                 *)
(***************************************************************************)
Remarked(k, c) ==
  [k EXCEPT !.peak = IF (Favorable(k, c) - @) * k.dir > 0 THEN Favorable(k, c) ELSE @]

Marked(b, c) == [b EXCEPT !.tickets = [i \in DOMAIN @ |-> Remarked(@[i], c)]]

Ledgers ==
  [tickets |-> tickets, trades |-> trades, netUnits |-> netUnits,
   lastEntry |-> lastEntry, exited |-> {}, filled |-> 0]

(***************************************************************************)
(* align_events: the newest gate up to the candle, when it is fresh.       *)
(***************************************************************************)
Aligned(g) == IF g.age <= GateAge THEN g ELSE NoGate

(***************************************************************************)
(* One candle of _replay.                                                  *)
(***************************************************************************)
ReplayCandle ==
  /\ ~ended
  /\ \E d \in 1..MaxGap, c \in Candles, calm \in BOOLEAN, size \in Sizes :
     \E g \in {NoGate} \cup {x \in GateEvents : x.age < d} :
       /\ time + d <= MaxTime
       /\ time' = time + d
       /\ candle' = c
       /\ \E held \in {TpslExits(HazardClosed(Ledgers, calm), c)} :
          \E aged \in {TimeExits(held)} :
          \E b \in {Marked(Entered(held, aged, Aligned(g), size, time + d, c), c)} :
            /\ tickets' = b.tickets /\ trades' = b.trades /\ netUnits' = b.netUnits
            /\ lastEntry' = b.lastEntry /\ exited' = b.exited /\ filled' = b.filled
  /\ UNCHANGED ended

(***************************************************************************)
(* After the last candle the tracker is closed.                            *)
(***************************************************************************)
EndReplay ==
  /\ ~ended
  /\ ended' = TRUE
  /\ tickets' = <<>>
  /\ exited' = Exits(tickets, DOMAIN tickets, ForAll(tickets, "simulation_end"))
  /\ filled' = 0
  /\ UNCHANGED <<time, candle, trades, netUnits, lastEntry>>

Next == ReplayCandle \/ EndReplay

Spec == Init /\ [][Next]_vars

------------------------------------------------------------------------------
(* Properties *)

Tickets ==
  [dir : {-1, 1}, entry : Nat, peak : Nat, armed : BOOLEAN, units : Int, since : 0..MaxTime]

TypeOK ==
  /\ time \in 0..MaxTime /\ candle \in Candles
  /\ tickets \in Seq(Tickets) /\ Len(tickets) <= MaxTrades
  /\ \A t \in TicketsOf(tickets) : Side(t.units) = t.dir
  /\ trades \in Seq([units : Int, elapsed : 0..Hold - 1]) /\ Len(trades) <= MaxTrades
  /\ netUnits \in Int
  /\ lastEntry \in -Cooldown..MaxTime
  /\ ended \in BOOLEAN

(***************************************************************************)
(* The three ledgers agree: the k-th ticket is the k-th trade, whichever   *)
(* of the ones before it were closed, by whom and in which order, and the  *)
(* risk manager holds their sum.  Indices are all that links them.         *)
(***************************************************************************)
LedgersAgree ==
  ~ended =>
    /\ Len(tickets) = Len(trades)
    /\ \A i \in DOMAIN tickets : tickets[i].units = trades[i].units
    /\ \A i \in DOMAIN tickets : trades[i].elapsed <= time - tickets[i].since
    /\ netUnits = Net(tickets)

(***************************************************************************)
(* A ticket closed for its age was held for its time, however many others  *)
(* were closed before it and shifted the ages.                             *)
(***************************************************************************)
FullHold ==
  \A e \in exited : e.reason = "hold_expiry" => time - e.ticket.since >= Hold

(***************************************************************************)
(* An entry keeps clear of what is around it: it is a cooldown after every *)
(* ticket that is open and on their side and, when there is none, the      *)
(* session stays open for the buffer and longer, across midnight too       *)
(* (evaluate_entry).                                                       *)
(***************************************************************************)
SpacedOut(book) ==
  \A i, j \in DOMAIN book : i < j =>
    book[j].since - book[i].since >= Cooldown /\ book[i].dir = book[j].dir

EntriesKeepClear ==
  [][filled' # 0 =>
       /\ SpacedOut(tickets')
       /\ tickets = <<>> =>
            \A d \in 0..ExitBuffer * TicksPerMinute : InSession(Minute(time' + d))]_vars

(***************************************************************************)
(* A fill becomes a ticket of its size.  It does not after a hazard exit,  *)
(* which leaves the trades and the risk manager with what was closed.      *)
(***************************************************************************)
FillsMatch ==
  filled # 0 => \E t \in TicketsOf(tickets) : t.since = time /\ t.units = filled
=============================================================================
