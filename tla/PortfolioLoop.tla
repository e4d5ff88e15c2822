---------------------------- MODULE PortfolioLoop ----------------------------
(***************************************************************************)
(* The live execution loop: PortfolioLoopCoordinator.loop_once with the    *)
(* trade stack, the execution engine and the exposure tracker it drives,   *)
(* against the broker, next to the API thread, the gate publisher and      *)
(* crashes of the process.  Every call to the broker is a step, so the     *)
(* other actors interleave between any two of them.                        *)
(***************************************************************************)
EXTENDS RiskLimits, TradePlanner

CONSTANTS
  NumInstruments,  \* enabled instruments, walked in sorted order
  Sizes,           \* unit sizes RiskSizer may return for an entry
  Replies,         \* how the broker may answer an order (below)
  Reconciles,      \* how a reconcile that raises nothing may end: "ok", "skipped"
  ApiUnits,        \* signed units of the orders placed over HTTP
  CanCrash,        \* whether the process may die
  Attempts,        \* max_retries of with_retry
  MaxBroker,       \* bound on the units the broker holds per instrument
  MaxBook,         \* bound on the open trades a position is split into
  MaxGate          \* bound on gate timestamps

Instruments == 1..NumInstruments

(***************************************************************************)
(* An answer to an order request, retries included: how many of the at     *)
(* most Attempts requests the broker filled, and what the caller was told. *)
(*   "fill"   2xx with a fill transaction                                  *)
(*   "empty"  2xx without one, e.g. a cancelled fill-or-kill order         *)
(*   "none"   None: no credentials, read-only, or every attempt timed out  *)
(*   "error"  an HTTP error status, raised as a bare Exception             *)
(* A request whose answer was lost may have been filled, so fills may      *)
(* exceed one, or be positive when the caller was told "none".             *)
(***************************************************************************)
Reply == [kind : {"fill", "empty", "none", "error"}, fills : 0..Attempts]

Possible(reply) ==
  CASE reply.kind = "fill" -> reply.fills >= 1
    [] reply.kind = "none" -> TRUE
    [] OTHER               -> reply.fills < Attempts

Filled == [kind |-> "fill", fills |-> 1]
Rejected == [kind |-> "none", fills |-> 0]
Refused == [kind |-> "error", fills |-> 0]

(***************************************************************************)
(* The answers after which the order is booked.  The variant takes any     *)
(* answer but an error for one.                                            *)
(***************************************************************************)
ConfirmedUnlessError(reply) == reply.kind # "error"

Confirmed(reply) == reply.kind \in {"fill", "empty"}

ASSUME LoopAssumption ==
  /\ NumInstruments \in Nat \ {0}
  /\ Attempts \in Nat \ {0}
  /\ MaxBroker \in Nat
  /\ MaxBook \in Nat \ {0}
  /\ MaxGate \in Nat
  /\ Sizes \subseteq Nat \ {0}
  /\ ApiUnits \subseteq Int \ {0}
  /\ Replies \subseteq {r \in Reply : Possible(r)}
  /\ Rejected \in Replies
  /\ Reconciles \subseteq {"ok", "skipped"}
  /\ CanCrash \in BOOLEAN

VARIABLES
  (* The world outside the process. *)
  broker,     \* units held at OANDA per instrument
  published,  \* the gate the regime service last wrote per instrument
  (* Memory of the process. *)
  store,      \* TradeStateStore: one snapshot per instrument
  tickets,    \* TPSLPositionTracker: signed units of every open ticket
  inventory,  \* RiskManager: net units per instrument
  cooldown,   \* whether the last recorded entry is within the cooldown
  gate,       \* the gates loaded for this cycle
  kill,       \* StateManager's kill switch flag
  (* Where the loop thread is, and its local variables. *)
  stage, cur, \* step of the cycle, and the instrument it is at
  exits,      \* pass over tickets to close: indices left, trades copy, any closed
  entry,      \* what process_instrument computed before the exits
  (* An observation, read by no action of the system. *)
  intact      \* no answer was lost since the ledgers of i were last in line

world  == <<broker, published>>
ledger == <<store, tickets, inventory>>
locals == <<exits, entry>>
memory == <<ledger, cooldown, gate, locals>>
vars   == <<world, memory, kill, stage, cur, intact>>

Trade    == [units : Int, signal : 0..MaxGate]
Snapshot == [trades : Seq(Trade), pending : BOOLEAN, last : 0..MaxGate]
Gate     == [ts : 0..MaxGate, side : {-1, 0, 1}]

Stages == {"down", "idle", "gates", "tpsl", "tpsl_close", "expiry",
           "expiry_close", "stack", "stack_close", "allocate"}

NoGate  == [ts |-> 0, side |-> 0]
NoExits == [work |-> {}, trades |-> <<>>, closed |-> FALSE]
NoEntry == [prior |-> 0, tradable |-> FALSE, ready |-> FALSE, open |-> FALSE]

TypeOK ==
  /\ broker \in [Instruments -> Int]
  /\ published \in [Instruments -> Gate]
  /\ store \in [Instruments -> Snapshot]
  /\ tickets \in [Instruments -> Seq(Int)]
  /\ inventory \in [Instruments -> Int]
  /\ cooldown \in [Instruments -> BOOLEAN]
  /\ gate \in [Instruments -> Gate]
  /\ kill \in BOOLEAN
  /\ stage \in Stages
  /\ cur \in Instruments
  /\ exits \in [work : SUBSET (Nat \ {0}), trades : Seq(Trade), closed : BOOLEAN]
  /\ entry \in [prior : Nat, tradable : BOOLEAN, ready : BOOLEAN, open : BOOLEAN]
  /\ intact \in [Instruments -> BOOLEAN]

(***************************************************************************)
(* What the constructors leave: an empty memory, and a kill switch that is *)
(* whatever Valkey holds, engaged when it holds nothing.                   *)
(***************************************************************************)
Everywhere(v) == [i \in Instruments |-> v]

Init ==
  /\ broker = Everywhere(0)
  /\ published = Everywhere(NoGate)
  /\ store = Everywhere(NoTrades)
  /\ tickets = Everywhere(<<>>)
  /\ inventory = Everywhere(0)
  /\ cooldown = Everywhere(FALSE)
  /\ gate = Everywhere(NoGate)
  /\ exits = NoExits
  /\ entry = NoEntry
  /\ kill \in BOOLEAN
  /\ stage = "down"
  /\ cur = 1
  /\ intact = Everywhere(TRUE)

------------------------------------------------------------------------------
(* Reconciliation with the broker *)

(***************************************************************************)
(* The open trades the broker may report for a position of n units.  The   *)
(* list with the whole position as one trade is also what the tracker      *)
(* falls back to when the trades cannot be fetched.                        *)
(***************************************************************************)
Books(n) ==
  IF n = 0 THEN {<<>>}
  ELSE LET splits == UNION {[1..k -> 1..Magnitude(n)] : k \in 1..MaxBook}
       IN  {[k \in DOMAIN b |-> Side(n) * b[k]] :
              b \in {s \in splits : NetUnits(s) = Magnitude(n)}}

(***************************************************************************)
(* A reconcile that got the positions: tickets, inventory and trades are   *)
(* rebuilt from the broker, and a held instrument remembers the current    *)
(* gate, unless it is missing from the gate cache, as its last signal.     *)
(* The cooldown is restored from the entry time of the newest trade, which *)
(* may or may not be recent.                                               *)
(***************************************************************************)
ReconcileSucceeds ==
  \E missing, hot \in SUBSET Instruments :
  \E book \in [Instruments -> UNION {Books(broker[i]) : i \in Instruments}] :
    /\ \A i \in Instruments : book[i] \in Books(broker[i])
    /\ tickets' = book
    /\ inventory' = [i \in Instruments |-> NetUnits(book[i])]
    /\ store' = [i \in Instruments |->
         IF book[i] = <<>> THEN NoTrades
         ELSE [trades  |-> [k \in DOMAIN book[i] |->
                              [units |-> book[i][k], signal |-> 0]],
               pending |-> FALSE,
               last    |-> IF i \in missing THEN 0 ELSE published[i].ts]]
    /\ cooldown' = [i \in Instruments |-> book[i] # <<>> /\ i \in hot]
    /\ intact' = [i \in Instruments |-> TRUE]

(***************************************************************************)
(* The broker returned no positions: the exposure tracker leaves tickets   *)
(* and inventory alone and returns an empty map, which the coordinator     *)
(* reads as every instrument being flat.  The variant flattens the         *)
(* inventory before it looks at the answer.                                *)
(***************************************************************************)
ReconcileSkippedFlattening ==
  /\ store' = Everywhere(NoTrades)
  /\ inventory' = Everywhere(0)
  /\ cooldown' = Everywhere(FALSE)
  /\ intact' = [i \in Instruments |-> intact[i] /\ store[i].trades = <<>>]
  /\ UNCHANGED tickets

ReconcileSkipped ==
  /\ store' = Everywhere(NoTrades)
  /\ cooldown' = Everywhere(FALSE)
  /\ intact' = [i \in Instruments |-> intact[i] /\ store[i].trades = <<>>]
  /\ UNCHANGED <<tickets, inventory>>

(***************************************************************************)
(* An HTTP error status escapes before anything was changed.               *)
(***************************************************************************)
ReconcileFailed == UNCHANGED <<ledger, cooldown, intact>>

ReconcilePortfolio ==
  \/ "ok" \in Reconciles /\ ReconcileSucceeds
  \/ "skipped" \in Reconciles /\ ReconcileSkipped

------------------------------------------------------------------------------
(* The cycle: reconcile, load the gates, look at the kill switch *)

(***************************************************************************)
(* TradingService.start: the loop starts after a first reconcile.  A bare  *)
(* Exception from it ends the process, which its supervisor starts again.  *)
(***************************************************************************)
Boot ==
  /\ stage = "down"
  /\ ReconcilePortfolio
  /\ stage' = "idle"
  /\ UNCHANGED <<world, gate, kill, cur, locals>>

(***************************************************************************)
(* The start of a cycle.  The periodic reconcile runs when its interval    *)
(* has elapsed; its failure is logged and the cycle goes on.               *)
(***************************************************************************)
BeginCycle ==
  /\ stage = "idle"
  /\ \/ ReconcileFailed
     \/ ReconcilePortfolio
  /\ stage' = "gates"
  /\ UNCHANGED <<world, gate, kill, cur, locals>>

(***************************************************************************)
(* The gates are loaded, those missing from the cache without direction.   *)
(* With the kill switch engaged the cycle ends here, exits included.  The  *)
(* variant goes on while a position is held.                               *)
(***************************************************************************)
LoadGatesWhileHolding ==
  /\ stage = "gates"
  /\ IF kill /\ inventory = Everywhere(0)
     THEN stage' = "idle" /\ UNCHANGED gate
     ELSE stage' = "tpsl" /\ gate' = published
  /\ cur' = 1
  /\ UNCHANGED <<world, ledger, cooldown, kill, locals, intact>>

LoadGates ==
  /\ stage = "gates"
  /\ IF kill
     THEN stage' = "idle" /\ UNCHANGED gate
     ELSE /\ stage' = "tpsl"
          /\ \E missing \in SUBSET Instruments :
               gate' = [i \in Instruments |-> IF i \in missing THEN NoGate ELSE published[i]]
  /\ cur' = 1
  /\ UNCHANGED <<world, ledger, cooldown, kill, locals, intact>>

(***************************************************************************)
(* An HTTP error from the price or account request escapes loop_once and   *)
(* is logged by run.                                                       *)
(***************************************************************************)
CycleFails ==
  /\ stage = "gates"
  /\ stage' = "idle"
  /\ UNCHANGED <<world, memory, kill, cur, intact>>

(***************************************************************************)
(* The loop moves to the next instrument of the enforcement pass, from     *)
(* there to the allocation pass, and from there to the next cycle.  What   *)
(* was computed for an instrument is forgotten when the loop leaves it.    *)
(* The variant walks one instrument too far.                               *)
(***************************************************************************)
AdvanceTooFar(pass, after) ==
  IF cur <= NumInstruments
  THEN stage' = pass /\ cur' = cur + 1
  ELSE stage' = after /\ cur' = 1

Advance(pass, after) ==
  IF cur < NumInstruments
  THEN stage' = pass /\ cur' = cur + 1
  ELSE stage' = after /\ cur' = 1

AfterExits == Advance("tpsl", "stack")

AfterStack ==
  /\ Advance("stack", "idle")
  /\ gate' = [gate EXCEPT ![cur] = NoGate]
  /\ entry' = NoEntry

------------------------------------------------------------------------------
(* Exits: TP/SL and hold expiry *)

(***************************************************************************)
(* A pass over the tickets at indices work starts on a copy of the trades. *)
(***************************************************************************)
StartExits(work) ==
  exits' = [work |-> work, trades |-> store[cur].trades, closed |-> FALSE]

(***************************************************************************)
(* check_tpsl_exit_intra_candle: the candle triggers the TP/SL state of    *)
(* any of the tickets; an index without a trade is skipped.                *)
(***************************************************************************)
TpslExit ==
  /\ stage = "tpsl"
  /\ \E triggered \in SUBSET DOMAIN tickets[cur] :
       LET work == triggered \cap DOMAIN store[cur].trades
       IN  /\ triggered # {} => NetUnits(tickets[cur]) # 0
           /\ IF work = {}
              THEN stage' = "expiry" /\ UNCHANGED exits
              ELSE stage' = "tpsl_close" /\ StartExits(work)
  /\ UNCHANGED <<world, ledger, cooldown, gate, kill, cur, entry, intact>>

(***************************************************************************)
(* check_time_expiry: any of the trades may have outlived its hold, unless *)
(* the inventory is flat.                                                  *)
(***************************************************************************)
Expired(work) ==
  /\ work \subseteq DOMAIN store[cur].trades
  /\ inventory[cur] = 0 => work = {}

ExpiryExit ==
  /\ stage = "expiry"
  /\ \E work \in SUBSET DOMAIN store[cur].trades :
       /\ Expired(work)
       /\ IF work = {}
          THEN AfterExits /\ UNCHANGED exits
          ELSE stage' = "expiry_close" /\ cur' = cur /\ StartExits(work)
  /\ UNCHANGED <<world, ledger, cooldown, gate, kill, entry, intact>>

(***************************************************************************)
(* OANDA takes fills closes of u units off the position, all or nothing.   *)
(***************************************************************************)
BrokerCloses(i, u, fills) ==
  /\ fills > 0 => /\ Side(broker[i]) = Side(u)
                  /\ fills * Magnitude(u) <= Magnitude(broker[i])
  /\ broker' = [broker EXCEPT ![i] = @ - fills * u]

(***************************************************************************)
(* The pass ends when no index is left: the copy of the trades is saved if *)
(* anything was closed, and the inventory made to match the tickets.  The  *)
(* variant tries a ticket again until the broker closes it.                *)
(***************************************************************************)
FinishExitsRetrying(i, left, trades, closed, held) ==
  LET stuck == trades = exits.trades
      work  == IF stuck THEN exits.work ELSE left
  IN  /\ exits' = IF work = {} THEN NoExits
                  ELSE [work |-> work, trades |-> trades, closed |-> closed]
      /\ store' = IF work = {} THEN [store EXCEPT ![i] = SaveTrades(@, trades)] ELSE store
      /\ inventory' = [inventory EXCEPT ![i] = held]
      /\ IF work # {} THEN UNCHANGED <<stage, cur>>
         ELSE CASE stage = "tpsl_close"   -> stage' = "expiry" /\ cur' = cur
                [] stage = "expiry_close" -> AfterExits
                [] stage = "stack_close"  -> stage' = "allocate" /\ cur' = cur

FinishExits(i, left, trades, closed, held) ==
  /\ exits' = IF left = {} THEN NoExits
              ELSE [work |-> left, trades |-> trades, closed |-> closed]
  /\ store' = IF left = {} /\ closed
              THEN [store EXCEPT ![i] = SaveTrades(@, trades)] ELSE store
  /\ inventory' = [inventory EXCEPT ![i] = held]
  /\ IF left # {} THEN UNCHANGED <<stage, cur>>
     ELSE CASE stage = "tpsl_close"   -> stage' = "expiry" /\ cur' = cur
            [] stage = "expiry_close" -> AfterExits
            [] stage = "stack_close"  -> stage' = "allocate" /\ cur' = cur

(***************************************************************************)
(* Indices are worked off from the highest, so that removing a ticket does *)
(* not move those still to come.  The variant starts with the lowest.      *)
(***************************************************************************)
LowestExit(work) == Min(work)

NextExit(work) == Max(work)

(***************************************************************************)
(* ExposureTracker.close_ticket on the highest index left.  A confirmed    *)
(* close pops the ticket and its trade and books the units; any other      *)
(* answer, exceptions included, leaves both and the loop goes on.          *)
(***************************************************************************)
CloseTicket ==
  /\ stage \in {"tpsl_close", "expiry_close", "stack_close"}
  /\ LET i    == cur
         k    == NextExit(exits.work)
         left == exits.work \ {k}
     IN  \/ /\ k \notin DOMAIN tickets[i]
            /\ FinishExits(i, left, exits.trades, exits.closed,
                 IF left = {} /\ exits.closed
                 THEN NetUnits(tickets[i]) ELSE inventory[i])
            /\ UNCHANGED <<broker, tickets, intact>>
         \/ /\ k \in DOMAIN tickets[i]
            /\ \E reply \in Replies :
                 LET done   == Confirmed(reply)
                     kept   == IF done THEN RemoveAt(tickets[i], k) ELSE tickets[i]
                     trades == IF done THEN RemoveAt(exits.trades, k) ELSE exits.trades
                     closed == exits.closed \/ done
                     booked == IF done THEN inventory[i] - tickets[i][k] ELSE inventory[i]
                 IN  /\ BrokerCloses(i, tickets[i][k], reply.fills)
                     /\ tickets' = [tickets EXCEPT ![i] = kept]
                     /\ FinishExits(i, left, trades, closed,
                          IF left = {} /\ closed THEN NetUnits(kept) ELSE booked)
                     /\ intact' = [intact EXCEPT
                          ![i] = @ /\ reply \in {Filled, Rejected, Refused}]
  /\ UNCHANGED <<published, cooldown, gate, kill, entry>>

------------------------------------------------------------------------------
(* Entries *)

(***************************************************************************)
(* process_instrument up to the allocation.  Positions, trades and session *)
(* are read here, before the expiry pass that may close them.  Admitted    *)
(* stands for the gate evaluation, the regime match and the structural     *)
(* breaker.  A gate without direction ends the pass.                       *)
(***************************************************************************)
ProcessInstrument ==
  /\ stage = "stack"
  /\ IF gate[cur].side = 0 THEN AfterStack /\ UNCHANGED exits
     ELSE \E open, admitted \in BOOLEAN, work \in SUBSET DOMAIN store[cur].trades :
            LET held     == inventory[cur] # 0 \/ store[cur].trades # <<>>
                tradable == open \/ held
                locked   == ~held /\ MaxExposure > 0 /\ Exposure(inventory) >= MaxExposure
            IN  /\ Expired(work)
                /\ entry' = [prior    |-> Len(store[cur].trades),
                             tradable |-> tradable,
                             ready    |-> admitted /\ tradable /\ ~cooldown[cur] /\ ~locked,
                             open     |-> open]
                /\ IF work = {}
                   THEN stage' = "allocate" /\ UNCHANGED exits
                   ELSE stage' = "stack_close" /\ StartExits(work)
                /\ UNCHANGED <<cur, gate>>
  /\ UNCHANGED <<world, ledger, cooldown, kill, intact>>

(***************************************************************************)
(* The request process_instrument hands to the planner; the sizer returns  *)
(* 0 units when a price is missing.                                        *)
(***************************************************************************)
Request(size) ==
  [blocked |-> ~entry.tradable, ready  |-> entry.ready,
   side    |-> gate[cur].side,  signal |-> gate[cur].ts,
   size    |-> IF entry.ready THEN size ELSE 0]

(***************************************************************************)
(* The planner's snapshot is kept and, when the number of trades grew over *)
(* the one read before the expiry pass, the cooldown starts.               *)
(***************************************************************************)
Commit(i, planned) ==
  /\ store' = [store EXCEPT ![i] = planned]
  /\ cooldown' = [cooldown EXCEPT ![i] = @ \/ Len(planned.trades) > entry.prior]

(***************************************************************************)
(* The planned trades already match the inventory: nothing to execute.     *)
(***************************************************************************)
AllocateNothing(i, planned) ==
  /\ NetOfTrades(planned.trades) = inventory[i]
  /\ Commit(i, planned)
  /\ AfterStack
  /\ UNCHANGED <<broker, tickets, inventory, intact>>

Restore(i, planned) == store' = [store EXCEPT ![i] = Restored(planned, @)]

(***************************************************************************)
(* Risk limits reject the order and the snapshot is restored.              *)
(***************************************************************************)
AllocateRejected(i, planned, delta) ==
  /\ ~CanAdd(inventory, i, delta)
  /\ Restore(i, planned)
  /\ AfterStack
  /\ UNCHANGED <<broker, tickets, inventory, cooldown, intact>>

(***************************************************************************)
(* The order goes to the broker.  Confirmed, it is booked for its full     *)
(* size and the tickets follow; unanswered, the snapshot is restored.  An  *)
(* HTTP error escapes the engine with the planned snapshot in the store    *)
(* and ends the cycle.                                                     *)
(***************************************************************************)
AllocateOrder(i, planned, delta) ==
  /\ delta # 0
  /\ CanAdd(inventory, i, delta)
  /\ \E reply \in Replies :
       /\ broker' = [broker EXCEPT ![i] = @ + reply.fills * delta]
       /\ Magnitude(broker'[i]) <= MaxBroker
       /\ intact' = [intact EXCEPT ![i] = @ /\ reply \in {Filled, Rejected}]
       /\ CASE Confirmed(reply) ->
                 /\ Commit(i, planned)
                 /\ inventory' = [inventory EXCEPT ![i] = @ + delta]
                 /\ tickets' = [tickets EXCEPT
                      ![i] = SyncToNetPosition(@, inventory[i] + delta)]
                 /\ AfterStack
            [] reply.kind = "none" ->
                 /\ Restore(i, planned)
                 /\ AfterStack
                 /\ UNCHANGED <<tickets, inventory, cooldown>>
            [] reply.kind = "error" ->
                 /\ store' = [store EXCEPT ![i] = planned]
                 /\ stage' = "idle"
                 /\ cur' = 1
                 /\ gate' = Everywhere(NoGate)
                 /\ entry' = NoEntry
                 /\ UNCHANGED <<tickets, inventory, cooldown>>

(***************************************************************************)
(* execute_allocation once the expiry pass is over.                        *)
(***************************************************************************)
Allocate ==
  /\ stage = "allocate"
  /\ \E size \in Sizes \cup {0} :
       LET planned == PlanAllocation(store, cur, inventory[cur], Request(size), MaxPositions)
           delta   == NetOfTrades(planned.trades) - inventory[cur]
       IN  \/ AllocateNothing(cur, planned)
           \/ AllocateRejected(cur, planned, delta)
           \/ AllocateOrder(cur, planned, delta)
  /\ UNCHANGED <<published, kill, exits>>

------------------------------------------------------------------------------
(* The other actors *)

(***************************************************************************)
(* The regime service, another process, publishes the gate of a newer      *)
(* window, between any two steps of the loop.                              *)
(***************************************************************************)
PublishGate(i) ==
  /\ published[i].ts < MaxGate
  /\ \E side \in {-1, 0, 1} :
       published' = [published EXCEPT ![i] = [ts |-> @.ts + 1, side |-> side]]
  /\ UNCHANGED <<broker, memory, kill, stage, cur, intact>>

(***************************************************************************)
(* The cooldown period after the last entry elapses.  Only the stack looks *)
(* at it, so nothing is lost by letting it elapse just before.             *)
(***************************************************************************)
CooldownLapses(i) ==
  /\ stage \in {"idle", "stack"}
  /\ cooldown[i]
  /\ cooldown' = [cooldown EXCEPT ![i] = FALSE]
  /\ UNCHANGED <<world, ledger, gate, locals, kill, stage, cur, intact>>

(***************************************************************************)
(* The API thread: the kill switch, and orders and closes that reach the   *)
(* broker but neither the tracker nor the trade store.  A close names any  *)
(* number of units, all of them by default; a request that is retried and  *)
(* filled twice is two steps.                                              *)
(***************************************************************************)
SetKillSwitch ==
  /\ stage # "down"
  /\ kill' = ~kill
  /\ UNCHANGED <<world, memory, stage, cur, intact>>

PlaceOrder(i, units) ==
  /\ stage # "down"
  /\ ~kill
  /\ Magnitude(broker[i] + units) <= MaxBroker
  /\ broker' = [broker EXCEPT ![i] = @ + units]
  /\ intact' = [intact EXCEPT ![i] = FALSE]
  /\ UNCHANGED <<published, memory, kill, stage, cur>>

ClosePosition(i) ==
  /\ ApiUnits # {}
  /\ stage # "down"
  /\ ~kill
  /\ \E n \in 1..Magnitude(broker[i]) :
       broker' = [broker EXCEPT ![i] = @ - Side(@) * n]
  /\ intact' = [intact EXCEPT ![i] = FALSE]
  /\ UNCHANGED <<published, memory, kill, stage, cur>>

(***************************************************************************)
(* The process dies between any two calls and loses its memory.            *)
(***************************************************************************)
Crash ==
  /\ CanCrash
  /\ stage # "down"
  /\ stage' = "down"
  /\ cur' = 1
  /\ store' = Everywhere(NoTrades)
  /\ tickets' = Everywhere(<<>>)
  /\ inventory' = Everywhere(0)
  /\ cooldown' = Everywhere(FALSE)
  /\ gate' = Everywhere(NoGate)
  /\ exits' = NoExits
  /\ entry' = NoEntry
  /\ kill' \in BOOLEAN
  /\ intact' = [i \in Instruments |-> broker[i] = 0]
  /\ UNCHANGED <<world>>

------------------------------------------------------------------------------

LoopStep ==
  \/ BeginCycle \/ LoadGates \/ CycleFails
  \/ TpslExit \/ ExpiryExit \/ CloseTicket
  \/ ProcessInstrument \/ Allocate

ApiStep ==
  \/ SetKillSwitch
  \/ \E i \in Instruments : ClosePosition(i) \/ \E u \in ApiUnits : PlaceOrder(i, u)

Next ==
  \/ Boot
  \/ LoopStep
  \/ ApiStep
  \/ \E i \in Instruments : PublishGate(i) \/ CooldownLapses(i)
  \/ Crash

Spec == Init /\ [][Next]_vars

(***************************************************************************)
(* The loop thread never stops by itself: run catches every exception of a *)
(* cycle and waits at most loop_seconds.                                   *)
(***************************************************************************)
FairSpec == Spec /\ WF_vars(Boot) /\ WF_vars(LoopStep)

------------------------------------------------------------------------------
(* Properties: agreement of the books *)

Closing(i) == cur = i /\ stage \in {"tpsl_close", "expiry_close", "stack_close"}

TradesOf(i) == IF Closing(i) THEN exits.trades ELSE store[i].trades

(***************************************************************************)
(* The risk manager's inventory is the net of the tracker's tickets after  *)
(* every call, whatever the broker answered, and across skipped reconciles *)
(* and crashes: the limits are checked against what the tracker closes.    *)
(***************************************************************************)
RiskMatchesTickets == \A i \in Instruments : inventory[i] = NetUnits(tickets[i])

(***************************************************************************)
(* As long as no answer was lost, the trade store, the tickets, the        *)
(* inventory and the broker agree on an instrument between any two calls:  *)
(* the same trades in the same order, so that an index found in one names  *)
(* the same trade in the other, and the broker's position as their net.    *)
(***************************************************************************)
LedgersAgree ==
  \A i \in Instruments : intact[i] =>
    /\ TradeUnits(TradesOf(i)) = tickets[i]
    /\ inventory[i] = broker[i]

(***************************************************************************)
(* Every index a pass over the tickets has still to close names a trade of *)
(* its copy, whatever was closed before it.                                *)
(***************************************************************************)
ExitsInRange ==
  stage \in {"tpsl_close", "expiry_close", "stack_close"} =>
    exits.work # {} /\ exits.work \subseteq DOMAIN exits.trades

(***************************************************************************)
(* Neither book ever holds opposite units, so a position of net zero has   *)
(* no ticket left that has_position would hide from the exit checks.       *)
(***************************************************************************)
BooksOneSided ==
  \A i \in Instruments :
    OneSided(tickets[i]) /\ OneSided(TradeUnits(store[i].trades))

(***************************************************************************)
(* A gate opens at most one of the open trades of an instrument, although  *)
(* the loop reads the same gate many times and a reconcile forgets which   *)
(* gate opened what.                                                       *)
(***************************************************************************)
OneTradePerSignal ==
  \A i \in Instruments : \A k, m \in DOMAIN store[i].trades :
    LET trades == store[i].trades
    IN  k # m /\ trades[k].signal = trades[m].signal => trades[k].signal = 0

(***************************************************************************)
(* The account, not only the local books, stays inside the limits on net   *)
(* units, open instruments and exposure, when the broker fills or turns    *)
(* down every order and nobody else trades on it.  Orders it refuses with  *)
(* an HTTP error may end beyond the exposure cap: their plans stay in the  *)
(* store, tickets and trades drift apart, and an order that overshoots     *)
(* zero is exempt from the cap (see CanAdd).                               *)
(***************************************************************************)
PositionsWithinLimits ==
  /\ \A i \in Instruments : Magnitude(broker[i]) <= MaxNetUnits
  /\ OpenPositions(broker) <= MaxPositions

BrokerWithinLimits ==
  /\ PositionsWithinLimits
  /\ MaxExposure > 0 => Exposure(broker) <= MaxExposure

------------------------------------------------------------------------------
(* Properties: what an allocation may do *)

Allocating == stage = "allocate" /\ stage' \notin {"allocate", "down"}

Grows(i) == Magnitude(broker'[i]) > Magnitude(broker[i])

(***************************************************************************)
(* The loop enlarges a position only in a pass that admitted an entry,     *)
(* never to make good for an earlier pass.                                 *)
(***************************************************************************)
GrowthIsAdmitted == [][Allocating /\ Grows(cur) => entry.ready]_vars

(***************************************************************************)
(* With ledgers in line an allocation leaves the account alone or adds an  *)
(* admitted entry to it: it sells nothing that is held, and buys nothing   *)
(* for an earlier pass.                                                    *)
(***************************************************************************)
AllocationOnlyEnters ==
  [][Allocating /\ intact[cur] =>
       broker'[cur] = broker[cur] \/ (Grows(cur) /\ entry.ready)]_vars

(***************************************************************************)
(* An entry that risk limits or the broker turned down leaves its gate     *)
(* unused, so that a later cycle may still act on it, and the gate acted   *)
(* on last stays the one remembered.                                       *)
(***************************************************************************)
RejectionKeepsSignal ==
  [][Allocating /\ intact'[cur] /\ broker' = broker =>
       store'[cur].last = store[cur].last]_vars

------------------------------------------------------------------------------
(* The loop as an account *)

Account == INSTANCE AccountContract
  WITH position <- broker, verdict <- published, taken <- gate, trusted <- intact

(***************************************************************************)
(* Whatever the broker answers, whoever else trades and wherever the       *)
(* process dies: an instrument whose answers all came back is entered on   *)
(* the side of the gate that was the last one when the pass began, at most *)
(* once in a pass, by one size, within the limits, and left by parts.      *)
(* Nothing else moves its position, and a gate published during the pass   *)
(* has no say in it.                                                       *)
(***************************************************************************)
KeepsAccount == Account!AccountSpec

------------------------------------------------------------------------------
(* Properties: progress *)

(***************************************************************************)
(* Every cycle ends, whatever the broker answers: a ticket that cannot be  *)
(* closed is left behind, never waited for.                                *)
(***************************************************************************)
CycleCompletes == stage \notin {"down", "idle"} ~> stage \in {"down", "idle"}

(***************************************************************************)
(* Once the kill switch stays engaged the loop stops sending orders, after *)
(* the cycle under way.                                                    *)
(***************************************************************************)
KillSwitchHaltsTrading ==
  <>[]kill => <>[](stage \in {"down", "idle", "gates"})

------------------------------------------------------------------------------
(* What documents, log lines and tests say, and the code does not do *)

(***************************************************************************)
(* "Reconciling skipped": a reconcile that rebuilt no ticket leaves the    *)
(* trades of a held instrument alone.                                      *)
(***************************************************************************)
SkippedReconcileKeepsTrades ==
  [][stage = "idle" /\ stage' = "gates" /\ tickets' = tickets =>
       \A i \in Instruments :
         tickets[i] # <<>> /\ store[i].trades # <<>> => store'[i].trades # <<>>]_vars

(***************************************************************************)
(* "Order ... not confirmed; inventory unchanged": the inventory moves in  *)
(* an allocation only with a fill.                                         *)
(***************************************************************************)
InventoryFollowsFills ==
  [][Allocating /\ inventory' # inventory => broker' # broker]_vars

(***************************************************************************)
(* The entry cooldown: every entry starts one.                             *)
(***************************************************************************)
EntryStartsCooldown ==
  [][Allocating /\ Len(store'[cur].trades) > Len(store[cur].trades) => cooldown'[cur]]_vars

(***************************************************************************)
(* A position is opened from flat inside a session window only.            *)
(***************************************************************************)
OpenedInSession ==
  [][Allocating /\ broker[cur] = 0 /\ broker'[cur] # 0 => entry.open]_vars

=============================================================================
