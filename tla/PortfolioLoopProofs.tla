------------------------- MODULE PortfolioLoopProofs -------------------------
(***************************************************************************)
(* Theorems about PortfolioLoop, for every number of instruments, every    *)
(* set of broker answers, reconciles and API orders, and every value of    *)
(* the limits.  First its types, the inventory as the net of the tickets   *)
(* and the place of an exit pass in the trades; then the agreement of all  *)
(* ledgers, the sides and signals of the books and what an allocation may  *)
(* do to the account; last the limits on the account itself.               *)
(***************************************************************************)
EXTENDS PortfolioLoop, BookTheorems, FiniteSetTheorems

------------------------------------------------------------------------------
(* The operators of the components *)

(***************************************************************************)
(* The units of a list of trades form a book, and it has a net.            *)
(***************************************************************************)
LEMMA TradeUnitsType ==
  ASSUME NEW trades \in Seq(Trade)
  PROVE  TradeUnits(trades) \in Seq(Int) /\ NetOfTrades(trades) \in Int
<1>1. /\ Len(trades) \in Nat
      /\ DOMAIN trades = 1..Len(trades)
      /\ \A k \in 1..Len(trades) : trades[k].units \in Int
  <2>1. Len(trades) \in Nat /\ DOMAIN trades = 1..Len(trades)
    BY LenProperties
  <2>2. \A k \in 1..Len(trades) : trades[k] \in Trade
    BY ElementOfSeq
  <2>. QED
    BY <2>1, <2>2 DEF Trade
<1>2. TradeUnits(trades) = [k \in 1..Len(trades) |-> trades[k].units]
  BY <1>1 DEF TradeUnits
<1>3. TradeUnits(trades) \in Seq(Int)
  BY <1>1, <1>2
<1>. QED
  BY <1>3, NetUnitsType DEF NetOfTrades

(***************************************************************************)
(* An instrument without trades has a well-formed snapshot.                *)
(***************************************************************************)
LEMMA NoTradesType == NoTrades \in Snapshot
  BY LoopAssumption, EmptySeq DEF NoTrades, Snapshot

(***************************************************************************)
(* Saving the trades left by an exit pass gives a well-formed snapshot.    *)
(***************************************************************************)
LEMMA SaveTradesType ==
  ASSUME NEW snapshot \in Snapshot, NEW trades \in Seq(Trade)
  PROVE  SaveTrades(snapshot, trades) \in Snapshot
  BY NoTradesType DEF SaveTrades, Snapshot

(***************************************************************************)
(* Restoring after a rejection undoes everything the planner changed.      *)
(***************************************************************************)
LEMMA RestoredIsPrior ==
  ASSUME NEW planned \in Snapshot, NEW prior \in Snapshot
  PROVE  Restored(planned, prior) = prior
  BY DEF Restored, Snapshot

(***************************************************************************)
(* What the loop asks the planner for.                                     *)
(***************************************************************************)
Requests == [blocked : BOOLEAN, ready : BOOLEAN, side : {-1, 0, 1},
             signal : 0..MaxGate, size : Nat]

(***************************************************************************)
(* The planner answers every request with a well-formed snapshot.          *)
(***************************************************************************)
LEMMA PlanAllocationType ==
  ASSUME NEW s \in [Instruments -> Snapshot], NEW i \in Instruments,
         NEW current \in Int, NEW request \in Requests, NEW n \in Nat
  PROVE  PlanAllocation(s, i, current, request, n) \in Snapshot
<1>. DEFINE opened == [units |-> request.side * request.size, signal |-> request.signal]
            pending == s[i].pending /\ NetOfTrades(s[i].trades) # current
<1>1. /\ s[i] \in Snapshot
      /\ s[i].trades \in Seq(Trade)
      /\ s[i].pending \in BOOLEAN
      /\ s[i].last \in 0..MaxGate
  BY DEF Snapshot
<1>2. request.side * request.size \in Int
  <2>1. request.side \in {-1, 0, 1} /\ request.size \in Nat
    BY DEF Requests
  <2>2. request.side \in Int /\ request.size \in Int
    BY <2>1
  <2>. QED
    BY <2>2
<1>3. opened \in Trade
  BY <1>2 DEF Trade, Requests
<1>4. Append(s[i].trades, opened) \in Seq(Trade)
  BY <1>1, <1>3, AppendProperties
<1>5. pending \in BOOLEAN
  BY <1>1
<1>. HIDE DEF opened, pending
<1>6. [trades |-> Append(s[i].trades, opened), pending |-> pending,
       last |-> request.signal] \in Snapshot
  BY <1>4, <1>5 DEF Snapshot, Requests
<1>7. [NoTrades EXCEPT !.pending = s[i].trades # <<>>] \in Snapshot
  BY NoTradesType DEF Snapshot
<1>8. [s[i] EXCEPT !.pending = pending] \in Snapshot
  BY <1>1, <1>5 DEF Snapshot
<1>9. SaveTrades([s[i] EXCEPT !.pending = pending], s[i].trades) \in Snapshot
  BY <1>1, <1>8, SaveTradesType
<1>10. request.blocked \in BOOLEAN
  BY DEF Requests
<1>11. CASE request.blocked
  <2>1. ~Admits(s, i, request, n)
    BY <1>11 DEF Admits
  <2>. QED
    BY <1>7, <1>11, <2>1 DEF PlanAllocation
<1>12. CASE ~request.blocked /\ Admits(s, i, request, n)
  BY <1>6, <1>12 DEF PlanAllocation, opened, pending
<1>13. CASE ~request.blocked /\ ~Admits(s, i, request, n)
  BY <1>9, <1>13 DEF PlanAllocation, pending
<1>. QED
  BY <1>11, <1>12, <1>13

(***************************************************************************)
(* Whatever the broker reports can be kept as tickets.                     *)
(***************************************************************************)
LEMMA BooksType ==
  ASSUME NEW n \in Int, NEW book \in Books(n)
  PROVE  book \in Seq(Int)
<1>1. CASE n = 0
  BY <1>1, EmptySeq DEF Books
<1>2. CASE n # 0
  <2>0. PICK k \in 1..MaxBook :
          \E b \in [1..k -> 1..Magnitude(n)] : book = [j \in DOMAIN b |-> Side(n) * b[j]]
    BY <1>2 DEF Books
  <2>1. PICK b \in [1..k -> 1..Magnitude(n)] : book = [j \in DOMAIN b |-> Side(n) * b[j]]
    BY <2>0
  <2>2. Side(n) \in Int /\ Magnitude(n) \in Int
    BY DEF Side, Magnitude
  <2>3. k \in Nat
    BY <2>1, LoopAssumption
  <2>4. \A j \in 1..k : b[j] \in Int
    BY <2>2
  <2>5. \A j \in 1..k : Side(n) * b[j] \in Int
    BY <2>2, <2>4
  <2>6. book = [j \in 1..k |-> Side(n) * b[j]]
    BY <2>1
  <2>7. book \in [1..k -> Int]
    BY <2>5, <2>6
  <2>. QED
    BY <2>3, <2>7, IsASeq
<1>. QED
  BY <1>1, <1>2

(***************************************************************************)
(* The next index of an exit pass is the highest one left.                 *)
(***************************************************************************)
LEMMA NextExitIsHighest ==
  ASSUME NEW n \in Nat, NEW work, work \subseteq 1..n, work # {}
  PROVE  NextExit(work) \in work /\ \A k \in work : k <= NextExit(work)
<1>. DEFINE T == {m \in 0..n : n - m \in work}
<1>1. T \subseteq Nat
  OBVIOUS
<1>2. T # {}
  <2>1. PICK k \in work : TRUE
    OBVIOUS
  <2>2. k \in 1..n /\ n - k \in 0..n /\ n - (n - k) = k
    BY <2>1
  <2>3. n - k \in T
    BY <2>1, <2>2
  <2>. QED
    BY <2>3
<1>3. PICK m \in T : \A j \in T : m <= j
  BY <1>1, <1>2, LeastNatural, Zenon
<1>4. n - m \in work
  BY <1>3
<1>5. ASSUME NEW k \in work PROVE n - m >= k
  <2>1. k \in 1..n /\ n - k \in 0..n /\ n - (n - k) = k
    BY <1>5
  <2>2. n - k \in T
    BY <1>5, <2>1
  <2>3. m <= n - k
    BY <1>3, <2>2
  <2>4. m \in 0..n
    BY <1>3
  <2>. QED
    BY <2>1, <2>3, <2>4
<1>6. \E x \in work : \A y \in work : x >= y
  BY <1>4, <1>5
<1>7. NextExit(work) \in work /\ \A y \in work : NextExit(work) >= y
  BY <1>6, Zenon DEF NextExit, Max
<1>8. \A y \in work : y \in Int
  OBVIOUS
<1>. QED
  BY <1>7, <1>8

------------------------------------------------------------------------------
(* The inductive invariant *)

(***************************************************************************)
(* The state the books are in, and the state of the loop around them.      *)
(***************************************************************************)
BooksOK ==
  /\ store \in [Instruments -> Snapshot]
  /\ tickets \in [Instruments -> Seq(Int)]
  /\ inventory \in [Instruments -> Int]
  /\ RiskMatchesTickets

LoopOK ==
  /\ stage \in Stages
  /\ cur \in Instruments
  /\ gate \in [Instruments -> Gate]
  /\ exits \in [work : SUBSET (Nat \ {0}), trades : Seq(Trade), closed : BOOLEAN]
  /\ entry \in [prior : Nat, tradable : BOOLEAN, ready : BOOLEAN, open : BOOLEAN]
  /\ ExitsInRange

FlagsOK ==
  /\ published \in [Instruments -> Gate]
  /\ cooldown \in [Instruments -> BOOLEAN]
  /\ kill \in BOOLEAN
  /\ intact \in [Instruments -> BOOLEAN]

BrokerOK == broker \in [Instruments -> Int]

IInv == BooksOK /\ LoopOK /\ FlagsOK /\ BrokerOK

(***************************************************************************)
(* The inductive invariant is the conjunction of the three that the runs   *)
(* check.                                                                  *)
(***************************************************************************)
LEMMA IInvIsTypeAndRisk == IInv <=> TypeOK /\ RiskMatchesTickets /\ ExitsInRange
  BY DEF IInv, BooksOK, LoopOK, FlagsOK, BrokerOK, TypeOK

(***************************************************************************)
(* The walk over the instruments starts at one and stays among them.       *)
(***************************************************************************)
LEMMA InstrumentsAreNatural ==
  /\ Instruments \subseteq Nat
  /\ 1 \in Instruments
  /\ \A i \in Instruments : i < NumInstruments => i + 1 \in Instruments
  BY LoopAssumption DEF Instruments

(***************************************************************************)
(* The memory of a process that has just started is in order.              *)
(***************************************************************************)
LEMMA EmptyBooks ==
  /\ Everywhere(NoTrades) \in [Instruments -> Snapshot]
  /\ Everywhere(<<>>) \in [Instruments -> Seq(Int)]
  /\ Everywhere(0) \in [Instruments -> Int]
  /\ Everywhere(FALSE) \in [Instruments -> BOOLEAN]
  /\ Everywhere(TRUE) \in [Instruments -> BOOLEAN]
  /\ Everywhere(NoGate) \in [Instruments -> Gate]
  /\ \A i \in Instruments : Everywhere(0)[i] = NetUnits(Everywhere(<<>>)[i])
  BY NoTradesType, NetUnitsOfNothing, LoopAssumption
     DEF Everywhere, NoGate, Gate

(***************************************************************************)
(* The local variables of the loop start well formed.                      *)
(***************************************************************************)
LEMMA LocalsType ==
  /\ NoExits \in [work : SUBSET (Nat \ {0}), trades : Seq(Trade), closed : BOOLEAN]
  /\ NoEntry \in [prior : Nat, tradable : BOOLEAN, ready : BOOLEAN, open : BOOLEAN]
  BY EmptySeq DEF NoExits, NoEntry

(***************************************************************************)
(* The invariant holds before the first reconcile.                         *)
(***************************************************************************)
LEMMA InitIInv == Init => IInv
<1>. SUFFICES ASSUME Init PROVE IInv
  OBVIOUS
<1>1. BooksOK
  BY EmptyBooks DEF Init, BooksOK, RiskMatchesTickets
<1>2. LoopOK
  BY EmptyBooks, LocalsType, InstrumentsAreNatural DEF Init, LoopOK, ExitsInRange, Stages
<1>3. FlagsOK /\ BrokerOK
  BY EmptyBooks DEF Init, FlagsOK, BrokerOK
<1>. QED
  BY <1>1, <1>2, <1>3 DEF IInv

------------------------------------------------------------------------------
(* Reconciliation *)

(***************************************************************************)
(* A reconcile rebuilds the books from the broker in order, however it     *)
(* splits its positions.                                                   *)
(***************************************************************************)
LEMMA ReconcileSucceedsKeeps ==
  ASSUME IInv, ReconcileSucceeds
  PROVE  /\ BooksOK'
         /\ cooldown' \in [Instruments -> BOOLEAN]
         /\ intact' \in [Instruments -> BOOLEAN]
<1>1. PICK missing \in SUBSET Instruments, hot \in SUBSET Instruments,
           book \in [Instruments -> UNION {Books(broker[i]) : i \in Instruments}] :
        /\ \A i \in Instruments : book[i] \in Books(broker[i])
        /\ tickets' = book
        /\ inventory' = [i \in Instruments |-> NetUnits(book[i])]
        /\ store' = [i \in Instruments |->
             IF book[i] = <<>> THEN NoTrades
             ELSE [trades  |-> [k \in DOMAIN book[i] |->
                                  [units |-> book[i][k], signal |-> 0]],
                   pending |-> FALSE,
                   last    |-> IF i \in missing THEN 0 ELSE published[i].ts]]
        /\ cooldown' = [i \in Instruments |-> book[i] # <<>> /\ i \in hot]
        /\ intact' = [i \in Instruments |-> TRUE]
  BY Zenon DEF ReconcileSucceeds
<1>2. \A i \in Instruments : book[i] \in Seq(Int)
  BY <1>1, BooksType DEF IInv, BrokerOK
<1>3. tickets' \in [Instruments -> Seq(Int)]
  BY <1>1, <1>2
<1>4. inventory' \in [Instruments -> Int]
  BY <1>1, <1>2, NetUnitsType
<1>5. RiskMatchesTickets'
  BY <1>1 DEF RiskMatchesTickets
<1>6. ASSUME NEW i \in Instruments PROVE store'[i] \in Snapshot
  <2>. DEFINE rebuilt == [k \in DOMAIN book[i] |-> [units |-> book[i][k], signal |-> 0]]
              last == IF i \in missing THEN 0 ELSE published[i].ts
  <2>1. rebuilt \in Seq(Trade)
    <3>1. Len(book[i]) \in Nat /\ DOMAIN book[i] = 1..Len(book[i])
      BY <1>2, LenProperties
    <3>2. \A k \in 1..Len(book[i]) : book[i][k] \in Int
      BY <1>2, ElementOfSeq
    <3>3. \A k \in 1..Len(book[i]) : [units |-> book[i][k], signal |-> 0] \in Trade
      BY <3>2, LoopAssumption DEF Trade
    <3>. QED
      BY <3>1, <3>3, IsASeq
  <2>2. last \in 0..MaxGate
    BY LoopAssumption DEF IInv, FlagsOK, Gate
  <2>3. store'[i] = IF book[i] = <<>> THEN NoTrades
                    ELSE [trades |-> rebuilt, pending |-> FALSE, last |-> last]
    BY <1>1
  <2>. HIDE DEF rebuilt, last
  <2>. QED
    BY <2>1, <2>2, <2>3, NoTradesType DEF Snapshot
<1>7. store' \in [Instruments -> Snapshot]
  BY <1>1, <1>6
<1>8. cooldown' \in [Instruments -> BOOLEAN] /\ intact' \in [Instruments -> BOOLEAN]
  BY <1>1
<1>. QED
  BY <1>3, <1>4, <1>5, <1>7, <1>8 DEF BooksOK

(***************************************************************************)
(* So does every outcome of a reconcile, the skipped and the failed one    *)
(* included.                                                               *)
(***************************************************************************)
LEMMA ReconcileKeeps ==
  ASSUME IInv, ReconcilePortfolio \/ ReconcileFailed
  PROVE  /\ BooksOK'
         /\ cooldown' \in [Instruments -> BOOLEAN]
         /\ intact' \in [Instruments -> BOOLEAN]
<1>1. CASE ReconcileSucceeds
  BY <1>1, ReconcileSucceedsKeeps
<1>2. CASE ReconcileSkipped
  BY <1>2, EmptyBooks
     DEF ReconcileSkipped, IInv, BooksOK, FlagsOK, RiskMatchesTickets
<1>3. CASE ReconcileFailed
  BY <1>3 DEF ReconcileFailed, ledger, IInv, BooksOK, FlagsOK, RiskMatchesTickets
<1>. QED
  BY <1>1, <1>2, <1>3 DEF ReconcilePortfolio

------------------------------------------------------------------------------
(* The steps of the cycle that leave the books alone *)

(***************************************************************************)
(* Starting the loop.                                                      *)
(***************************************************************************)
LEMMA BootKeeps ==
  ASSUME IInv, Boot
  PROVE  IInv'
<1>1. BooksOK' /\ cooldown' \in [Instruments -> BOOLEAN] /\ intact' \in [Instruments -> BOOLEAN]
  BY ReconcileKeeps DEF Boot
<1>2. LoopOK'
  BY DEF Boot, IInv, LoopOK, ExitsInRange, Stages, locals
<1>3. FlagsOK' /\ BrokerOK'
  BY <1>1 DEF Boot, IInv, FlagsOK, BrokerOK, world
<1>. QED
  BY <1>1, <1>2, <1>3 DEF IInv

(***************************************************************************)
(* The start of a cycle.                                                   *)
(***************************************************************************)
LEMMA BeginCycleKeeps ==
  ASSUME IInv, BeginCycle
  PROVE  IInv'
<1>1. BooksOK' /\ cooldown' \in [Instruments -> BOOLEAN] /\ intact' \in [Instruments -> BOOLEAN]
  BY ReconcileKeeps DEF BeginCycle
<1>2. LoopOK'
  BY DEF BeginCycle, IInv, LoopOK, ExitsInRange, Stages, locals
<1>3. FlagsOK' /\ BrokerOK'
  BY <1>1 DEF BeginCycle, IInv, FlagsOK, BrokerOK, world
<1>. QED
  BY <1>1, <1>2, <1>3 DEF IInv

(***************************************************************************)
(* A step that leaves the books alone leaves them in order.                *)
(***************************************************************************)
LEMMA BooksUnchanged ==
  ASSUME BooksOK, UNCHANGED ledger
  PROVE  BooksOK'
  BY DEF BooksOK, RiskMatchesTickets, ledger

(***************************************************************************)
(* Loading the gates and looking at the kill switch.                       *)
(***************************************************************************)
LEMMA LoadGatesKeeps ==
  ASSUME IInv, LoadGates
  PROVE  IInv'
<1>1. BooksOK'
  BY BooksUnchanged DEF LoadGates, IInv
<1>2. FlagsOK' /\ BrokerOK'
  BY DEF LoadGates, IInv, FlagsOK, BrokerOK, world
<1>3. gate' \in [Instruments -> Gate]
  <2>1. CASE kill
    BY <2>1 DEF LoadGates, IInv, LoopOK
  <2>2. CASE ~kill
    <3>1. PICK missing \in SUBSET Instruments :
            gate' = [i \in Instruments |-> IF i \in missing THEN NoGate ELSE published[i]]
      BY <2>2 DEF LoadGates
    <3>2. NoGate \in Gate
      BY LoopAssumption DEF NoGate, Gate
    <3>. QED
      BY <3>1, <3>2 DEF IInv, FlagsOK
  <2>. QED
    BY <2>1, <2>2
<1>4. stage' \in {"idle", "tpsl"} /\ cur' = 1 /\ UNCHANGED <<exits, entry>>
  BY DEF LoadGates, locals
<1>5. LoopOK'
  BY <1>3, <1>4, InstrumentsAreNatural DEF IInv, LoopOK, ExitsInRange, Stages
<1>. QED
  BY <1>1, <1>2, <1>5 DEF IInv

(***************************************************************************)
(* A cycle that fails before its passes.                                   *)
(***************************************************************************)
LEMMA CycleFailsKeeps ==
  ASSUME IInv, CycleFails
  PROVE  IInv'
<1>1. BooksOK'
  BY BooksUnchanged DEF CycleFails, IInv, memory
<1>2. FlagsOK' /\ BrokerOK'
  BY DEF CycleFails, IInv, FlagsOK, BrokerOK, world, memory
<1>3. LoopOK'
  BY DEF CycleFails, IInv, LoopOK, ExitsInRange, Stages, memory, locals
<1>. QED
  BY <1>1, <1>2, <1>3 DEF IInv

(***************************************************************************)
(* Moving on stays among the instruments.                                  *)
(***************************************************************************)
LEMMA AdvanceType ==
  ASSUME LoopOK, NEW pass, NEW after, Advance(pass, after)
  PROVE  stage' \in {pass, after} /\ cur' \in Instruments
  BY InstrumentsAreNatural DEF LoopOK, Advance

(***************************************************************************)
(* A pass over some of the trades starts in range.                         *)
(***************************************************************************)
LEMMA StartExitsType ==
  ASSUME IInv, NEW work, work \subseteq DOMAIN store[cur].trades, StartExits(work)
  PROVE  /\ exits' \in [work : SUBSET (Nat \ {0}), trades : Seq(Trade), closed : BOOLEAN]
         /\ exits'.work = work
         /\ exits'.work \subseteq DOMAIN exits'.trades
<1>1. store[cur].trades \in Seq(Trade)
  BY DEF IInv, BooksOK, LoopOK, Snapshot
<1>2. DOMAIN store[cur].trades \subseteq Nat \ {0}
  BY <1>1, LenProperties
<1>. QED
  BY <1>1, <1>2 DEF StartExits

(***************************************************************************)
(* Starting the TP/SL pass.                                                *)
(***************************************************************************)
LEMMA TpslExitKeeps ==
  ASSUME IInv, TpslExit
  PROVE  IInv'
<1>1. BooksOK'
  BY BooksUnchanged DEF TpslExit, IInv
<1>2. FlagsOK' /\ BrokerOK'
  BY DEF TpslExit, IInv, FlagsOK, BrokerOK, world
<1>3. PICK work : /\ work \subseteq DOMAIN store[cur].trades
                  /\ IF work = {}
                     THEN stage' = "expiry" /\ UNCHANGED exits
                     ELSE stage' = "tpsl_close" /\ StartExits(work)
  BY DEF TpslExit
<1>4. UNCHANGED <<cur, gate, entry>>
  BY DEF TpslExit
<1>5. ASSUME work = {} PROVE LoopOK'
  BY <1>3, <1>4, <1>5 DEF IInv, LoopOK, ExitsInRange, Stages
<1>6. ASSUME work # {} PROVE LoopOK'
  BY <1>3, <1>4, <1>6, StartExitsType DEF IInv, LoopOK, ExitsInRange, Stages
<1>. QED
  BY <1>1, <1>2, <1>5, <1>6 DEF IInv

(***************************************************************************)
(* Starting the expiry pass of the enforcement pass.                       *)
(***************************************************************************)
LEMMA ExpiryExitKeeps ==
  ASSUME IInv, ExpiryExit
  PROVE  IInv'
<1>1. BooksOK'
  BY BooksUnchanged DEF ExpiryExit, IInv
<1>2. FlagsOK' /\ BrokerOK'
  BY DEF ExpiryExit, IInv, FlagsOK, BrokerOK, world
<1>3. PICK work : /\ work \subseteq DOMAIN store[cur].trades
                  /\ IF work = {}
                     THEN AfterExits /\ UNCHANGED exits
                     ELSE stage' = "expiry_close" /\ cur' = cur /\ StartExits(work)
  BY DEF ExpiryExit
<1>4. UNCHANGED <<gate, entry>>
  BY DEF ExpiryExit
<1>5. ASSUME work = {} PROVE LoopOK'
  <2>1. stage' \in {"tpsl", "stack"} /\ cur' \in Instruments /\ UNCHANGED exits
    BY <1>3, <1>5, AdvanceType DEF AfterExits, IInv
  <2>. QED
    BY <1>4, <2>1 DEF IInv, LoopOK, ExitsInRange, Stages
<1>6. ASSUME work # {} PROVE LoopOK'
  BY <1>3, <1>4, <1>6, StartExitsType DEF IInv, LoopOK, ExitsInRange, Stages
<1>. QED
  BY <1>1, <1>2, <1>5, <1>6 DEF IInv

(***************************************************************************)
(* Leaving an instrument of the allocation pass.                           *)
(***************************************************************************)
LEMMA AfterStackType ==
  ASSUME LoopOK, AfterStack
  PROVE  /\ stage' \in {"stack", "idle"}
         /\ cur' \in Instruments
         /\ gate' \in [Instruments -> Gate]
         /\ entry' \in [prior : Nat, tradable : BOOLEAN, ready : BOOLEAN, open : BOOLEAN]
<1>1. NoGate \in Gate
  BY LoopAssumption DEF NoGate, Gate
<1>2. gate' = [gate EXCEPT ![cur] = NoGate] /\ entry' = NoEntry
  BY DEF AfterStack
<1>. QED
  BY <1>1, <1>2, AdvanceType, LocalsType DEF AfterStack, LoopOK

(***************************************************************************)
(* Evaluating an entry, and starting the expiry pass that precedes it.     *)
(***************************************************************************)
LEMMA ProcessInstrumentKeeps ==
  ASSUME IInv, ProcessInstrument
  PROVE  IInv'
<1>1. BooksOK'
  BY BooksUnchanged DEF ProcessInstrument, IInv
<1>2. FlagsOK' /\ BrokerOK'
  BY DEF ProcessInstrument, IInv, FlagsOK, BrokerOK, world
<1>3. CASE gate[cur].side = 0
  <2>1. AfterStack /\ UNCHANGED exits
    BY <1>3 DEF ProcessInstrument
  <2>. QED
    BY <1>1, <1>2, <2>1, AfterStackType DEF IInv, LoopOK, ExitsInRange, Stages
<1>4. CASE gate[cur].side # 0
  <2>1. PICK open \in BOOLEAN, admitted \in BOOLEAN,
             work \in SUBSET DOMAIN store[cur].trades,
             tradable \in BOOLEAN, ready \in BOOLEAN :
          /\ entry' = [prior |-> Len(store[cur].trades), tradable |-> tradable,
                       ready |-> ready, open |-> open]
          /\ IF work = {}
             THEN stage' = "allocate" /\ UNCHANGED exits
             ELSE stage' = "stack_close" /\ StartExits(work)
          /\ UNCHANGED <<cur, gate>>
    BY <1>4 DEF ProcessInstrument
  <2>2. Len(store[cur].trades) \in Nat
    BY LenProperties DEF IInv, BooksOK, LoopOK, Snapshot
  <2>3. entry' \in [prior : Nat, tradable : BOOLEAN, ready : BOOLEAN, open : BOOLEAN]
    BY <2>1, <2>2
  <2>4. ASSUME work = {} PROVE LoopOK'
    BY <2>1, <2>3, <2>4 DEF IInv, LoopOK, ExitsInRange, Stages
  <2>5. ASSUME work # {} PROVE LoopOK'
    BY <2>1, <2>3, <2>5, StartExitsType DEF IInv, LoopOK, ExitsInRange, Stages
  <2>. QED
    BY <1>1, <1>2, <2>4, <2>5 DEF IInv
<1>. QED
  BY <1>3, <1>4

------------------------------------------------------------------------------
(* Closing tickets *)

(***************************************************************************)
(* What is left of an exit pass after a ticket still names trades of its   *)
(* copy, and a finished pass saves a well-formed snapshot.                 *)
(***************************************************************************)
LEMMA FinishExitsKeeps ==
  ASSUME IInv, stage \in {"tpsl_close", "expiry_close", "stack_close"},
         NEW trades \in Seq(Trade), NEW left \in SUBSET DOMAIN trades,
         NEW closed \in BOOLEAN, NEW held,
         FinishExits(cur, left, trades, closed, held), UNCHANGED <<gate, entry>>
  PROVE  LoopOK' /\ store' \in [Instruments -> Snapshot]
<1>1. left \in SUBSET (Nat \ {0})
  BY LenProperties
<1>2. cur \in Instruments /\ store[cur] \in Snapshot
  BY DEF IInv, BooksOK, LoopOK
<1>3. store' \in [Instruments -> Snapshot]
  BY <1>2, SaveTradesType DEF FinishExits, IInv, BooksOK
<1>4. ASSUME left # {} PROVE LoopOK'
  <2>1. exits' = [work |-> left, trades |-> trades, closed |-> closed]
        /\ UNCHANGED <<stage, cur>>
    BY <1>4 DEF FinishExits
  <2>. QED
    BY <1>1, <1>4, <2>1 DEF IInv, LoopOK, ExitsInRange
<1>5. ASSUME left = {} PROVE LoopOK'
  <2>1. exits' = NoExits
    BY <1>5 DEF FinishExits
  <2>2. stage' \in {"expiry", "allocate", "tpsl", "stack"} /\ cur' \in Instruments
    <3>1. CASE stage = "tpsl_close"
      BY <1>2, <1>5, <3>1 DEF FinishExits
    <3>2. CASE stage = "expiry_close"
      <4>1. AfterExits
        BY <1>5, <3>2 DEF FinishExits
      <4>. QED
        BY <4>1, AdvanceType DEF AfterExits, IInv
    <3>3. CASE stage = "stack_close"
      BY <1>2, <1>5, <3>3 DEF FinishExits
    <3>. QED
      BY <3>1, <3>2, <3>3
  <2>. QED
    BY <2>1, <2>2, LocalsType DEF IInv, LoopOK, ExitsInRange, Stages
<1>. QED
  BY <1>3, <1>4, <1>5

(***************************************************************************)
(* The indices below a removed one stay those of the trades they named.    *)
(***************************************************************************)
LEMMA LeftInRange ==
  ASSUME NEW S, NEW s \in Seq(S), NEW work, work \subseteq DOMAIN s, work # {}
  PROVE  /\ NextExit(work) \in 1..Len(s)
         /\ work \ {NextExit(work)} \in SUBSET DOMAIN s
         /\ RemoveAt(s, NextExit(work)) \in Seq(S)
         /\ work \ {NextExit(work)} \in SUBSET DOMAIN RemoveAt(s, NextExit(work))
<1>. DEFINE k == NextExit(work)
<1>1. Len(s) \in Nat /\ DOMAIN s = 1..Len(s)
  BY LenProperties
<1>2. k \in work /\ \A j \in work : j <= k
  BY <1>1, NextExitIsHighest
<1>. HIDE DEF k
<1>3. k \in 1..Len(s)
  BY <1>1, <1>2
<1>4. RemoveAt(s, k) \in Seq(S) /\ Len(RemoveAt(s, k)) = Len(s) - 1
  BY <1>3, RemoveAtElements
<1>5. DOMAIN RemoveAt(s, k) = 1..(Len(s) - 1)
  BY <1>4, LenProperties
<1>6. ASSUME NEW j \in work \ {k} PROVE j \in 1..(Len(s) - 1)
  BY <1>1, <1>2, <1>3, <1>6
<1>7. work \ {k} \in SUBSET DOMAIN RemoveAt(s, k)
  BY <1>5, <1>6
<1>. QED
  BY <1>1, <1>3, <1>4, <1>7 DEF k

(***************************************************************************)
(* A close, whatever the broker answers: the inventory follows the         *)
(* tickets.                                                                *)
(***************************************************************************)
LEMMA CloseTicketKeeps ==
  ASSUME IInv, CloseTicket
  PROVE  IInv'
<1>. DEFINE k == NextExit(exits.work)
            left == exits.work \ {k}
<1>1. /\ stage \in {"tpsl_close", "expiry_close", "stack_close"}
      /\ UNCHANGED <<published, cooldown, gate, kill, entry>>
  BY DEF CloseTicket
<1>2. /\ exits.trades \in Seq(Trade)
      /\ exits.closed \in BOOLEAN
      /\ exits.work # {}
      /\ exits.work \subseteq DOMAIN exits.trades
  BY <1>1 DEF IInv, LoopOK, ExitsInRange
<1>3. /\ left \in SUBSET DOMAIN exits.trades
      /\ RemoveAt(exits.trades, k) \in Seq(Trade)
      /\ left \in SUBSET DOMAIN RemoveAt(exits.trades, k)
  BY <1>2, LeftInRange
<1>4. /\ cur \in Instruments
      /\ tickets \in [Instruments -> Seq(Int)]
      /\ inventory \in [Instruments -> Int]
      /\ tickets[cur] \in Seq(Int)
      /\ inventory[cur] = NetUnits(tickets[cur])
      /\ inventory[cur] \in Int
      /\ \A i \in Instruments : inventory[i] = NetUnits(tickets[i])
      /\ broker \in [Instruments -> Int]
      /\ intact \in [Instruments -> BOOLEAN]
  BY DEF IInv, BooksOK, LoopOK, FlagsOK, BrokerOK, RiskMatchesTickets
<1>. HIDE DEF k, left
<1>5. CASE k \notin DOMAIN tickets[cur]
  <2>1. /\ FinishExits(cur, left, exits.trades, exits.closed,
             IF left = {} /\ exits.closed THEN NetUnits(tickets[cur]) ELSE inventory[cur])
        /\ UNCHANGED <<broker, tickets, intact>>
    BY <1>5 DEF CloseTicket, k, left
  <2>2. LoopOK' /\ store' \in [Instruments -> Snapshot]
    BY <1>1, <1>2, <1>3, <2>1, FinishExitsKeeps
  <2>3. inventory' = [inventory EXCEPT ![cur] = inventory[cur]]
    BY <1>4, <2>1 DEF FinishExits
  <2>4. inventory' = inventory
    BY <1>4, <2>3
  <2>. QED
    BY <1>1, <1>4, <2>1, <2>2, <2>4
       DEF IInv, BooksOK, FlagsOK, BrokerOK, RiskMatchesTickets
<1>6. CASE k \in DOMAIN tickets[cur]
  <2>1. PICK reply \in Replies :
          LET done   == Confirmed(reply)
              kept   == IF done THEN RemoveAt(tickets[cur], k) ELSE tickets[cur]
              trades == IF done THEN RemoveAt(exits.trades, k) ELSE exits.trades
              closed == exits.closed \/ done
              booked == IF done THEN inventory[cur] - tickets[cur][k] ELSE inventory[cur]
          IN  /\ BrokerCloses(cur, tickets[cur][k], reply.fills)
              /\ tickets' = [tickets EXCEPT ![cur] = kept]
              /\ FinishExits(cur, left, trades, closed,
                   IF left = {} /\ closed THEN NetUnits(kept) ELSE booked)
              /\ intact' = [intact EXCEPT
                   ![cur] = @ /\ reply \in {Filled, Rejected, Refused}]
    BY <1>6, Zenon DEF CloseTicket, k, left
  <2>. DEFINE done   == Confirmed(reply)
              kept   == IF done THEN RemoveAt(tickets[cur], k) ELSE tickets[cur]
              trades == IF done THEN RemoveAt(exits.trades, k) ELSE exits.trades
              closed == exits.closed \/ done
              booked == IF done THEN inventory[cur] - tickets[cur][k] ELSE inventory[cur]
              held   == IF left = {} /\ closed THEN NetUnits(kept) ELSE booked
  <2>2. /\ BrokerCloses(cur, tickets[cur][k], reply.fills)
        /\ tickets' = [tickets EXCEPT ![cur] = kept]
        /\ FinishExits(cur, left, trades, closed, held)
        /\ intact' = [intact EXCEPT ![cur] = @ /\ reply \in {Filled, Rejected, Refused}]
    BY <2>1, Zenon
  <2>3. k \in 1..Len(tickets[cur])
    BY <1>4, <1>6, LenProperties
  <2>4. /\ RemoveAt(tickets[cur], k) \in Seq(Int)
        /\ NetUnits(RemoveAt(tickets[cur], k)) = NetUnits(tickets[cur]) - tickets[cur][k]
    BY <1>4, <2>3, RemoveAtElements, NetUnitsOfRemoveAt
  <2>5. kept \in Seq(Int) /\ NetUnits(kept) = booked /\ NetUnits(kept) \in Int
    BY <1>4, <2>4, NetUnitsType
  <2>6. held = NetUnits(kept) /\ held \in Int
    BY <2>5
  <2>7. trades \in Seq(Trade) /\ left \in SUBSET DOMAIN trades
    BY <1>2, <1>3
  <2>8. closed \in BOOLEAN
    BY <1>2 DEF Confirmed
  <2>. HIDE DEF done, kept, trades, closed, booked, held
  <2>9. LoopOK' /\ store' \in [Instruments -> Snapshot]
    BY <1>1, <2>2, <2>7, <2>8, FinishExitsKeeps
  <2>10. inventory' = [inventory EXCEPT ![cur] = held]
    BY <2>2 DEF FinishExits
  <2>11. BooksOK'
    BY <1>4, <2>2, <2>5, <2>6, <2>9, <2>10 DEF BooksOK, RiskMatchesTickets
  <2>12. FlagsOK'
    BY <1>1, <1>4, <2>2 DEF IInv, FlagsOK
  <2>13. BrokerOK'
    <3>1. reply.fills \in Int
      BY LoopAssumption DEF Reply
    <3>2. tickets[cur][k] \in Int /\ broker[cur] \in Int
      BY <1>4, <2>3, ElementOfSeq
    <3>3. broker[cur] - reply.fills * tickets[cur][k] \in Int
      BY <3>1, <3>2
    <3>4. broker' = [broker EXCEPT ![cur] = broker[cur] - reply.fills * tickets[cur][k]]
      BY <1>4, <2>2 DEF BrokerCloses
    <3>. QED
      BY <1>4, <3>3, <3>4 DEF BrokerOK
  <2>. QED
    BY <2>9, <2>11, <2>12, <2>13 DEF IInv
<1>. QED
  BY <1>5, <1>6

------------------------------------------------------------------------------
(* Allocations *)

(***************************************************************************)
(* The planner is asked well-formed requests.                              *)
(***************************************************************************)
LEMMA RequestType ==
  ASSUME IInv, NEW size \in Sizes \cup {0}
  PROVE  Request(size) \in Requests
<1>1. gate[cur] \in Gate /\ entry.tradable \in BOOLEAN /\ entry.ready \in BOOLEAN
  BY DEF IInv, LoopOK
<1>2. size \in Nat
  BY LoopAssumption
<1>. QED
  BY <1>1, <1>2 DEF Request, Requests, Gate

(***************************************************************************)
(* What a snapshot put into the store and a flag leave in order.           *)
(***************************************************************************)
LEMMA CommitKeeps ==
  ASSUME IInv, NEW planned \in Snapshot, Commit(cur, planned)
  PROVE  /\ store' \in [Instruments -> Snapshot]
         /\ cooldown' \in [Instruments -> BOOLEAN]
<1>1. entry.prior \in Nat /\ Len(planned.trades) \in Nat
  BY LenProperties DEF IInv, LoopOK, Snapshot
<1>2. (Len(planned.trades) > entry.prior) \in BOOLEAN
  BY <1>1
<1>. QED
  BY <1>2 DEF Commit, IInv, BooksOK, LoopOK, FlagsOK

(***************************************************************************)
(* An order, whatever the broker answers: the tickets follow the           *)
(* inventory.                                                              *)
(***************************************************************************)
LEMMA AllocateOrderKeeps ==
  ASSUME IInv, NEW planned \in Snapshot, NEW delta \in Int,
         AllocateOrder(cur, planned, delta),
         UNCHANGED <<published, kill, exits>>
  PROVE  IInv'
<1>1. /\ cur \in Instruments
      /\ tickets \in [Instruments -> Seq(Int)]
      /\ inventory \in [Instruments -> Int]
      /\ store \in [Instruments -> Snapshot]
      /\ \A i \in Instruments : inventory[i] = NetUnits(tickets[i])
      /\ broker \in [Instruments -> Int]
      /\ intact \in [Instruments -> BOOLEAN]
      /\ cooldown \in [Instruments -> BOOLEAN]
      /\ exits \in [work : SUBSET (Nat \ {0}), trades : Seq(Trade), closed : BOOLEAN]
  BY DEF IInv, BooksOK, LoopOK, FlagsOK, BrokerOK, RiskMatchesTickets
<1>2. PICK reply \in Replies :
        /\ broker' = [broker EXCEPT ![cur] = @ + reply.fills * delta]
        /\ intact' = [intact EXCEPT ![cur] = @ /\ reply \in {Filled, Rejected}]
        /\ CASE Confirmed(reply) ->
                  /\ Commit(cur, planned)
                  /\ inventory' = [inventory EXCEPT ![cur] = @ + delta]
                  /\ tickets' = [tickets EXCEPT
                       ![cur] = SyncToNetPosition(@, inventory[cur] + delta)]
                  /\ AfterStack
             [] reply.kind = "none" ->
                  /\ Restore(cur, planned)
                  /\ AfterStack
                  /\ UNCHANGED <<tickets, inventory, cooldown>>
             [] reply.kind = "error" ->
                  /\ store' = [store EXCEPT ![cur] = planned]
                  /\ stage' = "idle"
                  /\ cur' = 1
                  /\ gate' = Everywhere(NoGate)
                  /\ entry' = NoEntry
                  /\ UNCHANGED <<tickets, inventory, cooldown>>
  BY DEF AllocateOrder
<1>3. reply.kind \in {"fill", "empty", "none", "error"} /\ reply.fills \in Int
  BY LoopAssumption DEF Reply
<1>4. BrokerOK'
  <2>1. broker[cur] \in Int
    BY <1>1
  <2>2. broker[cur] + reply.fills * delta \in Int
    BY <1>3, <2>1
  <2>. QED
    BY <1>1, <1>2, <2>2 DEF BrokerOK
<1>5. intact' \in [Instruments -> BOOLEAN]
  BY <1>1, <1>2
<1>6. ASSUME AfterStack PROVE LoopOK'
  BY <1>6, AfterStackType DEF IInv, LoopOK, ExitsInRange, Stages
<1>7. CASE Confirmed(reply)
  <2>1. /\ Commit(cur, planned)
        /\ inventory' = [inventory EXCEPT ![cur] = @ + delta]
        /\ tickets' = [tickets EXCEPT ![cur] = SyncToNetPosition(@, inventory[cur] + delta)]
        /\ AfterStack
    BY <1>2, <1>3, <1>7 DEF Confirmed
  <2>. DEFINE target == inventory[cur] + delta
              synced == SyncToNetPosition(tickets[cur], target)
  <2>2. target \in Int
    BY <1>1
  <2>3. synced \in Seq(Int) /\ NetUnits(synced) = target
    BY <1>1, <2>2, SyncReachesTarget
  <2>4. inventory' = [inventory EXCEPT ![cur] = target]
        /\ tickets' = [tickets EXCEPT ![cur] = synced]
    BY <1>1, <2>1
  <2>. HIDE DEF target, synced
  <2>5. BooksOK'
    BY <1>1, <2>1, <2>2, <2>3, <2>4, CommitKeeps DEF BooksOK, RiskMatchesTickets
  <2>6. FlagsOK'
    BY <1>5, <2>1, CommitKeeps DEF IInv, FlagsOK
  <2>. QED
    BY <1>4, <1>6, <2>1, <2>5, <2>6 DEF IInv
<1>8. CASE reply.kind = "none"
  <2>1. Restore(cur, planned) /\ AfterStack /\ UNCHANGED <<tickets, inventory, cooldown>>
    BY <1>2, <1>8 DEF Confirmed
  <2>2. store' = [store EXCEPT ![cur] = store[cur]]
    BY <1>1, <2>1, RestoredIsPrior DEF Restore
  <2>3. BooksOK'
    BY <1>1, <2>1, <2>2 DEF BooksOK, RiskMatchesTickets
  <2>4. FlagsOK'
    BY <1>5, <2>1 DEF IInv, FlagsOK
  <2>. QED
    BY <1>4, <1>6, <2>1, <2>3, <2>4 DEF IInv
<1>9. CASE reply.kind = "error"
  <2>1. /\ store' = [store EXCEPT ![cur] = planned]
        /\ stage' = "idle" /\ cur' = 1
        /\ gate' = Everywhere(NoGate) /\ entry' = NoEntry
        /\ UNCHANGED <<tickets, inventory, cooldown>>
    BY <1>2, <1>9 DEF Confirmed
  <2>2. BooksOK'
    BY <1>1, <2>1 DEF BooksOK, RiskMatchesTickets
  <2>3. FlagsOK'
    BY <1>5, <2>1 DEF IInv, FlagsOK
  <2>4. LoopOK'
    BY <1>1, <2>1, EmptyBooks, LocalsType, InstrumentsAreNatural
       DEF LoopOK, ExitsInRange, Stages
  <2>. QED
    BY <1>4, <2>2, <2>3, <2>4 DEF IInv
<1>. QED
  BY <1>3, <1>7, <1>8, <1>9 DEF Confirmed

(***************************************************************************)
(* The whole allocation, with and without an order.                        *)
(***************************************************************************)
LEMMA AllocateKeeps ==
  ASSUME IInv, Allocate
  PROVE  IInv'
<1>1. UNCHANGED <<published, kill, exits>>
  BY DEF Allocate
<1>2. PICK size \in Sizes \cup {0} :
        LET planned == PlanAllocation(store, cur, inventory[cur], Request(size), MaxPositions)
            delta   == NetOfTrades(planned.trades) - inventory[cur]
        IN  \/ AllocateNothing(cur, planned)
            \/ AllocateRejected(cur, planned, delta)
            \/ AllocateOrder(cur, planned, delta)
  BY DEF Allocate
<1>. DEFINE planned == PlanAllocation(store, cur, inventory[cur], Request(size), MaxPositions)
            delta   == NetOfTrades(planned.trades) - inventory[cur]
<1>3. \/ AllocateNothing(cur, planned)
      \/ AllocateRejected(cur, planned, delta)
      \/ AllocateOrder(cur, planned, delta)
  BY <1>2
<1>4. /\ cur \in Instruments
      /\ inventory[cur] \in Int
      /\ store \in [Instruments -> Snapshot]
      /\ MaxPositions \in Nat
  BY LimitsAssumption DEF IInv, BooksOK, LoopOK
<1>5. planned \in Snapshot
  BY <1>4, RequestType, PlanAllocationType
<1>6. delta \in Int
  <2>1. planned.trades \in Seq(Trade)
    BY <1>5 DEF Snapshot
  <2>2. NetOfTrades(planned.trades) \in Int
    BY <2>1, TradeUnitsType
  <2>. QED
    BY <1>4, <2>2
<1>. HIDE DEF planned, delta
<1>7. ASSUME AfterStack PROVE LoopOK'
  BY <1>1, <1>7, AfterStackType DEF IInv, LoopOK, ExitsInRange, Stages
<1>8. CASE AllocateNothing(cur, planned)
  <2>1. Commit(cur, planned) /\ AfterStack /\ UNCHANGED <<broker, tickets, inventory, intact>>
    BY <1>8 DEF AllocateNothing
  <2>. QED
    BY <1>1, <1>5, <1>7, <2>1, CommitKeeps
       DEF IInv, BooksOK, FlagsOK, BrokerOK, RiskMatchesTickets
<1>9. CASE AllocateRejected(cur, planned, delta)
  <2>1. /\ Restore(cur, planned) /\ AfterStack
        /\ UNCHANGED <<broker, tickets, inventory, cooldown, intact>>
    BY <1>9 DEF AllocateRejected
  <2>2. store' = [store EXCEPT ![cur] = store[cur]]
    BY <1>4, <1>5, <2>1, RestoredIsPrior DEF Restore
  <2>3. store' = store
    BY <1>4, <2>2
  <2>. QED
    BY <1>1, <1>7, <2>1, <2>3 DEF IInv, BooksOK, FlagsOK, BrokerOK, RiskMatchesTickets
<1>10. CASE AllocateOrder(cur, planned, delta)
  BY <1>1, <1>5, <1>6, <1>10, AllocateOrderKeeps
<1>. QED
  BY <1>3, <1>8, <1>9, <1>10

------------------------------------------------------------------------------
(* The other actors *)

(***************************************************************************)
(* A step that leaves the loop thread alone leaves it in order.            *)
(***************************************************************************)
LEMMA LocalsUnchanged ==
  ASSUME LoopOK, UNCHANGED <<stage, cur, gate, locals>>
  PROVE  LoopOK'
  BY DEF LoopOK, ExitsInRange, locals

(***************************************************************************)
(* A gate published by the regime service.                                 *)
(***************************************************************************)
LEMMA PublishGateKeeps ==
  ASSUME IInv, NEW i \in Instruments, PublishGate(i)
  PROVE  IInv'
<1>1. PICK side \in {-1, 0, 1} :
        published' = [published EXCEPT ![i] = [ts |-> published[i].ts + 1, side |-> side]]
  BY DEF PublishGate
<1>2. published[i].ts \in 0..MaxGate /\ published[i].ts < MaxGate
  BY DEF PublishGate, IInv, FlagsOK, Gate
<1>3. published[i].ts + 1 \in 0..MaxGate
  BY <1>2, LoopAssumption
<1>4. published' \in [Instruments -> Gate]
  BY <1>1, <1>3 DEF IInv, FlagsOK, Gate
<1>5. UNCHANGED <<broker, memory, kill, stage, cur, intact>>
  BY DEF PublishGate
<1>. QED
  BY <1>4, <1>5, BooksUnchanged, LocalsUnchanged DEF IInv, FlagsOK, BrokerOK, memory

(***************************************************************************)
(* A cooldown that elapses.                                                *)
(***************************************************************************)
LEMMA CooldownLapsesKeeps ==
  ASSUME IInv, NEW i \in Instruments, CooldownLapses(i)
  PROVE  IInv'
  BY BooksUnchanged, LocalsUnchanged DEF CooldownLapses, IInv, FlagsOK, BrokerOK, world

(***************************************************************************)
(* The kill switch set over HTTP.                                          *)
(***************************************************************************)
LEMMA SetKillSwitchKeeps ==
  ASSUME IInv, SetKillSwitch
  PROVE  IInv'
  BY BooksUnchanged, LocalsUnchanged DEF SetKillSwitch, IInv, FlagsOK, BrokerOK, world, memory

(***************************************************************************)
(* Orders over HTTP touch nothing but the broker and the observation.      *)
(***************************************************************************)
LEMMA BrokerMovesKeeps ==
  ASSUME IInv, NEW i \in Instruments, NEW n \in Int,
         broker' = [broker EXCEPT ![i] = n],
         intact' = [intact EXCEPT ![i] = FALSE],
         UNCHANGED <<published, memory, kill, stage, cur>>
  PROVE  IInv'
  BY BooksUnchanged, LocalsUnchanged DEF IInv, FlagsOK, BrokerOK, memory

(***************************************************************************)
(* Every step of the API thread.                                           *)
(***************************************************************************)
LEMMA ApiStepKeeps ==
  ASSUME IInv, ApiStep
  PROVE  IInv'
<1>1. CASE SetKillSwitch
  BY <1>1, SetKillSwitchKeeps
<1>2. ASSUME NEW i \in Instruments, ClosePosition(i) PROVE IInv'
  <2>1. broker[i] \in Int
    BY DEF IInv, BrokerOK
  <2>2. PICK n \in 1..Magnitude(broker[i]) :
          broker' = [broker EXCEPT ![i] = broker[i] - Side(broker[i]) * n]
    BY <1>2, <2>1 DEF ClosePosition, IInv, BrokerOK
  <2>3. Magnitude(broker[i]) \in Int /\ Side(broker[i]) \in Int /\ n \in Int
    BY <2>1 DEF Magnitude, Side
  <2>4. broker[i] - Side(broker[i]) * n \in Int
    BY <2>1, <2>3
  <2>5. /\ intact' = [intact EXCEPT ![i] = FALSE]
        /\ UNCHANGED <<published, memory, kill, stage, cur>>
    BY <1>2, Zenon DEF ClosePosition
  <2>. QED
    BY <2>2, <2>4, <2>5, BrokerMovesKeeps, Zenon
<1>3. ASSUME NEW i \in Instruments, NEW u \in ApiUnits, PlaceOrder(i, u) PROVE IInv'
  <2>1. broker[i] + u \in Int
    BY <1>3, LoopAssumption DEF IInv, BrokerOK
  <2>2. broker' = [broker EXCEPT ![i] = broker[i] + u]
    BY <1>3 DEF PlaceOrder
  <2>. QED
    BY <1>3, <2>1, <2>2, BrokerMovesKeeps DEF PlaceOrder
<1>. QED
  BY <1>1, <1>2, <1>3 DEF ApiStep

(***************************************************************************)
(* A crash, which empties the books together.                              *)
(***************************************************************************)
LEMMA CrashKeeps ==
  ASSUME IInv, Crash
  PROVE  IInv'
<1>1. BooksOK'
  BY EmptyBooks DEF Crash, BooksOK, RiskMatchesTickets
<1>2. FlagsOK' /\ BrokerOK'
  BY EmptyBooks DEF Crash, IInv, FlagsOK, BrokerOK, world
<1>3. LoopOK'
  BY EmptyBooks, LocalsType, InstrumentsAreNatural DEF Crash, LoopOK, ExitsInRange, Stages
<1>. QED
  BY <1>1, <1>2, <1>3 DEF IInv

------------------------------------------------------------------------------
(* The theorems *)

(***************************************************************************)
(* No step of any actor leaves the invariant.                              *)
(***************************************************************************)
LEMMA NextKeeps == IInv /\ [Next]_vars => IInv'
<1>. SUFFICES ASSUME IInv, [Next]_vars PROVE IInv'
  OBVIOUS
<1>1. CASE Boot
  BY <1>1, BootKeeps
<1>2. CASE LoopStep
  BY <1>2, BeginCycleKeeps, LoadGatesKeeps, CycleFailsKeeps, TpslExitKeeps,
     ExpiryExitKeeps, CloseTicketKeeps, ProcessInstrumentKeeps, AllocateKeeps
     DEF LoopStep
<1>3. CASE ApiStep
  BY <1>3, ApiStepKeeps
<1>4. CASE \E i \in Instruments : PublishGate(i) \/ CooldownLapses(i)
  BY <1>4, PublishGateKeeps, CooldownLapsesKeeps
<1>5. CASE Crash
  BY <1>5, CrashKeeps
<1>6. CASE UNCHANGED vars
  BY <1>6, BooksUnchanged, LocalsUnchanged
     DEF vars, IInv, FlagsOK, BrokerOK, world, memory
<1>. QED
  BY <1>1, <1>2, <1>3, <1>4, <1>5, <1>6 DEF Next

(***************************************************************************)
(* The inductive invariant holds in every reachable state.                 *)
(***************************************************************************)
LEMMA InvariantHolds == Spec => []IInv
  BY InitIInv, NextKeeps, PTL DEF Spec

(***************************************************************************)
(* The variables of the loop keep their types whatever the broker, the API *)
(* and crashes do.                                                         *)
(***************************************************************************)
THEOREM TypeCorrect == Spec => []TypeOK
<1>1. IInv => TypeOK
  BY IInvIsTypeAndRisk
<1>. QED
  BY <1>1, InvariantHolds, PTL

(***************************************************************************)
(* The inventory that RiskManager checks every order against is always the *)
(* net of the tickets the tracker would close, for every number of         *)
(* instruments, every sequence of broker answers and every reconcile.      *)
(***************************************************************************)
THEOREM RiskMatches == Spec => []RiskMatchesTickets
<1>1. IInv => RiskMatchesTickets
  BY IInvIsTypeAndRisk
<1>. QED
  BY <1>1, InvariantHolds, PTL

(***************************************************************************)
(* An exit pass never closes one trade and drops another from its copy: its*)
(* indices name trades of the copy until the pass is over.                 *)
(***************************************************************************)
THEOREM ExitsStayInRange == Spec => []ExitsInRange
<1>1. IInv => ExitsInRange
  BY IInvIsTypeAndRisk
<1>. QED
  BY <1>1, InvariantHolds, PTL

------------------------------------------------------------------------------
(* Lists of trades *)

(***************************************************************************)
(* The units of a list of trades, position by position.                    *)
(***************************************************************************)
LEMMA TradeUnitsElements ==
  ASSUME NEW trades \in Seq(Trade)
  PROVE  /\ Len(trades) \in Nat
         /\ DOMAIN trades = 1..Len(trades)
         /\ TradeUnits(trades) \in Seq(Int)
         /\ Len(TradeUnits(trades)) = Len(trades)
         /\ DOMAIN TradeUnits(trades) = 1..Len(trades)
         /\ \A k \in 1..Len(trades) :
              /\ TradeUnits(trades)[k] = trades[k].units
              /\ trades[k] \in Trade
<1>1. /\ Len(trades) \in Nat
      /\ DOMAIN trades = 1..Len(trades)
      /\ \A k \in 1..Len(trades) : trades[k] \in Trade
  BY LenProperties, ElementOfSeq
<1>2. TradeUnits(trades) \in Seq(Int)
  BY TradeUnitsType
<1>3. TradeUnits(trades) = [k \in 1..Len(trades) |-> trades[k].units]
  BY <1>1 DEF TradeUnits
<1>4. DOMAIN TradeUnits(trades) = 1..Len(trades)
  BY <1>3
<1>5. \A k \in 1..Len(trades) : TradeUnits(trades)[k] = trades[k].units
  BY <1>3
<1>6. Len(TradeUnits(trades)) = Len(trades)
  BY <1>1, <1>2, <1>4, LenProperties
<1>. QED
  BY <1>1, <1>2, <1>4, <1>5, <1>6

(***************************************************************************)
(* A trade opened is a ticket opened.                                      *)
(***************************************************************************)
LEMMA TradeUnitsOfAppend ==
  ASSUME NEW trades \in Seq(Trade), NEW opened \in Trade
  PROVE  TradeUnits(Append(trades, opened)) = Append(TradeUnits(trades), opened.units)
<1>1. opened.units \in Int
  BY DEF Trade
<1>2. PICK longer \in Seq(Trade) : longer = Append(trades, opened)
  BY AppendProperties
<1>3. PICK u \in Seq(Int) : u = TradeUnits(longer)
  BY TradeUnitsElements
<1>4. PICK v \in Seq(Int) : v = Append(TradeUnits(trades), opened.units)
  BY <1>1, TradeUnitsElements, AppendProperties
<1>5. /\ Len(trades) \in Nat
      /\ Len(longer) = Len(trades) + 1
      /\ longer[Len(trades) + 1] = opened
      /\ \A k \in 1..Len(trades) : longer[k] = trades[k]
  BY <1>2, AppendProperties, LenProperties
<1>6. Len(u) = Len(trades) + 1 /\ \A k \in 1..(Len(trades) + 1) : u[k] = longer[k].units
  BY <1>3, <1>5, TradeUnitsElements
<1>7. /\ Len(v) = Len(trades) + 1
      /\ v[Len(trades) + 1] = opened.units
      /\ \A k \in 1..Len(trades) : v[k] = trades[k].units
  BY <1>1, <1>4, TradeUnitsElements, AppendProperties
<1>8. ASSUME NEW k \in 1..Len(u) PROVE u[k] = v[k]
  <2>1. CASE k \in 1..Len(trades)
    BY <1>5, <1>6, <1>7, <2>1
  <2>2. CASE k = Len(trades) + 1
    BY <1>5, <1>6, <1>7, <2>2
  <2>. QED
    BY <1>5, <1>6, <2>1, <2>2
<1>9. u = v
  BY <1>6, <1>7, <1>8, SeqEqual
<1>. QED
  BY <1>2, <1>3, <1>4, <1>9

(***************************************************************************)
(* A trade closed is the ticket at its index closed.                       *)
(***************************************************************************)
LEMMA TradeUnitsOfRemoveAt ==
  ASSUME NEW trades \in Seq(Trade), NEW k \in 1..Len(trades)
  PROVE  TradeUnits(RemoveAt(trades, k)) = RemoveAt(TradeUnits(trades), k)
<1>1. PICK shorter \in Seq(Trade) : shorter = RemoveAt(trades, k)
  BY RemoveAtElements
<1>2. PICK u \in Seq(Int) : u = TradeUnits(shorter)
  BY TradeUnitsElements
<1>3. PICK all \in Seq(Int) : all = TradeUnits(trades)
  BY TradeUnitsElements
<1>4. /\ Len(trades) \in Nat
      /\ Len(all) = Len(trades)
      /\ \A j \in 1..Len(trades) : all[j] = trades[j].units
  BY <1>3, TradeUnitsElements
<1>5. k \in 1..Len(all)
  BY <1>4
<1>6. PICK v \in Seq(Int) : v = RemoveAt(all, k)
  BY <1>5, RemoveAtElements
<1>7. /\ Len(shorter) = Len(trades) - 1
      /\ \A j \in 1..(Len(trades) - 1) :
           shorter[j] = IF j < k THEN trades[j] ELSE trades[j + 1]
  BY <1>1, RemoveAtElements
<1>8. /\ Len(v) = Len(trades) - 1
      /\ \A j \in 1..(Len(trades) - 1) : v[j] = IF j < k THEN all[j] ELSE all[j + 1]
  BY <1>4, <1>5, <1>6, RemoveAtElements
<1>9. Len(u) = Len(trades) - 1 /\ \A j \in 1..(Len(trades) - 1) : u[j] = shorter[j].units
  BY <1>2, <1>7, TradeUnitsElements
<1>10. ASSUME NEW j \in 1..(Len(trades) - 1) PROVE u[j] = v[j]
  <2>1. j \in 1..Len(trades) /\ j + 1 \in 1..Len(trades)
    BY <1>4
  <2>. QED
    BY <1>4, <1>7, <1>8, <1>9, <2>1
<1>11. u = v
  BY <1>8, <1>9, <1>10, SeqEqual
<1>. QED
  BY <1>1, <1>2, <1>3, <1>6, <1>11

(***************************************************************************)
(* A list of trades that the signal memory last is in line with: one-sided,*)
(* none opened by a later signal, and no two by the same.                  *)
(***************************************************************************)
Entered(trades, last) ==
  /\ \A k \in DOMAIN trades : trades[k].signal <= last
  /\ \A k, m \in DOMAIN trades :
       k # m /\ trades[k].signal = trades[m].signal => trades[k].signal = 0

Kept(trades, last) == OneSided(TradeUnits(trades)) /\ Entered(trades, last)

LEMMA KeptNothing ==
  ASSUME NEW last
  PROVE  Kept(<<>>, last)
<1>1. <<>> \in Seq(Trade)
  BY EmptySeq
<1>2. DOMAIN TradeUnits(<<>>) = {} /\ DOMAIN <<>> = {}
  BY DEF TradeUnits
<1>. QED
  BY <1>2 DEF Kept, Entered, OneSided

LEMMA KeptRemoveAt ==
  ASSUME NEW trades \in Seq(Trade), NEW last, Kept(trades, last),
         NEW k \in 1..Len(trades)
  PROVE  Kept(RemoveAt(trades, k), last)
<1>1. PICK shorter \in Seq(Trade) : shorter = RemoveAt(trades, k)
  BY RemoveAtElements
<1>2. /\ Len(trades) \in Nat
      /\ Len(shorter) = Len(trades) - 1
      /\ \A j \in 1..(Len(trades) - 1) :
           shorter[j] = IF j < k THEN trades[j] ELSE trades[j + 1]
  BY <1>1, RemoveAtElements, LenProperties
<1>3. DOMAIN shorter = 1..(Len(trades) - 1) /\ DOMAIN trades = 1..Len(trades)
  BY <1>2, LenProperties
<1>4. /\ \A j \in 1..Len(trades) : trades[j].signal <= last
      /\ \A j, m \in 1..Len(trades) :
           j # m /\ trades[j].signal = trades[m].signal => trades[j].signal = 0
  BY <1>3 DEF Kept, Entered
<1>. DEFINE at(j) == IF j < k THEN j ELSE j + 1
<1>5. ASSUME NEW j \in 1..(Len(trades) - 1)
      PROVE  at(j) \in 1..Len(trades) /\ shorter[j] = trades[at(j)]
  BY <1>2
<1>6. ASSUME NEW j \in 1..(Len(trades) - 1), NEW m \in 1..(Len(trades) - 1), j # m
      PROVE  at(j) # at(m)
  BY <1>6
<1>. HIDE DEF at
<1>7. Entered(shorter, last)
  <2>1. \A j \in 1..(Len(trades) - 1) : shorter[j].signal <= last
    BY <1>4, <1>5, Zenon
  <2>2. \A j, m \in 1..(Len(trades) - 1) :
          j # m /\ shorter[j].signal = shorter[m].signal => shorter[j].signal = 0
    <3>1. ASSUME NEW j \in 1..(Len(trades) - 1), NEW m \in 1..(Len(trades) - 1),
                 j # m, shorter[j].signal = shorter[m].signal
          PROVE  shorter[j].signal = 0
      <4>1. at(j) \in 1..Len(trades) /\ at(m) \in 1..Len(trades) /\ at(j) # at(m)
        BY <1>5, <1>6, <3>1, Zenon
      <4>2. shorter[j] = trades[at(j)] /\ shorter[m] = trades[at(m)]
        BY <1>5, Zenon
      <4>. QED
        BY <1>4, <3>1, <4>1, <4>2, Zenon
    <3>. QED
      BY <3>1, Zenon
  <2>. QED
    BY <1>3, <2>1, <2>2 DEF Entered
<1>8. OneSided(TradeUnits(shorter))
  <2>1. TradeUnits(trades) \in Seq(Int) /\ Len(TradeUnits(trades)) = Len(trades)
    BY TradeUnitsElements
  <2>2. TradeUnits(shorter) = RemoveAt(TradeUnits(trades), k)
    BY <1>1, TradeUnitsOfRemoveAt
  <2>. QED
    BY <2>1, <2>2, OneSidedRemoveAt DEF Kept
<1>. QED
  BY <1>1, <1>7, <1>8 DEF Kept

LEMMA KeptAppend ==
  ASSUME NEW trades \in Seq(Trade), NEW last \in Nat, Kept(trades, last),
         NEW opened \in Trade, last < opened.signal, opened.units # 0,
         NetOfTrades(trades) > 0 => opened.units > 0,
         NetOfTrades(trades) < 0 => opened.units < 0
  PROVE  Kept(Append(trades, opened), opened.signal)
<1>1. PICK longer \in Seq(Trade) : longer = Append(trades, opened)
  BY AppendProperties
<1>2. /\ Len(trades) \in Nat
      /\ DOMAIN longer = 1..(Len(trades) + 1)
      /\ longer[Len(trades) + 1] = opened
      /\ \A j \in 1..Len(trades) : longer[j] = trades[j]
  BY <1>1, AppendProperties, LenProperties
<1>3. opened.signal \in Int /\ opened.units \in Int
  BY LoopAssumption DEF Trade
<1>4. /\ DOMAIN trades = 1..Len(trades)
      /\ \A j \in 1..Len(trades) : trades[j].signal \in Int
  <2>1. /\ DOMAIN trades = 1..Len(trades)
        /\ \A j \in 1..Len(trades) : trades[j] \in Trade
    BY TradeUnitsElements
  <2>2. \A t \in Trade : t.signal \in Int
    BY LoopAssumption DEF Trade
  <2>. QED
    BY <2>1, <2>2, Zenon
<1>5. /\ \A j \in 1..Len(trades) : trades[j].signal <= last
      /\ \A j, m \in 1..Len(trades) :
           j # m /\ trades[j].signal = trades[m].signal => trades[j].signal = 0
  BY <1>4 DEF Kept, Entered
<1>6. \A j \in 1..Len(trades) : trades[j].signal < opened.signal
  BY <1>3, <1>4, <1>5
<1>7. ASSUME NEW j \in 1..(Len(trades) + 1)
      PROVE  j \in 1..Len(trades) \/ j = Len(trades) + 1
  BY <1>2
<1>8. \A j \in 1..(Len(trades) + 1) : longer[j].signal <= opened.signal
  BY <1>2, <1>3, <1>4, <1>6, <1>7
<1>9. ASSUME NEW j \in 1..(Len(trades) + 1), NEW m \in 1..(Len(trades) + 1), j # m,
             longer[j].signal = longer[m].signal
      PROVE  longer[j].signal = 0
  <2>1. CASE j \in 1..Len(trades) /\ m \in 1..Len(trades)
    BY <1>2, <1>5, <1>9, <2>1, Zenon
  <2>2. CASE j \in 1..Len(trades) /\ m = Len(trades) + 1
    BY <1>2, <1>3, <1>4, <1>6, <1>9, <2>2
  <2>3. CASE j = Len(trades) + 1 /\ m \in 1..Len(trades)
    BY <1>2, <1>3, <1>4, <1>6, <1>9, <2>3
  <2>. QED
    BY <1>7, <1>9, <2>1, <2>2, <2>3
<1>10. Entered(longer, opened.signal)
  BY <1>2, <1>8, <1>9 DEF Entered
<1>11. OneSided(TradeUnits(longer))
  <2>1. TradeUnits(trades) \in Seq(Int) /\ OneSided(TradeUnits(trades))
    BY TradeUnitsElements DEF Kept
  <2>2. TradeUnits(longer) = Append(TradeUnits(trades), opened.units)
    BY <1>1, TradeUnitsOfAppend
  <2>. QED
    BY <1>3, <2>1, <2>2, OneSidedAppend DEF NetOfTrades
<1>. QED
  BY <1>1, <1>10, <1>11 DEF Kept


------------------------------------------------------------------------------
(* What the broker reports and what the planner answers *)

(***************************************************************************)
(* However the broker splits a position, its trades are on one side and    *)
(* net the position.                                                       *)
(***************************************************************************)
LEMMA BooksNet ==
  ASSUME NEW n \in Int, NEW book \in Books(n)
  PROVE  /\ book \in Seq(Int)
         /\ NetUnits(book) = n
         /\ OneSided(book)
<1>0. book \in Seq(Int)
  BY BooksType
<1>1. CASE n = 0
  <2>1. book = <<>>
    BY <1>1 DEF Books
  <2>. QED
    BY <1>0, <1>1, <2>1, NetUnitsOfNothing DEF OneSided
<1>2. CASE n # 0
  <2>0. PICK k \in 1..MaxBook :
          \E b \in [1..k -> 1..Magnitude(n)] :
            /\ NetUnits(b) = Magnitude(n)
            /\ book = [j \in DOMAIN b |-> Side(n) * b[j]]
    BY <1>2 DEF Books
  <2>1. PICK b \in [1..k -> 1..Magnitude(n)] :
          /\ NetUnits(b) = Magnitude(n)
          /\ book = [j \in DOMAIN b |-> Side(n) * b[j]]
    BY <2>0
  <2>2. k \in Nat /\ Magnitude(n) \in Nat
    BY LoopAssumption DEF Magnitude
  <2>3. \A j \in 1..k : b[j] \in Int /\ b[j] > 0
    BY <2>2
  <2>4. b \in Seq(Int) /\ DOMAIN b = 1..k
    BY <2>2, <2>3, IsASeq
  <2>5. CASE n > 0
    <3>1. Side(n) = 1 /\ Magnitude(n) = n
      BY <2>5 DEF Side, Magnitude
    <3>2. \A j \in 1..k : 1 * b[j] = b[j]
      BY <2>3
    <3>3. book = [j \in 1..k |-> b[j]]
      BY <2>1, <2>4, <3>1, <3>2
    <3>4. book = b
      BY <2>4, <3>3
    <3>. QED
      BY <1>0, <2>1, <2>3, <2>4, <3>1, <3>4 DEF OneSided
  <2>6. CASE n < 0
    <3>1. Side(n) = -1 /\ Magnitude(n) = -n
      BY <2>6 DEF Side, Magnitude
    <3>2. \A j \in 1..k : (-1) * b[j] = -b[j]
      BY <2>3
    <3>3. book = [j \in 1..k |-> -b[j]]
      BY <2>1, <2>4, <3>1, <3>2
    <3>4. book = Opposite(b)
      BY <2>4, <3>3 DEF Opposite
    <3>5. NetUnits(book) = -(-n)
      BY <2>1, <2>4, <3>1, <3>4, OppositeNets
    <3>6. \A j \in DOMAIN book : book[j] < 0
      BY <2>3, <3>3
    <3>. QED
      BY <1>0, <3>5, <3>6 DEF OneSided
  <2>. QED
    BY <1>2, <2>5, <2>6
<1>. QED
  BY <1>1, <1>2

(***************************************************************************)
(* The three outcomes of a plan: everything is dropped, one trade is opened*)
(* that extends the side held, or the trades stay as they are.             *)
(***************************************************************************)
Opened(request) == [units |-> request.side * request.size, signal |-> request.signal]

LEMMA PlanOutcome ==
  ASSUME NEW s \in [Instruments -> Snapshot], NEW i \in Instruments,
         NEW current \in Int, NEW request \in Requests, NEW n \in Nat
  PROVE  LET planned == PlanAllocation(s, i, current, request, n) IN
         \/ request.blocked /\ planned.trades = <<>> /\ planned.last = 0
         \/ /\ ~request.blocked /\ request.ready /\ request.side # 0
            /\ request.signal # s[i].last
            /\ Opened(request) \in Trade /\ Opened(request).units # 0
            /\ NetOfTrades(s[i].trades) > 0 => Opened(request).units > 0
            /\ NetOfTrades(s[i].trades) < 0 => Opened(request).units < 0
            /\ planned.trades = Append(s[i].trades, Opened(request))
            /\ planned.last = request.signal
         \/ /\ planned.trades = s[i].trades
            /\ planned.last = s[i].last \/ (planned.last = 0 /\ planned.trades = <<>>)
<1>. DEFINE planned == PlanAllocation(s, i, current, request, n)
            pending == s[i].pending /\ NetOfTrades(s[i].trades) # current
<1>1. /\ s[i] \in Snapshot
      /\ s[i].trades \in Seq(Trade)
      /\ NetOfTrades(s[i].trades) \in Int
  BY TradeUnitsType DEF Snapshot
<1>2. /\ request.blocked \in BOOLEAN /\ request.side \in {-1, 0, 1}
      /\ request.size \in Nat /\ request.signal \in 0..MaxGate
  BY DEF Requests
<1>3. CASE request.blocked
  <2>1. ~Admits(s, i, request, n)
    BY <1>3 DEF Admits
  <2>2. planned = [NoTrades EXCEPT !.pending = s[i].trades # <<>>]
    BY <1>3, <2>1 DEF PlanAllocation
  <2>. QED
    BY <1>3, <2>2 DEF NoTrades
<1>4. CASE ~request.blocked /\ Admits(s, i, request, n)
  <2>1. planned = [trades  |-> Append(s[i].trades, Opened(request)),
                   pending |-> pending,
                   last    |-> request.signal]
    BY <1>4 DEF PlanAllocation, Opened
  <2>2. /\ request.ready /\ request.side # 0 /\ request.size > 0
        /\ request.signal # s[i].last
        /\ Side(NetOfTrades(s[i].trades)) \in {0, request.side}
    BY <1>4 DEF Admits
  <2>3. PICK u \in Int : u = request.side * request.size
    BY <1>2
  <2>4. /\ request.side = 1 => u = request.size
        /\ request.side = -1 => u = -request.size
    BY <1>2, <2>3
  <2>5. /\ u # 0
        /\ NetOfTrades(s[i].trades) > 0 => u > 0
        /\ NetOfTrades(s[i].trades) < 0 => u < 0
    BY <1>1, <1>2, <2>2, <2>4 DEF Side
  <2>6. Opened(request) = [units |-> u, signal |-> request.signal]
    BY <2>3 DEF Opened
  <2>7. Opened(request) \in Trade /\ Opened(request).units = u
    BY <1>2, <2>6 DEF Trade
  <2>. QED
    BY <1>4, <2>1, <2>2, <2>5, <2>7
<1>5. CASE ~request.blocked /\ ~Admits(s, i, request, n)
  <2>1. planned = SaveTrades([s[i] EXCEPT !.pending = pending], s[i].trades)
    BY <1>5 DEF PlanAllocation
  <2>. HIDE DEF pending, planned
  <2>2. CASE s[i].trades = <<>>
    <3>1. planned = NoTrades
      BY <2>1, <2>2 DEF SaveTrades
    <3>2. planned.trades = <<>> /\ planned.last = 0
      BY <3>1 DEF NoTrades
    <3>. QED
      BY <2>2, <3>2 DEF planned
  <2>3. CASE s[i].trades # <<>>
    <3>1. planned.trades = s[i].trades /\ planned.last = s[i].last
      BY <1>1, <2>1, <2>3 DEF SaveTrades, Snapshot
    <3>. QED
      BY <3>1 DEF planned
  <2>. QED
    BY <2>2, <2>3 DEF planned
<1>. QED
  BY <1>2, <1>3, <1>4, <1>5


------------------------------------------------------------------------------
(* The inductive invariant of the ledgers *)

(***************************************************************************)
(* Tickets and trades are one-sided, no instrument remembers a signal      *)
(* later than the gate last published for it, and one without trades       *)
(* remembers none.                                                         *)
(***************************************************************************)
SnapshotsOK ==
  \A i \in Instruments :
    /\ OneSided(tickets[i])
    /\ Kept(store[i].trades, store[i].last)
    /\ store[i].last <= published[i].ts
    /\ store[i].trades = <<>> => store[i].last = 0

(***************************************************************************)
(* During an exit pass its copy of the trades is as good as the store, and *)
(* still is the store as long as nothing was closed: a pass that closed    *)
(* nothing saves nothing.                                                  *)
(***************************************************************************)
Passing == stage \in {"tpsl_close", "expiry_close", "stack_close"}

PassOK ==
  Passing => /\ Kept(exits.trades, store[cur].last)
             /\ ~exits.closed => exits.trades = store[cur].trades

(***************************************************************************)
(* During the passes of a cycle a gate with a direction is no older than   *)
(* the signal remembered, and no newer than the last gate published.       *)
(***************************************************************************)
GatesOK ==
  stage \notin {"down", "idle", "gates"} =>
    \A i \in Instruments : gate[i].side # 0 =>
      store[i].last <= gate[i].ts /\ gate[i].ts <= published[i].ts

(***************************************************************************)
(* An instrument that is held is always tradable, so that only a flat one  *)
(* is ever blocked.                                                        *)
(***************************************************************************)
HeldOK ==
  /\ stage = "stack_close" => entry.tradable
  /\ stage = "allocate" /\ ~entry.tradable =>
       inventory[cur] = 0 /\ store[cur].trades = <<>>

BooksInOrder == SnapshotsOK /\ PassOK /\ GatesOK /\ HeldOK

LInv == IInv /\ BooksInOrder /\ LedgersAgree

(***************************************************************************)
(* The types the proofs below keep needing.                                *)
(***************************************************************************)
LEMMA LedgerTypes ==
  ASSUME IInv
  PROVE  /\ broker \in [Instruments -> Int]
         /\ published \in [Instruments -> Gate]
         /\ store \in [Instruments -> Snapshot]
         /\ tickets \in [Instruments -> Seq(Int)]
         /\ inventory \in [Instruments -> Int]
         /\ gate \in [Instruments -> Gate]
         /\ intact \in [Instruments -> BOOLEAN]
         /\ exits.trades \in Seq(Trade)
         /\ exits.closed \in BOOLEAN
         /\ cur \in Instruments
         /\ \A i \in Instruments :
              /\ store[i].trades \in Seq(Trade)
              /\ store[i].last \in 0..MaxGate
              /\ published[i].ts \in 0..MaxGate
              /\ inventory[i] = NetUnits(tickets[i])
  BY DEF IInv, BooksOK, LoopOK, FlagsOK, BrokerOK, RiskMatchesTickets, Snapshot, Gate

(***************************************************************************)
(* Empty books are in order.                                               *)
(***************************************************************************)
LEMMA NoTradesKept ==
  ASSUME NEW i \in Instruments
  PROVE  /\ Everywhere(NoTrades)[i].trades = <<>>
         /\ Everywhere(NoTrades)[i].last = 0
         /\ Everywhere(<<>>)[i] = <<>>
         /\ Everywhere(0)[i] = 0
         /\ OneSided(<<>>)
         /\ Kept(<<>>, 0)
         /\ TradeUnits(<<>>) = <<>>
<1>1. OneSided(<<>>)
  BY DEF OneSided
<1>2. TradeUnits(<<>>) = <<>>
  BY EmptySeq, TradeUnitsElements
<1>. QED
  BY <1>1, <1>2, KeptNothing DEF Everywhere, NoTrades

(***************************************************************************)
(* The ledgers before the first reconcile.                                 *)
(***************************************************************************)
LEMMA InitLInv == Init => LInv
<1>. SUFFICES ASSUME Init PROVE LInv
  OBVIOUS
<1>1. IInv
  BY InitIInv
<1>2. /\ store = Everywhere(NoTrades) /\ tickets = Everywhere(<<>>)
      /\ inventory = Everywhere(0) /\ broker = Everywhere(0)
      /\ stage = "down"
  BY DEF Init
<1>3. \A i \in Instruments : published[i].ts \in 0..MaxGate
  BY <1>1, LedgerTypes
<1>4. SnapshotsOK
  BY <1>2, <1>3, NoTradesKept DEF SnapshotsOK
<1>5. PassOK /\ GatesOK /\ HeldOK
  BY <1>2 DEF PassOK, Passing, GatesOK, HeldOK
<1>6. LedgersAgree
  BY <1>2, NoTradesKept DEF LedgersAgree, TradesOf, Closing
<1>. QED
  BY <1>1, <1>4, <1>5, <1>6 DEF LInv, BooksInOrder

(***************************************************************************)
(* A step that leaves the books and the passes alone.                      *)
(***************************************************************************)
LEMMA SnapshotsUnchanged ==
  ASSUME SnapshotsOK, UNCHANGED <<ledger, published>>
  PROVE  SnapshotsOK'
  BY DEF SnapshotsOK, ledger

LEMMA AgreementUnchanged ==
  ASSUME LedgersAgree, UNCHANGED <<ledger, broker, intact>>,
         ~Passing, ~Passing'
  PROVE  LedgersAgree'
  BY DEF LedgersAgree, TradesOf, Closing, Passing, ledger


------------------------------------------------------------------------------
(* Reconciliation *)

(***************************************************************************)
(* The trades a reconcile builds from the tickets of the broker.           *)
(***************************************************************************)
Rebuilt(book) == [k \in DOMAIN book |-> [units |-> book[k], signal |-> 0]]

LEMMA RebuiltKept ==
  ASSUME NEW book \in Seq(Int), OneSided(book), NEW last \in Nat
  PROVE  /\ TradeUnits(Rebuilt(book)) = book
         /\ Kept(Rebuilt(book), last)
<1>1. Len(book) \in Nat /\ DOMAIN book = 1..Len(book) /\ book = [k \in DOMAIN book |-> book[k]]
  BY LenProperties
<1>2. DOMAIN Rebuilt(book) = DOMAIN book
  BY DEF Rebuilt
<1>3. \A k \in DOMAIN book : Rebuilt(book)[k].units = book[k] /\ Rebuilt(book)[k].signal = 0
  BY DEF Rebuilt
<1>4. TradeUnits(Rebuilt(book)) = [k \in DOMAIN book |-> book[k]]
  BY <1>2, <1>3 DEF TradeUnits
<1>5. Entered(Rebuilt(book), last)
  BY <1>2, <1>3 DEF Entered
<1>. QED
  BY <1>1, <1>4, <1>5 DEF Kept

LEMMA ReconcileSucceedsAgrees ==
  ASSUME LInv, ReconcileSucceeds, UNCHANGED world, ~Passing'
  PROVE  SnapshotsOK' /\ LedgersAgree'
<1>1. PICK missing \in SUBSET Instruments, hot \in SUBSET Instruments,
           book \in [Instruments -> UNION {Books(broker[i]) : i \in Instruments}] :
        /\ \A i \in Instruments : book[i] \in Books(broker[i])
        /\ tickets' = book
        /\ inventory' = [i \in Instruments |-> NetUnits(book[i])]
        /\ store' = [i \in Instruments |->
             IF book[i] = <<>> THEN NoTrades
             ELSE [trades  |-> [k \in DOMAIN book[i] |->
                                  [units |-> book[i][k], signal |-> 0]],
                   pending |-> FALSE,
                   last    |-> IF i \in missing THEN 0 ELSE published[i].ts]]
        /\ cooldown' = [i \in Instruments |-> book[i] # <<>> /\ i \in hot]
        /\ intact' = [i \in Instruments |-> TRUE]
  BY Zenon DEF ReconcileSucceeds
<1>2. \A i \in Instruments :
        book[i] \in Seq(Int) /\ NetUnits(book[i]) = broker[i] /\ OneSided(book[i])
  BY <1>1, BooksNet, LedgerTypes DEF LInv
<1>3. ASSUME NEW i \in Instruments
      PROVE  /\ TradeUnits(store'[i].trades) = book[i]
             /\ Kept(store'[i].trades, store'[i].last)
             /\ store'[i].last <= published[i].ts
             /\ store'[i].trades = <<>> => store'[i].last = 0
  <2>. DEFINE last == IF i \in missing THEN 0 ELSE published[i].ts
  <2>1. last \in Nat /\ last <= published[i].ts /\ 0 <= published[i].ts
    <3>1. published[i].ts \in 0..MaxGate
      BY LedgerTypes DEF LInv
    <3>2. published[i].ts \in Nat
      BY <3>1, LoopAssumption
    <3>. QED
      BY <3>2
  <2>2. store'[i] = IF book[i] = <<>> THEN NoTrades
                    ELSE [trades |-> Rebuilt(book[i]), pending |-> FALSE, last |-> last]
    BY <1>1 DEF Rebuilt
  <2>. HIDE DEF last
  <2>3. CASE book[i] = <<>>
    <3>1. store'[i].trades = <<>> /\ store'[i].last = 0
      BY <2>2, <2>3 DEF NoTrades
    <3>. QED
      BY <2>1, <2>3, <3>1, NoTradesKept
  <2>4. CASE book[i] # <<>>
    <3>1. store'[i].trades = Rebuilt(book[i]) /\ store'[i].last = last
      BY <2>2, <2>4
    <3>2. TradeUnits(store'[i].trades) = book[i]
      BY <1>2, <2>1, <3>1, RebuiltKept
    <3>3. store'[i].trades # <<>>
      BY <2>4, <3>2, NoTradesKept
    <3>. QED
      BY <1>2, <2>1, <3>1, <3>3, RebuiltKept
  <2>. QED
    BY <2>3, <2>4
<1>4. UNCHANGED <<broker, published>>
  BY DEF world
<1>5. SnapshotsOK'
  BY <1>1, <1>2, <1>3, <1>4 DEF SnapshotsOK
<1>6. ASSUME NEW i \in Instruments
      PROVE  TradeUnits(TradesOf(i)') = tickets'[i] /\ inventory'[i] = broker'[i]
  BY <1>1, <1>2, <1>3, <1>4 DEF TradesOf, Closing, Passing
<1>7. LedgersAgree'
  BY <1>6 DEF LedgersAgree
<1>. QED
  BY <1>5, <1>7

LEMMA ReconcileAgrees ==
  ASSUME LInv, ReconcilePortfolio \/ ReconcileFailed, UNCHANGED world,
         ~Passing, ~Passing'
  PROVE  SnapshotsOK' /\ LedgersAgree'
<1>1. CASE ReconcileSucceeds
  BY <1>1, ReconcileSucceedsAgrees
<1>2. CASE ReconcileSkipped
  <2>1. /\ store' = Everywhere(NoTrades)
        /\ intact' = [i \in Instruments |-> intact[i] /\ store[i].trades = <<>>]
        /\ UNCHANGED <<tickets, inventory, broker, published>>
    BY <1>2 DEF ReconcileSkipped, world
  <2>2. \A i \in Instruments : OneSided(tickets[i]) /\ 0 <= published[i].ts
    BY LedgerTypes, LoopAssumption DEF LInv, BooksInOrder, SnapshotsOK
  <2>3. SnapshotsOK'
    BY <2>1, <2>2, NoTradesKept DEF SnapshotsOK
  <2>4. ASSUME NEW i \in Instruments, intact'[i]
        PROVE  TradeUnits(TradesOf(i)') = tickets'[i] /\ inventory'[i] = broker'[i]
    <3>1. intact[i] /\ store[i].trades = <<>>
      BY <2>1, <2>4
    <3>2. TradeUnits(store[i].trades) = tickets[i] /\ inventory[i] = broker[i]
      BY <3>1 DEF LInv, LedgersAgree, TradesOf, Closing, Passing
    <3>3. TradesOf(i)' = <<>>
      BY <2>1, NoTradesKept DEF TradesOf, Closing, Passing
    <3>. QED
      BY <2>1, <3>1, <3>2, <3>3
  <2>5. LedgersAgree'
    BY <2>4 DEF LedgersAgree
  <2>. QED
    BY <2>3, <2>5
<1>3. CASE ReconcileFailed
  BY <1>3, SnapshotsUnchanged, AgreementUnchanged
     DEF ReconcileFailed, world, LInv, BooksInOrder
<1>. QED
  BY <1>1, <1>2, <1>3 DEF ReconcilePortfolio

------------------------------------------------------------------------------
(* The steps of the cycle that leave the books alone *)

LEMMA BootAgrees ==
  ASSUME LInv, Boot
  PROVE  LInv'
<1>1. stage = "down" /\ stage' = "idle" /\ ReconcilePortfolio /\ UNCHANGED world
  BY DEF Boot
<1>2. SnapshotsOK' /\ LedgersAgree'
  BY <1>1, ReconcileAgrees DEF Passing
<1>3. PassOK' /\ GatesOK' /\ HeldOK'
  BY <1>1 DEF PassOK, Passing, GatesOK, HeldOK
<1>. QED
  BY <1>2, <1>3, BootKeeps DEF LInv, BooksInOrder

LEMMA BeginCycleAgrees ==
  ASSUME LInv, BeginCycle
  PROVE  LInv'
<1>1. /\ stage = "idle" /\ stage' = "gates"
      /\ ReconcilePortfolio \/ ReconcileFailed
      /\ UNCHANGED world
  BY DEF BeginCycle
<1>2. SnapshotsOK' /\ LedgersAgree'
  BY <1>1, ReconcileAgrees DEF Passing
<1>3. PassOK' /\ GatesOK' /\ HeldOK'
  BY <1>1 DEF PassOK, Passing, GatesOK, HeldOK
<1>. QED
  BY <1>2, <1>3, BeginCycleKeeps DEF LInv, BooksInOrder

LEMMA LoadGatesAgrees ==
  ASSUME LInv, LoadGates
  PROVE  LInv'
<1>1. /\ stage = "gates" /\ stage' \in {"idle", "tpsl"}
      /\ UNCHANGED <<ledger, broker, published, intact>>
  BY DEF LoadGates, world
<1>2. SnapshotsOK'
  BY <1>1, SnapshotsUnchanged DEF LInv, BooksInOrder
<1>3. LedgersAgree'
  BY <1>1, AgreementUnchanged DEF LInv, Passing
<1>4. GatesOK'
  <2>1. CASE kill
    BY <2>1 DEF LoadGates, GatesOK
  <2>2. CASE ~kill
    <3>1. PICK missing \in SUBSET Instruments :
            gate' = [i \in Instruments |-> IF i \in missing THEN NoGate ELSE published[i]]
      BY <2>2 DEF LoadGates
    <3>2. \A i \in Instruments :
            store'[i].last <= published'[i].ts /\ published'[i].ts \in 0..MaxGate
      BY <1>1, <1>2, LedgerTypes DEF LInv, SnapshotsOK
    <3>. QED
      BY <1>1, <3>1, <3>2, LoopAssumption DEF GatesOK, NoGate
  <2>. QED
    BY <2>1, <2>2
<1>5. PassOK' /\ HeldOK'
  BY <1>1 DEF PassOK, Passing, HeldOK
<1>. QED
  BY <1>2, <1>3, <1>4, <1>5, LoadGatesKeeps DEF LInv, BooksInOrder

LEMMA CycleFailsAgrees ==
  ASSUME LInv, CycleFails
  PROVE  LInv'
<1>1. /\ stage = "gates" /\ stage' = "idle"
      /\ UNCHANGED <<ledger, broker, published, intact>>
  BY DEF CycleFails, world, memory
<1>2. SnapshotsOK'
  BY <1>1, SnapshotsUnchanged DEF LInv, BooksInOrder
<1>3. LedgersAgree'
  BY <1>1, AgreementUnchanged DEF LInv, Passing
<1>4. PassOK' /\ GatesOK' /\ HeldOK'
  BY <1>1 DEF PassOK, Passing, GatesOK, HeldOK
<1>. QED
  BY <1>2, <1>3, <1>4, CycleFailsKeeps DEF LInv, BooksInOrder

(***************************************************************************)
(* Starting a pass: its copy of the trades is the store.                   *)
(***************************************************************************)
LEMMA PassStarts ==
  ASSUME LInv, ~Passing, UNCHANGED <<ledger, broker, published, intact, cur>>,
         NEW work, StartExits(work)
  PROVE  /\ PassOK'
         /\ LedgersAgree'
<1>1. exits'.trades = store[cur].trades /\ cur \in Instruments
      /\ UNCHANGED <<store, tickets, inventory>>
  BY LedgerTypes DEF StartExits, LInv, ledger
<1>2. Kept(store[cur].trades, store[cur].last)
  BY <1>1 DEF LInv, BooksInOrder, SnapshotsOK
<1>3. PassOK'
  BY <1>1, <1>2 DEF PassOK
<1>4. ASSUME NEW i \in Instruments, intact'[i]
      PROVE  TradeUnits(TradesOf(i)') = tickets'[i] /\ inventory'[i] = broker'[i]
  <2>1. TradeUnits(store[i].trades) = tickets[i] /\ inventory[i] = broker[i]
    BY <1>4 DEF LInv, LedgersAgree, TradesOf, Closing, Passing
  <2>2. TradesOf(i)' = store[i].trades
    BY <1>1 DEF TradesOf, Closing
  <2>. QED
    BY <1>1, <2>1, <2>2
<1>. QED
  BY <1>3, <1>4 DEF LedgersAgree

LEMMA TpslExitAgrees ==
  ASSUME LInv, TpslExit
  PROVE  LInv'
<1>1. PICK work : IF work = {}
                  THEN stage' = "expiry" /\ UNCHANGED exits
                  ELSE stage' = "tpsl_close" /\ StartExits(work)
  BY DEF TpslExit
<1>2. /\ stage = "tpsl" /\ stage' \in {"expiry", "tpsl_close"}
      /\ UNCHANGED <<ledger, broker, published, intact, cur, gate>>
  BY <1>1 DEF TpslExit, world
<1>3. SnapshotsOK'
  BY <1>2, SnapshotsUnchanged DEF LInv, BooksInOrder
<1>4. GatesOK' /\ HeldOK'
  BY <1>2 DEF LInv, BooksInOrder, GatesOK, HeldOK, ledger
<1>5. PassOK' /\ LedgersAgree'
  <2>1. CASE work = {}
    <3>1. ~Passing /\ ~Passing'
      BY <1>1, <1>2, <2>1 DEF Passing
    <3>. QED
      BY <1>2, <3>1, AgreementUnchanged DEF PassOK, LInv
  <2>2. CASE work # {}
    BY <1>1, <1>2, <2>2, PassStarts DEF Passing
  <2>. QED
    BY <2>1, <2>2
<1>. QED
  BY <1>3, <1>4, <1>5, TpslExitKeeps DEF LInv, BooksInOrder

LEMMA ExpiryExitAgrees ==
  ASSUME LInv, ExpiryExit
  PROVE  LInv'
<1>1. PICK work : IF work = {}
                  THEN AfterExits /\ UNCHANGED exits
                  ELSE stage' = "expiry_close" /\ cur' = cur /\ StartExits(work)
  BY DEF ExpiryExit
<1>2. /\ stage = "expiry" /\ stage' \in {"tpsl", "stack", "expiry_close"}
      /\ UNCHANGED <<ledger, broker, published, intact, gate>>
  BY <1>1 DEF ExpiryExit, world, AfterExits, Advance
<1>3. SnapshotsOK'
  BY <1>2, SnapshotsUnchanged DEF LInv, BooksInOrder
<1>4. GatesOK' /\ HeldOK'
  BY <1>2 DEF LInv, BooksInOrder, GatesOK, HeldOK, ledger
<1>5. PassOK' /\ LedgersAgree'
  <2>1. CASE work = {}
    <3>1. ~Passing /\ ~Passing'
      BY <1>1, <1>2, <2>1 DEF Passing, AfterExits, Advance
    <3>. QED
      BY <1>2, <3>1, AgreementUnchanged DEF PassOK, LInv
  <2>2. CASE work # {}
    BY <1>1, <1>2, <2>2, PassStarts DEF Passing
  <2>. QED
    BY <2>1, <2>2
<1>. QED
  BY <1>3, <1>4, <1>5, ExpiryExitKeeps DEF LInv, BooksInOrder

(***************************************************************************)
(* An entry is evaluated: what is held is tradable.                        *)
(***************************************************************************)
LEMMA ProcessInstrumentAgrees ==
  ASSUME LInv, ProcessInstrument
  PROVE  LInv'
<1>1. /\ stage = "stack"
      /\ UNCHANGED <<ledger, broker, published, intact>>
  BY DEF ProcessInstrument, world
<1>2. cur \in Instruments /\ gate \in [Instruments -> Gate]
  BY LedgerTypes DEF LInv
<1>3. SnapshotsOK'
  BY <1>1, SnapshotsUnchanged DEF LInv, BooksInOrder
<1>4. CASE gate[cur].side = 0
  <2>1. /\ stage' \in {"stack", "idle"}
        /\ gate' = [gate EXCEPT ![cur] = NoGate]
    BY <1>4 DEF ProcessInstrument, AfterStack, Advance
  <2>2. GatesOK'
    BY <1>1, <1>2, <2>1 DEF LInv, BooksInOrder, GatesOK, NoGate, ledger
  <2>3. PassOK' /\ HeldOK'
    BY <2>1 DEF PassOK, Passing, HeldOK
  <2>4. LedgersAgree'
    BY <1>1, <2>1, AgreementUnchanged DEF LInv, Passing
  <2>. QED
    BY <1>3, <2>2, <2>3, <2>4, ProcessInstrumentKeeps DEF LInv, BooksInOrder
<1>5. CASE gate[cur].side # 0
  <2>1. PICK tradable \in BOOLEAN, ready \in BOOLEAN, open \in BOOLEAN,
             work \in SUBSET DOMAIN store[cur].trades :
          /\ ~tradable => inventory[cur] = 0 /\ store[cur].trades = <<>>
          /\ entry' = [prior |-> Len(store[cur].trades), tradable |-> tradable,
                       ready |-> ready, open |-> open]
          /\ IF work = {}
             THEN stage' = "allocate" /\ UNCHANGED exits
             ELSE stage' = "stack_close" /\ StartExits(work)
          /\ UNCHANGED <<cur, gate>>
    BY <1>5 DEF ProcessInstrument
  <2>2. GatesOK'
    BY <1>1, <2>1 DEF LInv, BooksInOrder, GatesOK, ledger
  <2>3. entry'.tradable = tradable
    BY <2>1
  <2>4. HeldOK'
    <3>1. UNCHANGED <<inventory, store>>
      BY <1>1 DEF ledger
    <3>2. ASSUME stage' = "stack_close" PROVE tradable
      <4>1. work # {}
        BY <2>1, <3>2
      <4>2. DOMAIN store[cur].trades # {}
        BY <4>1
      <4>3. store[cur].trades # <<>>
        BY <4>2
      <4>. QED
        BY <2>1, <4>3
    <3>3. stage' \in {"allocate", "stack_close"}
      BY <2>1
    <3>. QED
      BY <2>1, <2>3, <3>1, <3>2, <3>3 DEF HeldOK
  <2>5. PassOK' /\ LedgersAgree'
    <3>1. CASE work = {}
      <4>1. ~Passing /\ ~Passing'
        BY <1>1, <2>1, <3>1 DEF Passing
      <4>. QED
        BY <1>1, <4>1, AgreementUnchanged DEF PassOK, LInv
    <3>2. CASE work # {}
      BY <1>1, <2>1, <3>2, PassStarts DEF Passing
    <3>. QED
      BY <3>1, <3>2
  <2>. QED
    BY <1>3, <2>2, <2>4, <2>5, ProcessInstrumentKeeps DEF LInv, BooksInOrder
<1>. QED
  BY <1>4, <1>5


------------------------------------------------------------------------------
(* Closing tickets *)

(***************************************************************************)
(* The trades of an instrument that is left with what its pass kept.       *)
(***************************************************************************)
LEMMA SavedTrades ==
  ASSUME NEW snapshot \in Snapshot, NEW trades \in Seq(Trade),
         Kept(trades, snapshot.last)
  PROVE  LET saved == SaveTrades(snapshot, trades)
         IN  /\ saved.trades = trades
             /\ Kept(saved.trades, saved.last)
             /\ saved.last \in {0, snapshot.last}
             /\ saved.trades = <<>> => saved.last = 0
<1>1. CASE trades = <<>>
  BY <1>1, KeptNothing DEF SaveTrades, NoTrades
<1>2. CASE trades # <<>>
  BY <1>2 DEF SaveTrades, Snapshot
<1>. QED
  BY <1>1, <1>2

(***************************************************************************)
(* What a close leaves of the pass: its copy while it goes on, the store   *)
(* once it is over.                                                        *)
(***************************************************************************)
LEMMA FinishAgrees ==
  ASSUME LInv, Passing, UNCHANGED <<published, gate, entry>>,
         NEW c \in Instruments, c = cur,
         NEW trades \in Seq(Trade), NEW left, NEW closed \in BOOLEAN, NEW held,
         FinishExits(cur, left, trades, closed, held),
         Kept(trades, store[cur].last),
         ~closed => trades = store[cur].trades,
         \A i \in Instruments : OneSided(tickets'[i])
  PROVE  /\ SnapshotsOK' /\ PassOK' /\ GatesOK'
         /\ HeldOK'
         /\ TradesOf(c)' = trades
         /\ \A i \in Instruments : i # c => TradesOf(i)' = TradesOf(i)
         /\ inventory' = [inventory EXCEPT ![cur] = held]
<1>1. /\ cur \in Instruments
      /\ store \in [Instruments -> Snapshot]
      /\ store[cur].last \in Nat /\ 0 <= published[cur].ts
      /\ store[cur].last <= published[cur].ts
  <2>1. cur \in Instruments /\ store \in [Instruments -> Snapshot]
        /\ store[cur].last \in 0..MaxGate /\ published[cur].ts \in 0..MaxGate
    BY LedgerTypes DEF LInv
  <2>2. store[cur].last <= published[cur].ts
    BY <2>1 DEF LInv, BooksInOrder, SnapshotsOK
  <2>. QED
    BY <2>1, <2>2, LoopAssumption
<1>2. /\ stage \in {"tpsl_close", "expiry_close", "stack_close"}
      /\ inventory' = [inventory EXCEPT ![cur] = held]
  BY DEF Passing, FinishExits
<1>3. stage = "stack_close" => entry.tradable
  BY DEF LInv, BooksInOrder, HeldOK
<1>4. CASE left # {}
  <2>1. /\ exits' = [work |-> left, trades |-> trades, closed |-> closed]
        /\ UNCHANGED <<store, stage, cur>>
    BY <1>1, <1>4 DEF FinishExits
  <2>2. SnapshotsOK' /\ PassOK' /\ GatesOK' /\ HeldOK'
    BY <2>1, <1>2, <1>3 DEF LInv, BooksInOrder, SnapshotsOK, PassOK, GatesOK, HeldOK, Passing
  <2>3. TradesOf(c)' = trades /\ \A i \in Instruments : i # c => TradesOf(i)' = TradesOf(i)
    BY <1>2, <2>1 DEF TradesOf, Closing
  <2>. QED
    BY <1>2, <2>2, <2>3
<1>5. CASE left = {}
  <2>1. /\ store' = IF closed THEN [store EXCEPT ![cur] = SaveTrades(store[cur], trades)] ELSE store
        /\ stage' \in {"expiry", "tpsl", "stack", "allocate"}
        /\ stage' = "allocate" => stage = "stack_close"
    BY <1>1, <1>2, <1>5 DEF FinishExits, AfterExits, Advance
  <2>2. /\ store'[cur].trades = trades
        /\ Kept(store'[cur].trades, store'[cur].last)
        /\ store'[cur].last \in {0, store[cur].last}
        /\ store'[cur].trades = <<>> => store'[cur].last = 0
        /\ \A i \in Instruments : i # cur => store'[i] = store[i]
    <3>1. CASE closed
      <4>1. store' = [store EXCEPT ![cur] = SaveTrades(store[cur], trades)]
        BY <2>1, <3>1
      <4>2. store'[cur] = SaveTrades(store[cur], trades)
        BY <1>1, <4>1
      <4>3. \A i \in Instruments : i # cur => store'[i] = store[i]
        BY <1>1, <4>1
      <4>. QED
        BY <1>1, <4>2, <4>3, SavedTrades
    <3>2. CASE ~closed
      BY <1>1, <2>1, <3>2 DEF LInv, BooksInOrder, SnapshotsOK
    <3>. QED
      BY <3>1, <3>2
  <2>3. SnapshotsOK'
    BY <1>1, <2>2 DEF LInv, BooksInOrder, SnapshotsOK
  <2>4. PassOK'
    BY <1>2, <2>1 DEF PassOK, Passing
  <2>7. GatesOK'
    <3>1. ASSUME NEW i \in Instruments, gate[i].side # 0
          PROVE  store'[i].last <= gate[i].ts /\ gate[i].ts <= published[i].ts
      <4>1. store[i].last <= gate[i].ts /\ gate[i].ts <= published[i].ts
        BY <1>2, <3>1 DEF LInv, BooksInOrder, GatesOK
      <4>2. store'[i].last \in {0, store[i].last} /\ gate[i].ts \in 0..MaxGate
        BY <1>1, <2>2, LedgerTypes DEF LInv, Gate
      <4>. QED
        BY <4>1, <4>2, LoopAssumption
    <3>. QED
      BY <3>1 DEF GatesOK
  <2>5. HeldOK'
    BY <1>3, <2>1 DEF HeldOK
  <2>6. TradesOf(c)' = trades /\ \A i \in Instruments : i # c => TradesOf(i)' = TradesOf(i)
    BY <2>1, <2>2 DEF TradesOf, Closing
  <2>. QED
    BY <1>2, <2>3, <2>4, <2>5, <2>6, <2>7
<1>. QED
  BY <1>4, <1>5


(***************************************************************************)
(* A close that was answered takes the ticket, its trade, its units of the *)
(* inventory and those of the broker, or none of them.                     *)
(***************************************************************************)
LEMMA CloseTicketAgrees ==
  ASSUME LInv, CloseTicket
  PROVE  LInv'
<1>. DEFINE k == NextExit(exits.work)
            left == exits.work \ {k}
<1>1. Passing /\ UNCHANGED <<published, cooldown, gate, kill, entry>>
  BY DEF CloseTicket, Passing
<1>2. PICK c \in Instruments : c = cur
  BY LedgerTypes DEF LInv
<1>3. /\ exits.trades \in Seq(Trade) /\ exits.closed \in BOOLEAN
      /\ exits.work # {} /\ exits.work \subseteq DOMAIN exits.trades
      /\ Kept(exits.trades, store[cur].last)
      /\ ~exits.closed => exits.trades = store[cur].trades
  BY <1>1 DEF LInv, IInv, LoopOK, ExitsInRange, BooksInOrder, PassOK, Passing
<1>4. k \in 1..Len(exits.trades)
  BY <1>3, LeftInRange
<1>5. /\ broker \in [Instruments -> Int]
      /\ tickets \in [Instruments -> Seq(Int)]
      /\ inventory \in [Instruments -> Int]
      /\ intact \in [Instruments -> BOOLEAN]
      /\ inventory[cur] = NetUnits(tickets[cur])
      /\ \A i \in Instruments : OneSided(tickets[i])
  BY <1>2, LedgerTypes DEF LInv, BooksInOrder, SnapshotsOK
<1>6. TradesOf(c) = exits.trades
  BY <1>1, <1>2 DEF TradesOf, Closing, Passing
<1>7. IInv'
  BY CloseTicketKeeps DEF LInv
<1>8. ASSUME NEW i \in Instruments, intact[i]
      PROVE  TradeUnits(TradesOf(i)) = tickets[i] /\ inventory[i] = broker[i]
  BY <1>8 DEF LInv, LedgersAgree
<1>. HIDE DEF k, left
<1>9. CASE k \notin DOMAIN tickets[cur]
  <2>1. /\ FinishExits(cur, left, exits.trades, exits.closed,
             IF left = {} /\ exits.closed THEN NetUnits(tickets[cur]) ELSE inventory[cur])
        /\ UNCHANGED <<broker, tickets, intact>>
    BY <1>9 DEF CloseTicket, k, left
  <2>2. FinishExits(cur, left, exits.trades, exits.closed, inventory[cur])
    BY <1>5, <2>1
  <2>3. /\ SnapshotsOK' /\ PassOK' /\ GatesOK' /\ HeldOK'
        /\ TradesOf(c)' = exits.trades
        /\ \A i \in Instruments : i # c => TradesOf(i)' = TradesOf(i)
        /\ inventory' = [inventory EXCEPT ![cur] = inventory[cur]]
    <3>1. \A i \in Instruments : OneSided(tickets'[i])
      BY <1>5, <2>1
    <3>2. UNCHANGED <<published, gate, entry>>
      BY <1>1
    <3>. QED
      BY <1>1, <1>2, <1>3, <2>2, <3>1, <3>2, FinishAgrees
  <2>4. inventory' = inventory
    BY <1>5, <2>3
  <2>5. \A i \in Instruments : TradesOf(i)' = TradesOf(i)
    BY <1>6, <2>3
  <2>6. LedgersAgree'
    BY <1>8, <2>1, <2>4, <2>5 DEF LedgersAgree
  <2>. QED
    BY <1>7, <2>3, <2>6 DEF LInv, BooksInOrder
<1>10. CASE k \in DOMAIN tickets[cur]
  <2>1. PICK reply \in Replies :
          LET done   == Confirmed(reply)
              kept   == IF done THEN RemoveAt(tickets[cur], k) ELSE tickets[cur]
              trades == IF done THEN RemoveAt(exits.trades, k) ELSE exits.trades
              closed == exits.closed \/ done
              booked == IF done THEN inventory[cur] - tickets[cur][k] ELSE inventory[cur]
          IN  /\ BrokerCloses(cur, tickets[cur][k], reply.fills)
              /\ tickets' = [tickets EXCEPT ![cur] = kept]
              /\ FinishExits(cur, left, trades, closed,
                   IF left = {} /\ closed THEN NetUnits(kept) ELSE booked)
              /\ intact' = [intact EXCEPT
                   ![cur] = @ /\ reply \in {Filled, Rejected, Refused}]
    BY <1>10, Zenon DEF CloseTicket, k, left
  <2>. DEFINE done   == Confirmed(reply)
              kept   == IF done THEN RemoveAt(tickets[cur], k) ELSE tickets[cur]
              trades == IF done THEN RemoveAt(exits.trades, k) ELSE exits.trades
              closed == exits.closed \/ done
              booked == IF done THEN inventory[cur] - tickets[cur][k] ELSE inventory[cur]
              held   == IF left = {} /\ closed THEN NetUnits(kept) ELSE booked
  <2>2. /\ BrokerCloses(cur, tickets[cur][k], reply.fills)
        /\ tickets' = [tickets EXCEPT ![cur] = kept]
        /\ FinishExits(cur, left, trades, closed, held)
        /\ intact' = [intact EXCEPT ![cur] = @ /\ reply \in {Filled, Rejected, Refused}]
    BY <2>1, Zenon
  <2>3. k \in 1..Len(tickets[cur]) /\ tickets[cur][k] \in Int
    <3>1. tickets[cur] \in Seq(Int)
      BY <1>2, <1>5
    <3>. QED
      BY <1>10, <3>1, LenProperties, ElementOfSeq
  <2>4. /\ RemoveAt(tickets[cur], k) \in Seq(Int)
        /\ NetUnits(RemoveAt(tickets[cur], k)) = NetUnits(tickets[cur]) - tickets[cur][k]
        /\ OneSided(RemoveAt(tickets[cur], k))
    <3>1. tickets[cur] \in Seq(Int) /\ OneSided(tickets[cur])
      BY <1>2, <1>5
    <3>. QED
      BY <2>3, <3>1, RemoveAtElements, NetUnitsOfRemoveAt, OneSidedRemoveAt
  <2>5. OneSided(kept) /\ held = booked
    BY <1>2, <1>5, <2>4
  <2>6. trades \in Seq(Trade) /\ Kept(trades, store[cur].last)
    BY <1>3, <1>4, RemoveAtElements, KeptRemoveAt
  <2>7. closed \in BOOLEAN /\ (~closed => trades = store[cur].trades)
    BY <1>3 DEF Confirmed
  <2>8. \A i \in Instruments : OneSided(tickets'[i])
    BY <1>2, <1>5, <2>2, <2>5
  <2>. HIDE DEF done, kept, trades, closed, booked, held
  <2>9. /\ SnapshotsOK' /\ PassOK' /\ GatesOK' /\ HeldOK'
        /\ TradesOf(c)' = trades
        /\ \A i \in Instruments : i # c => TradesOf(i)' = TradesOf(i)
        /\ inventory' = [inventory EXCEPT ![cur] = held]
    <3>1. UNCHANGED <<published, gate, entry>> /\ Passing
      BY <1>1
    <3>2. PICK flag \in BOOLEAN : flag = closed
      BY <2>7
    <3>3. FinishExits(cur, left, trades, flag, held)
      BY <2>2, <3>2
    <3>4. ~flag => trades = store[cur].trades
      BY <2>7, <3>2
    <3>5. PICK list \in Seq(Trade) : list = trades
      BY <2>6
    <3>6. PICK h : h = held
      OBVIOUS
    <3>7. PICK l : l = left
      OBVIOUS
    <3>8. FinishExits(cur, l, list, flag, h)
      BY <3>3, <3>5, <3>6, <3>7, Zenon
    <3>9. Kept(list, store[cur].last) /\ (~flag => list = store[cur].trades)
      BY <2>6, <3>4, <3>5, Zenon
    <3>10. /\ SnapshotsOK' /\ PassOK' /\ GatesOK' /\ HeldOK'
           /\ TradesOf(c)' = list
           /\ \A i \in Instruments : i # c => TradesOf(i)' = TradesOf(i)
           /\ inventory' = [inventory EXCEPT ![cur] = h]
      <4>1. CASE flag
        <5>1. FinishExits(cur, l, list, TRUE, h)
          BY <3>8, <4>1, Zenon
        <5>. QED
          BY <1>2, <2>8, <3>1, <3>9, <5>1, FinishAgrees
      <4>2. CASE ~flag
        <5>1. FinishExits(cur, l, list, FALSE, h)
          BY <3>8, <4>2, Zenon
        <5>2. list = store[cur].trades
          BY <3>9, <4>2
        <5>. QED
          BY <1>2, <2>8, <3>1, <3>9, <5>1, <5>2, FinishAgrees
      <4>. QED
        BY <4>1, <4>2
    <3>. QED
      BY <3>5, <3>6, <3>10
  <2>10. broker' = [broker EXCEPT ![cur] = broker[cur] - reply.fills * tickets[cur][k]]
    BY <1>2, <1>5, <2>2 DEF BrokerCloses
  <2>11. ASSUME NEW i \in Instruments, intact'[i]
         PROVE  TradeUnits(TradesOf(i)') = tickets'[i] /\ inventory'[i] = broker'[i]
    <3>1. CASE i # c
      BY <1>2, <1>5, <1>8, <2>2, <2>9, <2>10, <2>11, <3>1
    <3>2. CASE i = c
      <4>1. intact[c] /\ reply \in {Filled, Rejected, Refused}
        BY <1>2, <1>5, <2>2, <2>11, <3>2
      <4>2. TradeUnits(exits.trades) = tickets[c] /\ inventory[c] = broker[c]
        BY <1>6, <1>8, <4>1
      <4>3. /\ TradesOf(c)' = trades /\ tickets'[c] = kept /\ inventory'[c] = booked
            /\ broker'[c] = broker[c] - reply.fills * tickets[c][k]
        BY <1>2, <1>5, <2>2, <2>5, <2>9, <2>10
      <4>4. inventory[c] \in Int /\ broker[c] \in Int /\ tickets[c][k] \in Int
        BY <1>2, <1>5, <2>3
      <4>5. CASE reply = Filled
        <5>1. done /\ reply.fills = 1
          BY <4>5 DEF done, Filled, Confirmed
        <5>2. trades = RemoveAt(exits.trades, k) /\ kept = RemoveAt(tickets[c], k)
              /\ booked = inventory[c] - tickets[c][k]
          BY <1>2, <5>1 DEF trades, kept, booked
        <5>3. TradeUnits(trades) = kept
          BY <1>3, <1>4, <4>2, <5>2, TradeUnitsOfRemoveAt
        <5>4. 1 * tickets[c][k] = tickets[c][k]
          BY <4>4
        <5>. QED
          BY <3>2, <4>2, <4>3, <5>1, <5>2, <5>3, <5>4
      <4>6. CASE reply \in {Rejected, Refused}
        <5>1. ~done /\ reply.fills = 0
          BY <4>6 DEF done, Rejected, Refused, Confirmed
        <5>2. trades = exits.trades /\ kept = tickets[c] /\ booked = inventory[c]
          BY <1>2, <5>1 DEF trades, kept, booked
        <5>3. broker[c] - 0 * tickets[c][k] = broker[c]
          BY <4>4
        <5>. QED
          BY <3>2, <4>2, <4>3, <5>1, <5>2, <5>3
      <4>. QED
        BY <4>1, <4>5, <4>6
    <3>. QED
      BY <3>1, <3>2
  <2>12. LedgersAgree'
    BY <2>11 DEF LedgersAgree
  <2>. QED
    BY <1>7, <2>9, <2>12 DEF LInv, BooksInOrder
<1>. QED
  BY <1>9, <1>10


------------------------------------------------------------------------------
(* Allocations *)

(***************************************************************************)
(* What the planner makes of an instrument at the time of its allocation:  *)
(* a snapshot in order that, with the ledgers in line, has the trades the  *)
(* tracker has tickets for, or one more on the side held, admitted by a    *)
(* gate that is not the one acted on last.                                 *)
(***************************************************************************)
Extends(s, x, longer) ==
  /\ x \in Int /\ x # 0
  /\ NetUnits(s) > 0 => x > 0
  /\ NetUnits(s) < 0 => x < 0
  /\ longer = Append(s, x)

LEMMA PlanInOrder ==
  ASSUME LInv, stage = "allocate", NEW size \in Sizes \cup {0},
         NEW planned,
         planned = PlanAllocation(store, cur, inventory[cur], Request(size), MaxPositions)
  PROVE  /\ planned \in Snapshot
         /\ Kept(planned.trades, planned.last)
         /\ planned.last <= published[cur].ts
         /\ planned.trades = <<>> => planned.last = 0
         /\ intact[cur] =>
              \/ /\ TradeUnits(planned.trades) = tickets[cur]
                 /\ planned.last = store[cur].last
              \/ /\ entry.ready
                 /\ \E x \in Int :
                      /\ Extends(tickets[cur], x, TradeUnits(planned.trades))
                      /\ x = gate[cur].side * size
<1>. DEFINE request == Request(size)
<1>1. /\ cur \in Instruments
      /\ inventory[cur] \in Int
      /\ store \in [Instruments -> Snapshot]
      /\ store[cur].trades \in Seq(Trade)
      /\ store[cur].last \in 0..MaxGate /\ published[cur].ts \in 0..MaxGate
      /\ MaxPositions \in Nat
  BY LedgerTypes, LimitsAssumption DEF LInv
<1>2. request \in Requests
  BY RequestType DEF LInv
<1>3. planned \in Snapshot
  BY <1>1, <1>2, PlanAllocationType
<1>4. /\ request.blocked <=> ~entry.tradable
      /\ request.ready = entry.ready
      /\ request.side = gate[cur].side /\ request.signal = gate[cur].ts
      /\ entry.ready => request.size = size
  BY DEF Request
<1>5. /\ Kept(store[cur].trades, store[cur].last)
      /\ store[cur].last <= published[cur].ts
      /\ store[cur].trades = <<>> => store[cur].last = 0
      /\ gate[cur].side # 0 => /\ store[cur].last <= gate[cur].ts
                               /\ gate[cur].ts <= published[cur].ts
      /\ ~entry.tradable => inventory[cur] = 0 /\ store[cur].trades = <<>>
  BY <1>1 DEF LInv, BooksInOrder, SnapshotsOK, GatesOK, HeldOK
<1>6. intact[cur] => TradeUnits(store[cur].trades) = tickets[cur]
  BY <1>1 DEF LInv, LedgersAgree, TradesOf, Closing
<1>. HIDE DEF request
<1>7. \/ request.blocked /\ planned.trades = <<>> /\ planned.last = 0
      \/ /\ ~request.blocked /\ request.ready /\ request.side # 0
         /\ request.signal # store[cur].last
         /\ Opened(request) \in Trade /\ Opened(request).units # 0
         /\ NetOfTrades(store[cur].trades) > 0 => Opened(request).units > 0
         /\ NetOfTrades(store[cur].trades) < 0 => Opened(request).units < 0
         /\ planned.trades = Append(store[cur].trades, Opened(request))
         /\ planned.last = request.signal
      \/ /\ planned.trades = store[cur].trades
         /\ planned.last = store[cur].last \/ (planned.last = 0 /\ planned.trades = <<>>)
  <2>1. planned = PlanAllocation(store, cur, inventory[cur], request, MaxPositions)
    BY DEF request
  <2>. QED
    BY <1>1, <1>2, <2>1, PlanOutcome
<1>8. store[cur].last \in Nat /\ published[cur].ts \in Nat /\ gate[cur].ts \in Nat
  BY <1>1, LedgerTypes, LoopAssumption DEF LInv, Gate
<1>9. CASE request.blocked /\ planned.trades = <<>> /\ planned.last = 0
  <2>1. store[cur].trades = <<>>
    BY <1>4, <1>5, <1>9
  <2>2. intact[cur] => TradeUnits(planned.trades) = tickets[cur]
    BY <1>6, <1>9, <2>1
  <2>. QED
    BY <1>3, <1>5, <1>8, <1>9, <2>1, <2>2, KeptNothing
<1>10. CASE /\ ~request.blocked /\ request.ready /\ request.side # 0
            /\ request.signal # store[cur].last
            /\ Opened(request) \in Trade /\ Opened(request).units # 0
            /\ NetOfTrades(store[cur].trades) > 0 => Opened(request).units > 0
            /\ NetOfTrades(store[cur].trades) < 0 => Opened(request).units < 0
            /\ planned.trades = Append(store[cur].trades, Opened(request))
            /\ planned.last = request.signal
  <2>1. Opened(request).signal = request.signal /\ Opened(request).units \in Int
    BY <1>10 DEF Opened, Trade
  <2>2. /\ request.signal = gate[cur].ts
        /\ store[cur].last <= gate[cur].ts /\ gate[cur].ts <= published[cur].ts
    BY <1>4, <1>5, <1>10
  <2>3. store[cur].last < request.signal /\ planned.last <= published[cur].ts
    BY <1>5, <1>8, <1>10, <2>2
  <2>4. PICK opened \in Trade : opened = Opened(request)
    BY <1>10
  <2>5. Kept(Append(store[cur].trades, opened), opened.signal)
    BY <1>1, <1>5, <1>8, <1>10, <2>1, <2>3, <2>4, KeptAppend
  <2>6. Kept(planned.trades, planned.last)
    BY <1>10, <2>1, <2>4, <2>5
  <2>7. TradeUnits(planned.trades) = Append(TradeUnits(store[cur].trades), opened.units)
    BY <1>1, <1>10, <2>4, TradeUnitsOfAppend
  <2>8. intact[cur] => Extends(tickets[cur], opened.units, TradeUnits(planned.trades))
    BY <1>6, <1>10, <2>1, <2>4, <2>7 DEF Extends, NetOfTrades
  <2>9. opened.units = gate[cur].side * size
    BY <1>4, <1>5, <1>10, <2>4 DEF Opened
  <2>10. planned.trades # <<>>
    BY <1>1, <1>10, <2>4, AppendProperties
  <2>. QED
    BY <1>3, <1>4, <1>10, <2>1, <2>3, <2>4, <2>6, <2>8, <2>9, <2>10
<1>11. CASE /\ planned.trades = store[cur].trades
            /\ planned.last = store[cur].last \/ (planned.last = 0 /\ planned.trades = <<>>)
  <2>1. Kept(planned.trades, planned.last)
    BY <1>5, <1>11, KeptNothing
  <2>2. /\ planned.last <= published[cur].ts /\ planned.last = store[cur].last
        /\ planned.trades = <<>> => planned.last = 0
    BY <1>5, <1>8, <1>11
  <2>3. intact[cur] => TradeUnits(planned.trades) = tickets[cur]
    BY <1>6, <1>11
  <2>. QED
    BY <1>3, <2>1, <2>2, <2>3
<1>. QED
  BY <1>7, <1>9, <1>10, <1>11


(***************************************************************************)
(* Where every allocation ends: the next instrument or the next cycle,     *)
(* with a snapshot in order and the gate used up.                          *)
(***************************************************************************)
LEMMA AllocationEnds ==
  ASSUME LInv, stage = "allocate", stage' \in {"stack", "idle"},
         UNCHANGED published,
         NEW c \in Instruments, c = cur,
         NEW s \in Snapshot, store' = [store EXCEPT ![cur] = s],
         Kept(s.trades, s.last), s.last <= published[cur].ts,
         s.trades = <<>> => s.last = 0,
         \A i \in Instruments : OneSided(tickets'[i]),
         gate' = [gate EXCEPT ![cur] = NoGate] \/ gate' = Everywhere(NoGate),
         \A i \in Instruments : i # c =>
           tickets'[i] = tickets[i] /\ inventory'[i] = inventory[i]
             /\ broker'[i] = broker[i] /\ intact'[i] = intact[i],
         intact'[c] => TradeUnits(s.trades) = tickets'[c] /\ inventory'[c] = broker'[c]
  PROVE  BooksInOrder' /\ LedgersAgree'
<1>1. store \in [Instruments -> Snapshot] /\ gate \in [Instruments -> Gate]
  BY LedgerTypes DEF LInv
<1>2. store'[c] = s /\ \A i \in Instruments : i # c => store'[i] = store[i]
  BY <1>1
<1>3. SnapshotsOK'
  BY <1>2 DEF LInv, BooksInOrder, SnapshotsOK
<1>4. PassOK' /\ HeldOK'
  BY DEF PassOK, HeldOK, Passing
<1>5. GatesOK'
  BY <1>1, <1>2 DEF LInv, BooksInOrder, GatesOK, NoGate, Everywhere
<1>6. ASSUME NEW i \in Instruments, intact'[i]
      PROVE  TradeUnits(TradesOf(i)') = tickets'[i] /\ inventory'[i] = broker'[i]
  <2>1. TradesOf(i)' = store'[i].trades
    BY DEF TradesOf, Closing
  <2>2. CASE i = c
    BY <1>2, <1>6, <2>1, <2>2
  <2>3. CASE i # c
    <3>1. intact[i]
      BY <1>6, <2>3
    <3>2. TradeUnits(store[i].trades) = tickets[i] /\ inventory[i] = broker[i]
      BY <3>1 DEF LInv, LedgersAgree, TradesOf, Closing
    <3>. QED
      BY <1>2, <2>1, <2>3, <3>2
  <2>. QED
    BY <2>2, <2>3
<1>. QED
  BY <1>3, <1>4, <1>5, <1>6 DEF BooksInOrder, LedgersAgree

(***************************************************************************)
(* The prior snapshot put back, whatever was planned.                      *)
(***************************************************************************)
LEMMA RestoreUndoes ==
  ASSUME LInv, NEW planned \in Snapshot, Restore(cur, planned)
  PROVE  store' = [store EXCEPT ![cur] = store[cur]] /\ store' = store
<1>1. store \in [Instruments -> Snapshot] /\ cur \in Instruments
  BY LedgerTypes DEF LInv
<1>2. store' = [store EXCEPT ![cur] = store[cur]]
  BY <1>1, RestoredIsPrior DEF Restore
<1>. QED
  BY <1>1, <1>2

LEMMA AllocateAgrees ==
  ASSUME LInv, Allocate
  PROVE  LInv'
<1>1. stage = "allocate" /\ UNCHANGED <<published, kill, exits>>
  BY DEF Allocate
<1>2. PICK size \in Sizes \cup {0} :
        LET planned == PlanAllocation(store, cur, inventory[cur], Request(size), MaxPositions)
            delta   == NetOfTrades(planned.trades) - inventory[cur]
        IN  \/ AllocateNothing(cur, planned)
            \/ AllocateRejected(cur, planned, delta)
            \/ AllocateOrder(cur, planned, delta)
  BY DEF Allocate
<1>. DEFINE plan == PlanAllocation(store, cur, inventory[cur], Request(size), MaxPositions)
<1>3. PICK planned \in Snapshot : planned = plan
  BY <1>1, PlanInOrder
<1>4. /\ Kept(planned.trades, planned.last)
      /\ planned.last <= published[cur].ts
      /\ planned.trades = <<>> => planned.last = 0
      /\ intact[cur] =>
           \/ TradeUnits(planned.trades) = tickets[cur]
           \/ \E x \in Int : Extends(tickets[cur], x, TradeUnits(planned.trades))
  BY <1>1, <1>3, PlanInOrder
<1>5. PICK net \in Int : net = NetOfTrades(planned.trades)
  <2>1. planned.trades \in Seq(Trade)
    BY DEF Snapshot
  <2>. QED
    BY <2>1, TradeUnitsType
<1>6. PICK c \in Instruments : c = cur
  BY LedgerTypes DEF LInv
<1>7. /\ broker \in [Instruments -> Int]
      /\ tickets \in [Instruments -> Seq(Int)]
      /\ inventory \in [Instruments -> Int]
      /\ intact \in [Instruments -> BOOLEAN]
      /\ inventory[c] = NetUnits(tickets[c])
      /\ \A i \in Instruments : OneSided(tickets[i])
      /\ store[cur] \in Snapshot
      /\ Kept(store[cur].trades, store[cur].last)
      /\ store[cur].last <= published[cur].ts
      /\ store[cur].trades = <<>> => store[cur].last = 0
  BY <1>6, LedgerTypes DEF LInv, BooksInOrder, SnapshotsOK
<1>8. PICK delta \in Int : delta = net - inventory[cur]
  BY <1>6, <1>7
<1>9. \/ AllocateNothing(cur, planned)
      \/ AllocateRejected(cur, planned, delta)
      \/ AllocateOrder(cur, planned, delta)
  BY <1>2, <1>3, <1>5, <1>8
<1>10. IInv'
  BY AllocateKeeps DEF LInv
<1>. HIDE DEF plan
<1>11. intact[c] => /\ TradeUnits(store[c].trades) = tickets[c]
                    /\ inventory[c] = broker[c]
  BY <1>1 DEF LInv, LedgersAgree, TradesOf, Closing
<1>12. ASSUME AfterStack
       PROVE  stage' \in {"stack", "idle"} /\ gate' = [gate EXCEPT ![cur] = NoGate]
  BY <1>12 DEF AfterStack, Advance
(* With the ledgers in line, a plan that leaves the net alone leaves the   *)
(* trades alone.                                                           *)
<1>13. ASSUME intact[c], net = inventory[c]
       PROVE  TradeUnits(planned.trades) = tickets[c]
  <2>1. ASSUME NEW x \in Int, Extends(tickets[c], x, TradeUnits(planned.trades))
        PROVE  FALSE
    <3>1. net = NetUnits(tickets[c]) + x
      BY <1>5, <1>7, <2>1, NetUnitsOfAppend DEF Extends, NetOfTrades
    <3>2. NetUnits(tickets[c]) \in Int
      BY <1>7
    <3>. QED
      BY <1>7, <1>13, <2>1, <3>1, <3>2 DEF Extends
  <2>. QED
    BY <1>4, <1>6, <1>13, <2>1
<1>14. CASE AllocateNothing(cur, planned)
  <2>1. /\ net = inventory[cur]
        /\ store' = [store EXCEPT ![cur] = planned]
        /\ AfterStack
        /\ UNCHANGED <<broker, tickets, inventory, intact>>
    BY <1>5, <1>14 DEF AllocateNothing, Commit
  <2>2. intact'[c] => TradeUnits(planned.trades) = tickets'[c] /\ inventory'[c] = broker'[c]
    BY <1>6, <1>11, <1>13, <2>1
  <2>. QED
    BY <1>1, <1>4, <1>6, <1>7, <1>10, <1>12, <2>1, <2>2, AllocationEnds DEF LInv
<1>15. CASE AllocateRejected(cur, planned, delta)
  <2>1. /\ store' = [store EXCEPT ![cur] = store[cur]]
        /\ AfterStack
        /\ UNCHANGED <<broker, tickets, inventory, intact>>
    BY <1>15, RestoreUndoes DEF AllocateRejected
  <2>2. intact'[c] => TradeUnits(store[cur].trades) = tickets'[c] /\ inventory'[c] = broker'[c]
    BY <1>6, <1>11, <2>1
  <2>3. PICK s \in Snapshot : s = store[cur]
    BY <1>7
  <2>. QED
    BY <1>1, <1>6, <1>7, <1>10, <1>12, <2>1, <2>2, <2>3, AllocationEnds DEF LInv
<1>16. CASE AllocateOrder(cur, planned, delta)
  <2>1. PICK reply \in Replies :
          /\ broker' = [broker EXCEPT ![cur] = @ + reply.fills * delta]
          /\ intact' = [intact EXCEPT ![cur] = @ /\ reply \in {Filled, Rejected}]
          /\ CASE Confirmed(reply) ->
                    /\ Commit(cur, planned)
                    /\ inventory' = [inventory EXCEPT ![cur] = @ + delta]
                    /\ tickets' = [tickets EXCEPT
                         ![cur] = SyncToNetPosition(@, inventory[cur] + delta)]
                    /\ AfterStack
               [] reply.kind = "none" ->
                    /\ Restore(cur, planned)
                    /\ AfterStack
                    /\ UNCHANGED <<tickets, inventory, cooldown>>
               [] reply.kind = "error" ->
                    /\ store' = [store EXCEPT ![cur] = planned]
                    /\ stage' = "idle"
                    /\ cur' = 1
                    /\ gate' = Everywhere(NoGate)
                    /\ entry' = NoEntry
                    /\ UNCHANGED <<tickets, inventory, cooldown>>
    BY <1>16 DEF AllocateOrder
  <2>2. reply.kind \in {"fill", "empty", "none", "error"} /\ reply.fills \in Int
    BY LoopAssumption DEF Reply
  <2>3. /\ broker'[c] = broker[c] + reply.fills * delta
        /\ intact'[c] => intact[c] /\ reply \in {Filled, Rejected}
        /\ \A i \in Instruments : i # c => broker'[i] = broker[i] /\ intact'[i] = intact[i]
    BY <1>6, <1>7, <2>1
  <2>4. CASE Confirmed(reply)
    <3>1. /\ store' = [store EXCEPT ![cur] = planned]
          /\ inventory' = [inventory EXCEPT ![cur] = inventory[cur] + delta]
          /\ tickets' = [tickets EXCEPT
               ![cur] = SyncToNetPosition(tickets[cur], inventory[cur] + delta)]
          /\ AfterStack
      BY <1>6, <1>7, <2>1, <2>2, <2>4 DEF Confirmed, Commit
    <3>2. inventory[cur] + delta = net
      BY <1>6, <1>7, <1>8
    <3>3. /\ inventory'[c] = net
          /\ tickets'[c] = SyncToNetPosition(tickets[c], net)
          /\ \A i \in Instruments : i # c =>
               tickets'[i] = tickets[i] /\ inventory'[i] = inventory[i]
      BY <1>6, <1>7, <3>1, <3>2
    <3>4. \A i \in Instruments : OneSided(tickets'[i])
      BY <1>7, <3>3, SyncKeepsOneSided
    <3>5. ASSUME intact'[c]
          PROVE  TradeUnits(planned.trades) = tickets'[c] /\ inventory'[c] = broker'[c]
      <4>1. intact[c] /\ reply = Filled
        BY <2>3, <2>4, <3>5 DEF Confirmed, Rejected
      <4>2. broker'[c] = net
        <5>1. reply.fills = 1
          BY <4>1 DEF Filled
        <5>2. broker[c] \in Int /\ broker[c] = inventory[c]
          BY <1>7, <1>11, <4>1
        <5>. QED
          BY <1>6, <1>8, <2>3, <5>1, <5>2
      <4>3. CASE TradeUnits(planned.trades) = tickets[c]
        <5>1. net = NetUnits(tickets[c])
          BY <1>5, <4>3 DEF NetOfTrades
        <5>2. SyncToNetPosition(tickets[c], NetUnits(tickets[c])) = tickets[c]
          BY <1>7 DEF SyncToNetPosition
        <5>. QED
          BY <3>3, <4>2, <4>3, <5>1, <5>2
      <4>4. ASSUME NEW x \in Int, Extends(tickets[c], x, TradeUnits(planned.trades))
            PROVE  TradeUnits(planned.trades) = tickets'[c]
        <5>1. net = NetUnits(tickets[c]) + x
          BY <1>5, <1>7, <4>4, NetUnitsOfAppend DEF Extends, NetOfTrades
        <5>2. SyncToNetPosition(tickets[c], NetUnits(tickets[c]) + x) = Append(tickets[c], x)
          BY <1>7, <4>4, SyncOfEntry DEF Extends
        <5>. QED
          BY <3>3, <4>4, <5>1, <5>2 DEF Extends
      <4>. QED
        BY <1>4, <1>6, <3>3, <4>1, <4>2, <4>3, <4>4
    <3>. QED
      BY <1>1, <1>4, <1>6, <1>10, <1>12, <2>3, <3>1, <3>3, <3>4, <3>5, AllocationEnds DEF LInv
  <2>5. CASE reply.kind = "none"
    <3>1. /\ store' = [store EXCEPT ![cur] = store[cur]]
          /\ AfterStack
          /\ UNCHANGED <<tickets, inventory>>
      BY <2>1, <2>5, RestoreUndoes DEF Confirmed
    <3>2. ASSUME intact'[c]
          PROVE  TradeUnits(store[cur].trades) = tickets'[c] /\ inventory'[c] = broker'[c]
      <4>1. intact[c] /\ reply.fills = 0
        BY <2>3, <2>5, <3>2 DEF Filled, Rejected
      <4>2. broker'[c] = broker[c]
        BY <1>7, <2>3, <4>1
      <4>. QED
        BY <1>6, <1>11, <3>1, <4>1, <4>2
    <3>3. PICK s \in Snapshot : s = store[cur]
      BY <1>7
    <3>. QED
      BY <1>1, <1>6, <1>7, <1>10, <1>12, <2>3, <3>1, <3>2, <3>3, AllocationEnds DEF LInv
  <2>6. CASE reply.kind = "error"
    <3>1. /\ store' = [store EXCEPT ![cur] = planned]
          /\ stage' = "idle"
          /\ gate' = Everywhere(NoGate)
          /\ UNCHANGED <<tickets, inventory>>
      BY <2>1, <2>6 DEF Confirmed
    <3>2. ~intact'[c]
      BY <2>3, <2>6 DEF Filled, Rejected
    <3>. QED
      BY <1>1, <1>4, <1>6, <1>7, <1>10, <2>3, <3>1, <3>2, AllocationEnds DEF LInv
  <2>. QED
    BY <2>2, <2>4, <2>5, <2>6 DEF Confirmed
<1>. QED
  BY <1>9, <1>14, <1>15, <1>16


------------------------------------------------------------------------------
(* The other actors *)

(***************************************************************************)
(* A newer gate leaves the signals remembered, and the gates loaded,       *)
(* behind it.                                                              *)
(***************************************************************************)
LEMMA PublishGateAgrees ==
  ASSUME LInv, NEW i \in Instruments, PublishGate(i)
  PROVE  LInv'
<1>1. UNCHANGED <<broker, ledger, intact, stage, cur, exits, entry, gate>>
  BY DEF PublishGate, memory, locals
<1>2. PICK side \in {-1, 0, 1} :
        published' = [published EXCEPT ![i] = [ts |-> published[i].ts + 1, side |-> side]]
  BY DEF PublishGate
<1>3. published \in [Instruments -> Gate]
  BY LedgerTypes DEF LInv
<1>4. ASSUME NEW j \in Instruments
      PROVE  /\ store'[j].last <= published'[j].ts
             /\ gate[j].ts <= published[j].ts => gate'[j].ts <= published'[j].ts
  <2>1. /\ store[j].last \in 0..MaxGate /\ published[j].ts \in 0..MaxGate
        /\ gate[j].ts \in 0..MaxGate
    BY LedgerTypes DEF LInv, Gate
  <2>2. store[j].last <= published[j].ts
    BY DEF LInv, BooksInOrder, SnapshotsOK
  <2>3. published'[j].ts = published[j].ts \/ published'[j].ts = published[j].ts + 1
    BY <1>2, <1>3
  <2>. QED
    BY <1>1, <2>1, <2>2, <2>3, LoopAssumption DEF ledger
<1>5. SnapshotsOK'
  BY <1>1, <1>4 DEF LInv, BooksInOrder, SnapshotsOK, ledger
<1>6. PassOK' /\ GatesOK' /\ HeldOK'
  BY <1>1, <1>4 DEF LInv, BooksInOrder, PassOK, Passing, GatesOK, HeldOK, ledger
<1>7. LedgersAgree'
  BY <1>1 DEF LInv, LedgersAgree, TradesOf, Closing, ledger
<1>. QED
  BY <1>5, <1>6, <1>7, PublishGateKeeps DEF LInv, BooksInOrder

LEMMA CooldownLapsesAgrees ==
  ASSUME LInv, NEW i \in Instruments, CooldownLapses(i)
  PROVE  LInv'
<1>1. /\ stage \in {"idle", "stack"}
      /\ UNCHANGED <<broker, published, ledger, intact, stage, cur, exits, entry, gate>>
  BY DEF CooldownLapses, world, locals
<1>2. SnapshotsOK'
  BY <1>1, SnapshotsUnchanged DEF LInv, BooksInOrder
<1>3. PassOK' /\ GatesOK' /\ HeldOK'
  BY <1>1 DEF LInv, BooksInOrder, PassOK, Passing, GatesOK, HeldOK, ledger
<1>4. LedgersAgree'
  BY <1>1, AgreementUnchanged DEF LInv, Passing
<1>. QED
  BY <1>2, <1>3, <1>4, CooldownLapsesKeeps DEF LInv, BooksInOrder

(***************************************************************************)
(* The API thread touches no book of the process; where it moves the       *)
(* broker, the ledgers are no longer in line.                              *)
(***************************************************************************)
LEMMA ApiAgrees ==
  ASSUME LInv, UNCHANGED <<published, ledger, stage, cur, exits, entry, gate>>,
         \A i \in Instruments : intact'[i] => intact[i] /\ broker'[i] = broker[i]
  PROVE  BooksInOrder' /\ LedgersAgree'
<1>1. SnapshotsOK'
  BY SnapshotsUnchanged DEF LInv, BooksInOrder
<1>2. PassOK' /\ GatesOK' /\ HeldOK'
  BY DEF LInv, BooksInOrder, PassOK, Passing, GatesOK, HeldOK, ledger
<1>3. \A i \in Instruments : TradesOf(i)' = TradesOf(i)
  BY DEF TradesOf, Closing, ledger
<1>4. LedgersAgree'
  BY <1>3 DEF LInv, LedgersAgree, ledger
<1>. QED
  BY <1>1, <1>2, <1>4 DEF BooksInOrder

LEMMA ApiStepAgrees ==
  ASSUME LInv, ApiStep
  PROVE  LInv'
<1>1. broker \in [Instruments -> Int] /\ intact \in [Instruments -> BOOLEAN]
  BY LedgerTypes DEF LInv
<1>2. CASE SetKillSwitch
  <2>1. UNCHANGED <<broker, intact, published, ledger, stage, cur, exits, entry, gate>>
    BY <1>2 DEF SetKillSwitch, world, memory, locals
  <2>. QED
    BY <1>2, <2>1, ApiAgrees, SetKillSwitchKeeps DEF LInv
<1>3. ASSUME NEW i \in Instruments, NEW n,
             broker' = [broker EXCEPT ![i] = n],
             intact' = [intact EXCEPT ![i] = FALSE],
             UNCHANGED <<published, memory, kill, stage, cur>>
      PROVE  BooksInOrder' /\ LedgersAgree'
  <2>1. \A j \in Instruments : intact'[j] => intact[j] /\ broker'[j] = broker[j]
    BY <1>1, <1>3
  <2>2. UNCHANGED <<published, ledger, stage, cur, exits, entry, gate>>
    BY <1>3 DEF memory, locals
  <2>. QED
    BY <2>1, <2>2, ApiAgrees
<1>4. ASSUME NEW i \in Instruments, ClosePosition(i) PROVE BooksInOrder' /\ LedgersAgree'
  <2>1. PICK n \in 1..Magnitude(broker[i]) :
          broker' = [broker EXCEPT ![i] = @ - Side(@) * n]
    BY <1>4 DEF ClosePosition
  <2>2. broker' = [broker EXCEPT ![i] = broker[i] - Side(broker[i]) * n]
    BY <1>1, <2>1
  <2>3. /\ intact' = [intact EXCEPT ![i] = FALSE]
        /\ UNCHANGED <<published, memory, kill, stage, cur>>
    BY <1>4, Zenon DEF ClosePosition
  <2>. QED
    BY <1>3, <2>2, <2>3
<1>5. ASSUME NEW i \in Instruments, NEW u \in ApiUnits, PlaceOrder(i, u)
      PROVE  BooksInOrder' /\ LedgersAgree'
  <2>1. broker' = [broker EXCEPT ![i] = broker[i] + u]
    BY <1>1, <1>5 DEF PlaceOrder
  <2>2. /\ intact' = [intact EXCEPT ![i] = FALSE]
        /\ UNCHANGED <<published, memory, kill, stage, cur>>
    BY <1>5 DEF PlaceOrder
  <2>. QED
    BY <1>3, <2>1, <2>2
<1>6. IInv'
  BY ApiStepKeeps DEF LInv
<1>. QED
  BY <1>2, <1>4, <1>5, <1>6 DEF ApiStep, LInv

(***************************************************************************)
(* After a crash the empty books are in line where the broker is flat.     *)
(***************************************************************************)
LEMMA CrashAgrees ==
  ASSUME LInv, Crash
  PROVE  LInv'
<1>1. /\ stage' = "down"
      /\ store' = Everywhere(NoTrades)
      /\ tickets' = Everywhere(<<>>)
      /\ inventory' = Everywhere(0)
      /\ intact' = [i \in Instruments |-> broker[i] = 0]
      /\ UNCHANGED <<broker, published>>
  BY DEF Crash, world
<1>2. \A i \in Instruments : 0 <= published[i].ts
  BY LedgerTypes, LoopAssumption DEF LInv
<1>3. SnapshotsOK'
  BY <1>1, <1>2, NoTradesKept DEF SnapshotsOK
<1>4. PassOK' /\ GatesOK' /\ HeldOK'
  BY <1>1 DEF PassOK, Passing, GatesOK, HeldOK
<1>5. ASSUME NEW i \in Instruments, intact'[i]
      PROVE  TradeUnits(TradesOf(i)') = tickets'[i] /\ inventory'[i] = broker'[i]
  BY <1>1, <1>5, NoTradesKept DEF TradesOf, Closing
<1>6. LedgersAgree'
  BY <1>5 DEF LedgersAgree
<1>. QED
  BY <1>3, <1>4, <1>6, CrashKeeps DEF LInv, BooksInOrder


------------------------------------------------------------------------------
(* The ledgers stay in line *)

(***************************************************************************)
(* No step of any actor leaves the invariant.                              *)
(***************************************************************************)
LEMMA NextAgrees == LInv /\ [Next]_vars => LInv'
<1>. SUFFICES ASSUME LInv, [Next]_vars PROVE LInv'
  OBVIOUS
<1>1. CASE Boot
  BY <1>1, BootAgrees
<1>2. CASE LoopStep
  BY <1>2, BeginCycleAgrees, LoadGatesAgrees, CycleFailsAgrees, TpslExitAgrees,
     ExpiryExitAgrees, CloseTicketAgrees, ProcessInstrumentAgrees, AllocateAgrees
     DEF LoopStep
<1>3. CASE ApiStep
  BY <1>3, ApiStepAgrees
<1>4. CASE \E i \in Instruments : PublishGate(i) \/ CooldownLapses(i)
  BY <1>4, PublishGateAgrees, CooldownLapsesAgrees
<1>5. CASE Crash
  BY <1>5, CrashAgrees
<1>6. CASE UNCHANGED vars
  <2>1. UNCHANGED <<published, ledger, stage, cur, exits, entry, gate, broker, intact>>
    BY <1>6 DEF vars, world, memory, locals
  <2>2. IInv'
    BY <1>6, NextKeeps DEF LInv
  <2>. QED
    BY <2>1, <2>2, ApiAgrees DEF LInv
<1>. QED
  BY <1>1, <1>2, <1>3, <1>4, <1>5, <1>6 DEF Next

LEMMA LedgerInvariant == Spec => []LInv
  BY InitLInv, NextAgrees, PTL DEF Spec

(***************************************************************************)
(* As long as no answer was lost, trades, tickets, inventory and the       *)
(* broker's position agree on an instrument between any two calls, for     *)
(* every schedule of the loop, the API, the gates and crashes.             *)
(***************************************************************************)
THEOREM LedgersStayInLine == Spec => []LedgersAgree
<1>1. LInv => LedgersAgree
  BY DEF LInv
<1>. QED
  BY <1>1, LedgerInvariant, PTL

(***************************************************************************)
(* Neither book ever holds opposite units, whatever was lost.              *)
(***************************************************************************)
THEOREM BooksStayOneSided == Spec => []BooksOneSided
<1>1. LInv => BooksOneSided
  BY DEF LInv, BooksInOrder, SnapshotsOK, Kept, BooksOneSided
<1>. QED
  BY <1>1, LedgerInvariant, PTL

(***************************************************************************)
(* A gate opens at most one of the open trades of an instrument, whatever  *)
(* was lost, restored or rebuilt in between.                               *)
(***************************************************************************)
THEOREM GateOpensOneTrade == Spec => []OneTradePerSignal
<1>1. LInv => OneTradePerSignal
  BY DEF LInv, BooksInOrder, SnapshotsOK, Kept, Entered, OneTradePerSignal
<1>. QED
  BY <1>1, LedgerInvariant, PTL

------------------------------------------------------------------------------
(* What an allocation may do *)

(***************************************************************************)
(* With the ledgers in line an allocation either leaves the broker and the *)
(* signal memory alone, or sends an admitted entry on the side held.       *)
(***************************************************************************)
LEMMA AllocationOutcome ==
  ASSUME LInv, Allocate, NEW c \in Instruments, c = cur, intact[c]
  PROVE  \/ broker' = broker /\ store'[c].last = store[c].last
         \/ /\ entry.ready
            /\ \E x \in Int, fills \in Nat :
                 /\ x # 0
                 /\ broker[c] > 0 => x > 0
                 /\ broker[c] < 0 => x < 0
                 /\ broker'[c] = broker[c] + fills * x
                 /\ intact'[c] => fills = 1 \/ store'[c].last = store[c].last
<1>1. stage = "allocate"
  BY DEF Allocate
<1>2. PICK size \in Sizes \cup {0} :
        LET planned == PlanAllocation(store, cur, inventory[cur], Request(size), MaxPositions)
            delta   == NetOfTrades(planned.trades) - inventory[cur]
        IN  \/ AllocateNothing(cur, planned)
            \/ AllocateRejected(cur, planned, delta)
            \/ AllocateOrder(cur, planned, delta)
  BY DEF Allocate
<1>. DEFINE plan == PlanAllocation(store, cur, inventory[cur], Request(size), MaxPositions)
<1>3. PICK planned \in Snapshot : planned = plan
  BY <1>1, PlanInOrder
<1>4. \/ /\ TradeUnits(planned.trades) = tickets[c]
         /\ planned.last = store[c].last
      \/ /\ entry.ready
         /\ \E x \in Int : Extends(tickets[c], x, TradeUnits(planned.trades))
  BY <1>1, <1>3, PlanInOrder
<1>5. /\ broker \in [Instruments -> Int]
      /\ store \in [Instruments -> Snapshot]
      /\ tickets \in [Instruments -> Seq(Int)]
      /\ intact \in [Instruments -> BOOLEAN]
      /\ inventory[c] = NetUnits(tickets[c])
      /\ inventory[c] = broker[c]
  BY <1>1, LedgerTypes DEF LInv, LedgersAgree
<1>6. PICK delta : delta = NetOfTrades(planned.trades) - inventory[cur]
  OBVIOUS
<1>7. \/ AllocateNothing(cur, planned)
      \/ AllocateRejected(cur, planned, delta)
      \/ AllocateOrder(cur, planned, delta)
  BY <1>2, <1>3, <1>6
<1>. HIDE DEF plan
<1>8. ASSUME Restore(cur, planned)
      PROVE  store'[c].last = store[c].last
  BY <1>8, RestoreUndoes
<1>9. CASE /\ TradeUnits(planned.trades) = tickets[c]
           /\ planned.last = store[c].last
  <2>1. NetOfTrades(planned.trades) = inventory[c] /\ inventory[c] \in Int
    BY <1>5, <1>9 DEF NetOfTrades
  <2>2. delta = 0
    BY <1>6, <2>1
  <2>3. ~AllocateOrder(cur, planned, delta)
    BY <2>2 DEF AllocateOrder
  <2>4. CASE AllocateNothing(cur, planned)
    BY <1>5, <1>9, <2>4 DEF AllocateNothing, Commit
  <2>5. CASE AllocateRejected(cur, planned, delta)
    BY <1>8, <2>5 DEF AllocateRejected
  <2>. QED
    BY <1>7, <2>3, <2>4, <2>5
<1>10. ASSUME entry.ready, NEW x \in Int,
              Extends(tickets[c], x, TradeUnits(planned.trades))
       PROVE  \/ broker' = broker /\ store'[c].last = store[c].last
              \/ \E fills \in Nat :
                   /\ broker'[c] = broker[c] + fills * x
                   /\ intact'[c] => fills = 1 \/ store'[c].last = store[c].last
  <2>1. NetOfTrades(planned.trades) = inventory[c] + x
    BY <1>5, <1>10, NetUnitsOfAppend DEF Extends, NetOfTrades
  <2>2. x # 0 /\ inventory[c] \in Int /\ delta = x
    BY <1>5, <1>6, <1>10, <2>1 DEF Extends
  <2>3. ~AllocateNothing(cur, planned)
    BY <2>1, <2>2 DEF AllocateNothing
  <2>4. CASE AllocateRejected(cur, planned, delta)
    BY <1>8, <2>4 DEF AllocateRejected
  <2>5. CASE AllocateOrder(cur, planned, delta)
    <3>1. PICK reply \in Replies :
            /\ broker' = [broker EXCEPT ![cur] = @ + reply.fills * delta]
            /\ intact' = [intact EXCEPT ![cur] = @ /\ reply \in {Filled, Rejected}]
            /\ reply.kind = "none" => Restore(cur, planned)
      BY <2>5, LoopAssumption DEF AllocateOrder, Confirmed
    <3>2. reply.fills \in Nat
      BY LoopAssumption DEF Reply
    <3>3. broker'[c] = broker[c] + reply.fills * x
      BY <1>5, <2>2, <3>1
    <3>4. intact'[c] => reply \in {Filled, Rejected}
      BY <1>5, <3>1
    <3>5. intact'[c] => reply.fills = 1 \/ store'[c].last = store[c].last
      BY <1>8, <3>1, <3>4 DEF Filled, Rejected
    <3>. QED
      BY <3>2, <3>3, <3>5
  <2>. QED
    BY <1>7, <2>3, <2>4, <2>5
<1>11. ASSUME NEW x \in Int, Extends(tickets[c], x, TradeUnits(planned.trades))
       PROVE  x # 0 /\ (broker[c] > 0 => x > 0) /\ (broker[c] < 0 => x < 0)
  BY <1>5, <1>11 DEF Extends
<1>. QED
  BY <1>4, <1>9, <1>10, <1>11

(***************************************************************************)
(* The loop leaves its allocation in no other way, short of a crash.       *)
(***************************************************************************)
LEMMA AllocatingIsAllocate ==
  ASSUME LInv, [Next]_vars, Allocating
  PROVE  Allocate
<1>1. stage = "allocate" /\ stage' # "allocate" /\ stage' # "down"
  BY DEF Allocating
<1>2. ~Boot /\ ~UNCHANGED vars /\ ~Crash /\ ~ApiStep
  BY <1>1 DEF Boot, vars, Crash, ApiStep, SetKillSwitch, PlaceOrder, ClosePosition
<1>3. ~\E i \in Instruments : PublishGate(i) \/ CooldownLapses(i)
  BY <1>1 DEF PublishGate, CooldownLapses
<1>4. LoopStep
  BY <1>2, <1>3 DEF Next
<1>. QED
  BY <1>1, <1>4 DEF LoopStep, BeginCycle, LoadGates, CycleFails, TpslExit, ExpiryExit,
     CloseTicket, ProcessInstrument

(***************************************************************************)
(* What fills of an entry on the side held do to the size of a position.   *)
(***************************************************************************)
LEMMA FillsEnlarge ==
  ASSUME NEW b \in Int, NEW x \in Int, NEW fills \in Nat,
         b > 0 => x > 0, b < 0 => x < 0, b + fills * x # b
  PROVE  Magnitude(b + fills * x) > Magnitude(b)
<1>1. PICK m \in Int : m = fills * x
  OBVIOUS
<1>2. (x > 0 => m >= 0) /\ (x < 0 => m <= 0)
  BY <1>1
<1>. QED
  BY <1>1, <1>2 DEF Magnitude

(***************************************************************************)
(* With the ledgers in line an allocation leaves the account alone or adds *)
(* an admitted entry to it, whatever the broker answered before.           *)
(***************************************************************************)
THEOREM AllocationsOnlyEnter == Spec => AllocationOnlyEnters
<1>1. LInv /\ [Next]_vars =>
        [Allocating /\ intact[cur] =>
           broker'[cur] = broker[cur] \/ (Grows(cur) /\ entry.ready)]_vars
  <2>. SUFFICES ASSUME LInv, [Next]_vars, Allocating, intact[cur], broker'[cur] # broker[cur]
                PROVE  Grows(cur) /\ entry.ready
    OBVIOUS
  <2>1. PICK c \in Instruments : c = cur
    BY LedgerTypes DEF LInv
  <2>2. broker[c] \in Int
    BY LedgerTypes DEF LInv
  <2>3. /\ entry.ready
        /\ \E x \in Int, fills \in Nat :
             /\ broker[c] > 0 => x > 0
             /\ broker[c] < 0 => x < 0
             /\ broker'[c] = broker[c] + fills * x
    BY <2>1, AllocatingIsAllocate, AllocationOutcome
  <2>4. PICK b \in Int : b = broker[c]
    BY <2>2
  <2>5. PICK x \in Int, fills \in Nat :
          (b > 0 => x > 0) /\ (b < 0 => x < 0) /\ broker'[c] = b + fills * x
    BY <2>3, <2>4
  <2>6. Magnitude(b + fills * x) > Magnitude(b)
    BY <2>1, <2>4, <2>5, FillsEnlarge
  <2>. QED
    BY <2>1, <2>3, <2>4, <2>5, <2>6 DEF Grows
<1>. QED
  BY <1>1, LedgerInvariant, PTL DEF Spec, AllocationOnlyEnters

(***************************************************************************)
(* An entry that was turned down, by the limits or by the broker, leaves   *)
(* its gate unused, and the gate acted on last remembered.                 *)
(***************************************************************************)
THEOREM TurnedDownKeepsSignal == Spec => RejectionKeepsSignal
<1>1. LInv /\ [Next]_vars =>
        [Allocating /\ intact'[cur] /\ broker' = broker =>
           store'[cur].last = store[cur].last]_vars
  <2>. SUFFICES ASSUME LInv, [Next]_vars, Allocating, intact'[cur], broker' = broker
                PROVE  store'[cur].last = store[cur].last
    OBVIOUS
  <2>1. PICK c \in Instruments : c = cur
    BY LedgerTypes DEF LInv
  <2>2. Allocate
    BY AllocatingIsAllocate
  <2>3. intact[c] /\ intact'[c] /\ broker[c] \in Int
    BY <2>1, <2>2, LedgerTypes DEF LInv, Allocate, AllocateNothing, AllocateRejected,
       AllocateOrder
  <2>4. CASE store'[c].last = store[c].last
    BY <2>1, <2>4
  <2>5. CASE store'[c].last # store[c].last
    <3>1. PICK x \in Int, fills \in Nat :
            x # 0 /\ fills = 1 /\ broker'[c] = broker[c] + fills * x
      BY <2>1, <2>2, <2>3, <2>5, AllocationOutcome
    <3>2. broker'[c] = broker[c] + x
      BY <3>1
    <3>. QED
      BY <2>3, <3>1, <3>2
  <2>. QED
    BY <2>4, <2>5
<1>. QED
  BY <1>1, LedgerInvariant, PTL DEF Spec, RejectionKeepsSignal


------------------------------------------------------------------------------
(* The account and the limits *)

(***************************************************************************)
(* The gross exposure when one position changes.                           *)
(***************************************************************************)
LEMMA ExposureOfChange ==
  ASSUME NEW b \in [Instruments -> Int], NEW c \in Instruments, NEW n \in Int
  PROVE  /\ Exposure(b) \in Int
         /\ Exposure([b EXCEPT ![c] = n]) = (Exposure(b) - Magnitude(b[c])) + Magnitude(n)
<1>1. NumInstruments \in Nat /\ Instruments = 1..NumInstruments
  BY LoopAssumption DEF Instruments
<1>2. \A i \in Instruments : Magnitude(b[i]) \in Int
  BY DEF Magnitude
<1>3. Magnitude(n) \in Int
  BY DEF Magnitude
<1>4. PICK g : g = Gross(b)
  OBVIOUS
<1>5. g = [i \in 1..NumInstruments |-> Magnitude(b[i])]
  BY <1>1, <1>4 DEF Gross
<1>6. g \in Seq(Int) /\ Len(g) = NumInstruments
  <2>1. g \in Seq(Int)
    BY <1>1, <1>2, <1>5, IsASeq
  <2>2. DOMAIN g = 1..NumInstruments
    BY <1>5
  <2>. QED
    BY <1>1, <2>1, <2>2, LenProperties
<1>7. Gross([b EXCEPT ![c] = n]) = [g EXCEPT ![c] = Magnitude(n)]
  <2>1. Gross([b EXCEPT ![c] = n]) =
          [i \in Instruments |-> Magnitude(IF i = c THEN n ELSE b[i])]
    BY DEF Gross
  <2>2. \A i \in Instruments : Magnitude(IF i = c THEN n ELSE b[i]) =
                                 IF i = c THEN Magnitude(n) ELSE g[i]
    BY <1>1, <1>5
  <2>. QED
    BY <1>1, <1>5, <2>1, <2>2
<1>8. c \in 1..Len(g) /\ g[c] = Magnitude(b[c])
  BY <1>1, <1>5, <1>6
<1>9. PICK m \in Int : m = Magnitude(n)
  BY <1>3
<1>10. NetUnits([g EXCEPT ![c] = m]) = (NetUnits(g) - g[c]) + m
  BY <1>6, <1>8, NetUnitsOfReplaced
<1>11. NetUnits(g) \in Int
  BY <1>6, NetUnitsType
<1>12. Exposure(b) = NetUnits(g) /\ Exposure([b EXCEPT ![c] = n]) = NetUnits([g EXCEPT ![c] = m])
  BY <1>4, <1>7, <1>9, Zenon DEF Exposure
<1>. QED
  BY <1>8, <1>9, <1>10, <1>11, <1>12

LEMMA ExposureOfNothing == Exposure(Everywhere(0)) = 0
<1>1. NumInstruments \in Nat /\ Instruments = 1..NumInstruments
  BY LoopAssumption DEF Instruments
<1>2. PICK g : g = Gross(Everywhere(0))
  OBVIOUS
<1>3. g = [i \in 1..NumInstruments |-> 0]
  BY <1>1, <1>2 DEF Gross, Everywhere, Magnitude
<1>4. g \in Seq(Int)
  BY <1>1, <1>3, IsASeq
<1>5. Len(g) = NumInstruments
  <2>1. DOMAIN g = 1..NumInstruments
    BY <1>3
  <2>. QED
    BY <1>1, <1>4, <2>1, LenProperties
<1>. QED
  BY <1>2, <1>3, <1>4, <1>5, NetUnitsOfZeros DEF Exposure

(***************************************************************************)
(* The instruments held when one position changes.                         *)
(***************************************************************************)
LEMMA OpenPositionsOfChange ==
  ASSUME NEW b \in [Instruments -> Int], NEW c \in Instruments, NEW n \in Int
  PROVE  /\ OpenPositions(b) \in Nat
         /\ OpenPositions([b EXCEPT ![c] = n]) \in Nat
         /\ OpenPositions([b EXCEPT ![c] = n]) <= OpenPositions(b) + 1
         /\ b[c] # 0 \/ n = 0 => OpenPositions([b EXCEPT ![c] = n]) <= OpenPositions(b)
<1>. DEFINE held == {i \in Instruments : b[i] # 0}
            next == {i \in Instruments : [b EXCEPT ![c] = n][i] # 0}
<1>1. OpenPositions(b) = Cardinality(held)
      /\ OpenPositions([b EXCEPT ![c] = n]) = Cardinality(next)
  BY DEF OpenPositions
<1>2. IsFiniteSet(Instruments)
  BY LoopAssumption, FS_Interval DEF Instruments
<1>3. IsFiniteSet(held) /\ IsFiniteSet(next)
  BY <1>2, FS_Subset
<1>4. next \subseteq held \cup {c}
  OBVIOUS
<1>5. b[c] # 0 \/ n = 0 => next \subseteq held
  OBVIOUS
<1>. HIDE DEF held, next
<1>6. IsFiniteSet(held \cup {c}) /\ Cardinality(held \cup {c}) <= Cardinality(held) + 1
  <2>1. Cardinality(held) \in Nat
    BY <1>3, FS_CardinalityType
  <2>2. PICK more : more = held \cup {c}
    OBVIOUS
  <2>3. /\ IsFiniteSet(more)
        /\ Cardinality(more) = IF c \in held THEN Cardinality(held) ELSE Cardinality(held) + 1
    BY <1>3, <2>2, FS_AddElement, Zenon
  <2>. QED
    BY <2>1, <2>2, <2>3
<1>7. Cardinality(next) <= Cardinality(held \cup {c})
  BY <1>4, <1>6, FS_Subset
<1>8. b[c] # 0 \/ n = 0 => Cardinality(next) <= Cardinality(held)
  BY <1>3, <1>5, FS_Subset
<1>9. /\ Cardinality(held) \in Nat /\ Cardinality(next) \in Nat
      /\ Cardinality(held \cup {c}) \in Nat
  BY <1>3, <1>6, FS_CardinalityType
<1>. QED
  BY <1>1, <1>6, <1>7, <1>8, <1>9


(***************************************************************************)
(* The limits after a position shrank, and after an order that can_add let *)
(* pass.                                                                   *)
(***************************************************************************)
LEMMA ShrinkKeepsLimits ==
  ASSUME broker \in [Instruments -> Int], NEW c \in Instruments, NEW n \in Int,
         Magnitude(n) <= Magnitude(broker[c]),
         broker' = [broker EXCEPT ![c] = n]
  PROVE  /\ PositionsWithinLimits => PositionsWithinLimits'
         /\ BrokerWithinLimits => BrokerWithinLimits'
<1>1. PICK m \in Int : m = broker[c]
  OBVIOUS
<1>2. /\ m # 0 \/ n = 0
      /\ Magnitude(m) \in Int /\ Magnitude(n) \in Int /\ Magnitude(n) <= Magnitude(m)
  BY <1>1 DEF Magnitude
<1>3. /\ OpenPositions(broker) \in Nat /\ OpenPositions(broker') \in Nat
      /\ OpenPositions(broker') <= OpenPositions(broker)
  BY <1>1, <1>2, OpenPositionsOfChange
<1>4. /\ Exposure(broker) \in Int
      /\ Exposure(broker') = (Exposure(broker) - Magnitude(m)) + Magnitude(n)
  BY <1>1, ExposureOfChange
<1>5. Exposure(broker') <= Exposure(broker) /\ Exposure(broker') \in Int
  BY <1>2, <1>4
<1>6. \A i \in Instruments : Magnitude(broker'[i]) <= MaxNetUnits
                               \/ Magnitude(broker[i]) > MaxNetUnits
  <2>1. ASSUME NEW i \in Instruments
        PROVE  Magnitude(broker'[i]) <= MaxNetUnits \/ Magnitude(broker[i]) > MaxNetUnits
    <3>1. MaxNetUnits \in Int /\ Magnitude(broker[i]) \in Int
      BY LimitsAssumption DEF Magnitude
    <3>2. CASE i = c
      BY <1>1, <1>2, <3>1, <3>2
    <3>3. CASE i # c
      <4>1. broker'[i] = broker[i]
        BY <3>3
      <4>. QED
        BY <3>1, <4>1
    <3>. QED
      BY <3>2, <3>3
  <2>. QED
    BY <2>1
<1>7. \A i \in Instruments : Magnitude(broker[i]) \in Int
  BY DEF Magnitude
<1>8. PositionsWithinLimits => PositionsWithinLimits'
  BY <1>3, <1>6, <1>7, LimitsAssumption DEF PositionsWithinLimits
<1>. QED
  BY <1>5, <1>4, <1>8, LimitsAssumption DEF BrokerWithinLimits

LEMMA OrderKeepsLimits ==
  ASSUME broker \in [Instruments -> Int], NEW c \in Instruments, NEW delta \in Int,
         delta # 0, CanAdd(broker, c, delta),
         broker' = [broker EXCEPT ![c] = broker[c] + delta]
  PROVE  /\ PositionsWithinLimits => PositionsWithinLimits'
         /\ /\ BrokerWithinLimits
            /\ broker[c] > 0 => delta > 0
            /\ broker[c] < 0 => delta < 0
            => BrokerWithinLimits'
<1>1. PICK m \in Int : m = broker[c]
  OBVIOUS
<1>2. PICK n \in Int : n = m + delta
  OBVIOUS
<1>3. broker' = [broker EXCEPT ![c] = n]
  BY <1>1, <1>2
<1>4. Magnitude(m) \in Int /\ Magnitude(n) \in Int
  BY DEF Magnitude
<1>5. /\ Magnitude(n) <= MaxNetUnits
      /\ m = 0 /\ n # 0 => OpenPositions(broker) < MaxPositions
      /\ \/ m # 0 /\ (Side(delta) = -Side(m) \/ Magnitude(n) < Magnitude(m))
         \/ MaxExposure > 0 => Exposure(broker) - Magnitude(m) + Magnitude(n) <= MaxExposure
  BY <1>1, <1>2 DEF CanAdd
<1>6. /\ OpenPositions(broker) \in Nat /\ OpenPositions(broker') \in Nat
      /\ OpenPositions(broker') <= OpenPositions(broker) + 1
      /\ m # 0 \/ n = 0 => OpenPositions(broker') <= OpenPositions(broker)
  BY <1>1, <1>3, OpenPositionsOfChange
<1>7. OpenPositions(broker') <= MaxPositions \/ OpenPositions(broker) > MaxPositions
  BY <1>5, <1>6, LimitsAssumption
<1>8. ASSUME PositionsWithinLimits PROVE PositionsWithinLimits'
  <2>1. OpenPositions(broker') <= MaxPositions
    BY <1>6, <1>7, <1>8, LimitsAssumption DEF PositionsWithinLimits
  <2>2. \A i \in Instruments : Magnitude(broker'[i]) <= MaxNetUnits
    <3>1. \A i \in Instruments : i # c => broker'[i] = broker[i]
      BY <1>3
    <3>2. broker'[c] = n
      BY <1>3
    <3>. QED
      BY <1>5, <1>8, <3>1, <3>2 DEF PositionsWithinLimits
  <2>. QED
    BY <2>1, <2>2 DEF PositionsWithinLimits
<1>9. ASSUME broker[c] > 0 => delta > 0, broker[c] < 0 => delta < 0, MaxExposure > 0
      PROVE  Exposure(broker') <= MaxExposure
  <2>1. ~(m # 0 /\ (Side(delta) = -Side(m) \/ Magnitude(n) < Magnitude(m)))
    BY <1>1, <1>2, <1>9 DEF Side, Magnitude
  <2>2. Exposure([broker EXCEPT ![c] = n]) =
          (Exposure(broker) - Magnitude(broker[c])) + Magnitude(n)
    BY ExposureOfChange
  <2>3. Exposure(broker') = (Exposure(broker) - Magnitude(m)) + Magnitude(n)
    BY <1>1, <1>3, <2>2, Zenon
  <2>. QED
    BY <1>5, <1>9, <2>1, <2>3
<1>. QED
  BY <1>8, <1>9 DEF BrokerWithinLimits

(***************************************************************************)
(* A broker whose every answer tells what happened, on an account nobody   *)
(* else trades, and that reports its positions when the service asks.      *)
(***************************************************************************)
Answered(answers) ==
  /\ Reconciles = {"ok"}
  /\ ApiUnits = {}
  /\ Replies \subseteq answers

(***************************************************************************)
(* Then the inventory is the account's, crashes aside, and the limits on   *)
(* it hold on the account.                                                 *)
(***************************************************************************)
Mirrored == stage # "down" => inventory = broker

AllInLine == stage # "down" => \A i \in Instruments : intact[i]

LEMMA ReconcileMirrors ==
  ASSUME LInv, Answered({Filled, Rejected, Refused}), ReconcilePortfolio,
         UNCHANGED broker
  PROVE  inventory' = broker' /\ \A i \in Instruments : intact'[i]
<1>1. ReconcileSucceeds
  BY DEF ReconcilePortfolio, Answered
<1>2. PICK book \in [Instruments -> UNION {Books(broker[i]) : i \in Instruments}] :
        /\ \A i \in Instruments : book[i] \in Books(broker[i])
        /\ inventory' = [i \in Instruments |-> NetUnits(book[i])]
        /\ intact' = [i \in Instruments |-> TRUE]
  BY <1>1, Zenon DEF ReconcileSucceeds
<1>3. broker \in [Instruments -> Int]
  BY LedgerTypes DEF LInv
<1>4. \A i \in Instruments : NetUnits(book[i]) = broker[i]
  BY <1>2, <1>3, BooksNet
<1>5. inventory' = [i \in Instruments |-> broker[i]]
  BY <1>2, <1>4
<1>. QED
  BY <1>2, <1>3, <1>5


LEMMA CloseMirrors ==
  ASSUME LInv, Answered({Filled, Rejected, Refused}), inventory = broker, CloseTicket
  PROVE  /\ inventory' = broker'
         /\ intact' = intact
         /\ \E c \in Instruments, n \in Int :
              /\ Magnitude(n) <= Magnitude(broker[c])
              /\ broker' = [broker EXCEPT ![c] = n]
<1>. DEFINE k == NextExit(exits.work)
            left == exits.work \ {k}
<1>1. PICK c \in Instruments : c = cur
  BY LedgerTypes DEF LInv
<1>2. /\ broker \in [Instruments -> Int]
      /\ tickets \in [Instruments -> Seq(Int)]
      /\ intact \in [Instruments -> BOOLEAN]
      /\ inventory[c] = NetUnits(tickets[c])
  BY LedgerTypes DEF LInv
<1>3. broker[c] \in Int /\ Magnitude(broker[c]) \in Int
  BY <1>2 DEF Magnitude
<1>. HIDE DEF k, left
<1>4. CASE k \notin DOMAIN tickets[cur]
  <2>1. /\ FinishExits(cur, left, exits.trades, exits.closed,
             IF left = {} /\ exits.closed THEN NetUnits(tickets[cur]) ELSE inventory[cur])
        /\ UNCHANGED <<broker, intact>>
    BY <1>4 DEF CloseTicket, k, left
  <2>2. inventory' = [inventory EXCEPT ![cur] = inventory[cur]]
    BY <1>1, <1>2, <2>1 DEF FinishExits
  <2>3. inventory' = inventory
    BY <1>2, <2>2
  <2>4. broker' = broker /\ intact' = intact
    BY <2>1
  <2>5. PICK n \in Int : n = broker[c]
    BY <1>3
  <2>6. Magnitude(n) <= Magnitude(broker[c]) /\ broker' = [broker EXCEPT ![c] = n]
    BY <1>2, <1>3, <2>4, <2>5
  <2>. QED
    BY <2>3, <2>4, <2>6
<1>5. CASE k \in DOMAIN tickets[cur]
  <2>1. PICK reply \in Replies :
          LET done   == Confirmed(reply)
              kept   == IF done THEN RemoveAt(tickets[cur], k) ELSE tickets[cur]
              trades == IF done THEN RemoveAt(exits.trades, k) ELSE exits.trades
              closed == exits.closed \/ done
              booked == IF done THEN inventory[cur] - tickets[cur][k] ELSE inventory[cur]
          IN  /\ BrokerCloses(cur, tickets[cur][k], reply.fills)
              /\ tickets' = [tickets EXCEPT ![cur] = kept]
              /\ FinishExits(cur, left, trades, closed,
                   IF left = {} /\ closed THEN NetUnits(kept) ELSE booked)
              /\ intact' = [intact EXCEPT
                   ![cur] = @ /\ reply \in {Filled, Rejected, Refused}]
    BY <1>5, Zenon DEF CloseTicket, k, left
  <2>2. reply \in {Filled, Rejected, Refused}
    BY DEF Answered
  <2>3. intact' = intact
    BY <1>1, <1>2, <2>1, <2>2
  <2>4. k \in 1..Len(tickets[c]) /\ tickets[c][k] \in Int
    <3>1. tickets[c] \in Seq(Int) /\ k \in DOMAIN tickets[c]
      BY <1>1, <1>2, <1>5
    <3>. QED
      BY <3>1, LenProperties, ElementOfSeq
  <2>5. PICK u \in Int : u = tickets[c][k]
    BY <2>4
  <2>6. NetUnits(RemoveAt(tickets[c], k)) = inventory[c] - u
    BY <1>2, <2>4, <2>5, NetUnitsOfRemoveAt
  <2>7. /\ BrokerCloses(c, u, reply.fills)
        /\ inventory' = [inventory EXCEPT
             ![c] = IF Confirmed(reply) THEN inventory[c] - u ELSE inventory[c]]
    <3>1. inventory' = [inventory EXCEPT ![cur] =
            IF left = {} /\ (exits.closed \/ Confirmed(reply))
            THEN NetUnits(IF Confirmed(reply) THEN RemoveAt(tickets[cur], k) ELSE tickets[cur])
            ELSE IF Confirmed(reply) THEN inventory[cur] - tickets[cur][k] ELSE inventory[cur]]
      BY <2>1 DEF FinishExits
    <3>. QED
      BY <1>1, <1>2, <2>1, <2>5, <2>6, <3>1
  <2>8. CASE reply = Filled
    <3>1. Confirmed(reply) /\ reply.fills = 1
      BY <2>8 DEF Filled, Confirmed
    <3>2. PICK n \in Int : n = broker[c] - u
      BY <1>3
    <3>3. inventory' = [inventory EXCEPT ![c] = n]
      BY <2>7, <3>1, <3>2
    <3>4. /\ Side(broker[c]) = Side(u)
          /\ Magnitude(u) <= Magnitude(broker[c])
          /\ broker' = [broker EXCEPT ![c] = n]
      <4>1. 1 * u = u /\ 1 * Magnitude(u) = Magnitude(u)
        BY DEF Magnitude
      <4>2. BrokerCloses(c, u, 1)
        BY <2>7, <3>1, Zenon
      <4>3. /\ Side(broker[c]) = Side(u)
            /\ 1 * Magnitude(u) <= Magnitude(broker[c])
        <5>1. 1 > 0
          OBVIOUS
        <5>. QED
          BY <4>2, <5>1, Zenon DEF BrokerCloses
      <4>4. broker' = [broker EXCEPT ![c] = broker[c] - 1 * u]
        BY <1>2, <4>2 DEF BrokerCloses
      <4>. QED
        BY <3>2, <4>1, <4>3, <4>4, Zenon
    <3>5. Magnitude(n) <= Magnitude(broker[c])
      BY <1>3, <3>2, <3>4 DEF Side, Magnitude
    <3>. QED
      BY <2>3, <3>3, <3>4, <3>5
  <2>9. CASE reply \in {Rejected, Refused}
    <3>1. ~Confirmed(reply) /\ reply.fills = 0
      BY <2>9 DEF Rejected, Refused, Confirmed
    <3>2. inventory' = inventory
      BY <1>2, <2>7, <3>1
    <3>3. broker' = [broker EXCEPT ![c] = broker[c]]
      <4>1. broker[c] - 0 * u = broker[c]
        BY <1>3
      <4>. QED
        BY <2>7, <3>1, <4>1 DEF BrokerCloses
    <3>4. broker' = broker
      BY <1>2, <3>3
    <3>. QED
      BY <1>3, <2>3, <3>2, <3>3, <3>4
  <2>. QED
    BY <2>2, <2>8, <2>9
<1>. QED
  BY <1>4, <1>5

LEMMA AllocateMirrors ==
  ASSUME LInv, Answered({Filled, Rejected, Refused}), inventory = broker, Allocate,
         NEW c \in Instruments, c = cur
  PROVE  /\ inventory' = broker'
         /\ Refused \notin Replies => intact' = intact
         /\ \/ broker' = broker
            \/ \E delta \in Int : /\ delta # 0
                                  /\ CanAdd(broker, c, delta)
                                  /\ broker' = [broker EXCEPT ![c] = broker[c] + delta]
<1>1. PICK size \in Sizes \cup {0} :
        LET planned == PlanAllocation(store, cur, inventory[cur], Request(size), MaxPositions)
            delta   == NetOfTrades(planned.trades) - inventory[cur]
        IN  \/ AllocateNothing(cur, planned)
            \/ AllocateRejected(cur, planned, delta)
            \/ AllocateOrder(cur, planned, delta)
  BY DEF Allocate
<1>. DEFINE plan == PlanAllocation(store, cur, inventory[cur], Request(size), MaxPositions)
<1>2. PICK planned \in Snapshot : planned = plan
  BY PlanInOrder DEF Allocate
<1>3. /\ broker \in [Instruments -> Int]
      /\ intact \in [Instruments -> BOOLEAN]
  BY LedgerTypes DEF LInv
<1>4. NetOfTrades(planned.trades) \in Int
  <2>1. planned.trades \in Seq(Trade)
    BY DEF Snapshot
  <2>. QED
    BY <2>1, TradeUnitsType
<1>5. PICK delta \in Int : delta = NetOfTrades(planned.trades) - inventory[cur]
  BY <1>3, <1>4
<1>6. \/ AllocateNothing(cur, planned)
      \/ AllocateRejected(cur, planned, delta)
      \/ AllocateOrder(cur, planned, delta)
  BY <1>1, <1>2, <1>5
<1>. HIDE DEF plan
<1>7. CASE AllocateNothing(cur, planned) \/ AllocateRejected(cur, planned, delta)
  BY <1>7 DEF AllocateNothing, AllocateRejected
<1>8. CASE AllocateOrder(cur, planned, delta)
  <2>1. PICK reply \in Replies :
          /\ broker' = [broker EXCEPT ![cur] = @ + reply.fills * delta]
          /\ intact' = [intact EXCEPT ![cur] = @ /\ reply \in {Filled, Rejected}]
          /\ Confirmed(reply) => inventory' = [inventory EXCEPT ![cur] = @ + delta]
          /\ ~Confirmed(reply) => inventory' = inventory
    BY <1>8, LoopAssumption DEF AllocateOrder, Confirmed, Reply
  <2>2. reply \in {Filled, Rejected, Refused} /\ delta # 0 /\ CanAdd(broker, c, delta)
    BY <1>8 DEF Answered, AllocateOrder
  <2>3. Refused \notin Replies => intact' = intact
    BY <1>3, <2>1, <2>2
  <2>4. CASE reply = Filled
    <3>1. Confirmed(reply) /\ reply.fills = 1 /\ 1 * delta = delta
      BY <2>4 DEF Filled, Confirmed
    <3>2. inventory' = [inventory EXCEPT ![c] = broker[c] + delta]
      BY <1>3, <2>1, <3>1
    <3>3. broker' = [broker EXCEPT ![c] = broker[c] + delta]
      BY <1>3, <2>1, <3>1
    <3>. QED
      BY <2>2, <2>3, <3>2, <3>3
  <2>5. CASE reply \in {Rejected, Refused}
    <3>1. ~Confirmed(reply) /\ reply.fills = 0
      BY <2>5 DEF Rejected, Refused, Confirmed
    <3>2. broker' = broker
      BY <1>3, <2>1, <3>1
    <3>. QED
      BY <2>1, <2>3, <3>1, <3>2
  <2>. QED
    BY <2>2, <2>4, <2>5
<1>. QED
  BY <1>6, <1>7, <1>8


(***************************************************************************)
(* Every step but an allocation leaves the account as it is or shrinks one *)
(* position, and the inventory mirrors it.                                 *)
(***************************************************************************)
LEMMA StepMirrors ==
  ASSUME LInv, Answered({Filled, Rejected, Refused}), Mirrored, [Next]_vars
  PROVE  /\ Mirrored'
         /\ Refused \notin Replies /\ AllInLine => AllInLine'
         /\ \/ broker' = broker
            \/ \E c \in Instruments, n \in Int :
                 /\ Magnitude(n) <= Magnitude(broker[c])
                 /\ broker' = [broker EXCEPT ![c] = n]
            \/ Allocate
<1>1. ASSUME UNCHANGED <<broker, inventory, intact>>, stage = "down" => stage' = "down"
      PROVE  broker' = broker /\ Mirrored' /\ (AllInLine => AllInLine')
  BY <1>1 DEF Mirrored, AllInLine
<1>2. ASSUME ReconcilePortfolio, UNCHANGED broker
      PROVE  Mirrored' /\ AllInLine'
  BY <1>2, ReconcileMirrors DEF Mirrored, AllInLine
<1>3. CASE Boot
  <2>1. ReconcilePortfolio /\ UNCHANGED broker
    BY <1>3 DEF Boot, world
  <2>. QED
    BY <1>2, <2>1
<1>4. CASE BeginCycle
  <2>1. stage = "idle" /\ UNCHANGED broker /\ (ReconcileFailed \/ ReconcilePortfolio)
    BY <1>4 DEF BeginCycle, world
  <2>2. CASE ReconcileFailed
    BY <1>1, <2>1, <2>2 DEF ReconcileFailed, ledger
  <2>3. CASE ReconcilePortfolio
    BY <1>2, <2>1, <2>3
  <2>. QED
    BY <2>1, <2>2, <2>3
<1>5. CASE LoadGates \/ CycleFails \/ TpslExit \/ ExpiryExit \/ ProcessInstrument
  <2>1. UNCHANGED <<broker, inventory, intact>> /\ stage # "down"
    BY <1>5 DEF LoadGates, CycleFails, TpslExit, ExpiryExit, ProcessInstrument,
       world, ledger, memory
  <2>. QED
    BY <1>1, <2>1
<1>6. CASE CloseTicket
  <2>1. inventory = broker
    BY <1>6 DEF CloseTicket, Mirrored
  <2>2. stage # "down"
    BY <1>6 DEF CloseTicket
  <2>. QED
    BY <1>6, <2>1, <2>2, CloseMirrors DEF Mirrored, AllInLine
<1>7. CASE Allocate
  <2>1. inventory = broker /\ stage # "down"
    BY <1>7 DEF Allocate, Mirrored
  <2>2. PICK c \in Instruments : c = cur
    BY LedgerTypes DEF LInv
  <2>. QED
    BY <1>7, <2>1, <2>2, AllocateMirrors DEF Mirrored, AllInLine
<1>8. CASE ApiStep
  <2>1. SetKillSwitch
    BY <1>8 DEF ApiStep, ClosePosition, Answered
  <2>2. UNCHANGED <<broker, inventory, intact, stage>>
    BY <2>1 DEF SetKillSwitch, world, memory, ledger
  <2>. QED
    BY <1>1, <2>2
<1>9. ASSUME NEW i \in Instruments, PublishGate(i) \/ CooldownLapses(i)
      PROVE  UNCHANGED <<broker, inventory, intact, stage>>
  BY <1>9 DEF PublishGate, CooldownLapses, world, memory, ledger
<1>10. CASE \E i \in Instruments : PublishGate(i) \/ CooldownLapses(i)
  BY <1>1, <1>9, <1>10
<1>11. CASE Crash
  BY <1>11 DEF Crash, world, Mirrored, AllInLine
<1>12. CASE UNCHANGED vars
  BY <1>1, <1>12 DEF vars, world, memory, ledger
<1>. QED
  BY <1>3, <1>4, <1>5, <1>6, <1>7, <1>8, <1>10, <1>11, <1>12 DEF Next, LoopStep

(***************************************************************************)
(* A flat account is inside every limit.                                   *)
(***************************************************************************)
LEMMA InitWithinLimits ==
  ASSUME Init
  PROVE  Mirrored /\ AllInLine /\ BrokerWithinLimits
<1>1. broker = Everywhere(0) /\ stage = "down"
  BY DEF Init
<1>2. \A i \in Instruments : Magnitude(broker[i]) = 0
  BY <1>1 DEF Everywhere, Magnitude
<1>3. OpenPositions(broker) = 0
  <2>1. {i \in DOMAIN broker : broker[i] # 0} = {}
    BY <1>1 DEF Everywhere
  <2>. QED
    BY <2>1, FS_EmptySet DEF OpenPositions
<1>4. Exposure(broker) = 0
  BY <1>1, ExposureOfNothing
<1>. QED
  BY <1>1, <1>2, <1>3, <1>4, LimitsAssumption
     DEF Mirrored, AllInLine, BrokerWithinLimits, PositionsWithinLimits

(***************************************************************************)
(* When every answer tells what happened, refusals included, and nobody    *)
(* else trades on the account, its net units and its open instruments stay *)
(* within the limits the loop checks against its own inventory.            *)
(***************************************************************************)
THEOREM PositionsStayWithinLimits ==
  ASSUME Answered({Filled, Rejected, Refused})
  PROVE  Spec => []PositionsWithinLimits
<1>. DEFINE I == LInv /\ Mirrored /\ PositionsWithinLimits
<1>1. Init => I
  BY InitLInv, InitWithinLimits DEF BrokerWithinLimits
<1>2. I /\ [Next]_vars => I'
  <2>. SUFFICES ASSUME I, [Next]_vars PROVE PositionsWithinLimits'
    BY NextAgrees, StepMirrors
  <2>1. broker \in [Instruments -> Int]
    BY LedgerTypes DEF LInv
  <2>2. CASE broker' = broker
    BY <2>2 DEF PositionsWithinLimits
  <2>3. ASSUME NEW c \in Instruments, NEW n \in Int,
               Magnitude(n) <= Magnitude(broker[c]),
               broker' = [broker EXCEPT ![c] = n]
        PROVE  PositionsWithinLimits'
    BY <2>1, <2>3, ShrinkKeepsLimits
  <2>4. CASE Allocate
    <3>1. PICK c \in Instruments : c = cur
      BY LedgerTypes DEF LInv
    <3>2. inventory = broker
      BY <2>4 DEF Allocate, Mirrored
    <3>3. \/ broker' = broker
          \/ \E delta \in Int : /\ delta # 0
                                /\ CanAdd(broker, c, delta)
                                /\ broker' = [broker EXCEPT ![c] = broker[c] + delta]
      BY <2>4, <3>1, <3>2, AllocateMirrors
    <3>. QED
      BY <2>1, <2>2, <3>3, OrderKeepsLimits
  <2>. QED
    BY <2>2, <2>3, <2>4, StepMirrors
<1>. QED
  BY <1>1, <1>2, PTL DEF Spec

(***************************************************************************)
(* When the broker fills or turns down every order and nobody else trades, *)
(* the account keeps to the exposure cap as well.                          *)
(***************************************************************************)
THEOREM AccountStaysWithinLimits ==
  ASSUME Answered({Filled, Rejected})
  PROVE  Spec => []BrokerWithinLimits
<1>. DEFINE I == LInv /\ Mirrored /\ AllInLine /\ BrokerWithinLimits
<1>0. Answered({Filled, Rejected, Refused}) /\ Refused \notin Replies
  BY DEF Answered, Filled, Rejected, Refused
<1>1. Init => I
  BY InitLInv, InitWithinLimits
<1>2. I /\ [Next]_vars => I'
  <2>. SUFFICES ASSUME I, [Next]_vars PROVE BrokerWithinLimits'
    BY <1>0, NextAgrees, StepMirrors
  <2>1. broker \in [Instruments -> Int]
    BY LedgerTypes DEF LInv
  <2>2. CASE broker' = broker
    BY <2>2 DEF BrokerWithinLimits, PositionsWithinLimits
  <2>3. ASSUME NEW c \in Instruments, NEW n \in Int,
               Magnitude(n) <= Magnitude(broker[c]),
               broker' = [broker EXCEPT ![c] = n]
        PROVE  BrokerWithinLimits'
    BY <2>1, <2>3, ShrinkKeepsLimits
  <2>4. CASE Allocate
    <3>1. PICK c \in Instruments : c = cur
      BY LedgerTypes DEF LInv
    <3>2. inventory = broker /\ intact[c]
      BY <2>4 DEF Allocate, Mirrored, AllInLine
    <3>3. CASE broker' # broker
      <4>1. PICK delta \in Int : /\ delta # 0
                                 /\ CanAdd(broker, c, delta)
                                 /\ broker' = [broker EXCEPT ![c] = broker[c] + delta]
        BY <1>0, <2>4, <3>1, <3>2, <3>3, AllocateMirrors
      <4>2. PICK x \in Int, fills \in Nat :
              /\ broker[c] > 0 => x > 0
              /\ broker[c] < 0 => x < 0
              /\ broker'[c] = broker[c] + fills * x
        BY <2>4, <3>1, <3>2, <3>3, AllocationOutcome
      <4>3. PICK m \in Int : m = fills * x
        OBVIOUS
      <4>4. (x > 0 => m >= 0) /\ (x < 0 => m <= 0)
        BY <4>3
      <4>5. m = delta
        <5>1. broker'[c] = broker[c] + delta /\ broker'[c] = broker[c] + m
          BY <2>1, <4>1, <4>2, <4>3
        <5>2. broker[c] \in Int
          BY <2>1
        <5>. QED
          BY <5>1, <5>2
      <4>6. (broker[c] > 0 => delta > 0) /\ (broker[c] < 0 => delta < 0)
        BY <4>1, <4>2, <4>4, <4>5
      <4>. QED
        BY <2>1, <4>1, <4>6, OrderKeepsLimits
    <3>. QED
      BY <2>2, <3>3
  <2>. QED
    BY <1>0, <2>2, <2>3, <2>4, StepMirrors
<1>. QED
  BY <1>1, <1>2, PTL DEF Spec

------------------------------------------------------------------------------
(* The loop as an account *)

(***************************************************************************)
(* The arithmetic of the contract is that of the loop.                     *)
(***************************************************************************)
LEMMA SameArithmetic ==
  /\ \A u : Account!Magnitude(u) = Magnitude(u) /\ Account!Side(u) = Side(u)
  /\ \A p : Account!Exposure(p) = Exposure(p)
  /\ \A p : Account!OpenPositions(p) = OpenPositions(p)
<1>1. \A u : Account!Magnitude(u) = Magnitude(u) /\ Account!Side(u) = Side(u)
  BY DEF Account!Magnitude, Magnitude, Account!Side, Side
<1>2. \A t : Account!NetUnits(t) = NetUnits(t)
  BY Zenon DEF Account!NetUnits, NetUnits
<1>3. \A p : Account!Gross(p) = Gross(p)
  BY DEF Account!Gross, Gross, Account!Magnitude, Magnitude
<1>4. \A p : Account!Exposure(p) = Exposure(p)
  BY <1>2, <1>3, Zenon DEF Account!Exposure, Exposure
<1>5. \A p : Account!OpenPositions(p) = OpenPositions(p)
  BY Zenon DEF Account!OpenPositions, OpenPositions, Account!Cardinality, Cardinality
<1>. QED
  BY <1>1, <1>4, <1>5, Zenon

(***************************************************************************)
(* A close with an answer takes one ticket off the account, or nothing;    *)
(* after any other answer the books of the instrument are not trusted.     *)
(***************************************************************************)
LEMMA CloseKeepsAccount ==
  ASSUME LInv, CloseTicket
  PROVE  Account!AccountNext \/ UNCHANGED <<broker, published, gate, intact>>
<1>. DEFINE k == NextExit(exits.work)
            left == exits.work \ {k}
<1>1. PICK c \in Instruments : c = cur
  BY LedgerTypes DEF LInv
<1>2. /\ broker \in [Instruments -> Int]
      /\ tickets \in [Instruments -> Seq(Int)]
      /\ intact \in [Instruments -> BOOLEAN]
  BY LedgerTypes DEF LInv
<1>3. published' = published /\ gate' = gate
  BY DEF CloseTicket
<1>. HIDE DEF k, left
<1>4. CASE k \notin DOMAIN tickets[cur]
  <2>1. UNCHANGED <<broker, intact>>
    BY <1>4 DEF CloseTicket, k, left
  <2>. QED
    BY <1>3, <2>1
<1>5. CASE k \in DOMAIN tickets[cur]
  <2>1. PICK reply \in Replies :
          /\ BrokerCloses(cur, tickets[cur][k], reply.fills)
          /\ intact' = [intact EXCEPT ![cur] = @ /\ reply \in {Filled, Rejected, Refused}]
    BY <1>5, Zenon DEF CloseTicket, k, left
  <2>2. tickets[c][k] \in Int
    <3>1. tickets[c] \in Seq(Int) /\ k \in DOMAIN tickets[c]
      BY <1>1, <1>2, <1>5
    <3>. QED
      BY <3>1, ElementOfSeq, LenProperties
  <2>3. PICK u \in Int : u = tickets[c][k]
    BY <2>2
  <2>4. BrokerCloses(c, u, reply.fills)
    BY <1>1, <2>1, <2>3
  <2>5. CASE ~intact'[c]
    <3>1. intact' = [intact EXCEPT ![c] = FALSE]
      BY <1>1, <1>2, <2>1, <2>5
    <3>2. broker' = [broker EXCEPT ![c] = broker'[c]]
      BY <1>2, <2>4 DEF BrokerCloses
    <3>3. Account!Stray(c)
      BY <1>3, <3>1, <3>2 DEF Account!Stray, Account!MayDrop
    <3>. QED
      BY <3>3 DEF Account!AccountNext
  <2>6. CASE intact'[c]
    <3>1. /\ intact[c] /\ intact' = intact
          /\ reply \in {Filled, Rejected, Refused}
      BY <1>1, <1>2, <2>1, <2>6
    <3>2. CASE reply = Filled
      <4>1. /\ Side(broker[c]) = Side(u) /\ Magnitude(u) <= Magnitude(broker[c])
            /\ broker' = [broker EXCEPT ![c] = broker[c] - u]
        <5>1. reply.fills = 1 /\ 1 * u = u /\ 1 * Magnitude(u) = Magnitude(u) /\ 1 > 0
          BY <3>2 DEF Filled, Magnitude
        <5>2. /\ 1 > 0 => /\ Side(broker[c]) = Side(u)
                          /\ 1 * Magnitude(u) <= Magnitude(broker[c])
              /\ broker' = [broker EXCEPT ![c] = @ - 1 * u]
          BY <2>4, <5>1, Zenon DEF BrokerCloses
        <5>. QED
          BY <5>1, <5>2, Zenon
      <4>2. PICK b \in Int : b = broker[c]
        BY <1>2
      <4>3. CASE u = 0
        <5>1. broker' = broker
          BY <1>2, <4>1, <4>3
        <5>. QED
          BY <1>3, <3>1, <5>1
      <4>4. CASE u # 0
        <5>1. /\ Magnitude(u) \in 1..Magnitude(b)
              /\ b - u = b - Side(b) * Magnitude(u)
          BY <4>1, <4>2, <4>4 DEF Side, Magnitude
        <5>2. broker' = [broker EXCEPT ![c] = @ - Side(@) * Magnitude(u)]
          BY <4>1, <4>2, <5>1
        <5>3. Account!Leave(c)
          BY <1>3, <3>1, <4>2, <5>1, <5>2, SameArithmetic DEF Account!Leave
        <5>. QED
          BY <5>3 DEF Account!AccountNext
      <4>. QED
        BY <4>3, <4>4
    <3>3. CASE reply \in {Rejected, Refused}
      <4>1. reply.fills = 0 /\ broker[c] - 0 * u = broker[c]
        BY <1>2, <3>3 DEF Rejected, Refused
      <4>2. broker' = broker
        BY <1>2, <2>4, <4>1 DEF BrokerCloses
      <4>. QED
        BY <1>3, <3>1, <4>2
    <3>. QED
      BY <3>1, <3>2, <3>3
  <2>. QED
    BY <2>5, <2>6, <1>2
<1>. QED
  BY <1>4, <1>5

(***************************************************************************)
(* What can_add says of an order on the side held, or from flat: the caps  *)
(* that reducing orders are exempt from do count.                          *)
(***************************************************************************)
LEMMA CanAddOnSide ==
  ASSUME NEW b \in [Instruments -> Int], NEW c \in Instruments, NEW x \in Int,
         x # 0, b[c] > 0 => x > 0, b[c] < 0 => x < 0,
         CanAdd(b, c, x)
  PROVE  /\ Magnitude(b[c] + x) <= MaxNetUnits
         /\ MaxPositionSize > 0 => Magnitude(b[c] + x) <= MaxPositionSize
         /\ b[c] = 0 => OpenPositions(b) < MaxPositions
         /\ MaxExposure > 0 => Exposure([b EXCEPT ![c] = b[c] + x]) <= MaxExposure
<1>1. PICK m \in Int : m = b[c]
  OBVIOUS
<1>2. PICK n \in Int : n = m + x
  OBVIOUS
<1>3. /\ Magnitude(n) <= MaxNetUnits
      /\ m = 0 /\ n # 0 => OpenPositions(b) < MaxPositions
      /\ \/ m # 0 /\ (Side(x) = -Side(m) \/ Magnitude(n) < Magnitude(m))
         \/ /\ MaxPositionSize > 0 => Magnitude(n) <= MaxPositionSize
            /\ MaxExposure > 0 => Exposure(b) - Magnitude(m) + Magnitude(n) <= MaxExposure
  BY <1>1, <1>2 DEF CanAdd
<1>4. ~(m # 0 /\ (Side(x) = -Side(m) \/ Magnitude(n) < Magnitude(m)))
  BY <1>1, <1>2 DEF Side, Magnitude
<1>5. Exposure([b EXCEPT ![c] = n]) = (Exposure(b) - Magnitude(m)) + Magnitude(n)
  BY <1>1, ExposureOfChange
<1>. QED
  BY <1>1, <1>2, <1>3, <1>4, <1>5


(***************************************************************************)
(* An allocation with an answer is an entry of one size on the side of the *)
(* gate the loop loaded, which it uses up, or nothing.                     *)
(***************************************************************************)
LEMMA AllocateKeepsAccount ==
  ASSUME LInv, Allocate
  PROVE  Account!AccountNext \/ UNCHANGED <<broker, published, gate, intact>>
<1>1. stage = "allocate" /\ published' = published
  BY DEF Allocate
<1>2. PICK c \in Instruments : c = cur
  BY LedgerTypes DEF LInv
<1>3. PICK size \in Sizes \cup {0} :
        LET planned == PlanAllocation(store, cur, inventory[cur], Request(size), MaxPositions)
            delta   == NetOfTrades(planned.trades) - inventory[cur]
        IN  \/ AllocateNothing(cur, planned)
            \/ AllocateRejected(cur, planned, delta)
            \/ AllocateOrder(cur, planned, delta)
  BY DEF Allocate
<1>. DEFINE plan == PlanAllocation(store, cur, inventory[cur], Request(size), MaxPositions)
<1>4. PICK planned \in Snapshot : planned = plan
  BY <1>1, <1>3, PlanInOrder
<1>5. intact[c] =>
        \/ TradeUnits(planned.trades) = tickets[c]
        \/ \E x \in Int : /\ Extends(tickets[c], x, TradeUnits(planned.trades))
                          /\ x = gate[c].side * size
  BY <1>1, <1>2, <1>3, <1>4, PlanInOrder
<1>6. PICK delta : delta = NetOfTrades(planned.trades) - inventory[cur]
  OBVIOUS
<1>7. \/ AllocateNothing(cur, planned)
      \/ AllocateRejected(cur, planned, delta)
      \/ AllocateOrder(cur, planned, delta)
  BY <1>3, <1>4, <1>6
<1>. HIDE DEF plan
<1>8. /\ broker \in [Instruments -> Int]
      /\ intact \in [Instruments -> BOOLEAN]
      /\ inventory \in [Instruments -> Int]
      /\ gate \in [Instruments -> Gate]
      /\ tickets[c] \in Seq(Int)
      /\ inventory[c] = NetUnits(tickets[c])
  BY LedgerTypes DEF LInv
<1>9. \A i \in Instruments : intact[i] => inventory[i] = broker[i]
  BY DEF LInv, LedgersAgree
(* The gate is used up, and all gates are when the cycle is given up.      *)
<1>10. ASSUME gate' = [gate EXCEPT ![cur] = NoGate] \/ gate' = Everywhere(NoGate)
       PROVE  Account!MayDrop
  BY <1>2, <1>8, <1>10 DEF Account!MayDrop, Account!NoVerdict, NoGate, Everywhere
<1>11. ASSUME Account!MayDrop, UNCHANGED <<broker, published, intact>>
       PROVE  Account!AccountNext
  <2>1. Account!GiveUp
    BY <1>8, <1>11 DEF Account!GiveUp
  <2>. QED
    BY <2>1 DEF Account!AccountNext
<1>12. AfterStack => gate' = [gate EXCEPT ![cur] = NoGate]
  BY DEF AfterStack
<1>13. CASE AllocateNothing(cur, planned) \/ AllocateRejected(cur, planned, delta)
  <2>1. AfterStack /\ UNCHANGED <<broker, intact>>
    BY <1>13 DEF AllocateNothing, AllocateRejected
  <2>. QED
    BY <1>1, <1>10, <1>11, <1>12, <2>1
<1>14. CASE AllocateOrder(cur, planned, delta)
  <2>1. PICK reply \in Replies :
          /\ broker' = [broker EXCEPT ![cur] = @ + reply.fills * delta]
          /\ intact' = [intact EXCEPT ![cur] = @ /\ reply \in {Filled, Rejected}]
          /\ CASE Confirmed(reply) ->
                    /\ Commit(cur, planned)
                    /\ inventory' = [inventory EXCEPT ![cur] = @ + delta]
                    /\ tickets' = [tickets EXCEPT
                         ![cur] = SyncToNetPosition(@, inventory[cur] + delta)]
                    /\ AfterStack
               [] reply.kind = "none" ->
                    /\ Restore(cur, planned)
                    /\ AfterStack
                    /\ UNCHANGED <<tickets, inventory, cooldown>>
               [] reply.kind = "error" ->
                    /\ store' = [store EXCEPT ![cur] = planned]
                    /\ stage' = "idle"
                    /\ cur' = 1
                    /\ gate' = Everywhere(NoGate)
                    /\ entry' = NoEntry
                    /\ UNCHANGED <<tickets, inventory, cooldown>>
    BY <1>14 DEF AllocateOrder
  <2>2. reply.kind \in {"fill", "empty", "none", "error"}
    BY LoopAssumption DEF Reply
  <2>3. AfterStack \/ (reply.kind = "error" /\ gate' = Everywhere(NoGate))
    BY <2>1, <2>2 DEF Confirmed
  <2>4. Account!MayDrop
    BY <1>10, <1>12, <2>3
  <2>5. delta # 0 /\ CanAdd(inventory, c, delta)
    BY <1>2, <1>14 DEF AllocateOrder
  <2>6. CASE ~intact'[c]
    <3>1. intact' = [intact EXCEPT ![c] = FALSE]
      BY <1>2, <1>8, <2>1, <2>6
    <3>2. broker' = [broker EXCEPT ![c] = broker'[c]]
      BY <1>2, <1>8, <2>1
    <3>3. Account!Stray(c)
      BY <1>1, <2>4, <3>1, <3>2 DEF Account!Stray
    <3>. QED
      BY <3>3 DEF Account!AccountNext
  <2>7. CASE intact'[c]
    <3>1. intact[c] /\ intact' = intact /\ reply \in {Filled, Rejected}
      BY <1>2, <1>8, <2>1, <2>7
    <3>2. ~(TradeUnits(planned.trades) = tickets[c])
      BY <1>2, <1>6, <1>8, <2>5 DEF NetOfTrades
    <3>3. PICK x \in Int : /\ Extends(tickets[c], x, TradeUnits(planned.trades))
                           /\ x = gate[c].side * size
      BY <1>5, <3>1, <3>2
    <3>4. NetOfTrades(planned.trades) = inventory[c] + x
      BY <1>8, <3>3, NetUnitsOfAppend DEF Extends, NetOfTrades
    <3>5. delta = x
      BY <1>2, <1>6, <1>8, <3>4
    <3>6. /\ inventory[c] = broker[c]
          /\ x # 0 /\ (broker[c] > 0 => x > 0) /\ (broker[c] < 0 => x < 0)
      BY <1>8, <1>9, <3>1, <3>3 DEF Extends
    <3>7. CASE reply = Rejected
      <4>1. reply.fills = 0 /\ broker[c] + 0 * x = broker[c]
        BY <1>8, <3>7 DEF Rejected
      <4>2. broker' = broker
        BY <1>2, <1>8, <2>1, <3>5, <4>1
      <4>. QED
        BY <1>1, <1>11, <2>4, <3>1, <4>2
    <3>8. CASE reply = Filled
      <4>1. broker' = [broker EXCEPT ![c] = broker[c] + x]
        <5>1. reply.fills = 1 /\ 1 * x = x
          BY <3>8 DEF Filled
        <5>. QED
          BY <1>2, <2>1, <3>5, <5>1
      <4>2. PICK side \in {-1, 0, 1} : side = gate[c].side
        BY <1>8 DEF Gate
      <4>3. /\ side # 0 /\ size \in Sizes /\ size \in Nat \ {0}
            /\ Side(broker[c]) \in {0, side}
        <5>1. side * size = x
          BY <3>3, <4>2
        <5>2. size \in Nat /\ (size = 0 \/ size \in Sizes)
          BY LoopAssumption
        <5>3. size # 0 /\ side # 0 /\ (x > 0 => side = 1) /\ (x < 0 => side = -1)
          BY <3>6, <4>2, <5>1, <5>2
        <5>. QED
          BY <1>8, <3>6, <4>2, <5>2, <5>3 DEF Side
      <4>4. broker' = [broker EXCEPT ![c] = @ + gate[c].side * size]
        BY <3>3, <4>1
      <4>5. /\ Magnitude(broker'[c]) <= MaxNetUnits
            /\ MaxPositionSize > 0 => Magnitude(broker'[c]) <= MaxPositionSize
        <5>1. broker'[c] = inventory[c] + x
          BY <1>8, <3>6, <4>1
        <5>. QED
          BY <1>8, <2>5, <3>5, <3>6, <5>1, CanAddOnSide
      <4>6. ASSUME \A j \in Instruments : intact[j]
            PROVE  /\ broker[c] = 0 => OpenPositions(broker) < MaxPositions
                   /\ MaxExposure > 0 => Exposure(broker') <= MaxExposure
        <5>1. inventory = broker
          BY <1>8, <1>9, <4>6
        <5>. QED
          BY <1>8, <2>5, <3>5, <3>6, <4>1, <5>1, CanAddOnSide
      <4>7. Account!WithinOwnLimits(broker'[c])
        BY <4>5, SameArithmetic DEF Account!WithinOwnLimits
      <4>8. (\A j \in Instruments : intact[j]) => Account!WithinJointLimits(c)
        BY <4>6, SameArithmetic, Zenon DEF Account!WithinJointLimits
      <4>10. gate' = [gate EXCEPT ![c] = Account!NoVerdict]
        BY <1>2, <1>12, <2>3, <3>8 DEF Filled, Account!NoVerdict, NoGate
      <4>9. Account!Enter(c)
        BY <1>1, <3>1, <4>2, <4>3, <4>4, <4>7, <4>8, <4>10, SameArithmetic DEF Account!Enter
      <4>. QED
        BY <4>9 DEF Account!AccountNext
    <3>. QED
      BY <3>1, <3>7, <3>8
  <2>. QED
    BY <1>8, <2>6, <2>7
<1>. QED
  BY <1>7, <1>13, <1>14

(***************************************************************************)
(* A reconcile that rebuilds the books, or gives them up.                  *)
(***************************************************************************)
LEMMA ReconcileKeepsAccount ==
  ASSUME LInv, ReconcilePortfolio, UNCHANGED <<broker, published, gate>>
  PROVE  Account!AccountNext
<1>1. intact \in [Instruments -> BOOLEAN]
  BY LedgerTypes DEF LInv
<1>2. CASE ReconcileSucceeds
  <2>1. intact' = [i \in Instruments |-> TRUE]
    BY <1>2, Zenon DEF ReconcileSucceeds
  <2>. QED
    BY <2>1 DEF Account!AccountNext, Account!Rebuild
<1>3. CASE ReconcileSkipped
  <2>1. intact' = [i \in Instruments |-> intact[i] /\ store[i].trades = <<>>]
    BY <1>3 DEF ReconcileSkipped
  <2>2. intact' \in [Instruments -> BOOLEAN] /\ \A i \in Instruments : intact'[i] => intact[i]
    BY <1>1, <2>1
  <2>. QED
    BY <2>2 DEF Account!AccountNext, Account!GiveUp, Account!MayDrop
<1>. QED
  BY <1>2, <1>3 DEF ReconcilePortfolio

(***************************************************************************)
(* Every step of the service, of the HTTP clients and of the regime        *)
(* service is a step of the account or leaves it alone.                    *)
(***************************************************************************)
LEMMA StepKeepsAccount ==
  ASSUME LInv, [Next]_vars
  PROVE  Account!AccountNext \/ UNCHANGED <<broker, published, gate, intact>>
<1>1. /\ broker \in [Instruments -> Int]
      /\ published \in [Instruments -> Gate]
      /\ intact \in [Instruments -> BOOLEAN]
  BY LedgerTypes DEF LInv
<1>2. gate \in [Instruments -> Gate] /\ cur \in Instruments
  BY LedgerTypes DEF LInv
<1>3. CASE Boot
  BY <1>3, ReconcileKeepsAccount DEF Boot, world
<1>4. CASE BeginCycle
  <2>1. UNCHANGED <<broker, published, gate>> /\ (ReconcileFailed \/ ReconcilePortfolio)
    BY <1>4 DEF BeginCycle, world
  <2>2. CASE ReconcileFailed
    BY <2>1, <2>2 DEF ReconcileFailed
  <2>. QED
    BY <2>1, <2>2, ReconcileKeepsAccount
<1>5. CASE CycleFails \/ TpslExit \/ ExpiryExit
  BY <1>5 DEF CycleFails, TpslExit, ExpiryExit, world, memory
<1>6. CASE LoadGates
  <2>1. UNCHANGED <<broker, published, intact>>
    BY <1>6 DEF LoadGates, world
  <2>2. CASE kill
    BY <1>6, <2>1, <2>2 DEF LoadGates
  <2>3. CASE ~kill
    <3>1. PICK missing \in SUBSET Instruments :
            gate' = [i \in Instruments |-> IF i \in missing THEN NoGate ELSE published[i]]
      BY <1>6, <2>3 DEF LoadGates
    <3>2. ASSUME NEW i \in Instruments PROVE gate'[i] \in {published[i], Account!NoVerdict}
      BY <3>1 DEF Account!NoVerdict, NoGate
    <3>3. gate' \in [Instruments -> UNION {{published[i], Account!NoVerdict} : i \in Instruments}]
      BY <3>1, <3>2
    <3>4. Account!TakeUp
      BY <2>1, <3>2, <3>3 DEF Account!TakeUp
    <3>. QED
      BY <3>4 DEF Account!AccountNext
  <2>. QED
    BY <2>2, <2>3
<1>7. CASE ProcessInstrument
  <2>1. UNCHANGED <<broker, published, intact>>
    BY <1>7 DEF ProcessInstrument, world
  <2>2. gate' = gate \/ gate' = [gate EXCEPT ![cur] = NoGate]
    BY <1>7 DEF ProcessInstrument, AfterStack
  <2>3. Account!MayDrop
    BY <1>2, <2>2 DEF Account!MayDrop, Account!NoVerdict, NoGate
  <2>4. Account!GiveUp
    BY <1>1, <2>1, <2>3 DEF Account!GiveUp
  <2>. QED
    BY <2>4 DEF Account!AccountNext
<1>8. CASE CloseTicket \/ Allocate
  BY <1>8, CloseKeepsAccount, AllocateKeepsAccount
<1>9. CASE SetKillSwitch
  BY <1>9 DEF SetKillSwitch, world, memory
<1>10. ASSUME NEW i \in Instruments, ClosePosition(i) \/ \E u \in ApiUnits : PlaceOrder(i, u)
      PROVE  Account!AccountNext
  <2>1. /\ broker' = [broker EXCEPT ![i] = broker'[i]]
        /\ intact' = [intact EXCEPT ![i] = FALSE]
        /\ UNCHANGED <<published, gate>>
    BY <1>1, <1>10 DEF ClosePosition, PlaceOrder, memory
  <2>2. Account!Stray(i)
    BY <2>1 DEF Account!Stray, Account!MayDrop
  <2>. QED
    BY <2>2 DEF Account!AccountNext
<1>11. ASSUME NEW i \in Instruments, PublishGate(i)
      PROVE  Account!AccountNext
  <2>1. Account!Judge(i)
    BY <1>11 DEF PublishGate, Account!Judge, memory
  <2>. QED
    BY <2>1 DEF Account!AccountNext
<1>12. ASSUME NEW i \in Instruments, CooldownLapses(i)
      PROVE  UNCHANGED <<broker, published, gate, intact>>
  BY <1>12 DEF CooldownLapses, world
<1>13. CASE Crash
  <2>1. /\ intact' = [i \in Instruments |-> broker[i] = 0]
        /\ gate' = Everywhere(NoGate)
        /\ UNCHANGED <<broker, published>>
    BY <1>13 DEF Crash, world
  <2>2. Account!MayDrop
    BY <2>1 DEF Account!MayDrop, Account!NoVerdict, NoGate, Everywhere
  <2>. QED
    BY <1>1, <2>1, <2>2 DEF Account!AccountNext, Account!GiveUp
<1>14. CASE UNCHANGED vars
  BY <1>14 DEF vars, world, memory
<1>. QED
  BY <1>3, <1>4, <1>5, <1>8, <1>9, <1>10, <1>11, <1>12, <1>13, <1>14,
     <1>6, <1>7 DEF Next, LoopStep, ApiStep

(***************************************************************************)
(* The loop keeps the account as it promises, for any number of            *)
(* instruments, sizes and limits, whatever the broker answers, whoever     *)
(* else trades and wherever the process dies.                              *)
(***************************************************************************)
THEOREM LoopKeepsAccount == Spec => KeepsAccount
<1>1. Init => Account!AccountInit
  BY DEF Init, Everywhere, NoGate, Account!NoVerdict, Account!AccountInit
<1>2. LInv /\ [Next]_vars => [Account!AccountNext]_(Account!accountVars)
  BY StepKeepsAccount DEF Account!accountVars
<1>. QED
  BY <1>1, <1>2, LedgerInvariant, PTL DEF Spec, KeepsAccount, Account!AccountSpec

=============================================================================
