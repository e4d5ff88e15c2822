------------------------- MODULE BacktestReplayProofs -------------------------
(***************************************************************************)
(* Proofs about BacktestReplay: the three ledgers of a backtest agree on   *)
(* every candle, what is closed for its age was held for its time, and     *)
(* entries keep clear of each other and of the close of the session.  A    *)
(* hazard exit closes tickets behind the back of the other two ledgers, so *)
(* all of it is about replays without one.                                 *)
(***************************************************************************)
EXTENDS BacktestReplay, BookTheorems

------------------------------------------------------------------------------
(* Between two stages of a candle *)

Trades == [units : Int, elapsed : Nat]

Reasons ==
  {"stop_loss", "take_profit", "breakeven", "trailing", "none", "hold_expiry",
   "position_sync", "hazard_exit", "simulation_end"}

Books ==
  [tickets : Seq(Tickets), trades : Seq(Trades), netUnits : Int, lastEntry : Int,
   exited : SUBSET [reason : Reasons, ticket : Tickets], filled : Int]

Units(book) == [i \in DOMAIN book |-> book[i].units]

(***************************************************************************)
(* Tickets and trades pair up by their slots, and no trade is older at now *)
(* than its ticket.                                                        *)
(***************************************************************************)
Paired(tks, trs, now) ==
  /\ Len(tks) = Len(trs)
  /\ \A i \in DOMAIN tks :
       /\ tks[i].units = trs[i].units
       /\ trs[i].elapsed <= now - tks[i].since

(***************************************************************************)
(* The tickets are in the order of their entries, a cooldown apart, on one *)
(* side, and none is younger than the last entry.                          *)
(***************************************************************************)
Directed(tks) == \A i \in DOMAIN tks : Side(tks[i].units) = tks[i].dir

Entries(tks, last) ==
  /\ Directed(tks) /\ SpacedOut(tks)
  /\ \A i \in DOMAIN tks : tks[i].since <= last

Sound(b, now) ==
  /\ b \in Books
  /\ Len(b.tickets) <= MaxTrades
  /\ Paired(b.tickets, b.trades, now)
  /\ Entries(b.tickets, b.lastEntry)
  /\ b.netUnits = Net(b.tickets)

(***************************************************************************)
(* Whatever has expired at now was held for its time.                      *)
(***************************************************************************)
Timely(exits, now) ==
  \A e \in exits : e.reason = "hold_expiry" => now - e.ticket.since >= Hold

------------------------------------------------------------------------------
(* Books of tickets *)

(***************************************************************************)
(* The net of a book is that of its units.                                 *)
(***************************************************************************)
LEMMA NetOfUnits ==
  ASSUME NEW T, NEW book \in Seq(T), \A x \in T : x.units \in Int
  PROVE  /\ Units(book) \in Seq(Int) /\ Len(Units(book)) = Len(book)
         /\ DOMAIN Units(book) = DOMAIN book
         /\ Net(book) = NetUnits(Units(book))
         /\ Net(book) \in Int
<1>1. Len(book) \in Nat /\ DOMAIN book = 1..Len(book) /\ \A i \in 1..Len(book) : book[i] \in T
  BY LenProperties, ElementOfSeq
<1>2. Units(book) \in [1..Len(book) -> Int]
  BY <1>1 DEF Units
<1>3. Units(book) \in Seq(Int) /\ Len(Units(book)) = Len(book)
  BY <1>1, <1>2, IsASeq, LenProperties
<1>4. Net(book) = NetUnits(Units(book))
  BY Zenon DEF Net, Units
<1>. QED
  BY <1>1, <1>2, <1>3, <1>4, NetUnitsType

LEMMA TicketFields ==
  ASSUME NEW k \in Tickets
  PROVE  /\ k.units \in Int /\ k.dir \in {-1, 1} /\ k.since \in 0..MaxTime
         /\ k.entry \in Nat /\ k.peak \in Nat /\ k.armed \in BOOLEAN
BY DEF Tickets

(***************************************************************************)
(* Tickets on one side net nothing when there is none, and are all on the  *)
(* side of their net.                                                      *)
(***************************************************************************)
LEMMA NetOfEntries ==
  ASSUME NEW tks \in Seq(Tickets), Directed(tks), SpacedOut(tks)
  PROVE  /\ Net(tks) \in Int
         /\ Net(tks) = 0 <=> tks = <<>>
         /\ \A i \in DOMAIN tks : tks[i].dir = Side(Net(tks))
<1>1. /\ Units(tks) \in Seq(Int) /\ Len(Units(tks)) = Len(tks)
      /\ DOMAIN Units(tks) = DOMAIN tks
      /\ Net(tks) = NetUnits(Units(tks))
      /\ Net(tks) \in Int
  <2>1. \A x \in Tickets : x.units \in Int
    BY TicketFields
  <2>. QED
    BY <2>1, NetOfUnits, Zenon
<1>2. PICK u \in Seq(Int) : u = Units(tks)
  BY <1>1
<1>3. /\ DOMAIN tks = 1..Len(tks) /\ Len(tks) \in Nat
      /\ \A i \in 1..Len(tks) : tks[i] \in Tickets
  BY LenProperties, ElementOfSeq
<1>4. \A i \in DOMAIN tks : u[i] = tks[i].units
  BY <1>2 DEF Units
<1>5. \A i \in DOMAIN tks : u[i] \in Int /\ tks[i].dir \in {-1, 1} /\ Side(u[i]) = tks[i].dir
  BY <1>3, <1>4, TicketFields DEF Directed
<1>6. \A i, j \in DOMAIN tks : tks[i].dir = tks[j].dir
  BY <1>3 DEF SpacedOut
<1>7. OneSided(u)
  <2>1. CASE tks = <<>>
    <3>1. DOMAIN u = {}
      BY <1>1, <1>2, <1>3, <2>1
    <3>. QED
      BY <3>1 DEF OneSided
  <2>2. CASE \E i \in DOMAIN tks : tks[i].dir = 1
    <3>1. \A i \in DOMAIN tks : u[i] > 0
      BY <1>5, <1>6, <2>2 DEF Side
    <3>. QED
      BY <1>1, <1>2, <3>1 DEF OneSided
  <2>3. CASE \E i \in DOMAIN tks : tks[i].dir = -1
    <3>1. \A i \in DOMAIN tks : u[i] < 0
      BY <1>5, <1>6, <2>3 DEF Side
    <3>. QED
      BY <1>1, <1>2, <3>1 DEF OneSided
  <2>4. tks # <<>> => 1 \in DOMAIN tks
    BY <1>3, EmptySeq
  <2>. QED
    BY <1>5, <2>1, <2>2, <2>3, <2>4
<1>8. PICK n \in Int : n = NetUnits(u)
  BY NetUnitsType
<1>9. /\ n = 0 <=> u = <<>>
      /\ n > 0 => \A i \in DOMAIN u : u[i] > 0
      /\ n < 0 => \A i \in DOMAIN u : u[i] < 0
  BY <1>7, <1>8, OneSidedNet
<1>10. u = <<>> <=> tks = <<>>
  BY <1>1, <1>2, EmptySeq
<1>11. ASSUME NEW i \in DOMAIN tks PROVE tks[i].dir = Side(n)
  <2>1. tks # <<>> /\ n # 0 /\ i \in DOMAIN u
    BY <1>1, <1>2, <1>3, <1>9, <1>10
  <2>2. u[i] \in Int /\ Side(u[i]) = tks[i].dir /\ (n > 0 => u[i] > 0) /\ (n < 0 => u[i] < 0)
    BY <1>5, <1>9, <2>1
  <2>. QED
    BY <1>8, <2>1, <2>2 DEF Side
<1>. QED
  BY <1>1, <1>2, <1>8, <1>9, <1>10, <1>11

(***************************************************************************)
(* Books with the same units have the same net.                            *)
(***************************************************************************)
LEMMA SameUnitsSameNet ==
  ASSUME NEW a, NEW b, DOMAIN a = DOMAIN b, \A i \in DOMAIN a : a[i].units = b[i].units
  PROVE  Net(a) = Net(b)
<1>1. [i \in DOMAIN a |-> a[i].units] = [i \in DOMAIN b |-> b[i].units]
  OBVIOUS
<1>. QED
  BY <1>1, Zenon DEF Net

LEMMA PairedNets ==
  ASSUME NEW tks \in Seq(Tickets), NEW trs \in Seq(Trades), NEW now, Paired(tks, trs, now)
  PROVE  Net(tks) = Net(trs) /\ DOMAIN tks = DOMAIN trs
<1>1. DOMAIN tks = DOMAIN trs
  BY LenProperties DEF Paired
<1>2. \A i \in DOMAIN tks : tks[i].units = trs[i].units
  BY DEF Paired
<1>. QED
  BY <1>1, <1>2, SameUnitsSameNet

(***************************************************************************)
(* Tickets whose peaks and stops have moved are the same tickets.          *)
(***************************************************************************)
Alike(k, m) == k.units = m.units /\ k.dir = m.dir /\ k.since = m.since

LEMMA AlikeTickets ==
  ASSUME NEW tks \in Seq(Tickets), NEW new, new = [i \in DOMAIN tks |-> new[i]],
         \A i \in DOMAIN tks : new[i] \in Tickets /\ Alike(new[i], tks[i])
  PROVE  /\ new \in Seq(Tickets) /\ Len(new) = Len(tks)
         /\ Net(new) = Net(tks)
         /\ \A trs, now : Paired(tks, trs, now) => Paired(new, trs, now)
         /\ \A last : Entries(tks, last) => Entries(new, last)
<1>1. Len(tks) \in Nat /\ DOMAIN tks = 1..Len(tks) /\ \A i \in 1..Len(tks) : tks[i] \in Tickets
  BY LenProperties, ElementOfSeq
<1>2. new \in [1..Len(tks) -> Tickets]
  BY <1>1
<1>3. new \in Seq(Tickets) /\ Len(new) = Len(tks) /\ DOMAIN new = DOMAIN tks
  BY <1>1, <1>2, IsASeq, LenProperties
<1>4. Net(new) = Net(tks)
  <2>1. \A i \in DOMAIN new : new[i].units = tks[i].units
    BY <1>3 DEF Alike
  <2>. QED
    BY <1>3, <2>1, SameUnitsSameNet
<1>5. ASSUME NEW trs, NEW now, Paired(tks, trs, now) PROVE Paired(new, trs, now)
  BY <1>3, <1>5 DEF Paired, Alike
<1>6. ASSUME NEW last, Entries(tks, last) PROVE Entries(new, last)
  <2>1. Directed(new)
    BY <1>3, <1>6 DEF Entries, Directed, Alike
  <2>2. SpacedOut(new)
    BY <1>3, <1>6 DEF Entries, SpacedOut, Alike
  <2>3. \A i \in DOMAIN new : new[i].since <= last
    BY <1>3, <1>6 DEF Entries, Alike
  <2>. QED
    BY <2>1, <2>2, <2>3 DEF Entries
<1>. QED
  BY <1>3, <1>4, <1>5, <1>6

(***************************************************************************)
(* What a candle does to the state of a ticket.                            *)
(***************************************************************************)
LEMMA CheckedTicket ==
  ASSUME NEW k \in Tickets, NEW c \in Candles
  PROVE  CheckedState(k, c) \in Tickets /\ Alike(CheckedState(k, c), k)
<1>1. c.high \in Nat /\ c.low \in Nat
  BY BacktestAssumption
<1>2. PICK armed \in BOOLEAN, peak \in Nat :
        CheckedState(k, c) = [k EXCEPT !.armed = armed, !.peak = peak]
  <2>1. Peak(k, c) \in Nat /\ k.peak \in Nat
    BY <1>1, TicketFields DEF Peak, Favorable
  <2>2. Armed(k, c) \in BOOLEAN /\ k.armed \in BOOLEAN
    BY TicketFields DEF Armed, Gained
  <2>3. CheckedState(k, c) =
          [k EXCEPT
             !.armed = IF Verdict(k, c) \in {"stop_loss", "take_profit"} THEN k.armed ELSE Armed(k, c),
             !.peak  = IF Verdict(k, c) \in {"trailing", "none"} THEN Peak(k, c) ELSE k.peak]
    BY Zenon DEF CheckedState
  <2>. QED
    BY <2>1, <2>2, <2>3
<1>. QED
  BY <1>2 DEF Tickets, Alike

(***************************************************************************)
(* The peak follows the candle.                                            *)
(***************************************************************************)
LEMMA RemarkedTicket ==
  ASSUME NEW k \in Tickets, NEW c \in Candles
  PROVE  Remarked(k, c) \in Tickets /\ Alike(Remarked(k, c), k)
<1>1. c.high \in Nat /\ c.low \in Nat
  BY BacktestAssumption
<1>2. Favorable(k, c) \in Nat /\ k.peak \in Nat
  BY <1>1, TicketFields DEF Favorable
<1>3. PICK peak \in Nat : Remarked(k, c) = [k EXCEPT !.peak = peak]
  BY <1>2 DEF Remarked
<1>. QED
  BY <1>3 DEF Tickets, Alike

LEMMA MarkedBook ==
  ASSUME NEW b \in Books, NEW c \in Candles, NEW now, Sound(b, now)
  PROVE  /\ Sound(Marked(b, c), now)
         /\ Marked(b, c).exited = b.exited /\ Marked(b, c).filled = b.filled
         /\ Marked(b, c).trades = b.trades /\ Marked(b, c).lastEntry = b.lastEntry
<1>1. PICK tks \in Seq(Tickets) : tks = b.tickets
  BY DEF Books
<1>2. PICK new : new = [i \in DOMAIN tks |-> Remarked(tks[i], c)]
  OBVIOUS
<1>3. \A i \in DOMAIN tks : tks[i] \in Tickets
  BY ElementOfSeq, LenProperties
<1>4. Marked(b, c) = [b EXCEPT !.tickets = new]
  BY <1>1, <1>2 DEF Marked
<1>5. ASSUME NEW i \in DOMAIN tks PROVE new[i] \in Tickets /\ Alike(new[i], tks[i])
  <2>1. new[i] = Remarked(tks[i], c)
    BY <1>2
  <2>. QED
    BY <1>3, <2>1, RemarkedTicket
<1>6. new = [i \in DOMAIN tks |-> new[i]]
  BY <1>2
<1>7. /\ new \in Seq(Tickets) /\ Len(new) = Len(tks) /\ Net(new) = Net(tks)
      /\ Paired(tks, b.trades, now) => Paired(new, b.trades, now)
      /\ Entries(tks, b.lastEntry) => Entries(new, b.lastEntry)
  BY <1>5, <1>6, AlikeTickets
<1>. QED
  BY <1>1, <1>4, <1>7 DEF Sound, Books

(***************************************************************************)
(* What is left of tickets and trades when the same slots of both are      *)
(* closed.                                                                 *)
(***************************************************************************)
LEMMA SlotsClosed ==
  ASSUME NEW tks \in Seq(Tickets), NEW trs \in Seq(Trades), NEW now, NEW last, NEW slots,
         Paired(tks, trs, now), Entries(tks, last)
  PROVE  /\ Without(tks, slots) \in Seq(Tickets) /\ Without(trs, slots) \in Seq(Trades)
         /\ Len(Without(tks, slots)) <= Len(tks)
         /\ Paired(Without(tks, slots), Without(trs, slots), now)
         /\ Entries(Without(tks, slots), last)
<1>1. PICK left : left = SlotsLeft(Len(tks), slots)
  OBVIOUS
<1>2. PICK a : a = Without(tks, slots)
  OBVIOUS
<1>3. PICK b : b = Without(trs, slots)
  OBVIOUS
<1>4. Len(tks) \in Nat /\ Len(tks) = Len(trs) /\ DOMAIN tks = 1..Len(tks)
  BY LenProperties DEF Paired
<1>5. /\ a \in Seq(Tickets) /\ Len(a) <= Len(tks) /\ DOMAIN a = DOMAIN left
      /\ \A i \in DOMAIN a : left[i] \in DOMAIN tks \ slots /\ a[i] = tks[left[i]]
  BY <1>1, <1>2, WithoutElements
<1>6. /\ b \in Seq(Trades) /\ DOMAIN b = DOMAIN left
      /\ \A i \in DOMAIN b : b[i] = trs[left[i]]
  BY <1>1, <1>3, <1>4, WithoutElements
<1>7. \A i, j \in DOMAIN left : i < j => left[i] < left[j]
  <2>1. Lists(left, slots, Len(tks))
    BY <1>1, <1>4, SlotsLeftAreOpen
  <2>. QED
    BY <2>1, LenProperties DEF Lists
<1>8. Paired(a, b, now)
  <2>1. Len(a) = Len(b)
    BY <1>5, <1>6, LenProperties
  <2>2. ASSUME NEW i \in DOMAIN a
        PROVE  a[i].units = b[i].units /\ b[i].elapsed <= now - a[i].since
    <3>1. left[i] \in DOMAIN tks /\ a[i] = tks[left[i]] /\ b[i] = trs[left[i]]
      BY <1>5, <1>6
    <3>. QED
      BY <3>1 DEF Paired
  <2>. QED
    BY <2>1, <2>2 DEF Paired
<1>9. Entries(a, last)
  <2>1. Directed(a)
    BY <1>5 DEF Entries, Directed
  <2>2. SpacedOut(a)
    <3>. SUFFICES ASSUME NEW i \in DOMAIN a, NEW j \in DOMAIN a, i < j
                  PROVE  a[j].since - a[i].since >= Cooldown /\ a[i].dir = a[j].dir
      BY DEF SpacedOut
    <3>1. left[i] \in DOMAIN tks /\ left[j] \in DOMAIN tks /\ left[i] < left[j]
      BY <1>5, <1>7
    <3>. QED
      BY <1>5, <3>1 DEF Entries, SpacedOut
  <2>3. \A i \in DOMAIN a : a[i].since <= last
    BY <1>5 DEF Entries
  <2>. QED
    BY <2>1, <2>2, <2>3 DEF Entries
<1>. QED
  BY <1>2, <1>3, <1>5, <1>6, <1>8, <1>9

------------------------------------------------------------------------------
(* The stages of a candle *)

(***************************************************************************)
(* What a stage leaves alone: the cooldown and the fill of the candle, and *)
(* a book without tickets gets none.                                       *)
(***************************************************************************)
Shrinks(b, d) ==
  /\ d.lastEntry = b.lastEntry /\ d.filled = b.filled
  /\ b.tickets = <<>> => d.tickets = <<>>

LeftOf(new, old, slots) ==
  \A i \in DOMAIN new : \E j \in DOMAIN old \ slots : new[i] = old[j]

LEMMA ClosedBook ==
  ASSUME NEW b \in Books, NEW now, Sound(b, now),
         NEW slots, slots \subseteq DOMAIN b.tickets,
         NEW reason, \A i \in slots : reason[i] \in Reasons
  PROVE  /\ Sound(Closed(b, slots, reason), now)
         /\ Shrinks(b, Closed(b, slots, reason))
         /\ Closed(b, slots, reason).exited = b.exited \cup Exits(b.tickets, slots, reason)
         /\ LeftOf(Closed(b, slots, reason).trades, b.trades, slots)
<1>1. PICK tks \in Seq(Tickets), trs \in Seq(Trades) : tks = b.tickets /\ trs = b.trades
  BY DEF Books
<1>2. PICK tks2 : tks2 = Without(tks, slots)
  OBVIOUS
<1>3. PICK trs2 : trs2 = Without(trs, slots)
  OBVIOUS
<1>4. PICK out : out = Exits(tks, slots, reason)
  OBVIOUS
<1>5. /\ tks2 \in Seq(Tickets) /\ trs2 \in Seq(Trades)
      /\ Len(tks2) <= Len(tks)
      /\ Paired(tks2, trs2, now) /\ Entries(tks2, b.lastEntry)
  BY <1>1, <1>2, <1>3, SlotsClosed DEF Sound
<1>6. Closed(b, slots, reason) =
        [b EXCEPT !.tickets = tks2, !.trades = trs2, !.netUnits = Net(tks2),
                  !.exited = b.exited \cup out]
  BY <1>1, <1>2, <1>3, <1>4 DEF Closed
<1>7. out \subseteq [reason : Reasons, ticket : Tickets]
  <2>1. \A i \in slots : tks[i] \in Tickets
    BY <1>1, ElementOfSeq, LenProperties
  <2>. QED
    BY <1>4, <2>1 DEF Exits
<1>8. Net(tks2) \in Int
  <2>1. \A x \in Tickets : x.units \in Int
    BY TicketFields
  <2>. QED
    BY <1>5, <2>1, NetOfUnits, Zenon
<1>9. LeftOf(trs2, trs, slots)
  <2>1. \A i \in DOMAIN Without(trs, slots) :
          /\ SlotsLeft(Len(trs), slots)[i] \in DOMAIN trs \ slots
          /\ Without(trs, slots)[i] = trs[SlotsLeft(Len(trs), slots)[i]]
    BY WithoutElements
  <2>. QED
    BY <1>3, <2>1, Zenon DEF LeftOf
<1>10. tks = <<>> => tks2 = <<>>
  BY <1>5, EmptySeq, LenProperties
<1>11. PICK d : d = Closed(b, slots, reason)
  OBVIOUS
<1>12. /\ d \in Books /\ d.tickets = tks2 /\ d.trades = trs2 /\ d.netUnits = Net(tks2)
       /\ d.lastEntry = b.lastEntry /\ d.filled = b.filled /\ d.exited = b.exited \cup out
  BY <1>5, <1>6, <1>7, <1>8, <1>11 DEF Books
<1>13. Len(tks2) <= MaxTrades
  BY <1>1, <1>5, LenProperties, BacktestAssumption DEF Sound
<1>14. Sound(d, now)
  BY <1>5, <1>12, <1>13 DEF Sound
<1>. QED
  BY <1>1, <1>4, <1>9, <1>10, <1>11, <1>12, <1>14 DEF Shrinks

LEMMA VerdictIsAString ==
  ASSUME NEW k, NEW c
  PROVE  Verdict(k, c) \in {"stop_loss", "take_profit", "breakeven", "trailing", "none"}
BY DEF Verdict

(***************************************************************************)
(* The price exits keep a book sound and expire nothing.                   *)
(***************************************************************************)
LEMMA TpslBook ==
  ASSUME NEW b \in Books, NEW now, Sound(b, now), NEW c \in Candles
  PROVE  /\ Sound(TpslExits(b, c), now)
         /\ Shrinks(b, TpslExits(b, c))
         /\ \A e \in TpslExits(b, c).exited : e \in b.exited \/ e.reason # "hold_expiry"
         /\ \A h : (\A i \in DOMAIN b.trades : b.trades[i].elapsed < h)
                     => \A i \in DOMAIN TpslExits(b, c).trades : TpslExits(b, c).trades[i].elapsed < h
<1>1. PICK tks \in Seq(Tickets) : tks = b.tickets
  BY DEF Books
<1>2. PICK new : new = [i \in DOMAIN tks |-> CheckedState(tks[i], c)]
  OBVIOUS
<1>3. PICK seen : seen = [b EXCEPT !.tickets = new]
  OBVIOUS
<1>4. PICK hits : hits = {i \in DOMAIN tks : Verdict(tks[i], c) # "none"} \cap DOMAIN b.trades
  OBVIOUS
<1>5. PICK reason : reason = [i \in hits |-> Verdict(tks[i], c)]
  OBVIOUS
<1>6. TpslExits(b, c) \in {b, seen, Closed(seen, hits, reason)}
  BY <1>1, <1>2, <1>3, <1>4, <1>5, Zenon DEF TpslExits
<1>7. \A i \in DOMAIN tks : tks[i] \in Tickets
  BY ElementOfSeq, LenProperties
<1>8. ASSUME NEW i \in DOMAIN tks PROVE new[i] \in Tickets /\ Alike(new[i], tks[i])
  <2>1. new[i] = CheckedState(tks[i], c)
    BY <1>2
  <2>. QED
    BY <1>7, <2>1, CheckedTicket
<1>9. new = [i \in DOMAIN tks |-> new[i]]
  BY <1>2
<1>10. /\ new \in Seq(Tickets) /\ Len(new) = Len(tks) /\ Net(new) = Net(tks)
       /\ Paired(tks, b.trades, now) => Paired(new, b.trades, now)
       /\ Entries(tks, b.lastEntry) => Entries(new, b.lastEntry)
  BY <1>8, <1>9, AlikeTickets
<1>11. /\ seen \in Books /\ seen.tickets = new /\ seen.trades = b.trades
       /\ seen.exited = b.exited /\ seen.lastEntry = b.lastEntry /\ seen.filled = b.filled
       /\ seen.netUnits = b.netUnits
  BY <1>3, <1>10 DEF Books
<1>12. Sound(seen, now)
  BY <1>1, <1>10, <1>11 DEF Sound
<1>13. tks = <<>> => new = <<>>
  BY <1>10, EmptySeq
<1>14. hits \subseteq DOMAIN new /\ \A i \in hits : reason[i] \in Reasons /\ reason[i] # "hold_expiry"
  <2>1. hits \subseteq DOMAIN new
    BY <1>2, <1>4
  <2>2. ASSUME NEW i \in hits PROVE reason[i] \in Reasons /\ reason[i] # "hold_expiry"
    <3>1. reason[i] = Verdict(tks[i], c)
      BY <1>5
    <3>2. Verdict(tks[i], c) \in {"stop_loss", "take_profit", "breakeven", "trailing", "none"}
      BY VerdictIsAString, Zenon
    <3>3. reason[i] \in {"stop_loss", "take_profit", "breakeven", "trailing", "none"}
      BY <3>1, <3>2, Zenon
    <3>. HIDE <3>1, <3>2
    <3>. QED
      BY <3>3 DEF Reasons
  <2>. QED
    BY <2>1, <2>2
<1>15. PICK d : d = Closed(seen, hits, reason)
  OBVIOUS
<1>16. /\ Sound(d, now) /\ Shrinks(seen, d)
       /\ d.exited = b.exited \cup Exits(new, hits, reason)
       /\ LeftOf(d.trades, b.trades, hits)
  <2>1. hits \subseteq DOMAIN seen.tickets /\ \A i \in hits : reason[i] \in Reasons
    BY <1>11, <1>14
  <2>2. /\ Sound(d, now) /\ Shrinks(seen, d)
        /\ d.exited = seen.exited \cup Exits(seen.tickets, hits, reason)
        /\ LeftOf(d.trades, seen.trades, hits)
    <3>1. /\ Sound(Closed(seen, hits, reason), now)
          /\ Shrinks(seen, Closed(seen, hits, reason))
          /\ Closed(seen, hits, reason).exited = seen.exited \cup Exits(seen.tickets, hits, reason)
          /\ LeftOf(Closed(seen, hits, reason).trades, seen.trades, hits)
      BY <1>11, <1>12, <2>1, ClosedBook
    <3>. QED
      BY <1>15, <3>1, Zenon
  <2>. QED
    BY <1>11, <2>2
<1>17. \A e \in Exits(new, hits, reason) : e.reason # "hold_expiry"
  BY <1>14 DEF Exits
<1>18. CASE TpslExits(b, c) = b
  BY <1>18 DEF Shrinks
<1>19. CASE TpslExits(b, c) = seen
  BY <1>1, <1>11, <1>12, <1>13, <1>19 DEF Shrinks
<1>20. CASE TpslExits(b, c) = d
  BY <1>1, <1>11, <1>13, <1>16, <1>17, <1>20 DEF Shrinks, LeftOf
<1>. QED
  BY <1>6, <1>15, <1>18, <1>19, <1>20

Fresh(trs) == \A i \in DOMAIN trs : trs[i].elapsed < Hold

(***************************************************************************)
(* Trades that grow a tick older stay younger than their tickets.          *)
(***************************************************************************)
LEMMA AgedTrades ==
  ASSUME NEW tks \in Seq(Tickets), NEW trs \in Seq(Trades), NEW before \in Int, NEW now \in Int,
         before + 1 <= now, Paired(tks, trs, before),
         NEW old, old = [i \in DOMAIN trs |-> Aged(trs[i])]
  PROVE  /\ old \in Seq(Trades) /\ DOMAIN old = DOMAIN trs /\ Paired(tks, old, now)
         /\ Paired(tks, trs, now)
<1>1. Len(trs) \in Nat /\ DOMAIN trs = 1..Len(trs) /\ \A i \in 1..Len(trs) : trs[i] \in Trades
  BY LenProperties, ElementOfSeq
<1>2. \A i \in DOMAIN trs :
        /\ old[i] \in Trades /\ old[i].units = trs[i].units
        /\ old[i].elapsed = trs[i].elapsed + 1 /\ trs[i].elapsed \in Nat
  BY <1>1 DEF Aged, Trades
<1>3. old \in [1..Len(trs) -> Trades]
  BY <1>1, <1>2
<1>4. old \in Seq(Trades) /\ Len(old) = Len(trs) /\ DOMAIN old = DOMAIN trs
  BY <1>1, <1>3, IsASeq, LenProperties
<1>5. \A i \in DOMAIN tks : tks[i].since \in Int /\ i \in DOMAIN trs
  <2>1. DOMAIN tks = DOMAIN trs
    BY <1>1, LenProperties DEF Paired
  <2>2. \A i \in DOMAIN tks : tks[i] \in Tickets
    BY ElementOfSeq, LenProperties
  <2>. QED
    BY <2>1, <2>2, BacktestAssumption DEF Tickets
<1>6. ASSUME NEW i \in DOMAIN tks
      PROVE  /\ tks[i].units = old[i].units /\ old[i].elapsed <= now - tks[i].since
             /\ tks[i].units = trs[i].units /\ trs[i].elapsed <= now - tks[i].since
  <2>1. tks[i].units = trs[i].units /\ trs[i].elapsed <= before - tks[i].since
    BY DEF Paired
  <2>. QED
    BY <1>2, <1>5, <2>1
<1>. QED
  BY <1>4, <1>6 DEF Paired

(***************************************************************************)
(* The expiry keeps a book sound, closes no ticket before its time and     *)
(* leaves no trade behind that is due.                                     *)
(***************************************************************************)
LEMMA TimeBook ==
  ASSUME NEW b \in Books, NEW before \in Int, NEW now \in Int, before + 1 <= now,
         Sound(b, before), Fresh(b.trades)
  PROVE  /\ Sound(TimeExits(b), now)
         /\ Shrinks(b, TimeExits(b))
         /\ \A e \in TimeExits(b).exited : e \in b.exited \/ now - e.ticket.since >= Hold
         /\ Fresh(TimeExits(b).trades)
<1>1. PICK tks \in Seq(Tickets), trs \in Seq(Trades) : tks = b.tickets /\ trs = b.trades
  BY DEF Books
<1>2. PICK old : old = [i \in DOMAIN trs |-> Aged(trs[i])]
  OBVIOUS
<1>3. PICK aged : aged = [b EXCEPT !.trades = old]
  OBVIOUS
<1>4. PICK due : due = {i \in DOMAIN old : ExpiredNow(old[i])}
  OBVIOUS
<1>5. PICK reason : reason = ForAll(tks, "hold_expiry")
  OBVIOUS
<1>6. /\ old \in Seq(Trades) /\ DOMAIN old = DOMAIN trs /\ Paired(tks, old, now)
      /\ Paired(tks, trs, now)
  BY <1>1, <1>2, AgedTrades DEF Sound
<1>7. DOMAIN tks = DOMAIN old /\ due \cap DOMAIN tks = due
  BY <1>1, <1>4, <1>6, PairedNets DEF Sound
<1>8. /\ aged \in Books /\ aged.tickets = tks /\ aged.trades = old /\ aged.exited = b.exited
      /\ aged.lastEntry = b.lastEntry /\ aged.filled = b.filled /\ aged.netUnits = b.netUnits
  BY <1>1, <1>3, <1>6 DEF Books
<1>9. Sound(aged, now)
  BY <1>1, <1>6, <1>8 DEF Sound
<1>10. TimeExits(b) = IF b.netUnits = 0 THEN b ELSE IF due = {} THEN aged ELSE Closed(aged, due, reason)
  <2>1. TimeExits(b) =
          LET here == due \cap DOMAIN tks
          IN CASE b.netUnits = 0                            -> b
               [] b.netUnits # 0 /\ due = {}                -> aged
               [] b.netUnits # 0 /\ due # {} /\ here = {}   -> b
               [] b.netUnits # 0 /\ here # {}               -> Closed(aged, here, reason)
    <3>1. aged = [b EXCEPT !.trades = [i \in DOMAIN b.trades |-> Aged(b.trades[i])]]
      BY <1>1, <1>2, <1>3
    <3>2. due = {i \in DOMAIN aged.trades : ExpiredNow(aged.trades[i])}
      BY <1>4, <1>8
    <3>3. reason = ForAll(b.tickets, "hold_expiry") /\ tks = b.tickets
      BY <1>1, <1>5
    <3>. QED
      BY <3>1, <3>2, <3>3, Zenon DEF TimeExits
  <2>. QED
    BY <1>7, <2>1
<1>11. CASE b.netUnits = 0
  <2>1. TimeExits(b) = b
    BY <1>10, <1>11
  <2>2. Sound(b, now)
    BY <1>1, <1>6 DEF Sound
  <2>. QED
    BY <2>1, <2>2 DEF Shrinks
<1>12. \A i \in DOMAIN old : i \notin due => old[i].elapsed < Hold
  <2>0. \A i \in DOMAIN old : old[i] \in Trades
    BY <1>6, ElementOfSeq, LenProperties
  <2>1. \A i \in DOMAIN old : old[i].elapsed \in Nat
    BY <2>0 DEF Trades
  <2>. QED
    BY <1>4, <2>1, BacktestAssumption DEF ExpiredNow
<1>13. CASE b.netUnits # 0 /\ due = {}
  <2>1. TimeExits(b) = aged
    BY <1>10, <1>13
  <2>. QED
    BY <1>1, <1>8, <1>9, <1>12, <1>13, <2>1 DEF Shrinks, Fresh
<1>14. CASE b.netUnits # 0 /\ due # {}
  <2>1. PICK d : d = Closed(aged, due, reason)
    OBVIOUS
  <2>2. TimeExits(b) = d
    BY <1>10, <1>14, <2>1
  <2>3. due \subseteq DOMAIN aged.tickets /\ \A i \in due : reason[i] \in Reasons
    BY <1>5, <1>7, <1>8 DEF ForAll, Reasons
  <2>4. /\ Sound(Closed(aged, due, reason), now)
        /\ Shrinks(aged, Closed(aged, due, reason))
        /\ Closed(aged, due, reason).exited = aged.exited \cup Exits(aged.tickets, due, reason)
        /\ LeftOf(Closed(aged, due, reason).trades, aged.trades, due)
    BY <1>8, <1>9, <2>3, ClosedBook
  <2>5. /\ Sound(d, now) /\ Shrinks(aged, d)
        /\ d.exited = b.exited \cup Exits(tks, due, reason)
        /\ LeftOf(d.trades, old, due)
    BY <1>8, <2>1, <2>4
  <2>6. ASSUME NEW e \in Exits(tks, due, reason) PROVE now - e.ticket.since >= Hold
    <3>1. PICK i \in due : e.ticket = tks[i]
      BY DEF Exits
    <3>2. tks[i] \in Tickets /\ old[i] \in Trades
      BY <1>4, <1>6, <1>7, ElementOfSeq, LenProperties
    <3>3. tks[i].since \in Int /\ old[i].elapsed \in Nat
      <4>1. tks[i].since \in 0..MaxTime
        BY <3>2, TicketFields
      <4>2. old[i].elapsed \in Nat
        BY <3>2 DEF Trades
      <4>. QED
        BY <4>1, <4>2
    <3>4. old[i].elapsed <= now - tks[i].since /\ old[i].elapsed >= Hold
      BY <1>4, <1>6, <1>7 DEF Paired, ExpiredNow
    <3>. QED
      BY <3>1, <3>3, <3>4, BacktestAssumption
  <2>7. Fresh(d.trades)
    BY <1>12, <2>5 DEF Fresh, LeftOf
  <2>. QED
    BY <1>1, <1>8, <2>2, <2>5, <2>6, <2>7 DEF Shrinks
<1>. QED
  BY <1>11, <1>13, <1>14

(***************************************************************************)
(* A book with one more.                                                   *)
(***************************************************************************)
LEMMA NetOfAppend ==
  ASSUME NEW T, NEW book \in Seq(T), NEW x \in T, \A y \in T : y.units \in Int
  PROVE  /\ Append(book, x) \in Seq(T) /\ Len(Append(book, x)) = Len(book) + 1
         /\ DOMAIN Append(book, x) = DOMAIN book \cup {Len(book) + 1}
         /\ Append(book, x)[Len(book) + 1] = x
         /\ \A i \in DOMAIN book : Append(book, x)[i] = book[i] /\ i < Len(book) + 1
         /\ Net(Append(book, x)) = Net(book) + x.units
<1>1. PICK more : more = Append(book, x)
  OBVIOUS
<1>2. /\ more \in Seq(T) /\ Len(more) = Len(book) + 1 /\ more[Len(book) + 1] = x
      /\ \A i \in 1..Len(book) : more[i] = book[i]
      /\ Len(book) \in Nat
  BY <1>1, AppendProperties
<1>3. DOMAIN book = 1..Len(book) /\ DOMAIN more = 1..(Len(book) + 1)
  BY <1>2, LenProperties
<1>4. /\ Units(book) \in Seq(Int) /\ Len(Units(book)) = Len(book)
      /\ Net(book) = NetUnits(Units(book)) /\ Net(more) = NetUnits(Units(more))
      /\ Units(more) \in Seq(Int) /\ Len(Units(more)) = Len(book) + 1
  BY <1>2, NetOfUnits
<1>5. PICK u \in Seq(Int), v \in Seq(Int) : u = Units(book) /\ v = Units(more)
  BY <1>4
<1>6. v = Append(u, x.units)
  <2>1. PICK w : w = Append(u, x.units)
    OBVIOUS
  <2>2. /\ w \in Seq(Int) /\ Len(w) = Len(u) + 1 /\ w[Len(u) + 1] = x.units
        /\ \A i \in 1..Len(u) : w[i] = u[i]
    BY <2>1, AppendProperties
  <2>3. ASSUME NEW i \in 1..(Len(book) + 1) PROVE v[i] = w[i]
    <3>1. v[i] = more[i].units
      BY <1>3, <1>5 DEF Units
    <3>2. CASE i = Len(book) + 1
      BY <1>2, <1>4, <1>5, <2>2, <3>1, <3>2
    <3>3. CASE i \in 1..Len(book)
      <4>1. u[i] = book[i].units
        BY <1>3, <1>5, <3>3 DEF Units
      <4>. QED
        BY <1>2, <1>4, <1>5, <2>2, <3>1, <3>3, <4>1
    <3>. QED
      BY <1>2, <3>2, <3>3
  <2>4. Len(v) = Len(w) /\ Len(v) = Len(book) + 1
    BY <1>4, <1>5, <2>2
  <2>5. v = w
    BY <2>2, <2>3, <2>4, SeqEqual
  <2>. QED
    BY <2>1, <2>5
<1>7. NetUnits(v) = NetUnits(u) + x.units
  <2>1. x.units \in Int
    OBVIOUS
  <2>. QED
    BY <1>6, <2>1, NetUnitsOfAppend
<1>8. DOMAIN more = DOMAIN book \cup {Len(book) + 1}
  BY <1>2, <1>3
<1>9. Net(more) = Net(book) + x.units
  BY <1>4, <1>5, <1>7
<1>10. \A i \in DOMAIN book : more[i] = book[i] /\ i < Len(book) + 1
  BY <1>2, <1>3
<1>. QED
  BY <1>1, <1>2, <1>8, <1>9, <1>10

(***************************************************************************)
(* An entry on the side of the book, a cooldown after the last one, keeps  *)
(* tickets and trades in pairs and the tickets apart.                      *)
(***************************************************************************)
LEMMA EntryKeepsClear ==
  ASSUME NEW tks \in Seq(Tickets), NEW trs \in Seq(Trades), NEW now \in 0..MaxTime, NEW last \in Int,
         Paired(tks, trs, now), Entries(tks, last), Cooldown <= now - last,
         NEW x \in Int, x # 0, Net(tks) = 0 \/ Side(Net(tks)) = Side(x),
         NEW k \in Tickets, k.units = x, k.dir = Side(x), k.since = now
  PROVE  /\ Append(tks, k) \in Seq(Tickets)
         /\ Append(trs, [units |-> x, elapsed |-> 0]) \in Seq(Trades)
         /\ Paired(Append(tks, k), Append(trs, [units |-> x, elapsed |-> 0]), now)
         /\ Entries(Append(tks, k), now)
         /\ Net(Append(tks, k)) = Net(tks) + x
<1>1. PICK e : e = [units |-> x, elapsed |-> 0]
  OBVIOUS
<1>2. e \in Trades /\ e.units = x /\ e.elapsed = 0
  BY <1>1 DEF Trades
<1>3. PICK a : a = Append(tks, k)
  OBVIOUS
<1>4. PICK b : b = Append(trs, e)
  OBVIOUS
<1>5. PICK n \in Nat : n = Len(tks) /\ n = Len(trs)
  BY LenProperties DEF Paired
<1>6. DOMAIN tks = 1..n /\ DOMAIN trs = 1..n
  BY <1>5, LenProperties
<1>7. /\ a \in Seq(Tickets) /\ Len(a) = n + 1 /\ DOMAIN a = DOMAIN tks \cup {n + 1}
      /\ a[n + 1] = k /\ (\A i \in DOMAIN tks : a[i] = tks[i] /\ i < n + 1)
      /\ Net(a) = Net(tks) + x
  <2>1. \A y \in Tickets : y.units \in Int
    BY TicketFields
  <2>2. /\ Append(tks, k) \in Seq(Tickets) /\ Len(Append(tks, k)) = Len(tks) + 1
        /\ DOMAIN Append(tks, k) = DOMAIN tks \cup {Len(tks) + 1}
        /\ Append(tks, k)[Len(tks) + 1] = k
        /\ \A i \in DOMAIN tks : Append(tks, k)[i] = tks[i] /\ i < Len(tks) + 1
        /\ Net(Append(tks, k)) = Net(tks) + k.units
    BY <2>1, NetOfAppend
  <2>. QED
    BY <1>3, <1>5, <2>2
<1>8. /\ b \in Seq(Trades) /\ Len(b) = n + 1
      /\ b[n + 1] = e /\ (\A i \in DOMAIN trs : b[i] = trs[i])
  <2>1. \A y \in Trades : y.units \in Int
    BY DEF Trades
  <2>. QED
    BY <1>2, <1>4, <1>5, <2>1, NetOfAppend
<1>9. now \in Int /\ Cooldown \in Nat
  BY BacktestAssumption
<1>10. \A i \in DOMAIN tks : tks[i].since \in Int
  <2>1. \A i \in DOMAIN tks : tks[i] \in Tickets
    BY ElementOfSeq, LenProperties
  <2>2. \A i \in DOMAIN tks : tks[i].since \in 0..MaxTime
    BY <2>1, TicketFields
  <2>. QED
    BY <2>2
<1>11. Paired(a, b, now)
  <2>1. ASSUME NEW i \in DOMAIN a PROVE a[i].units = b[i].units /\ b[i].elapsed <= now - a[i].since
    <3>1. CASE i \in DOMAIN tks
      <4>1. a[i] = tks[i] /\ b[i] = trs[i]
        BY <1>6, <1>7, <1>8, <3>1
      <4>. QED
        BY <3>1, <4>1 DEF Paired
    <3>2. CASE i = n + 1
      BY <1>2, <1>7, <1>8, <1>9, <3>2
    <3>. QED
      BY <1>7, <3>1, <3>2
  <2>. QED
    BY <1>7, <1>8, <2>1 DEF Paired
<1>12. Entries(a, now)
  <2>1. Directed(a)
    BY <1>7 DEF Entries, Directed
  <2>2. \A i \in DOMAIN a : a[i].since <= now
    BY <1>7, <1>9, <1>10 DEF Entries
  <2>3. SpacedOut(a)
    <3>. SUFFICES ASSUME NEW i \in DOMAIN a, NEW j \in DOMAIN a, i < j
                  PROVE  a[j].since - a[i].since >= Cooldown /\ a[i].dir = a[j].dir
      BY DEF SpacedOut
    <3>1. CASE j \in DOMAIN tks
      <4>1. i \in DOMAIN tks
        BY <1>5, <1>6, <1>7, <3>1
      <4>. QED
        BY <1>7, <3>1, <4>1 DEF Entries, SpacedOut
    <3>2. CASE j = n + 1
      <4>1. i \in DOMAIN tks /\ a[i] = tks[i] /\ a[j] = k
        BY <1>5, <1>6, <1>7, <3>2
      <4>2. tks[i].since <= last /\ tks[i].since \in Int
        BY <1>10, <4>1 DEF Entries
      <4>3. a[j].since - a[i].since >= Cooldown
        BY <1>9, <4>1, <4>2
      <4>4. tks[i].dir = Side(Net(tks)) /\ Net(tks) # 0
        <5>1. tks # <<>>
          BY <1>6, <4>1, EmptySeq
        <5>2. Directed(tks) /\ SpacedOut(tks)
          BY DEF Entries
        <5>. QED
          BY <4>1, <5>1, <5>2, NetOfEntries
      <4>. QED
        BY <4>1, <4>3, <4>4
    <3>. QED
      BY <1>7, <3>1, <3>2
  <2>. QED
    BY <2>1, <2>2, <2>3 DEF Entries
<1>. QED
  BY <1>1, <1>3, <1>4, <1>7, <1>8, <1>11, <1>12

LEMMA SideOfEntry ==
  ASSUME NEW side \in {-1, 1}, NEW size \in Sizes
  PROVE  side * size \in Int /\ side * size # 0 /\ Side(side * size) = side
<1>1. PICK n \in Nat \ {0} : n = size
  BY BacktestAssumption
<1>2. side = 1 => side * n = n
  OBVIOUS
<1>3. side = -1 => side * n = -n
  OBVIOUS
<1>. QED
  BY <1>1, <1>2, <1>3 DEF Side

(***************************************************************************)
(* The allocation of a request on a sound book: the book stays as it is,   *)
(* or gets one ticket and one trade of the same size.                      *)
(***************************************************************************)
LEMMA AllocatedBook ==
  ASSUME NEW b \in Books, NEW now \in 0..MaxTime, Sound(b, now), Fresh(b.trades), b.filled = 0,
         NEW c \in Candles, NEW blocked \in BOOLEAN, NEW ready \in BOOLEAN,
         NEW side \in {-1, 0, 1}, NEW size \in Sizes,
         blocked => b.tickets = <<>>, ready => Cooldown <= now - b.lastEntry
  PROVE  LET d == Allocated(b, blocked, ready, side, size, now, c)
         IN  /\ d \in Books /\ Sound(d, now) /\ Fresh(d.trades)
             /\ d.exited = b.exited /\ d.lastEntry \in {b.lastEntry, now}
             /\ d.filled # 0 => ~blocked
<1>. DEFINE d == Allocated(b, blocked, ready, side, size, now, c)
<1>1. PICK tks \in Seq(Tickets), trs \in Seq(Trades) : tks = b.tickets /\ trs = b.trades
  BY DEF Books
<1>2. /\ Paired(tks, trs, now) /\ Entries(tks, b.lastEntry) /\ b.netUnits = Net(tks)
      /\ Len(tks) <= MaxTrades /\ Fresh(trs) /\ b.lastEntry \in Int
  BY <1>1 DEF Sound, Books
<1>3. PICK plan : plan = Planned(b, blocked, ready, side, size)
  OBVIOUS
<1>4. PICK n \in Int : n = Net(tks)
  BY <1>2, NetOfEntries DEF Entries
<1>5. Net(trs) = n /\ DOMAIN tks = DOMAIN trs /\ Len(tks) = Len(trs)
  BY <1>2, <1>4, PairedNets DEF Paired
<1>6. PICK x : x = side * size
  OBVIOUS
<1>7. \/ blocked /\ plan = <<>>
      \/ ~blocked /\ plan = trs
      \/ /\ ~blocked /\ ready /\ side # 0 /\ Side(n) \in {0, side} /\ Len(trs) < MaxTrades
         /\ plan = Append(trs, [units |-> x, elapsed |-> 0])
  BY <1>1, <1>3, <1>5, <1>6 DEF Planned
<1>8. ASSUME plan = trs PROVE d = b
  <2>1. Net(plan) - b.netUnits = 0
    BY <1>2, <1>4, <1>5, <1>8
  <2>2. d = [b EXCEPT !.trades = plan]
    BY <1>3, <2>1, Zenon DEF Allocated
  <2>. QED
    BY <1>1, <1>8, <2>2 DEF Books
<1>9. ASSUME d = b
      PROVE  /\ d \in Books /\ Sound(d, now) /\ Fresh(d.trades)
             /\ d.exited = b.exited /\ d.lastEntry \in {b.lastEntry, now}
             /\ d.filled # 0 => ~blocked
  BY <1>9
<1>10. CASE blocked /\ plan = <<>>
  <2>1. tks = <<>>
    BY <1>1, <1>10
  <2>2. trs = <<>>
    BY <1>5, <2>1, EmptySeq
  <2>. QED
    BY <1>8, <1>9, <1>10, <2>2
<1>11. CASE ~blocked /\ plan = trs
  BY <1>8, <1>9, <1>11
<1>12. CASE /\ ~blocked /\ ready /\ side # 0 /\ Side(n) \in {0, side} /\ Len(trs) < MaxTrades
            /\ plan = Append(trs, [units |-> x, elapsed |-> 0])
  <2>1. x \in Int /\ x # 0 /\ Side(x) = side
    BY <1>6, <1>12, SideOfEntry
  <2>2. PICK k : k = Opened(x, now, c)
    OBVIOUS
  <2>3. k \in Tickets /\ k.units = x /\ k.dir = Side(x) /\ k.since = now
    <3>1. c.close \in Nat
      BY BacktestAssumption
    <3>2. Side(x) \in {-1, 1}
      BY <1>12, <2>1
    <3>. QED
      BY <2>1, <2>2, <3>1, <3>2 DEF Opened, Tickets
  <2>4. Net(tks) = 0 \/ Side(Net(tks)) = Side(x)
    BY <1>4, <1>12, <2>1 DEF Side
  <2>5. Cooldown <= now - b.lastEntry
    BY <1>12
  <2>6. PICK e : e = [units |-> x, elapsed |-> 0]
    OBVIOUS
  <2>7. /\ Append(tks, k) \in Seq(Tickets) /\ Append(trs, e) \in Seq(Trades)
        /\ Paired(Append(tks, k), Append(trs, e), now)
        /\ Entries(Append(tks, k), now)
        /\ Net(Append(tks, k)) = n + x
    BY <1>2, <1>4, <2>1, <2>3, <2>4, <2>5, <2>6, EntryKeepsClear
  <2>8. PICK a \in Seq(Tickets) : a = Append(tks, k)
    BY <2>7
  <2>9. PICK p \in Seq(Trades) : p = Append(trs, e)
    BY <2>7
  <2>10. Paired(a, p, now) /\ Entries(a, now) /\ Net(a) = n + x /\ Net(p) = n + x
    <3>1. Paired(a, p, now) /\ Entries(a, now) /\ Net(a) = n + x
      BY <2>7, <2>8, <2>9
    <3>. QED
      BY <3>1, PairedNets
  <2>11. plan = p
    BY <1>12, <2>6, <2>9
  <2>12. Net(plan) = n + x /\ Net(plan) - b.netUnits = x
    BY <1>2, <1>4, <2>1, <2>10, <2>11
  <2>13. CASE ~CanAdd(<<b.netUnits>>, 1, x)
    <3>1. d = b
      BY <1>3, <2>1, <2>12, <2>13 DEF Allocated
    <3>. QED
      BY <1>9, <3>1
  <2>14. CASE CanAdd(<<b.netUnits>>, 1, x)
    <3>1. PICK m : m = [b EXCEPT !.trades = p, !.netUnits = n + x, !.filled = x, !.lastEntry = now]
      OBVIOUS
    <3>2. d = Synced(m, n + x, now, c)
      <4>1. ready /\ Side(x) = side
        BY <1>12, <2>1
      <4>2. d = Synced([b EXCEPT !.trades = plan, !.netUnits = Net(plan),
                                 !.filled = Net(plan) - b.netUnits,
                                 !.lastEntry = IF ready /\ Side(Net(plan) - b.netUnits) = side
                                               THEN now ELSE b.lastEntry],
                       Net(plan), now, c)
        BY <1>3, <2>1, <2>12, <2>14 DEF Allocated
      <4>. QED
        BY <2>11, <2>12, <3>1, <4>1, <4>2
    <3>3. /\ m.tickets = tks /\ m.trades = p /\ m.netUnits = n + x /\ m.filled = x /\ m.lastEntry = now
          /\ m.exited = b.exited /\ m \in Books
      <4>1. now \in Int /\ n + x \in Int
        BY <2>1, BacktestAssumption
      <4>. QED
        BY <1>1, <2>1, <2>9, <3>1, <4>1 DEF Books
    <3>4. d = [m EXCEPT !.tickets = a, !.exited = m.exited]
      <4>1. /\ n # n + x /\ (n + x) - n = x
            /\ ~(n # 0 /\ n + x # 0 /\ Side(n) # Side(n + x))
            /\ ~(Magnitude(n + x) < Magnitude(n))
        BY <1>4, <1>12, <2>1 DEF Side, Magnitude
      <4>2. Net(m.tickets) = n
        BY <1>4, <3>3
      <4>. QED
        BY <2>2, <2>8, <3>2, <3>3, <4>1, <4>2 DEF Synced
    <3>5. /\ d \in Books /\ d.tickets = a /\ d.trades = p /\ d.netUnits = n + x /\ d.filled = x
          /\ d.lastEntry = now /\ d.exited = b.exited
      BY <3>3, <3>4 DEF Books
    <3>6. Len(a) <= MaxTrades
      <4>1. Len(a) = Len(tks) + 1 /\ Len(tks) \in Nat
        BY <2>3, <2>8, AppendProperties, LenProperties
      <4>. QED
        BY <1>5, <1>12, <4>1, BacktestAssumption
    <3>7. Fresh(p)
      <4>1. /\ Len(p) = Len(trs) + 1 /\ p[Len(trs) + 1] = e /\ Len(trs) \in Nat
            /\ \A i \in 1..Len(trs) : p[i] = trs[i]
        <5>1. e \in Trades
          BY <2>1, <2>6 DEF Trades
        <5>. QED
          BY <2>9, <5>1, AppendProperties, LenProperties
      <4>2. DOMAIN p = 1..(Len(trs) + 1) /\ DOMAIN trs = 1..Len(trs)
        BY <4>1, LenProperties
      <4>3. e.elapsed < Hold
        BY <2>6, BacktestAssumption
      <4>. QED
        BY <1>2, <4>1, <4>2, <4>3 DEF Fresh
    <3>8. Sound(d, now)
      BY <2>10, <3>5, <3>6 DEF Sound
    <3>. QED
      BY <1>12, <3>5, <3>7, <3>8
  <2>. QED
    BY <2>13, <2>14
<1>. QED
  BY <1>7, <1>10, <1>11, <1>12

(***************************************************************************)
(* What an order filled for a book without tickets says of the session.    *)
(***************************************************************************)
Enterable(now) == Tradable(Minute(now), FALSE)

FilledInSession(tks, units, now) == tks = <<>> /\ units # 0 => Enterable(now)

(***************************************************************************)
(* The entry of a candle, judged by the book before the expiry and made on *)
(* the one after it.  When it fills an order for an instrument that held   *)
(* nothing, its session is open.                                           *)
(***************************************************************************)
LEMMA EnteredBook ==
  ASSUME NEW before \in Books, NEW after \in Books, NEW now \in 0..MaxTime,
         Directed(before.tickets), SpacedOut(before.tickets), Shrinks(before, after),
         Sound(after, now), Fresh(after.trades), after.filled = 0,
         NEW c \in Candles, NEW size \in Sizes,
         NEW g \in {NoGate} \cup GateEvents
  PROVE  LET d == Entered(before, after, g, size, now, c)
         IN  /\ d \in Books /\ Sound(d, now) /\ Fresh(d.trades)
             /\ d.exited = after.exited /\ d.lastEntry \in {before.lastEntry, now}
             /\ FilledInSession(before.tickets, d.filled, now)
<1>. DEFINE d == Entered(before, after, g, size, now, c)
            blocked == ~Tradable(Minute(now), Net(before.tickets) # 0)
            ready == g # NoGate /\ ~Cooling(before, now) /\ ~blocked
<1>1. PICK side \in {-1, 0, 1} : side = RequestedSide(g, c)
  <2>1. g.dir \in {-1, 0, 1}
    BY DEF NoGate, GateEvents
  <2>. QED
    BY <2>1 DEF RequestedSide
<1>2. PICK shut \in BOOLEAN : shut = blocked
  BY DEF Tradable
<1>3. PICK open \in BOOLEAN : open = ready
  OBVIOUS
<1>4. d = Allocated(after, shut, open, side, size, now, c)
  BY <1>1, <1>2, <1>3, Zenon DEF Entered
<1>5. Net(before.tickets) = 0 <=> before.tickets = <<>>
  <2>1. before.tickets \in Seq(Tickets)
    BY DEF Books
  <2>. QED
    BY <2>1, NetOfEntries
<1>6. shut => after.tickets = <<>>
  <2>1. shut => Net(before.tickets) = 0
    BY <1>2 DEF Tradable
  <2>. QED
    BY <1>5, <2>1 DEF Shrinks
<1>7. open => Cooldown <= now - after.lastEntry
  <2>1. before.lastEntry \in Int /\ now \in Int /\ Cooldown \in Int
    BY BacktestAssumption DEF Books
  <2>2. open => ~(now - before.lastEntry < Cooldown)
    BY <1>3, Zenon DEF Cooling
  <2>3. after.lastEntry = before.lastEntry
    BY DEF Shrinks
  <2>. QED
    BY <2>1, <2>2, <2>3
<1>. HIDE DEF d, blocked, ready
<1>8. /\ d \in Books /\ Sound(d, now) /\ Fresh(d.trades)
      /\ d.exited = after.exited /\ d.lastEntry \in {after.lastEntry, now}
      /\ d.filled # 0 => ~shut
  BY <1>4, <1>6, <1>7, AllocatedBook
<1>9. before.tickets = <<>> /\ ~shut => Enterable(now)
  BY <1>2, <1>5 DEF blocked, Enterable, Tradable
<1>. QED
  BY <1>8, <1>9 DEF d, Shrinks, FilledInSession

------------------------------------------------------------------------------
(* The inductive invariant *)

(***************************************************************************)
(* While the replay lasts its ledgers are sound: in pairs, in order, on    *)
(* one side.  The order is what the indices rest on, and the side is what  *)
(* makes a net of zero mean that nothing is held, which every stage asks   *)
(* first.                                                                  *)
(***************************************************************************)
IInv ==
  /\ time \in 0..MaxTime /\ candle \in Candles /\ ended \in BOOLEAN
  /\ lastEntry \in -Cooldown..MaxTime /\ netUnits \in Int
  /\ trades \in Seq(Trades) /\ Fresh(trades) /\ Len(trades) <= MaxTrades
  /\ ended => tickets = <<>>
  /\ ~ended => Sound(Ledgers, time)
  /\ Timely(exited, time)

LEMMA IInvSaysMore ==
  ASSUME IInv
  PROVE  TypeOK /\ LedgersAgree /\ FullHold
<1>1. trades \in Seq([units : Int, elapsed : 0..Hold - 1])
  <2>1. PICK S : S = [units : Int, elapsed : 0..Hold - 1]
    OBVIOUS
  <2>2. PICK n \in Nat : n = Len(trades)
    BY LenProperties DEF IInv
  <2>3. DOMAIN trades = 1..n /\ trades = [k \in 1..n |-> trades[k]]
    BY <2>2, LenProperties DEF IInv
  <2>4. ASSUME NEW k \in 1..n PROVE trades[k] \in S
    <3>1. trades[k] \in Trades /\ trades[k].elapsed < Hold
      BY <2>2, <2>3, ElementOfSeq DEF IInv, Fresh
    <3>. QED
      BY <2>1, <3>1, BacktestAssumption DEF Trades
  <2>5. trades \in [1..n -> S]
    BY <2>3, <2>4
  <2>6. trades \in Seq(S)
    BY <2>5, IsASeq
  <2>. QED
    BY <2>1, <2>6, Zenon
<1>2. FullHold
  BY DEF IInv, Timely, FullHold
<1>3. CASE ended
  <2>1. tickets = <<>> /\ tickets \in Seq(Tickets) /\ Len(tickets) = 0 /\ DOMAIN tickets = {}
    BY <1>3 DEF IInv
  <2>. QED
    BY <1>1, <1>2, <1>3, <2>1, BacktestAssumption DEF IInv, TypeOK, LedgersAgree, TicketsOf
<1>4. CASE ~ended
  <2>1. PICK b : b = Ledgers
    OBVIOUS
  <2>2. b.tickets = tickets /\ b.trades = trades /\ b.netUnits = netUnits /\ b.lastEntry = lastEntry
    BY <2>1 DEF Ledgers
  <2>3. Sound(b, time)
    BY <1>4, <2>1 DEF IInv
  <2>4. /\ tickets \in Seq(Tickets) /\ Len(tickets) <= MaxTrades
        /\ Paired(tickets, trades, time) /\ Entries(tickets, lastEntry) /\ netUnits = Net(tickets)
    BY <2>2, <2>3 DEF Sound, Books
  <2>5. LedgersAgree
    BY <2>4 DEF LedgersAgree, Paired
  <2>6. \A t \in TicketsOf(tickets) : Side(t.units) = t.dir
    BY <2>4 DEF Entries, Directed, TicketsOf
  <2>7. TypeOK
    BY <1>1, <2>4, <2>6 DEF TypeOK, IInv
  <2>. QED
    BY <1>2, <2>5, <2>7
<1>. QED
  BY <1>3, <1>4 DEF IInv

LEMMA InitIsSound ==
  ASSUME Init
  PROVE  IInv
<1>1. PICK b : b = Ledgers
  OBVIOUS
<1>2. /\ b.tickets = <<>> /\ b.trades = <<>> /\ b.netUnits = 0 /\ b.lastEntry = -Cooldown
      /\ b \in Books
  BY <1>1, BacktestAssumption DEF Ledgers, Init, Books
<1>3. <<>> \in Seq(Tickets) /\ <<>> \in Seq(Trades) /\ Len(<<>>) = 0
  OBVIOUS
<1>4. DOMAIN <<>> = {}
  OBVIOUS
<1>5. Directed(<<>>) /\ SpacedOut(<<>>)
  BY <1>4 DEF Directed, SpacedOut
<1>6. Net(<<>>) = 0
  BY <1>3, <1>5, NetOfEntries
<1>7. Paired(<<>>, <<>>, 0) /\ Entries(<<>>, -Cooldown)
  BY <1>4, <1>5 DEF Paired, Entries
<1>8. Sound(b, 0)
  BY <1>2, <1>3, <1>6, <1>7, BacktestAssumption DEF Sound
<1>9. Timely({}, 0) /\ Fresh(<<>>)
  BY <1>4 DEF Timely, Fresh
<1>10. -Cooldown \in -Cooldown..MaxTime /\ 0 \in 0..MaxTime /\ 0 <= MaxTrades
  BY BacktestAssumption
<1>11. Sound(Ledgers, time) /\ Timely(exited, time)
  BY <1>1, <1>8, <1>9, Zenon DEF Init
<1>12. /\ time \in 0..MaxTime /\ candle \in Candles /\ ended \in BOOLEAN
       /\ lastEntry \in -Cooldown..MaxTime /\ netUnits \in Int
  <2>1. lastEntry \in -Cooldown..MaxTime /\ time \in 0..MaxTime /\ candle \in Candles
    BY <1>10, Zenon DEF Init
  <2>2. ended \in BOOLEAN
    BY Zenon DEF Init
  <2>3. netUnits = 0
    BY Zenon DEF Init
  <2>4. netUnits \in Int
    BY <2>3
  <2>. QED
    BY <2>1, <2>2, <2>4
<1>13. trades \in Seq(Trades) /\ Fresh(trades) /\ Len(trades) <= MaxTrades /\ tickets = <<>>
  BY <1>3, <1>9, <1>10 DEF Init
<1>. QED
  BY <1>11, <1>12, <1>13 DEF IInv

(***************************************************************************)
(* A candle, stage by stage.                                               *)
(***************************************************************************)
LEMMA CandleIsSound ==
  ASSUME IInv, ~ended, HazardExit = FALSE,
         NEW d \in 1..MaxGap, time + d <= MaxTime, NEW c \in Candles, NEW calm \in BOOLEAN,
         NEW size \in Sizes, NEW g \in {NoGate} \cup GateEvents,
         NEW held, held = TpslExits(HazardClosed(Ledgers, calm), c),
         NEW aged, aged = TimeExits(held),
         NEW b, b = Marked(Entered(held, aged, Aligned(g), size, time + d, c), c)
  PROVE  /\ b \in Books /\ Sound(b, time + d) /\ Fresh(b.trades)
         /\ b.lastEntry \in {lastEntry, time + d}
         /\ Timely(b.exited, time + d)
         /\ FilledInSession(tickets, b.filled, time + d)
<1>1. PICK now \in 0..MaxTime : now = time + d
  BY BacktestAssumption DEF IInv
<1>2. time \in Int /\ now \in Int /\ time + 1 <= now
  BY <1>1, BacktestAssumption DEF IInv
<1>3. PICK old : old = Ledgers
  OBVIOUS
<1>4. /\ old \in Books /\ Sound(old, time) /\ old.tickets = tickets /\ old.trades = trades
      /\ old.lastEntry = lastEntry /\ old.exited = {} /\ old.filled = 0
  <2>1. Sound(old, time)
    BY <1>3 DEF IInv
  <2>2. old \in Books
    BY <2>1 DEF Sound
  <2>. QED
    BY <1>3, <2>1, <2>2 DEF Ledgers
<1>5. held = TpslExits(old, c)
  <2>1. HazardClosed(Ledgers, calm) = Ledgers
    BY DEF HazardClosed
  <2>. QED
    BY <1>3, <2>1, Zenon
<1>6. /\ Sound(held, time) /\ Shrinks(old, held)
      /\ \A e \in held.exited : e.reason # "hold_expiry"
      /\ Fresh(held.trades)
  <2>1. /\ Sound(TpslExits(old, c), time)
        /\ Shrinks(old, TpslExits(old, c))
        /\ \A e \in TpslExits(old, c).exited : e \in old.exited \/ e.reason # "hold_expiry"
        /\ \A h : (\A i \in DOMAIN old.trades : old.trades[i].elapsed < h)
                    => \A i \in DOMAIN TpslExits(old, c).trades : TpslExits(old, c).trades[i].elapsed < h
    BY <1>4, TpslBook
  <2>2. Sound(held, time) /\ Shrinks(old, held)
    BY <1>5, <2>1, Zenon
  <2>3. \A e \in held.exited : e.reason # "hold_expiry"
    <3>1. \A e \in held.exited : e \in old.exited \/ e.reason # "hold_expiry"
      BY <1>5, <2>1, Zenon
    <3>. QED
      BY <1>4, <3>1
  <2>4. \A i \in DOMAIN held.trades : held.trades[i].elapsed < Hold
    <3>1. \A i \in DOMAIN old.trades : old.trades[i].elapsed < Hold
      BY <1>4 DEF IInv, Fresh
    <3>. QED
      BY <1>5, <2>1, <3>1, Zenon
  <2>. QED
    BY <2>2, <2>3, <2>4 DEF Fresh
<1>7. held \in Books
  BY <1>6 DEF Sound
<1>8. /\ Sound(aged, now) /\ Shrinks(held, aged) /\ Fresh(aged.trades)
      /\ \A e \in aged.exited : e \in held.exited \/ now - e.ticket.since >= Hold
  BY <1>2, <1>6, <1>7, TimeBook
<1>9. aged \in Books /\ aged.filled = 0 /\ aged.lastEntry = lastEntry
  BY <1>4, <1>6, <1>8 DEF Sound, Shrinks
<1>10. Directed(held.tickets) /\ SpacedOut(held.tickets)
  BY <1>6 DEF Sound, Entries
<1>11. PICK fresh \in {NoGate} \cup GateEvents : fresh = Aligned(g)
  BY DEF Aligned
<1>12. PICK new : new = Entered(held, aged, fresh, size, now, c)
  OBVIOUS
<1>13. /\ new \in Books /\ Sound(new, now) /\ Fresh(new.trades)
       /\ new.exited = aged.exited /\ new.lastEntry \in {held.lastEntry, now}
       /\ FilledInSession(held.tickets, new.filled, now)
  <2>1. PICK m : m = Entered(held, aged, fresh, size, now, c)
    OBVIOUS
  <2>2. /\ m \in Books /\ Sound(m, now) /\ Fresh(m.trades)
        /\ m.exited = aged.exited /\ m.lastEntry \in {held.lastEntry, now}
        /\ FilledInSession(held.tickets, m.filled, now)
    BY <1>7, <1>8, <1>9, <1>10, <2>1, EnteredBook
  <2>. QED
    BY <1>12, <2>1, <2>2, Zenon
<1>14. b = Marked(new, c)
  BY <1>1, <1>11, <1>12, Zenon
<1>15. /\ Sound(b, now) /\ b.exited = new.exited /\ b.filled = new.filled
       /\ b.trades = new.trades /\ b.lastEntry = new.lastEntry
  BY <1>13, <1>14, MarkedBook
<1>16. b \in Books
  BY <1>15 DEF Sound
<1>17. Timely(b.exited, now)
  <2>1. \A e \in b.exited : e.reason = "hold_expiry" => now - e.ticket.since >= Hold
    BY <1>6, <1>8, <1>13, <1>15
  <2>. QED
    BY <2>1 DEF Timely
<1>18. b.lastEntry \in {lastEntry, now}
  BY <1>4, <1>6, <1>13, <1>15 DEF Shrinks
<1>19. FilledInSession(tickets, b.filled, now)
  BY <1>4, <1>6, <1>13, <1>15 DEF Shrinks, FilledInSession
<1>. QED
  BY <1>1, <1>13, <1>15, <1>16, <1>17, <1>18, <1>19

(***************************************************************************)
(* What ReplayCandle leaves, as a book.                                    *)
(***************************************************************************)
LEMMA ReplayCandleIsSound ==
  ASSUME IInv, ReplayCandle, HazardExit = FALSE
  PROVE  \E b \in Books :
           /\ time' \in 0..MaxTime /\ candle' \in Candles /\ ended' = FALSE /\ ended = FALSE
           /\ Sound(b, time') /\ Fresh(b.trades) /\ b.lastEntry \in {lastEntry, time'}
           /\ Timely(b.exited, time')
           /\ FilledInSession(tickets, b.filled, time')
           /\ tickets' = b.tickets /\ trades' = b.trades /\ netUnits' = b.netUnits
           /\ lastEntry' = b.lastEntry /\ exited' = b.exited /\ filled' = b.filled
<1>1. ~ended /\ ended' = FALSE /\ ended = FALSE
  BY DEF ReplayCandle, IInv
<1>2. PICK d \in 1..MaxGap, c \in Candles, calm \in BOOLEAN, size \in Sizes :
        \E g \in {NoGate} \cup {x \in GateEvents : x.age < d} :
          /\ time + d <= MaxTime
          /\ time' = time + d
          /\ candle' = c
          /\ \E held \in {TpslExits(HazardClosed(Ledgers, calm), c)} :
             \E aged \in {TimeExits(held)} :
             \E b \in {Marked(Entered(held, aged, Aligned(g), size, time + d, c), c)} :
               /\ tickets' = b.tickets /\ trades' = b.trades /\ netUnits' = b.netUnits
               /\ lastEntry' = b.lastEntry /\ exited' = b.exited /\ filled' = b.filled
  BY Zenon DEF ReplayCandle
<1>3. PICK g \in {NoGate} \cup {x \in GateEvents : x.age < d} :
          /\ time + d <= MaxTime
          /\ time' = time + d
          /\ candle' = c
          /\ \E held \in {TpslExits(HazardClosed(Ledgers, calm), c)} :
             \E aged \in {TimeExits(held)} :
             \E b \in {Marked(Entered(held, aged, Aligned(g), size, time + d, c), c)} :
               /\ tickets' = b.tickets /\ trades' = b.trades /\ netUnits' = b.netUnits
               /\ lastEntry' = b.lastEntry /\ exited' = b.exited /\ filled' = b.filled
  BY <1>2, Zenon
<1>4. PICK held \in {TpslExits(HazardClosed(Ledgers, calm), c)} :
             \E aged \in {TimeExits(held)} :
             \E b \in {Marked(Entered(held, aged, Aligned(g), size, time + d, c), c)} :
               /\ tickets' = b.tickets /\ trades' = b.trades /\ netUnits' = b.netUnits
               /\ lastEntry' = b.lastEntry /\ exited' = b.exited /\ filled' = b.filled
  BY <1>3, Zenon
<1>5. PICK aged \in {TimeExits(held)} :
             \E b \in {Marked(Entered(held, aged, Aligned(g), size, time + d, c), c)} :
               /\ tickets' = b.tickets /\ trades' = b.trades /\ netUnits' = b.netUnits
               /\ lastEntry' = b.lastEntry /\ exited' = b.exited /\ filled' = b.filled
  BY <1>4, Zenon
<1>6. PICK b \in {Marked(Entered(held, aged, Aligned(g), size, time + d, c), c)} :
               /\ tickets' = b.tickets /\ trades' = b.trades /\ netUnits' = b.netUnits
               /\ lastEntry' = b.lastEntry /\ exited' = b.exited /\ filled' = b.filled
  BY <1>5, Zenon
<1>7. /\ held = TpslExits(HazardClosed(Ledgers, calm), c) /\ aged = TimeExits(held)
      /\ b = Marked(Entered(held, aged, Aligned(g), size, time + d, c), c)
  BY Zenon
<1>8. g \in {NoGate} \cup GateEvents /\ time + d <= MaxTime
  BY <1>3
<1>9. /\ b \in Books /\ Sound(b, time + d) /\ Fresh(b.trades)
      /\ b.lastEntry \in {lastEntry, time + d}
      /\ Timely(b.exited, time + d)
      /\ FilledInSession(tickets, b.filled, time + d)
  <2>. HIDE <1>2, <1>3, <1>4, <1>5, <1>6
  <2>. QED
    BY <1>1, <1>7, <1>8, CandleIsSound
<1>10. time' = time + d /\ candle' \in Candles /\ time' \in 0..MaxTime
  BY <1>3, BacktestAssumption DEF IInv
<1>11. /\ Sound(b, time')
       /\ b.lastEntry \in {lastEntry, time'}
       /\ Timely(b.exited, time')
       /\ FilledInSession(tickets, b.filled, time')
  BY <1>9, <1>10, Zenon
<1>. QED
  BY <1>1, <1>6, <1>9, <1>10, <1>11, Zenon

------------------------------------------------------------------------------
(* The clock of the session *)

LEMMA Multiples ==
  ASSUME NEW n \in Nat, NEW a \in Int, NEW b \in Int, a <= b
  PROVE  n * a <= n * b
OBVIOUS

LEMMA Division ==
  ASSUME NEW t \in Nat, NEW n \in Nat \ {0}
  PROVE  \E q \in Nat, r \in 0..(n - 1) : t = n * q + r /\ q = t \div n /\ r = t % n
OBVIOUS

LEMMA Remainder ==
  ASSUME NEW t \in Nat, NEW n \in Nat \ {0}, NEW q \in Nat, NEW r \in 0..(n - 1), t = n * q + r
  PROVE  t % n = r
OBVIOUS

(***************************************************************************)
(* As many ticks as k minutes have bring the clock at most k minutes on.   *)
(***************************************************************************)
MinutesOn(t, e, n, k) == \E j \in 0..k : (t + e) \div n = (t \div n) + j

LEMMA MinutesPass ==
  ASSUME NEW t \in Nat, NEW e \in Nat, NEW k \in Nat, NEW n \in Nat \ {0}, e <= k * n
  PROVE  MinutesOn(t, e, n, k)
<1>1. PICK p \in Nat, r \in 0..(n - 1) : p = t \div n /\ t = n * p + r
  BY Division
<1>2. PICK q \in Nat, s \in 0..(n - 1) : q = (t + e) \div n /\ t + e = n * q + s
  BY Division
<1>3. p <= q
  <2>. SUFFICES ASSUME q < p PROVE FALSE
    OBVIOUS
  <2>1. n * (q + 1) <= n * p /\ n * (q + 1) = n * q + n
    BY Multiples
  <2>. QED
    BY <1>1, <1>2, <2>1
<1>4. q <= p + k
  <2>. SUFFICES ASSUME p + k < q PROVE FALSE
    OBVIOUS
  <2>1. n * ((p + k) + 1) <= n * q
    BY Multiples
  <2>2. n * ((p + k) + 1) = n * p + k * n + n
    OBVIOUS
  <2>3. n * p \in Int /\ k * n \in Int /\ n * q \in Int
    OBVIOUS
  <2>. QED
    BY <1>1, <1>2, <2>1, <2>2, <2>3
<1>5. q - p \in 0..k /\ q = p + (q - p)
  BY <1>3, <1>4
<1>. QED
  BY <1>1, <1>2, <1>5 DEF MinutesOn

(***************************************************************************)
(* A minute in which an instrument can be entered is followed by a buffer  *)
(* of minutes in its session, across midnight too.                         *)
(***************************************************************************)
LEMMA SessionStaysOpen ==
  ASSUME NEW now \in 0..MaxTime, Enterable(now), NEW e \in 0..ExitBuffer * TicksPerMinute
  PROVE  InSession(Minute(now + e))
<1>1. now \in Nat /\ TicksPerMinute \in Nat \ {0} /\ ExitBuffer \in Nat
  BY BacktestAssumption, SessionAssumption
<1>2. e \in Nat /\ e <= ExitBuffer * TicksPerMinute
  <2>1. ExitBuffer * TicksPerMinute \in Int
    BY <1>1
  <2>. QED
    BY <2>1
<1>3. Day \in Nat \ {0} /\ Dawn \in Nat /\ SessionOpens \in 0..(Day - 1) /\ SessionCloses \in 0..(Day - 1)
  BY BacktestAssumption, SessionAssumption
<1>4. PICK j \in 0..ExitBuffer : (now + e) \div TicksPerMinute = (now \div TicksPerMinute) + j
  <2>1. MinutesOn(now, e, TicksPerMinute, ExitBuffer)
    BY <1>1, <1>2, MinutesPass
  <2>. QED
    BY <2>1, Zenon DEF MinutesOn
<1>5. PICK y \in Nat : y = now \div TicksPerMinute
  BY <1>1, Division
<1>6. PICK x \in Nat : x = Dawn + y /\ Dawn + (y + j) = x + j
  BY <1>1, <1>3
<1>7. PICK p \in Nat, m \in 0..(Day - 1) : m = x % Day /\ x = Day * p + m
  BY <1>3, Division
<1>8. Minute(now) = m /\ Minute(now + e) = (x + j) % Day
  BY <1>4, <1>5, <1>6, <1>7, Zenon DEF Minute
<1>9. InSession(m) /\ (ExitBuffer > 0 => MinutesUntilClose(m) > ExitBuffer)
  BY <1>8 DEF Enterable, Tradable
<1>10. j \in Nat /\ m \in Nat /\ m < Day /\ Day * p \in Int /\ x + j \in Nat
  BY <1>1, <1>3
<1>11. CASE j = 0
  BY <1>7, <1>8, <1>9, <1>11
<1>12. CASE j > 0
  <2>1. MinutesUntilClose(m) > j
    BY <1>1, <1>9, <1>12, <1>3, <1>10 DEF MinutesUntilClose
  <2>2. CASE m < SessionCloses
    <3>1. m + j < SessionCloses
      BY <1>3, <1>10, <2>1, <2>2 DEF MinutesUntilClose
    <3>2. m + j \in 0..(Day - 1)
      BY <1>3, <1>10, <3>1
    <3>3. x + j = Day * p + (m + j)
      BY <1>7, <1>10
    <3>4. Minute(now + e) = m + j
      BY <1>3, <1>8, <1>10, <3>2, <3>3, Remainder
    <3>. QED
      BY <1>3, <1>9, <1>10, <3>1, <3>4 DEF InSession
  <2>3. CASE ~(m < SessionCloses)
    <3>1. SessionOpens <= m /\ SessionOpens > SessionCloses /\ Day - m + SessionCloses > j
      BY <1>3, <1>9, <1>10, <2>1, <2>3 DEF InSession, MinutesUntilClose
    <3>2. CASE m + j < Day
      <4>1. m + j \in 0..(Day - 1) /\ x + j = Day * p + (m + j)
        BY <1>3, <1>7, <1>10, <3>2
      <4>2. Minute(now + e) = m + j
        BY <1>3, <1>8, <1>10, <4>1, Remainder
      <4>. QED
        BY <1>3, <1>10, <3>1, <4>2 DEF InSession
    <3>3. CASE ~(m + j < Day)
      <4>1. (m + j) - Day \in 0..(Day - 1) /\ (m + j) - Day < SessionCloses
        BY <1>3, <1>10, <3>1, <3>3
      <4>2. PICK q \in Nat : q = p + 1 /\ Day * q = Day * p + Day
        BY <1>3
      <4>3. PICK r \in 0..(Day - 1) : r = (m + j) - Day
        BY <4>1
      <4>4. x + j = Day * q + r
        BY <1>3, <1>7, <1>10, <4>2, <4>3
      <4>5. Minute(now + e) = (m + j) - Day
        <5>1. PICK z \in Nat : z = x + j
          BY <1>10
        <5>2. z % Day = r
          BY <1>3, <4>3, <4>4, <5>1, Remainder
        <5>. QED
          BY <1>8, <4>3, <5>1, <5>2, Zenon
      <4>. QED
        BY <1>3, <1>10, <3>1, <4>1, <4>5 DEF InSession
    <3>. QED
      BY <3>2, <3>3
  <2>. QED
    BY <2>2, <2>3
<1>. QED
  BY <1>10, <1>11, <1>12

------------------------------------------------------------------------------
(* Steps *)

LEMMA EndIsSound ==
  ASSUME IInv, EndReplay
  PROVE  IInv'
<1>1. /\ ended' = TRUE /\ tickets' = <<>> /\ time' = time /\ candle' = candle
      /\ trades' = trades /\ netUnits' = netUnits /\ lastEntry' = lastEntry
  BY DEF EndReplay
<1>2. \A e \in exited' : e.reason # "hold_expiry"
  BY DEF EndReplay, Exits, ForAll
<1>3. Timely(exited', time')
  BY <1>2 DEF Timely
<1>. QED
  BY <1>1, <1>3 DEF IInv, Fresh

LEMMA StepIsSound ==
  ASSUME IInv, [Next]_vars, HazardExit = FALSE
  PROVE  IInv'
<1>1. CASE ReplayCandle
  <2>1. PICK b \in Books :
           /\ time' \in 0..MaxTime /\ candle' \in Candles /\ ended' = FALSE /\ ended = FALSE
           /\ Sound(b, time') /\ Fresh(b.trades) /\ b.lastEntry \in {lastEntry, time'}
           /\ Timely(b.exited, time')
           /\ FilledInSession(tickets, b.filled, time')
           /\ tickets' = b.tickets /\ trades' = b.trades /\ netUnits' = b.netUnits
           /\ lastEntry' = b.lastEntry /\ exited' = b.exited /\ filled' = b.filled
    BY <1>1, ReplayCandleIsSound
  <2>2. PICK m : m = Ledgers'
    OBVIOUS
  <2>3. /\ m.tickets = b.tickets /\ m.trades = b.trades /\ m.netUnits = b.netUnits
        /\ m.lastEntry = b.lastEntry /\ m \in Books
    BY <2>1, <2>2 DEF Ledgers, Books
  <2>4. Sound(m, time')
    BY <2>1, <2>3 DEF Sound
  <2>5. Sound(Ledgers', time')
    BY <2>2, <2>4, Zenon
  <2>6. /\ trades' \in Seq(Trades) /\ netUnits' \in Int /\ Fresh(trades') /\ Len(trades') <= MaxTrades
    BY <2>1 DEF Books, Sound, Paired
  <2>7. lastEntry' \in -Cooldown..MaxTime
    BY <2>1, BacktestAssumption DEF IInv
  <2>8. Timely(exited', time')
    BY <2>1, Zenon
  <2>9. time' \in 0..MaxTime /\ candle' \in Candles /\ ended' = FALSE
    BY <2>1
  <2>. QED
    BY <2>5, <2>6, <2>7, <2>8, <2>9 DEF IInv
<1>2. CASE EndReplay
  BY <1>2, EndIsSound
<1>3. CASE UNCHANGED vars
  <2>1. PICK m : m = Ledgers
    OBVIOUS
  <2>2. Ledgers' = m
    BY <1>3, <2>1 DEF vars, Ledgers
  <2>3. /\ time' = time /\ candle' = candle /\ ended' = ended /\ lastEntry' = lastEntry
        /\ netUnits' = netUnits /\ trades' = trades /\ tickets' = tickets /\ exited' = exited
    BY <1>3 DEF vars
  <2>4. ~ended' => Sound(Ledgers', time')
    BY <2>1, <2>2, <2>3, Zenon DEF IInv
  <2>5. Timely(exited', time')
    BY <2>3, Zenon DEF IInv
  <2>. QED
    BY <2>3, <2>4, <2>5 DEF IInv, Fresh
<1>. QED
  BY <1>1, <1>2, <1>3 DEF Next

LEMMA Invariance ==
  ASSUME HazardExit = FALSE
  PROVE  Spec => []IInv
<1>1. Init => IInv
  BY InitIsSound
<1>2. IInv /\ [Next]_vars => IInv'
  BY StepIsSound
<1>. QED
  BY <1>1, <1>2, PTL DEF Spec

------------------------------------------------------------------------------
(* Results *)

(***************************************************************************)
(* Every variable keeps its type, and no ticket or trade is held beyond    *)
(* the cap or its time (_replay).                                          *)
(***************************************************************************)
THEOREM TypeCorrect ==
  ASSUME HazardExit = FALSE
  PROVE  Spec => []TypeOK
<1>1. IInv => TypeOK
  BY IInvSaysMore
<1>. QED
  BY <1>1, Invariance, PTL

(***************************************************************************)
(* The k-th ticket is the k-th trade and the risk manager holds their sum, *)
(* for every timeline, every set of gates and sizes and every limit, as    *)
(* long as no hazard exit is configured (TPSLPositionTracker,              *)
(* TradeStateStore, RiskManager).                                          *)
(***************************************************************************)
THEOREM LedgersStayPaired ==
  ASSUME HazardExit = FALSE
  PROVE  Spec => []LedgersAgree
<1>1. IInv => LedgersAgree
  BY IInvSaysMore
<1>. QED
  BY <1>1, Invariance, PTL

(***************************************************************************)
(* What is closed for its age was held for its time, for every hold and    *)
(* every gap between candles (check_time_expiry).                          *)
(***************************************************************************)
THEOREM HoldsAreFull ==
  ASSUME HazardExit = FALSE
  PROVE  Spec => []FullHold
<1>1. IInv => FullHold
  BY IInvSaysMore
<1>. QED
  BY <1>1, Invariance, PTL

(***************************************************************************)
(* A filled entry is a cooldown after every ticket that is open, on their  *)
(* side, and with none the session stays open for the buffer, for every    *)
(* session that wraps or not and every length of a minute (evaluate_entry, *)
(* SessionPolicy.evaluate).                                                *)
(***************************************************************************)
THEOREM EntriesAreClear ==
  ASSUME HazardExit = FALSE
  PROVE  Spec => EntriesKeepClear
<1>1. ASSUME IInv, ReplayCandle, filled' # 0
      PROVE  /\ SpacedOut(tickets')
             /\ tickets = <<>> =>
                  \A d \in 0..ExitBuffer * TicksPerMinute : InSession(Minute(time' + d))
  <2>1. PICK b \in Books :
           /\ time' \in 0..MaxTime /\ candle' \in Candles /\ ended' = FALSE /\ ended = FALSE
           /\ Sound(b, time') /\ Fresh(b.trades) /\ b.lastEntry \in {lastEntry, time'}
           /\ Timely(b.exited, time')
           /\ FilledInSession(tickets, b.filled, time')
           /\ tickets' = b.tickets /\ trades' = b.trades /\ netUnits' = b.netUnits
           /\ lastEntry' = b.lastEntry /\ exited' = b.exited /\ filled' = b.filled
    BY <1>1, ReplayCandleIsSound
  <2>2. SpacedOut(b.tickets)
    BY <2>1 DEF Sound, Entries
  <2>3. SpacedOut(tickets')
    BY <2>1, <2>2
  <2>4. ASSUME tickets = <<>>, NEW d \in 0..ExitBuffer * TicksPerMinute
        PROVE  InSession(Minute(time' + d))
    <3>1. PICK now \in 0..MaxTime : now = time'
      BY <2>1
    <3>2. Enterable(now)
      BY <1>1, <2>1, <2>4, <3>1 DEF FilledInSession
    <3>3. InSession(Minute(now + d))
      BY <3>2, SessionStaysOpen
    <3>. QED
      BY <3>1, <3>3, Zenon
  <2>. QED
    BY <2>3, <2>4
<1>2. ASSUME IInv, [Next]_vars
      PROVE  [filled' # 0 =>
                /\ SpacedOut(tickets')
                /\ tickets = <<>> =>
                     \A d \in 0..ExitBuffer * TicksPerMinute : InSession(Minute(time' + d))]_vars
  <2>1. CASE ReplayCandle
    BY <1>1, <1>2, <2>1
  <2>2. CASE EndReplay
    BY <2>2 DEF EndReplay
  <2>3. CASE UNCHANGED vars
    BY <2>3
  <2>. QED
    BY <1>2, <2>1, <2>2, <2>3 DEF Next
<1>. QED
  BY <1>2, Invariance, PTL DEF Spec, EntriesKeepClear

===============================================================================
