----------------------------- MODULE CandleStream -----------------------------
(***************************************************************************)
(* The streamer that copies the candles of one instrument from OANDA into  *)
(* the sorted set md:candles of Valkey.  It asks for the last few candles, *)
(* and for many of them when it may have missed some.  The unit of time is *)
(* one candle: candle t trades during t and is closed from t + 1 on.       *)
(***************************************************************************)
EXTENDS Integers, FiniteSets, FiniteSetsExt

CONSTANTS
  MaxTime,      \* the last candle of the run
  Bootstrap,    \* recent_count: candles asked for after a gap
  Incremental,  \* incremental_count: candles asked for otherwise
  MaxEntries,   \* max_entries: candles kept, 0 keeps all of them
  Latency,      \* _target_latency_seconds, in candles
  Stale,        \* _stale_threshold_seconds, in candles
  StreamFaults, \* what may fail: members of StreamKinds
  MaxFaults     \* how often something fails

(***************************************************************************)
(* Valkey is away; the stored candles are pruned; OANDA answers with an    *)
(* HTTP error, which nobody catches; no answer at all; a session of the    *)
(* connector keeps showing the past; the clock ticks during a request.     *)
(***************************************************************************)
StreamKinds == {"valkey", "prune", "http", "silence", "session", "slow"}

ASSUME StreamAssumption ==
  /\ MaxTime \in Nat /\ Bootstrap \in Nat \ {0} /\ Incremental \in Nat \ {0}
  /\ Incremental <= Bootstrap
  /\ MaxEntries \in Nat /\ (MaxEntries = 0 \/ Bootstrap <= MaxEntries)
  /\ Latency \in Nat /\ Stale \in Nat
  /\ StreamFaults \subseteq StreamKinds /\ MaxFaults \in Nat

Times == 0..MaxTime
Never == -1

VARIABLES
  now,       \* the candle that is forming
  market,    \* the candles that traded
  valkey,    \* whether Valkey answers
  faults,    \* how often something has failed
  store,     \* md:candles, its members as records of a time and of being final
  streamer,  \* "down", "idle", "asking" or "writing"
  window,    \* how many candles are asked for
  asked,     \* when that was decided
  reply,     \* the candles received
  cursor,    \* last_written_ts_ms, Never after a start
  view,      \* what the session of the connector shows, MaxTime for all there is
  (* Observations, read by no action of the system. *)
  late       \* when the last answer came that had outlived its window, or Never

clock  == <<now, market, valkey>>
steady == <<clock, faults>>
stream == <<streamer, window, asked, reply, cursor, view, late>>

StreamTypeOK ==
  /\ now \in Times /\ market \subseteq 0..now
  /\ valkey \in BOOLEAN /\ faults \in 0..MaxFaults
  /\ store \subseteq [t : Times, final : BOOLEAN]
  /\ streamer \in {"down", "idle", "asking", "writing"}
  /\ window \in {Bootstrap, Incremental}
  /\ asked \in Times
  /\ reply \subseteq [t : Times, final : BOOLEAN]
  /\ cursor \in Times \cup {Never}
  /\ view \in Times
  /\ late \in Times \cup {Never}

StreamInit ==
  /\ now = 0 /\ market = {0}
  /\ valkey = TRUE /\ faults = 0
  /\ store = {}
  /\ streamer = "down" /\ window = Bootstrap /\ asked = 0
  /\ reply = {} /\ cursor = Never /\ view = MaxTime
  /\ late = Never

Fails(kind) ==
  /\ kind \in StreamFaults /\ faults < MaxFaults
  /\ faults' = faults + 1

------------------------------------------------------------------------------
TimesOf(candles) == {c.t : c \in candles}

Newest(times) == IF times = {} THEN Never ELSE Max(times)

(***************************************************************************)
(* The last n of a set of times, all of it when it is smaller.             *)
(***************************************************************************)
LastOf(n, times) ==
  {t \in times : Cardinality({u \in times : u > t}) < n}

(***************************************************************************)
(* _normalise_candle: only a complete candle becomes a record.  The        *)
(* variant keeps the one that is forming.                                  *)
(***************************************************************************)
NormalisedAsIs(candles) == candles

Normalised(candles) == {c \in candles : c.final}

(***************************************************************************)
(* zremrangebyrank: the newest entries stay.  The variant drops those.     *)
(***************************************************************************)
TrimmedFromTheTop(entries) ==
  IF MaxEntries = 0 THEN entries
  ELSE {e \in entries : Cardinality({f \in entries : f.t < e.t}) < MaxEntries}

Trimmed(entries) ==
  IF MaxEntries = 0 THEN entries
  ELSE {e \in entries : e.t \in LastOf(MaxEntries, TimesOf(entries))}

(***************************************************************************)
(* _window_count_for_instrument: how many candles to ask for, given the    *)
(* number of those in store and, in the middle of a candle, an age that    *)
(* may already be past the limit.  The variant waits one candle longer.    *)
(***************************************************************************)
WindowCountsOneLater(cached) ==
  IF cached < Bootstrap \/ cursor = Never \/ now - cursor > Incremental + 1
  THEN {Bootstrap} ELSE {Incremental}

WindowCounts(cached) ==
  IF cached < Bootstrap \/ cursor = Never \/ now - cursor > Incremental THEN {Bootstrap}
  ELSE IF now - cursor = Incremental THEN {Bootstrap, Incremental}
  ELSE {Incremental}

------------------------------------------------------------------------------
(* The streamer *)

StreamerStarts ==
  /\ streamer = "down"
  /\ streamer' = "idle"
  /\ UNCHANGED <<steady, store, window, asked, reply, cursor, view, late>>

(***************************************************************************)
(* A pass of the loop counts what is in store, none when Valkey does not   *)
(* answer, and decides how much to ask for.                                *)
(***************************************************************************)
CountCached ==
  /\ streamer = "idle"
  /\ streamer' = "asking"
  /\ window' \in WindowCounts(IF valkey THEN Cardinality(store) ELSE 0)
  /\ asked' = now
  /\ UNCHANGED <<steady, store, reply, cursor, view, late>>

(***************************************************************************)
(* What a session shows of the last candles: those up to its view, the one *)
(* of that moment still forming.                                           *)
(***************************************************************************)
Shown(until) ==
  {[t |-> t, final |-> t < until] :
     t \in LastOf(window, {u \in market : u <= until})}

Age(until) == now - Newest(TimesOf(Shown(until)))

(***************************************************************************)
(* A new connector is made when the answer holds nothing new and is older  *)
(* than the latency, or when it is stale.  The variant never makes one.    *)
(***************************************************************************)
NeverRefreshes(until) == FALSE

Refreshes(until) ==
  /\ Shown(until) # {}
  /\ \/ cursor # Never /\ Newest(TimesOf(Shown(until))) <= cursor /\ Age(until) > Latency
     \/ Age(until) > Stale

Seen == IF view = MaxTime THEN now ELSE view

(***************************************************************************)
(* The answer to the request, of a session made anew where the one at hand *)
(* lags; the new one may fail, or show no more than the old one.           *)
(***************************************************************************)
Fetch ==
  /\ streamer = "asking"
  /\ streamer' = "writing"
  /\ \E fresh \in BOOLEAN :
       /\ fresh => Refreshes(Seen)
       /\ IF ~fresh /\ Refreshes(Seen) THEN Fails("session") ELSE UNCHANGED faults
       /\ view' = IF fresh THEN MaxTime ELSE view
       /\ reply' = Shown(IF fresh THEN now ELSE Seen)
  /\ late' = IF asked # now THEN now ELSE late
  /\ UNCHANGED <<clock, store, window, asked, cursor>>

(***************************************************************************)
(* No answer within the retries: get_candles returns nothing.              *)
(***************************************************************************)
FetchUnanswered ==
  /\ streamer = "asking" /\ Fails("silence")
  /\ streamer' = "writing"
  /\ reply' = {}
  /\ UNCHANGED <<clock, store, window, asked, cursor, view, late>>

(***************************************************************************)
(* An HTTP error is raised as a bare Exception, which is none of those the *)
(* loop catches: the streamer ends, with all it remembers.                 *)
(***************************************************************************)
FetchRaises ==
  /\ streamer = "asking" /\ Fails("http")
  /\ streamer' = "down"
  /\ cursor' = Never /\ view' = MaxTime /\ window' = Bootstrap /\ asked' = 0
  /\ UNCHANGED <<clock, store, reply, late>>

(***************************************************************************)
(* The pipeline adds the records and trims the set; the cursor moves to    *)
(* the last record, if there is one, and only when Valkey took them.       *)
(***************************************************************************)
Advanced(written) ==
  IF written /\ Normalised(reply) # {}
  THEN Newest(TimesOf(Normalised(reply))) ELSE cursor

WriteCandles ==
  /\ streamer = "writing"
  /\ streamer' = "idle"
  /\ store' = IF valkey THEN Trimmed(store \cup Normalised(reply)) ELSE store
  /\ cursor' = Advanced(valkey)
  /\ reply' = {} /\ window' = Bootstrap /\ asked' = 0
  /\ UNCHANGED <<steady, view, late>>

------------------------------------------------------------------------------
(* The surroundings *)

(***************************************************************************)
(* The next candle forms, traded or not.                                   *)
(***************************************************************************)
Tick ==
  /\ now < MaxTime
  /\ "slow" \in StreamFaults \/ streamer \notin {"asking"}
  /\ now' = now + 1
  /\ market' \in {market, market \cup {now + 1}}
  /\ UNCHANGED <<valkey, faults, stream>>

ValkeyFails ==
  /\ valkey /\ Fails("valkey")
  /\ valkey' = FALSE
  /\ UNCHANGED <<now, market, store, stream>>

ValkeyReturns ==
  /\ ~valkey
  /\ valkey' = TRUE
  /\ UNCHANGED <<now, market, faults, store, stream>>

Pruned ==
  /\ store # {} /\ Fails("prune")
  /\ store' = {}
  /\ UNCHANGED <<clock, stream>>

SessionSticks ==
  /\ streamer # "down" /\ view = MaxTime /\ now < MaxTime
  /\ Fails("session")
  /\ view' = now
  /\ UNCHANGED <<clock, store, streamer, window, asked, reply, cursor, late>>

StreamNext ==
  \/ StreamerStarts \/ CountCached
  \/ Fetch \/ FetchUnanswered \/ FetchRaises \/ WriteCandles

------------------------------------------------------------------------------
(* What the streamer promises *)

(***************************************************************************)
(* What is in store is closed: no candle is seen while it forms, and none  *)
(* is there twice (_normalise_candle).                                     *)
(***************************************************************************)
FinalCandlesOnly ==
  /\ \A e \in store : e.final /\ e.t < now /\ e.t \in market
  /\ Cardinality(TimesOf(store)) = Cardinality(store)

(***************************************************************************)
(* The streamer leaves no hole behind: the last candles up to its cursor,  *)
(* all it asks for after a gap but the one that is forming, are in store,  *)
(* across outages, restarts, sessions that lag and pruned keys, once the   *)
(* set is deep again and if no answer outlived its window                  *)
(* (_window_count_for_instrument).                                         *)
(***************************************************************************)
NoHole ==
  cursor # Never /\ late = Never /\ Cardinality(store) >= Bootstrap
    => LastOf(Bootstrap - 1, {t \in market : t <= cursor}) \subseteq TimesOf(store)

(***************************************************************************)
(* In the end the last candles are in store again, whatever failed: the    *)
(* loop asks for many of them, restarts, and gives up a session that has   *)
(* shown nothing new for longer than Stale (stream_candles).  Only candles *)
(* from before the last answer that outlived its window may stay out: it   *)
(* moves the cursor past what it did not bring, and the streamer never     *)
(* looks behind its cursor.  Later candles are owed after it, too.         *)
(***************************************************************************)
CatchesUp ==
  <>[]({t \in LastOf(Bootstrap - 1, market \ {now}) : t < now - Stale /\ t >= late}
         \subseteq TimesOf(store))

=============================================================================
