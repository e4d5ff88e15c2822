----------------------------- MODULE HistoryStore -----------------------------
(***************************************************************************)
(* ManifoldDataStore (scripts/research/data_store.py): the candles of one  *)
(* instrument in a file that grows by what each load finds missing, and    *)
(* the signatures of their windows in another.  The process may end while  *)
(* it writes either.  The unit of time is one candle: candle t trades      *)
(* during t and is closed from t + 1 on.  Prices are left out, so that a   *)
(* line is told by its time and by where it comes from.                    *)
(***************************************************************************)
EXTENDS Integers, SequencesExt

CONSTANTS
  MaxTime,     \* the last candle of the run
  Traded,      \* the candles OANDA has, the others are quiet
  Chunk,       \* candles in a request, 5000 in the code
  SigWindow,   \* window_candles of the codec
  SigStride,   \* stride_candles of the codec
  StoreFaults, \* what may fail: members of StoreKinds
  MaxFaults    \* how often something fails

(***************************************************************************)
(* No answer, which reads as no candles; an HTTP error; the process ends.  *)
(***************************************************************************)
StoreKinds == {"silence", "http", "crash"}

ASSUME StoreAssumption ==
  /\ MaxTime \in Nat /\ Traded \subseteq 0..MaxTime
  /\ Chunk \in Nat \ {0} /\ SigWindow \in Nat \ {0} /\ SigStride \in Nat \ {0}
  /\ StoreFaults \subseteq StoreKinds /\ MaxFaults \in Nat

VARIABLES
  now,        \* the candle that is forming
  file,       \* the candle file: its lines
  sigFile,    \* the signature file: "none", "whole" or "torn"
  signed,     \* the times of its signatures
  load,       \* the call of load_candles under way
  faults,     \* how often something has failed
  (* Observations, read by no action of the system. *)
  lost,       \* a request for traded candles had no answer
  skipped     \* a load began beyond the end of the file

files == <<file, sigFile, signed>>
store == <<now, files, load, faults, lost, skipped>>

(***************************************************************************)
(* A line holds a candle that closed, one that was still forming, or a     *)
(* flat one that was made up for a quiet time.  A line that was cut short  *)
(* holds none.                                                             *)
(***************************************************************************)
Lines == [t : 0..MaxTime, kind : {"closed", "forming", "flat"}]

Torn == [t |-> -1, kind |-> "torn"]

Readable(lines) ==
  LET cut == {i \in DOMAIN lines : lines[i] = Torn}
  IN IF cut = {} THEN lines ELSE SubSeq(lines, 1, Min(cut) - 1)

TimesOf(lines) == {lines[i].t : i \in DOMAIN lines}

(***************************************************************************)
(* stage says where load_candles is; "done" and "failed" are its results.  *)
(* refused is an observation: OANDA refused a block, which is left out.    *)
(***************************************************************************)
NoLoad ==
  [stage |-> "none", from |-> 0, to |-> 0, existing |-> <<>>,
   prefix |-> <<>>, suffix |-> <<>>,
   current |-> 0, until |-> 0, known |-> FALSE, out |-> <<>>,
   refused |-> FALSE, answer |-> <<>>]

StoreInit ==
  /\ now = 0
  /\ file = <<>> /\ sigFile = "none" /\ signed = {}
  /\ load = NoLoad
  /\ faults = 0 /\ lost = FALSE /\ skipped = FALSE

StoreFails(kind) ==
  /\ kind \in StoreFaults /\ faults < MaxFaults
  /\ faults' = faults + 1

------------------------------------------------------------------------------
(* Which blocks are missing *)

CacheStart(l) == IF l.existing = <<>> THEN l.to ELSE Head(l.existing).t

CacheEnd(l) == IF l.existing = <<>> THEN l.from ELSE Last(l.existing).t

Fetching(l, stage, from, until) ==
  [l EXCEPT !.stage = stage, !.current = from, !.until = until,
            !.known = FALSE, !.out = <<>>]

(***************************************************************************)
(* The suffix begins with the last candle of the file, not behind it.  The *)
(* variant leaves that candle and the next one out.                        *)
(***************************************************************************)
SuffixStartPast(l) == Max({l.from, CacheEnd(l) + 2})

SuffixStart(l) == Max({l.from, CacheEnd(l)})

SuffixNext(l) ==
  IF SuffixStart(l) < l.to THEN Fetching(l, "suffix", SuffixStart(l), l.to)
  ELSE [l EXCEPT !.stage = "write"]

(***************************************************************************)
(* The prefix reaches from the start of the window to that of the file.    *)
(***************************************************************************)
PrefixEnd(l) == CacheStart(l)

Opened(from, to) ==
  LET l == [NoLoad EXCEPT !.from = from, !.to = to, !.existing = Readable(file)]
  IN IF from < CacheStart(l) THEN Fetching(l, "prefix", from, PrefixEnd(l))
     ELSE SuffixNext(l)

LoadBegins(from, to) ==
  /\ load' = Opened(from, to)
  /\ skipped' = (skipped \/ (Readable(file) # <<>> /\ from > Last(Readable(file)).t + 1))

------------------------------------------------------------------------------
(* iter_candles *)

Kind(t) == IF t \notin Traded THEN "flat" ELSE IF t < now THEN "closed" ELSE "forming"

Flat(from, until) == [i \in 1..until - from |-> [t |-> from + i - 1, kind |-> "flat"]]

(***************************************************************************)
(* A candle that was received closes the gap behind the last one with flat *)
(* candles; there is no last one before the first.                         *)
(***************************************************************************)
Received(l, times) ==
  LET from == IF l.known THEN l.current ELSE Min(times)
      upTo == Max(times)
  IN [l EXCEPT !.current = upTo + 1, !.known = TRUE,
               !.out = @ \o [i \in 1..upTo - from + 1 |-> [t |-> from + i - 1, kind |-> Kind(from + i - 1)]]]

(***************************************************************************)
(* A chunk without candles is quiet, whether OANDA said so or nothing.     *)
(***************************************************************************)
Quiet(l, until) ==
  [l EXCEPT !.current = until,
            !.out = IF l.known THEN @ \o Flat(l.current, until) ELSE @]

(***************************************************************************)
(* The end of a block, with what it gave.                                  *)
(***************************************************************************)
Ended(l, block) ==
  IF l.stage = "prefix" THEN SuffixNext([l EXCEPT !.prefix = block])
  ELSE [l EXCEPT !.suffix = block, !.stage = "write"]

(***************************************************************************)
(* The loop over the chunks ends with the block.  The variant asks on.     *)
(***************************************************************************)
ContinuedOn(l) == l

Continued(l) == IF l.current < l.until THEN l ELSE Ended(l, l.out)

FetchChunk ==
  /\ load.stage \in {"prefix", "suffix"}
  /\ LET until == Min({load.current + Chunk, load.until})
         there == {t \in Traded : load.current <= t /\ t < until /\ t <= now}
     IN \/ /\ load' = Continued(IF there = {} THEN Quiet(load, until) ELSE Received(load, there))
           /\ UNCHANGED <<faults, lost>>
        \/ /\ StoreFails("silence") /\ there # {}
           /\ load' = Continued(Quiet(load, until))
           /\ lost' = TRUE
        \/ /\ StoreFails("http")
           /\ load' = Ended([load EXCEPT !.refused = TRUE], <<>>)
           /\ UNCHANGED lost
  /\ UNCHANGED <<now, files, skipped>>

------------------------------------------------------------------------------
(* Writing *)

(***************************************************************************)
(* The numbers of a finite set from the least to the greatest.             *)
(***************************************************************************)
Ascending(S) ==
  [k \in 1..Cardinality(S) |-> CHOOSE x \in S : Cardinality({y \in S : y < x}) = k - 1]

(***************************************************************************)
(* With a prefix the file is written anew: one candle for each time, the   *)
(* last one that was found.  The variant leaves out the suffix.            *)
(***************************************************************************)
OnePerTime(lines) ==
  LET last(t) == lines[Max({i \in DOMAIN lines : lines[i].t = t})]
      times   == Ascending(TimesOf(lines))
  IN [i \in DOMAIN times |-> last(times[i])]

MergedHead(l) == OnePerTime(l.prefix \o l.existing)

Merged(l) == OnePerTime(l.prefix \o l.existing \o l.suffix)

(***************************************************************************)
(* Lines appended behind a torn one: the first of them is glued to it.     *)
(***************************************************************************)
Appended(lines, more) ==
  IF lines # <<>> /\ more # <<>> /\ Last(lines) = Torn THEN lines \o Tail(more) ELSE lines \o more

(* The file after l has written n of its lines. *)
Written(l, n) ==
  IF l.prefix # <<>> THEN SubSeq(Merged(l), 1, n)
  ELSE Appended(file, SubSeq(l.suffix, 1, n))

ToWrite(l) == IF l.prefix # <<>> THEN Len(Merged(l)) ELSE Len(l.suffix)

(***************************************************************************)
(* existing_candles after the write.                                       *)
(***************************************************************************)
Candles(l) == IF l.prefix # <<>> THEN Merged(l) ELSE l.existing \o l.suffix

WriteCandles ==
  /\ load.stage = "write"
  /\ file' = Written(load, ToWrite(load))
  /\ load' = [load EXCEPT !.stage = "sign", !.existing = Candles(load)]
  /\ UNCHANGED <<now, sigFile, signed, faults, lost, skipped>>

(***************************************************************************)
(* What sync_signatures is given: all that there is now, but only the new  *)
(* candles when the file of signatures exists and these were appended.     *)
(***************************************************************************)
ToSign(l) ==
  IF l.prefix # <<>> \/ sigFile = "none" THEN l.existing ELSE l.suffix

(***************************************************************************)
(* The windows of a list of candles, by the candle each of them ends with. *)
(* The last candle of the list ends none.                                  *)
(***************************************************************************)
Anchors(lines) ==
  {lines[i].t : i \in {k \in SigWindow..Len(lines) - 1 : (k - SigWindow) % SigStride = 0}}

(***************************************************************************)
(* The candles of the window.                                              *)
(***************************************************************************)
Answer(l) ==
  LET kept == Ascending({i \in DOMAIN l.existing :
                           l.from <= l.existing[i].t /\ l.existing[i].t < l.to})
  IN [i \in DOMAIN kept |-> l.existing[kept[i]]]

Returned(l) ==
  [NoLoad EXCEPT !.stage = "done", !.from = l.from, !.to = l.to,
                 !.refused = l.refused, !.answer = Answer(l)]

SignCandles ==
  /\ load.stage = "sign"
  /\ IF ToSign(load) = <<>>
     THEN /\ load' = Returned(load)
          /\ UNCHANGED <<sigFile, signed>>
     ELSE IF sigFile = "torn"
     THEN (* json.loads raises, outside of every try *)
          /\ load' = [NoLoad EXCEPT !.stage = "failed"]
          /\ UNCHANGED <<sigFile, signed>>
     ELSE /\ load' = Returned(load)
          /\ sigFile' = IF Len(ToSign(load)) < SigWindow THEN sigFile ELSE "whole"
          /\ signed' = signed \cup Anchors(ToSign(load))
  /\ UNCHANGED <<now, file, faults, lost, skipped>>

(***************************************************************************)
(* The process ends: what a write was about to leave is cut somewhere.     *)
(***************************************************************************)
ProcessEnds ==
  /\ StoreFails("crash")
  /\ load' = NoLoad
  /\ \/ UNCHANGED files
     \/ /\ load.stage = "write" /\ ToWrite(load) > 0
        /\ \E n \in 0..ToWrite(load) - 1 :
             \/ file' = Written(load, n)
             \/ file' = Append(Written(load, n), Torn)
        /\ UNCHANGED <<sigFile, signed>>
     \/ /\ load.stage = "sign" /\ Anchors(ToSign(load)) \ signed # {} /\ sigFile # "torn"
        /\ \E cut \in SUBSET (Anchors(ToSign(load)) \ signed) :
             signed' = signed \cup cut
        /\ sigFile' \in {"whole", "torn"}
        /\ UNCHANGED file
  /\ UNCHANGED <<now, lost, skipped>>

Tick ==
  /\ now < MaxTime
  /\ now' = now + 1
  /\ UNCHANGED <<files, load, faults, lost, skipped>>

------------------------------------------------------------------------------
(* Properties *)

StoreTypeOK ==
  /\ now \in 0..MaxTime
  /\ file \in Seq(Lines \cup {Torn})
  /\ sigFile \in {"none", "whole", "torn"}
  /\ signed \subseteq 0..MaxTime
  /\ load.stage \in {"none", "prefix", "suffix", "write", "sign", "done", "failed"}
  /\ load.existing \in Seq(Lines) /\ load.prefix \in Seq(Lines) /\ load.suffix \in Seq(Lines)
  /\ load.answer \in Seq(Lines) /\ load.out \in Seq(Lines)
  /\ faults \in 0..MaxFaults /\ lost \in BOOLEAN /\ skipped \in BOOLEAN

InOrder(lines) == \A i, j \in DOMAIN lines : i < j => lines[i].t <= lines[j].t

(***************************************************************************)
(* Whatever was cut, failed or repeated on the way: the part of the file   *)
(* that can be read is in the order of time and misses no traded candle    *)
(* between its first and its last, unless a request was lost or a window   *)
(* began beyond the end of the file (load_candles).                        *)
(***************************************************************************)
TradedKept ==
  LET kept == Readable(file) IN
  /\ InOrder(kept)
  /\ ~lost /\ ~skipped /\ kept # <<>> =>
       \A t \in Traded : Head(kept).t <= t /\ t <= Last(kept).t => t \in TimesOf(kept)

(***************************************************************************)
(* A load returns the traded candles of its window in the order of time,   *)
(* from whatever the last process left in the file, unless OANDA kept some *)
(* back, now or in an earlier load, or an earlier load began beyond the    *)
(* end of the file, which leaves a hole for good (load_candles).           *)
(***************************************************************************)
AnswerComplete ==
  load.stage = "done" =>
    /\ InOrder(load.answer)
    /\ ~lost /\ ~skipped /\ ~load.refused =>
         \A t \in Traded : load.from <= t /\ t < load.to => t \in TimesOf(load.answer)

(***************************************************************************)
(* "Deduplicate by time just in case of overlap boundaries"                *)
(* (load_candles): no time comes twice in what a load returns.  It does,   *)
(* since a suffix begins with the last candle and is appended as it is.    *)
(***************************************************************************)
NoTimeTwice ==
  \A i, j \in DOMAIN load.answer : load.answer[i].t = load.answer[j].t => i = j
=============================================================================
