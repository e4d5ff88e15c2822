----------------------------- MODULE SessionPolicy -----------------------------
(***************************************************************************)
(* When an instrument may be entered (scripts/trading/session_policy.py):  *)
(* a daily window in minutes from midnight, which may wrap around it, less *)
(* a buffer before it closes.  A position that is held keeps its           *)
(* instrument tradable.  Overrides are left out: no code sets any.         *)
(***************************************************************************)
EXTENDS Integers

CONSTANTS
  Day,           \* minutes of a day, 24 * 60
  SessionOpens, SessionCloses,  \* start_minute and end_minute
  ExitBuffer     \* exit_buffer_minutes

ASSUME SessionAssumption ==
  /\ Day \in Nat \ {0} /\ ExitBuffer \in Nat
  /\ SessionOpens \in 0..Day - 1 /\ SessionCloses \in 0..Day - 1

(* contains *)
InSession(minute) ==
  IF SessionOpens <= SessionCloses
  THEN SessionOpens <= minute /\ minute < SessionCloses
  ELSE SessionOpens <= minute \/ minute < SessionCloses

(***************************************************************************)
(* minutes_until_close, of a minute in the window.                         *)
(***************************************************************************)
MinutesUntilClose(minute) ==
  IF minute < SessionCloses THEN SessionCloses - minute ELSE Day - minute + SessionCloses

(***************************************************************************)
(* evaluate.  The variant lets the last minute before the buffer pass.     *)
(***************************************************************************)
TradableIntoTheBuffer(minute, hasPosition) ==
  \/ hasPosition
  \/ /\ InSession(minute)
     /\ ExitBuffer > 0 => MinutesUntilClose(minute) >= ExitBuffer

Tradable(minute, hasPosition) ==
  \/ hasPosition
  \/ /\ InSession(minute)
     /\ ExitBuffer > 0 => MinutesUntilClose(minute) > ExitBuffer
=============================================================================
