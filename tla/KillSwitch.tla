------------------------------ MODULE KillSwitch ------------------------------
(***************************************************************************)
(* The kill switch: a flag in the memory of the trading service, a key in  *)
(* Valkey, the operator who sets both over HTTP, the seeding script, and   *)
(* the health daemon that engages the key when the published account       *)
(* breaches a threshold of its circuit breaker.  Each of them is a process *)
(* of its own and may die; Valkey may be away.                             *)
(***************************************************************************)
EXTENDS Integers

CONSTANTS
  Navs,             \* net asset values of the account
  Exposures,        \* exposures of the account
  DailyLossPct,     \* daily_loss_pct, in percent
  MaxDrawdownPct,   \* max_drawdown_pct, in percent
  RapidChangePct,   \* rapid_exposure_change_pct, in percent
  Failures          \* what may fail: members of Kinds

(***************************************************************************)
(* Valkey is away; a process dies; the risk summary expires before the     *)
(* next is written; OANDA does not tell the balance of the account.        *)
(***************************************************************************)
Kinds == {"valkey", "service", "summary", "account"}

ASSUME ThresholdsAssumption ==
  /\ Navs \subseteq Nat \ {0}
  /\ Exposures \subseteq Nat
  /\ DailyLossPct \in Nat \ {0}
  /\ MaxDrawdownPct \in Nat \ {0}
  /\ RapidChangePct \in Nat \ {0}
  /\ Failures \subseteq Kinds

VARIABLES
  nav, exposure,  \* the account
  valkey,         \* whether Valkey answers
  key,            \* ops:kill_switch: "none" before anybody set it, "0" or "1"
  summary,        \* ops:risk_summary, NoSummary once it has expired
  service,        \* the trading service: "down" or "up"
  flag,           \* StateManager's kill switch flag
  daemon,         \* the health daemon: "down", "idle" or "checking"
  sample,         \* what the check under way has read
  breaker,        \* CircuitBreakerState
  (* Observations, read by no action of the system. *)
  word,           \* what the operator last said over HTTP: "none", "engage", "clear",
                  \* or "unsaved" when it did not reach Valkey
  moved,          \* the account has changed since what the daemon first saw
  lapsed          \* this daemon saw an account without value after it had seen one with

account    == <<nav, exposure>>
store      == <<key, summary>>
process    == <<service, flag>>
health     == <<daemon, sample, breaker>>
ghosts     == <<word, moved, lapsed>>
switchVars == <<account, valkey, store, process, health, ghosts>>

(***************************************************************************)
(* An absent risk summary is read as an account of zero.                   *)
(***************************************************************************)
NoSummary == [nav |-> 0, exposure |-> 0]

Summaries == [nav : Navs \cup {0}, exposure : Exposures \cup {0}]

(***************************************************************************)
(* dated says whether the day of dayStart is today, snapped whether an     *)
(* exposure was ever recorded.                                             *)
(***************************************************************************)
FreshBreaker ==
  [peak |-> 0, dayStart |-> 0, dated |-> FALSE,
   exposure |-> 0, snapped |-> FALSE, tripped |-> FALSE]

Breakers ==
  [peak : Navs \cup {0}, dayStart : Navs \cup {0}, dated : BOOLEAN,
   exposure : Exposures \cup {0}, snapped : BOOLEAN, tripped : BOOLEAN]

SwitchTypeOK ==
  /\ nav \in Navs /\ exposure \in Exposures
  /\ valkey \in BOOLEAN
  /\ key \in {"none", "0", "1"}
  /\ summary \in Summaries
  /\ service \in {"down", "up"}
  /\ flag \in BOOLEAN
  /\ daemon \in {"down", "idle", "checking"}
  /\ sample \in Summaries
  /\ breaker \in Breakers
  /\ word \in {"none", "engage", "clear", "unsaved"}
  /\ moved \in BOOLEAN /\ lapsed \in BOOLEAN

SwitchInit ==
  /\ nav \in Navs /\ exposure \in Exposures
  /\ valkey = TRUE
  /\ key = "none"
  /\ summary = NoSummary
  /\ service = "down"
  /\ flag = TRUE
  /\ daemon = "down"
  /\ sample = NoSummary
  /\ breaker = FreshBreaker
  /\ word = "none"
  /\ moved = FALSE /\ lapsed = FALSE

------------------------------------------------------------------------------
(* The trading service *)

(***************************************************************************)
(* _load_kill_switch_state: engaged unless Valkey answers with a key that  *)
(* says otherwise.  The variant takes a missing key for a clear one.       *)
(***************************************************************************)
LoadedUnlessSet(answers, k) == answers => k = "1"

Loaded(answers, k) == answers => k # "0"

ServiceStarts ==
  /\ service = "down"
  /\ service' = "up"
  /\ flag' = Loaded(valkey, key)
  /\ UNCHANGED <<account, valkey, store, health, ghosts>>

(***************************************************************************)
(* stop, or the death of the process: nothing is written.                  *)
(***************************************************************************)
ServiceStops ==
  /\ "service" \in Failures
  /\ service = "up"
  /\ service' = "down"
  /\ flag' = TRUE
  /\ UNCHANGED <<account, valkey, store, health, ghosts>>

(***************************************************************************)
(* set_kill_switch over HTTP: the flag changes whether or not the write to *)
(* Valkey succeeds.                                                        *)
(***************************************************************************)
SetKillSwitch(enabled) ==
  /\ service = "up"
  /\ flag' = enabled
  /\ key' = CASE valkey /\ enabled  -> "1"
              [] valkey /\ ~enabled -> "0"
              [] ~valkey            -> key
  /\ word' = CASE valkey /\ enabled  -> "engage"
               [] valkey /\ ~enabled -> "clear"
               [] ~valkey            -> "unsaved"
  /\ UNCHANGED <<account, valkey, summary, service, health, moved, lapsed>>

(***************************************************************************)
(* A cycle of the loop publishes the risk summary before it looks at the   *)
(* kill switch.  The connector gives up after three attempts with an empty *)
(* answer, not with the error that would bring the last balance back: the  *)
(* balance is then 0.                                                      *)
(***************************************************************************)
PublishRisk ==
  /\ service = "up"
  /\ valkey
  /\ \E balance \in {nav} \cup IF "account" \in Failures THEN {0} ELSE {} :
       summary' = [nav |-> balance, exposure |-> exposure]
  /\ UNCHANGED <<account, valkey, key, process, health, ghosts>>

------------------------------------------------------------------------------
(* The health daemon *)

DaemonStarts ==
  /\ daemon = "down"
  /\ daemon' = "idle"
  /\ breaker' = FreshBreaker
  /\ moved' = (summary.nav \notin {0, nav} \/ summary.exposure \notin {0, exposure})
  /\ lapsed' = FALSE
  /\ UNCHANGED <<account, valkey, store, process, sample, word>>

DaemonStops ==
  /\ "service" \in Failures
  /\ daemon # "down"
  /\ daemon' = "down"
  /\ sample' = NoSummary
  /\ breaker' = FreshBreaker
  /\ UNCHANGED <<account, valkey, store, process, ghosts>>

(***************************************************************************)
(* _gather_and_check reads the summary, then asks OANDA whether it is      *)
(* there, which may take seconds.  A failed read counts as no summary.     *)
(***************************************************************************)
GatherRisk ==
  /\ daemon = "idle"
  /\ daemon' = "checking"
  /\ sample' = IF valkey THEN summary ELSE NoSummary
  /\ lapsed' = (lapsed \/ (sample'.nav = 0 /\ breaker.peak + breaker.exposure > 0))
  /\ UNCHANGED <<account, valkey, store, process, breaker, word, moved>>

(***************************************************************************)
(* reset_daily, and the peak of the equity.                                *)
(***************************************************************************)
Refreshed(state, equity) ==
  [state EXCEPT
     !.dated    = TRUE,
     !.dayStart = IF state.dated THEN @ ELSE equity,
     !.peak     = IF equity > @ THEN equity ELSE @]

Fell(from, to, pct) == from > 0 /\ (from - to) * 100 >= pct * from

Distance(a, b) == IF a > b THEN a - b ELSE b - a

(***************************************************************************)
(* The critical breaches of check.  The streak of losing trades is never   *)
(* passed in, and the number of positions and the age of gates only warn.  *)
(* The first variant takes a first exposure for a rapid change, the second *)
(* trips once.                                                             *)
(***************************************************************************)
BreachesFromNothing(state, risk) ==
  \/ Fell(state.dayStart, risk.nav, DailyLossPct)
  \/ Fell(state.peak, risk.nav, MaxDrawdownPct)
  \/ Distance(risk.exposure, state.exposure) * 100 >= RapidChangePct * state.exposure

BreachesOnce(state, risk) ==
  ~state.tripped /\ Fell(state.peak, risk.nav, MaxDrawdownPct)

Breaches(state, risk) ==
  \/ Fell(state.dayStart, risk.nav, DailyLossPct)
  \/ Fell(state.peak, risk.nav, MaxDrawdownPct)
  \/ /\ state.snapped
     /\ state.exposure > 0
     /\ Distance(risk.exposure, state.exposure) * 100 >= RapidChangePct * state.exposure

(***************************************************************************)
(* check: any breach trips the breaker, for good, and engages the key      *)
(* again, if Valkey takes the write.                                       *)
(***************************************************************************)
CheckRisk ==
  /\ daemon = "checking"
  /\ daemon' = "idle"
  /\ LET state  == Refreshed(breaker, sample.nav)
         breach == Breaches(state, sample)
     IN  /\ breaker' = [state EXCEPT !.exposure = sample.exposure,
                                     !.snapped  = TRUE,
                                     !.tripped  = @ \/ breach]
         /\ key' = IF breach /\ valkey THEN "1" ELSE key
  /\ sample' = NoSummary
  /\ UNCHANGED <<account, valkey, summary, process, ghosts>>

------------------------------------------------------------------------------
(* The others *)

(***************************************************************************)
(* seed_valkey_defaults engages the key from a process of its own.         *)
(***************************************************************************)
SeedDefaults ==
  /\ valkey
  /\ key' = "1"
  /\ UNCHANGED <<account, valkey, summary, process, health, ghosts>>

AccountMoves ==
  /\ nav' \in Navs
  /\ exposure' \in Exposures
  /\ account' # account
  /\ moved' = TRUE
  /\ UNCHANGED <<valkey, store, process, health, word, lapsed>>

DayTurns ==
  /\ breaker.dated
  /\ breaker' = [breaker EXCEPT !.dated = FALSE]
  /\ UNCHANGED <<account, valkey, store, process, daemon, sample, ghosts>>

(***************************************************************************)
(* The summary outlives the cycle that wrote it by a few cycles only: the  *)
(* service may be down, or the loop held up by retries.                    *)
(***************************************************************************)
SummaryExpires ==
  /\ "summary" \in Failures
  /\ summary # NoSummary
  /\ summary' = NoSummary
  /\ UNCHANGED <<account, valkey, key, process, health, ghosts>>

ValkeyFails ==
  /\ "valkey" \in Failures
  /\ valkey' = ~valkey
  /\ UNCHANGED <<account, store, process, health, ghosts>>

------------------------------------------------------------------------------

SwitchNext ==
  \/ ServiceStarts \/ ServiceStops \/ PublishRisk
  \/ \E enabled \in BOOLEAN : SetKillSwitch(enabled)
  \/ DaemonStarts \/ DaemonStops \/ GatherRisk \/ CheckRisk
  \/ SeedDefaults \/ AccountMoves \/ DayTurns
  \/ SummaryExpires \/ ValkeyFails

SwitchSpec == SwitchInit /\ [][SwitchNext]_switchVars

(***************************************************************************)
(* The loop publishes in every cycle, and the daemon checks once a minute. *)
(***************************************************************************)
FairSpec ==
  /\ SwitchSpec
  /\ WF_switchVars(PublishRisk)
  /\ WF_switchVars(GatherRisk)
  /\ WF_switchVars(CheckRisk)

------------------------------------------------------------------------------
(* Properties *)

Trading == service = "up" /\ ~flag

(***************************************************************************)
(* Trading resumes on the operator's word only: neither a restart nor a    *)
(* script nor the daemon undoes what the operator said last, unless Valkey *)
(* was away when it was said.                                              *)
(***************************************************************************)
ResumesByOperator ==
  [][~Trading /\ Trading' => word' \in {"clear", "unsaved"}]_switchVars

(***************************************************************************)
(* The breaker trips for a reason: on an account that never changed it     *)
(* does not, unless the daemon lost sight of the account.                  *)
(***************************************************************************)
TripHasCause == breaker.tripped => moved \/ lapsed

(***************************************************************************)
(* "Failed to fetch OANDA account info" keeps the last balance: an account *)
(* that OANDA does not report is not an account that lost everything.      *)
(***************************************************************************)
UnreportedBalanceIsNoLoss == breaker.tripped => moved

(***************************************************************************)
(* An account that stays in a deep drawdown finds the key engaged again    *)
(* and again, however often it is cleared.                                 *)
(***************************************************************************)
InDrawdown ==
  /\ daemon # "down" /\ service = "up" /\ valkey
  /\ Fell(breaker.peak, nav, MaxDrawdownPct)

DrawdownKeepsEngaging == <>[]InDrawdown => []<>(key = "1")

(***************************************************************************)
(* "Kill switch engaged by circuit breaker": the service hears of a trip.  *)
(***************************************************************************)
TripStopsService ==
  breaker.tripped /\ key = "1" ~> ~Trading \/ key = "0"

=============================================================================
