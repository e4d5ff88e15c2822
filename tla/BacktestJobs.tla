----------------------------- MODULE BacktestJobs -----------------------------
(***************************************************************************)
(* BacktestManager (scripts/trading/backtest_manager.py): one backtest at  *)
(* a time on a thread of the trading service.  A job cuts its window to    *)
(* the gates there are, loads the candles through the history store,       *)
(* replays them and leaves a file of results or of an error; its status    *)
(* lives in memory.  One instrument stands for those of a job; the replay  *)
(* itself is BacktestReplay.                                               *)
(***************************************************************************)
EXTENDS HistoryStore

CONSTANTS
  LookBack,   \* 5 days, in candles
  Asked,      \* the windows that are asked for
  MaxJobs,    \* how many jobs are asked for
  JobFaults   \* what else may fail: members of JobKinds

(***************************************************************************)
(* The replay raises; the disk refuses the results.                        *)
(***************************************************************************)
JobKinds == {"replay", "disk"}

ASSUME JobAssumption ==
  /\ LookBack \in Nat \ {0} /\ MaxJobs \in Nat
  /\ Asked \subseteq [from : 0..MaxTime, to : 0..MaxTime + 1]
  /\ JobFaults \subseteq JobKinds

VARIABLES
  up,        \* whether the trading service runs
  status,    \* _backtest_status
  job,       \* _run_job on its thread
  results,   \* latest.json
  error,     \* latest.error.json
  jobs       \* how many jobs have been triggered

manager == <<up, status, job, results, error, jobs>>
vars == <<store, manager>>

NoWindow == [from |-> 0, to |-> 0]

Idle == [state |-> "idle", window |-> NoWindow]

NoJob == [stage |-> "none", window |-> NoWindow]

(***************************************************************************)
(* A file holds a window, or is absent, or was cut while it was written.   *)
(***************************************************************************)
Absent == [kind |-> "absent", window |-> NoWindow]
Cut == [kind |-> "cut", window |-> NoWindow]
Of(w) == [kind |-> "whole", window |-> w]

TypeOK ==
  /\ StoreTypeOK
  /\ up \in BOOLEAN
  /\ status.state \in {"idle", "running", "completed", "error"}
  /\ job.stage \in {"none", "clamp", "load", "results", "status", "error", "fail"}
  /\ (job.stage = "none") = (status.state # "running")
  /\ results.kind \in {"absent", "cut", "whole"} /\ error.kind \in {"absent", "cut", "whole"}
  /\ jobs \in 0..MaxJobs

Init ==
  /\ StoreInit
  /\ up = TRUE /\ status = Idle /\ job = NoJob
  /\ results = Absent /\ error = Absent /\ jobs = 0

JobFails(kind) ==
  /\ kind \in JobFaults /\ faults < MaxFaults
  /\ faults' = faults + 1

At(stage) == [job EXCEPT !.stage = stage]

------------------------------------------------------------------------------
(***************************************************************************)
(* trigger: refused while a job runs; a window that cannot be parsed       *)
(* changes nothing, and one that lies ahead or ends before it begins is    *)
(* taken as it is.  The error of an earlier job is removed.                *)
(***************************************************************************)
Trigger(w) ==
  /\ up /\ jobs < MaxJobs
  /\ status.state # "running"
  /\ status' = [state |-> "running", window |-> w]
  /\ job' = [stage |-> "clamp", window |-> w]
  /\ error' = Absent
  /\ jobs' = jobs + 1
  /\ UNCHANGED <<store, up, results>>

(***************************************************************************)
(* The window ends with the newest gate at the latest, goes back from it   *)
(* by five days at most, and ends now at the latest.                       *)
(***************************************************************************)
Clamped(w, newest) ==
  LET to    == IF newest >= 0 THEN Min({w.to, newest}) ELSE w.to
      from  == IF newest >= 0 THEN Max({w.from, newest - LookBack}) ELSE w.from
      later == IF to <= from THEN from + LookBack ELSE to
  IN [from |-> from, to |-> Min({later, now + 1})]

(***************************************************************************)
(* The newest gate is what Valkey answers: -1 for none and for no answer.  *)
(***************************************************************************)
ClampWindow ==
  /\ job.stage = "clamp"
  /\ \E newest \in -1..now : LET w == Clamped(job.window, newest) IN
       /\ job' = [stage |-> "load", window |-> w]
       /\ LoadBegins(w.from, w.to)
  /\ UNCHANGED <<now, files, faults, lost, up, status, results, error, jobs>>

Loading ==
  /\ job.stage = "load"
  /\ FetchChunk \/ WriteCandles \/ SignCandles
  /\ UNCHANGED manager

(***************************************************************************)
(* A window without candles or gates is replayed to no result; an          *)
(* exception on the way ends the job.                                      *)
(***************************************************************************)
Replayed ==
  /\ job.stage = "load" /\ load.stage \in {"done", "failed"}
  /\ load' = NoLoad
  /\ \/ /\ load.stage = "done" /\ job' = At("results")
        /\ UNCHANGED faults
     \/ /\ load.stage = "failed" /\ job' = At("error")
        /\ UNCHANGED faults
     \/ /\ load.stage = "done" /\ JobFails("replay")
        /\ job' = At("error")
  /\ UNCHANGED <<now, files, lost, skipped, up, status, results, error, jobs>>

WriteResults ==
  /\ job.stage = "results"
  /\ \/ /\ results' = Of(job.window) /\ job' = At("status")
        /\ UNCHANGED faults
     \/ /\ JobFails("disk")
        /\ results' \in {results, Cut} /\ job' = At("error")
  /\ UNCHANGED <<now, files, load, lost, skipped, up, status, error, jobs>>

(***************************************************************************)
(* The status after a job, under the lock.  The variant keeps the window   *)
(* that was asked for.                                                     *)
(***************************************************************************)
CompletedAsAsked(w) == [state |-> "completed", window |-> status.window]

Completed(w) == [state |-> "completed", window |-> w]

Failed(w) == [state |-> "error", window |-> w]

Complete ==
  /\ job.stage = "status"
  /\ status' = Completed(job.window)
  /\ job' = NoJob
  /\ UNCHANGED <<store, up, results, error, jobs>>

WriteError ==
  /\ job.stage = "error"
  /\ \/ error' = Of(job.window) /\ UNCHANGED faults
     \/ JobFails("disk") /\ error' \in {error, Cut}
  /\ job' = At("fail")
  /\ UNCHANGED <<now, files, load, lost, skipped, up, status, results, jobs>>

Fail ==
  /\ job.stage = "fail"
  /\ status' = Failed(job.window)
  /\ job' = NoJob
  /\ UNCHANGED <<store, up, results, error, jobs>>

(***************************************************************************)
(* The thread is a daemon: it ends with the process, wherever it is.       *)
(***************************************************************************)
ServiceEnds ==
  /\ up /\ ProcessEnds
  /\ up' = FALSE
  /\ status' = Idle /\ job' = NoJob
  /\ results' \in IF job.stage = "results" THEN {results, Cut, Of(job.window)} ELSE {results}
  /\ error' \in IF job.stage = "error" THEN {error, Cut, Of(job.window)} ELSE {error}
  /\ UNCHANGED jobs

ServiceStarts ==
  /\ ~up
  /\ up' = TRUE
  /\ UNCHANGED <<store, status, job, results, error, jobs>>

TimePasses == Tick /\ UNCHANGED manager

JobStep ==
  \/ ClampWindow \/ Loading \/ Replayed
  \/ WriteResults \/ Complete \/ WriteError \/ Fail

(***************************************************************************)
(* All jobs are done and the time of the run is over.                      *)
(***************************************************************************)
Rest == jobs = MaxJobs /\ now = MaxTime /\ up /\ job = NoJob /\ UNCHANGED vars

Next ==
  \/ \E w \in Asked : Trigger(w)
  \/ JobStep
  \/ ServiceEnds \/ ServiceStarts
  \/ TimePasses \/ Rest

Spec == Init /\ [][Next]_vars

(***************************************************************************)
(* Requests time out and are tried three times, so the thread goes on.     *)
(***************************************************************************)
FairSpec == Spec /\ WF_vars(JobStep)

------------------------------------------------------------------------------
(* What the API shows *)

(***************************************************************************)
(* latest_results: the results when there are any, whatever became of the  *)
(* last job, and an error when there are none.  No job writes a partial    *)
(* file.                                                                   *)
(***************************************************************************)
LatestResults ==
  CASE results.kind = "whole"                               -> results
    [] results.kind = "cut"                                 -> [kind |-> "unreadable", window |-> NoWindow]
    [] results.kind = "absent" /\ error.kind = "whole"      -> [kind |-> "error", window |-> error.window]
    [] results.kind = "absent" /\ error.kind = "cut"        -> [kind |-> "unreadable", window |-> NoWindow]
    [] results.kind = "absent" /\ error.kind = "absent"     -> [kind |-> "not_found", window |-> NoWindow]

(***************************************************************************)
(* When the status says that a job is completed, the results that are      *)
(* shown are its own: of its window, and whole (_run_job, trigger,         *)
(* latest_results).                                                        *)
(***************************************************************************)
CompletedIsShown ==
  status.state = "completed" => LatestResults = Of(status.window)

(***************************************************************************)
(* A job comes to an end, whatever fails in it, so that the next one is    *)
(* not refused for ever (_run_job, trigger).                               *)
(***************************************************************************)
JobEnds == status.state = "running" ~> status.state # "running"
=============================================================================
