--------------------------- MODULE MCBacktestJobs ---------------------------
(***************************************************************************)
(* A market with a quiet candle between traded ones.  The windows overlap, *)
(* follow each other, reach into the future and end before they begin.     *)
(***************************************************************************)
EXTENDS BacktestJobs

OneQuiet == (0..MaxTime) \ {1}

W(from, to) == [from |-> from, to |-> to]

SomeWindows == {W(0, 2), W(0, 4), W(2, 3), W(3, 1)}

AllStoreFaults == StoreKinds
AllJobFaults == JobKinds
=============================================================================
