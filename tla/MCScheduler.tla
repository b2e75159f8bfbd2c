---------------------------- MODULE MCScheduler -----------------------------
(* Small instances of Scheduler for TLC. *)
EXTENDS Scheduler

\* r1 may generate three tokens, r2 two, and r3 comes with a negative number.
ThreeTwoNegative == [r \in Req |-> IF r = "r1" THEN 3 ELSE IF r = "r2" THEN 2 ELSE -1]

\* Peaks of two pages, r2 of one; in the second workload r2 is larger than the pool, in
\* the third the peak of r3 is negative.
SmallPeaks == [r \in Req |-> IF r = "r2" THEN 1 ELSE 2]
OneOversize == [r \in Req |-> IF r = "r2" THEN NumPages + 1 ELSE 2]
OneNegative == [r \in Req |-> IF r = "r3" THEN -1 ELSE 4]
Workloads == {SmallPeaks, OneOversize, OneNegative}
=============================================================================
