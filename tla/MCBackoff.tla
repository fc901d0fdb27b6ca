----------------------------- MODULE MCBackoff -----------------------------
(* A small instance of Backoff.  The intervals run through 2, 3, 4 and the *)
(* cap 5; one run of the operation can outlast the whole elapsed budget.   *)
EXTENDS Backoff

MCOpTimes == {0, 3, 12}
MCTimerLags == {0, 2}
=============================================================================
