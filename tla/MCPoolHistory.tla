--------------------------- MODULE MCPoolHistory ---------------------------
(***************************************************************************)
(* PoolHistory with two threads and a window of one tick.                  *)
(***************************************************************************)
EXTENDS PoolHistory, TLC

CONSTANTS l1, l2
=============================================================================
