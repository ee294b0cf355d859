--------------------------- MODULE MCArpDisrupt ---------------------------
(***************************************************************************)
(* ArpDisrupt on small instances; the configurations choose how many       *)
(* request threads, names and loop identities there are.                   *)
(***************************************************************************)
EXTENDS ArpDisrupt, TLC

CONSTANTS w1, w2, n1, n2, l1, l2, l3, l4

OneWorker == {w1}
TwoWorkers == {w1, w2}
OneName == {n1}
TwoNames == {n1, n2}
ThreeLoops == {l1, l2, l3}
FourLoops == {l1, l2, l3, l4}

WorkerLoopSymmetry == Permutations(TwoWorkers) \cup Permutations(ThreeLoops)
=============================================================================
