---------------------------- MODULE MCClientConf ----------------------------
(* ClientConf for TLC: two processes, and enough keys for both of them to  *)
(* generate both, or for one to do so again after a power failure.         *)
(* Processes and keys are only compared with each other, so any            *)
(* permutation of them is sound.                                           *)
EXTENDS ClientConf, TLC

CONSTANTS c1, c2, k1, k2, k3, k4

TwoProcs == {c1, c2}
FourKeys == {k1, k2, k3, k4}
Symmetry == Permutations(TwoProcs) \cup Permutations(FourKeys)
=============================================================================
