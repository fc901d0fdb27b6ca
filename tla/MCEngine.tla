------------------------------ MODULE MCEngine ------------------------------
(* Engine and RcnSock for TLC: two starts of the daemon, one command.      *)
EXTENDS Engine

CONSTANTS d1, d2, c1

TwoDaemons == {d1, d2}
OneClient == {c1}
=============================================================================
