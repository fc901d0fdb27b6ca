------------------------------ MODULE MCDaemon ------------------------------
(* Daemon for TLC: two peers.                                              *)
EXTENDS Daemon

CONSTANTS p1, p2

TwoPeers == {p1, p2}
=============================================================================
