--------------------------- MODULE MCSignalClient ---------------------------
(* SignalClient for TLC.  The daemon has one waiter; a second one makes    *)
(* two callers share a channel.                                            *)
EXTENDS SignalClient

CONSTANTS w1, w2

TwoWaiters == {w1, w2}
OneWaiter == {w1}
=============================================================================
