--------------------------- MODULE MCNegotiation ----------------------------
(* Negotiation for TLC: two nodes whose keys are ordered as named.         *)
EXTENDS Negotiation

CONSTANTS a, b

TwoNodes == {a, b}
TwoKeys == [n \in TwoNodes |-> IF n = a THEN 1 ELSE 2]
Once == [n \in TwoNodes |-> 1]
BRestarts == [n \in TwoNodes |-> IF n = b THEN 2 ELSE 1]
=============================================================================
