-------------------------------- MODULE Link --------------------------------
(***************************************************************************)
(* What Negotiation promises, without messages, agents and goroutines:     *)
(* every start of a daemon is a new generation of its node, and a link has *)
(* two halves, each made by one of its ends.                               *)
(***************************************************************************)
EXTENDS Naturals

CONSTANT Nodes

VARIABLES
    gen,    \* the generation of each node, 0 before its first start
    half    \* half[n][p]: the generation of p that n is linked to, 0 for none

linkVars == <<gen, half>>

LInit ==
    /\ gen = [n \in Nodes |-> 0]
    /\ half = [n \in Nodes |-> [p \in Nodes |-> 0]]

\* A new generation begins without links.  Its peers keep their halves.
LStart(n) ==
    /\ gen' = [gen EXCEPT ![n] = @ + 1]
    /\ half' = [half EXCEPT ![n] = [p \in Nodes |-> 0]]

\* n makes its half, to the running generation of p and once.
LConnect(n, p) ==
    /\ half[n][p] = 0
    /\ gen[p] # 0
    /\ half[p][n] \in {0, gen[n]}
    /\ half' = [half EXCEPT ![n][p] = gen[p]]
    /\ UNCHANGED gen

LNext == \E n \in Nodes : LStart(n) \/ \E p \in Nodes : LConnect(n, p)

LSpec == LInit /\ [][LNext]_linkVars
=============================================================================
