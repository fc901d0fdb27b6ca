----------------------------- MODULE Broadcast ------------------------------
(***************************************************************************)
(* What ConnectState promises the callers of WaitStartConnect, without its *)
(* channels: a switch that is turned on and off, and a place where callers *)
(* wait for it to be turned on.                                            *)
(***************************************************************************)
CONSTANT Waiters

VARIABLES
    on,     \* the state is Connected
    place   \* place[w]: "outside", "waiting" or "released"

switchVars == <<on, place>>

BInit ==
    /\ on = FALSE
    /\ place = [w \in Waiters |-> "outside"]

\* Only a caller that finds the switch on passes without waiting.
BPass(w) ==
    /\ on
    /\ place[w] = "outside"
    /\ place' = [place EXCEPT ![w] = "released"]
    /\ UNCHANGED on

BWait(w) ==
    /\ place[w] = "outside"
    /\ place' = [place EXCEPT ![w] = "waiting"]
    /\ UNCHANGED on

\* Turning it on, also when it is on, releases everybody who waits, at once.
BConnect ==
    /\ on' = TRUE
    /\ place' = [w \in Waiters |-> IF place[w] = "waiting" THEN "released" ELSE place[w]]

BDisconnect ==
    /\ on' = FALSE
    /\ UNCHANGED place

BNext == BConnect \/ BDisconnect \/ \E w \in Waiters : BPass(w) \/ BWait(w)

BSpec == BInit /\ [][BNext]_switchVars
=============================================================================
