--------------------------- MODULE RetryContract ---------------------------
(***************************************************************************)
(* What the comment above backoff.Retry promises a caller, with no clock,  *)
(* no intervals and no pauses: the operation is run at least once, it is   *)
(* run again only after an ordinary failure, and never more than           *)
(* 1 + MaxTries times.                                                     *)
(***************************************************************************)
EXTENDS Naturals

CONSTANT MaxTries

VARIABLES phase,     \* "idle", "busy" or "done"
          attempts,  \* completed runs of the operation in this call
          outcome    \* what Retry returned: "none" until it has

contractVars == <<phase, attempts, outcome>>

CInit == phase = "idle" /\ attempts = 0 /\ outcome = "none"

\* A call may begin whenever no other call is in progress.
CStart ==
    /\ phase \in {"idle", "done"}
    /\ phase' = "busy"
    /\ attempts' = 0
    /\ outcome' = "none"

\* A run of the operation fails and another one is granted.
CFailedRun ==
    /\ phase = "busy"
    /\ attempts < MaxTries
    /\ attempts' = attempts + 1
    /\ UNCHANGED <<phase, outcome>>

\* A run succeeds, fails for good, or fails and the policy says Stop.
CLastRun ==
    /\ phase = "busy"
    /\ attempts <= MaxTries
    /\ phase' = "done"
    /\ attempts' = attempts + 1
    /\ outcome' \in {"ok", "permanent", "error"}

CNext == CStart \/ CFailedRun \/ CLastRun

ContractSpec == CInit /\ [][CNext]_contractVars
=============================================================================
