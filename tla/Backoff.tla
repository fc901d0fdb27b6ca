------------------------------ MODULE Backoff ------------------------------
(***************************************************************************)
(* backoff.doRetryNotify driven by WithMaxRetries(NewExponentialBackOff()),*)
(* the retry policy of the signal stream.  Time is counted in clock ticks; *)
(* every call measures it from the startTime that Reset records, so the    *)
(* model keeps only elapsed = Clock.Now() - startTime.                     *)
(*                                                                         *)
(* No type of the repository implements BackOffContext, so getContext      *)
(* always yields context.Background() and a sleep is never cancelled.      *)
(***************************************************************************)
EXTENDS Integers

CONSTANTS
    MaxTries,         \* the max of WithMaxRetries
    InitialInterval,  \* ticks
    MaxInterval,      \* ticks
    MaxElapsedTime,   \* ticks; 0 means that elapsed time never stops a retry
    OpTimes,          \* how many ticks one run of the operation may take
    TimerLags         \* by how many ticks a timer may fire late

ASSUME BackoffAssumption ==
    /\ MaxTries \in Nat
    /\ InitialInterval \in Nat \ {0}
    /\ MaxInterval \in Nat
    /\ InitialInterval <= MaxInterval
    /\ MaxElapsedTime \in Nat
    /\ OpTimes \subseteq Nat
    /\ TimerLags \subseteq Nat

Stop == -1

VARIABLES
    pc,               \* "idle", "op", "sleep" or "done"
    numTries,         \* backOffTries.numTries
    currentInterval,  \* ExponentialBackOff.currentInterval
    elapsed,          \* Clock.Now() - startTime
    next,             \* the duration NextBackOff returned last
    runs,             \* how often the operation has returned in this call
    result            \* "none", "ok", "permanent" or "error"

vars == <<pc, numTries, currentInterval, elapsed, next, runs, result>>

----------------------------------------------------------------------------
(* ExponentialBackOff, with the default Multiplier 1.5 and the default     *)
(* RandomizationFactor 0.5.                                                *)

IncrementDropsCap(i) == (3 * i) \div 2

\* incrementCurrentInterval: 1.5 times the interval, cut off at MaxInterval.
incrementCurrentInterval(i) ==
    IF 3 * i >= 2 * MaxInterval THEN MaxInterval ELSE (3 * i) \div 2

LongestPause(i) == (3 * i + 1) \div 2

\* Every value getRandomValueFromInterval can return: the truncation of
\* i/2 + random * (i + 1) for a random in [0, 1).
RandomIntervals(i) == (i \div 2) .. LongestPause(i)

ExponentialIgnoresElapsed(t, d) == d

\* ExponentialBackOff.NextBackOff for the random pause d at elapsed time t.
ExponentialNext(t, d) ==
    IF MaxElapsedTime # 0 /\ t + d > MaxElapsedTime THEN Stop ELSE d

----------------------------------------------------------------------------
Init ==
    /\ pc = "idle"
    /\ numTries \in 0..MaxTries
    /\ currentInterval \in InitialInterval..MaxInterval
    /\ elapsed = 0
    /\ next = 0
    /\ runs = 0
    /\ result = "none"

ResetKeepsTries ==
    /\ numTries' = numTries
    /\ currentInterval' = InitialInterval
    /\ elapsed' = 0

\* backOffTries.Reset, which resets its delegate as well.
Reset ==
    /\ numTries' = 0
    /\ currentInterval' = InitialInterval
    /\ elapsed' = 0

\* doRetryNotify is entered; the BackOff may have been used by a call before.
Retry ==
    /\ pc \in {"idle", "done"}
    /\ Reset
    /\ pc' = "op"
    /\ next' = 0
    /\ runs' = 0
    /\ result' = "none"

\* The operation returns nil, or an error that wraps a PermanentError, after
\* running for d ticks.
ReturnResult(d) ==
    /\ pc = "op"
    /\ elapsed' = elapsed + d
    /\ runs' = runs + 1
    /\ result' \in {"ok", "permanent"}
    /\ pc' = "done"
    /\ UNCHANGED <<numTries, currentInterval, next>>

FailExhaustedEarly(d) ==
    /\ pc = "op"
    /\ MaxTries <= numTries + 1
    /\ elapsed' = elapsed + d
    /\ runs' = runs + 1
    /\ next' = Stop
    /\ result' = "error"
    /\ pc' = "done"
    /\ UNCHANGED <<numTries, currentInterval>>

\* The operation fails and backOffTries has no retry left.  Its NextBackOff
\* returns before it asks the delegate, so the interval does not change.
FailExhausted(d) ==
    /\ pc = "op"
    /\ MaxTries <= numTries
    /\ elapsed' = elapsed + d
    /\ runs' = runs + 1
    /\ next' = Stop
    /\ result' = "error"
    /\ pc' = "done"
    /\ UNCHANGED <<numTries, currentInterval>>

FailDelegatedOffByOne(d) ==
    /\ pc = "op"
    /\ numTries <= MaxTries
    /\ elapsed' = elapsed + d
    /\ runs' = runs + 1
    /\ numTries' = numTries + 1
    /\ currentInterval' = incrementCurrentInterval(currentInterval)
    /\ \E r \in RandomIntervals(currentInterval) :
          /\ next' = ExponentialNext(elapsed', r)
          /\ IF next' = Stop THEN pc' = "done" /\ result' = "error"
                             ELSE pc' = "sleep" /\ UNCHANGED result

\* The operation fails and the delegate decides.  The try is counted and the
\* interval grown even when the answer is Stop.
FailDelegated(d) ==
    /\ pc = "op"
    /\ numTries < MaxTries
    /\ elapsed' = elapsed + d
    /\ runs' = runs + 1
    /\ numTries' = numTries + 1
    /\ currentInterval' = incrementCurrentInterval(currentInterval)
    /\ \E r \in RandomIntervals(currentInterval) :
          /\ next' = ExponentialNext(elapsed', r)
          /\ IF next' = Stop THEN pc' = "done" /\ result' = "error"
                             ELSE pc' = "sleep" /\ UNCHANGED result

WakeFirstTimeOnly(lag) ==
    /\ pc = "sleep"
    /\ runs = 1
    /\ elapsed' = elapsed + next + lag
    /\ pc' = "op"
    /\ UNCHANGED <<numTries, currentInterval, next, runs, result>>

\* The timer fires, lag ticks late, and the loop runs the operation again.
Wake(lag) ==
    /\ pc = "sleep"
    /\ elapsed' = elapsed + next + lag
    /\ pc' = "op"
    /\ UNCHANGED <<numTries, currentInterval, next, runs, result>>

OpReturns == \E d \in OpTimes :
                ReturnResult(d) \/ FailExhausted(d) \/ FailDelegated(d)

TimerFires == \E lag \in TimerLags : Wake(lag)

Next == Retry \/ OpReturns \/ TimerFires

Spec == Init /\ [][Next]_vars

\* The operation returns eventually, and a started timer fires.
FairSpec == Spec /\ WF_vars(OpReturns) /\ WF_vars(TimerFires)

----------------------------------------------------------------------------
TypeOK ==
    /\ pc \in {"idle", "op", "sleep", "done"}
    /\ numTries \in 0..MaxTries
    /\ currentInterval \in InitialInterval..MaxInterval
    /\ elapsed \in Nat
    /\ next \in Nat \cup {Stop}
    /\ runs \in Nat
    /\ result \in {"none", "ok", "permanent", "error"}

\* numTries counts the failures the policy has granted a retry for, so a
\* call runs the operation at most 1 + MaxTries times, whatever the runs and
\* the pauses take, also when the BackOff was used by an earlier call.
BudgetCountsRuns ==
    /\ pc \in {"op", "sleep"} => runs = numTries
    /\ runs <= MaxTries + 1

\* The loop never goes to sleep when the pause would end after MaxElapsedTime
\* (the check at the end of ExponentialBackOff.NextBackOff).
PauseFitsInElapsedBudget ==
    pc = "sleep" /\ MaxElapsedTime # 0 => elapsed + next <= MaxElapsedTime

\* Retry returns the operation's own error only when a budget is used up:
\* every retry was granted, or not even the longest pause fits any more.
GivesUpOnlyWhenSpent ==
    result = "error" =>
        \/ numTries = MaxTries
        \/ /\ MaxElapsedTime # 0
           /\ elapsed + LongestPause(MaxInterval) > MaxElapsedTime

\* Within one call the interval never shrinks, and it stays below the cap.
IntervalNeverShrinks ==
    [][Retry \/ (currentInterval' >= currentInterval /\ currentInterval' <= MaxInterval)]_vars

\* The clock-free contract of the comment above Retry.
Contract == INSTANCE RetryContract WITH
    phase    <- IF pc \in {"op", "sleep"} THEN "busy" ELSE pc,
    attempts <- runs,
    outcome  <- result

\* doRetryNotify implements the contract of backoff.Retry.
ImplementsContract == Contract!ContractSpec

\* A call whose operation always returns comes back itself.
RetryReturns == (pc = "op") ~> (pc = "done")
=============================================================================
