-------------------------- MODULE Backoff_proofs ---------------------------
(***************************************************************************)
(* The retry loop keeps its budgets, and implements RetryContract, for     *)
(* every number of tries, every interval and every operation time.         *)
(***************************************************************************)
EXTENDS Backoff, TLAPS

\* incrementCurrentInterval never shrinks an interval and never passes the
\* cap (the two branches of its overflow check).
LEMMA IncrementBounds ==
    ASSUME NEW i \in InitialInterval..MaxInterval
    PROVE  /\ incrementCurrentInterval(i) \in InitialInterval..MaxInterval
           /\ incrementCurrentInterval(i) >= i
  <1> USE BackoffAssumption
  <1>1. CASE 3 * i >= 2 * MaxInterval
    BY <1>1 DEF incrementCurrentInterval
  <1>2. CASE ~(3 * i >= 2 * MaxInterval)
    <2>1. (3 * i) \div 2 \in Int /\ i <= (3 * i) \div 2 /\ (3 * i) \div 2 <= MaxInterval
      BY <1>2
    <2>2. QED
      BY <1>2, <2>1 DEF incrementCurrentInterval
  <1>3. QED
    BY <1>1, <1>2

\* A pause drawn from an interval is a natural number, at most 1.5 times the
\* interval rounded up.
LEMMA PauseBounds ==
    ASSUME NEW i \in InitialInterval..MaxInterval,
           NEW r \in RandomIntervals(i)
    PROVE  r \in Nat /\ r <= LongestPause(MaxInterval)
  BY BackoffAssumption DEF RandomIntervals, LongestPause

\* What every reachable state satisfies, as one inductive invariant.
IInv ==
    /\ TypeOK
    /\ BudgetCountsRuns
    /\ PauseFitsInElapsedBudget
    /\ GivesUpOnlyWhenSpent
    /\ pc = "sleep" => next # Stop
    /\ pc = "sleep" => numTries > 0
    /\ pc \in {"idle", "op", "sleep"} => result = "none"

\* Before the first call the inductive invariant holds.
LEMMA InitIInv == Init => IInv
  BY BackoffAssumption
  DEF Init, IInv, TypeOK, BudgetCountsRuns, PauseFitsInElapsedBudget, GivesUpOnlyWhenSpent

\* Every step of the loop preserves the inductive invariant.
LEMMA StepIInv == IInv /\ [Next]_vars => IInv'
  <1> SUFFICES ASSUME IInv, [Next]_vars PROVE IInv'
    OBVIOUS
  <1> USE BackoffAssumption DEF IInv, TypeOK, BudgetCountsRuns,
          PauseFitsInElapsedBudget, GivesUpOnlyWhenSpent, Stop
  <1>1. CASE Retry
    BY <1>1 DEF Retry, Reset
  <1>2. ASSUME NEW d \in OpTimes, ReturnResult(d) PROVE IInv'
    BY <1>2 DEF ReturnResult
  <1>3. ASSUME NEW d \in OpTimes, FailExhausted(d) PROVE IInv'
    BY <1>3 DEF FailExhausted
  <1>4. ASSUME NEW d \in OpTimes, FailDelegated(d) PROVE IInv'
    <2>1. PICK r \in RandomIntervals(currentInterval) :
            /\ next' = ExponentialNext(elapsed', r)
            /\ IF next' = Stop THEN pc' = "done" /\ result' = "error"
                               ELSE pc' = "sleep" /\ UNCHANGED result
      BY <1>4 DEF FailDelegated
    <2>2. r \in Nat /\ r <= LongestPause(MaxInterval)
      BY PauseBounds
    <2>3. /\ currentInterval' \in InitialInterval..MaxInterval
          /\ numTries' = numTries + 1 /\ numTries < MaxTries
          /\ runs' = runs + 1 /\ pc = "op"
          /\ elapsed' = elapsed + d /\ elapsed' \in Nat
      BY <1>4, IncrementBounds DEF FailDelegated
    <2>4. LongestPause(MaxInterval) \in Int
      BY DEF LongestPause
    <2>5. CASE MaxElapsedTime # 0 /\ elapsed' + r > MaxElapsedTime
      BY <2>1, <2>2, <2>3, <2>4, <2>5 DEF ExponentialNext
    <2>6. CASE ~(MaxElapsedTime # 0 /\ elapsed' + r > MaxElapsedTime)
      BY <2>1, <2>2, <2>3, <2>6 DEF ExponentialNext
    <2>7. QED
      BY <2>5, <2>6
  <1>5. ASSUME NEW lag \in TimerLags, Wake(lag) PROVE IInv'
    BY <1>5 DEF Wake
  <1>6. CASE UNCHANGED vars
    BY <1>6 DEF vars
  <1>7. QED
    BY <1>1, <1>2, <1>3, <1>4, <1>5, <1>6 DEF Next, OpReturns, TimerFires

\* The inductive invariant holds in every reachable state of the retry loop.
THEOREM InductiveInvariant == Spec => []IInv
  BY InitIInv, StepIInv, PTL DEF Spec

\* Type correctness of the retry loop.
THEOREM TypeCorrect == Spec => []TypeOK
  BY InductiveInvariant, PTL DEF IInv

\* One call of Retry runs the operation at most 1 + MaxTries times.
THEOREM BudgetCorrect == Spec => []BudgetCountsRuns
  BY InductiveInvariant, PTL DEF IInv

\* No pause ends after MaxElapsedTime.
THEOREM PauseCorrect == Spec => []PauseFitsInElapsedBudget
  BY InductiveInvariant, PTL DEF IInv

\* Retry gives up only when one of its two budgets is spent.
THEOREM GiveUpCorrect == Spec => []GivesUpOnlyWhenSpent
  BY InductiveInvariant, PTL DEF IInv

\* Between two calls of Reset the interval only grows, up to its cap.
THEOREM IntervalCorrect == Spec => IntervalNeverShrinks
  <1> USE BackoffAssumption
  <1>1. IInv /\ [Next]_vars =>
          [Retry \/ (currentInterval' >= currentInterval
                       /\ currentInterval' <= MaxInterval)]_vars
    <2> SUFFICES ASSUME IInv, [Next]_vars
        PROVE Retry \/ UNCHANGED vars \/ (currentInterval' >= currentInterval
                         /\ currentInterval' <= MaxInterval)
      OBVIOUS
    <2>1. currentInterval \in InitialInterval..MaxInterval
      BY DEF IInv, TypeOK
    <2>2. ASSUME NEW d \in OpTimes, FailDelegated(d)
          PROVE currentInterval' >= currentInterval /\ currentInterval' <= MaxInterval
      BY <2>1, <2>2, IncrementBounds DEF FailDelegated
    <2>3. ASSUME NEW d \in OpTimes, ReturnResult(d) \/ FailExhausted(d)
          PROVE currentInterval' >= currentInterval /\ currentInterval' <= MaxInterval
      BY <2>1, <2>3 DEF ReturnResult, FailExhausted
    <2>4. ASSUME NEW lag \in TimerLags, Wake(lag)
          PROVE currentInterval' >= currentInterval /\ currentInterval' <= MaxInterval
      BY <2>1, <2>4 DEF Wake
    <2>5. QED
      BY <2>2, <2>3, <2>4 DEF Next, OpReturns, TimerFires
  <1>2. QED
    BY <1>1, InductiveInvariant, PTL DEF Spec, IntervalNeverShrinks

----------------------------------------------------------------------------
\* A loop that has not been entered maps to a contract with no call.
LEMMA InitRefines == Init => Contract!CInit
  BY DEF Init, Contract!CInit

\* Each step of the loop is a step of the contract, or leaves it alone: a
\* wake-up is the one step a caller cannot see.
LEMMA StepRefines == IInv /\ [Next]_vars => [Contract!CNext]_(Contract!contractVars)
  <1> SUFFICES ASSUME IInv, [Next]_vars
               PROVE  [Contract!CNext]_(Contract!contractVars)
    OBVIOUS
  <1> USE BackoffAssumption DEF IInv, TypeOK, BudgetCountsRuns
  <1>1. CASE Retry
    BY <1>1 DEF Retry, Contract!CStart, Contract!CNext
  <1>2. ASSUME NEW d \in OpTimes, ReturnResult(d) PROVE Contract!CLastRun
    BY <1>2 DEF ReturnResult, Contract!CLastRun
  <1>3. ASSUME NEW d \in OpTimes, FailExhausted(d) PROVE Contract!CLastRun
    BY <1>3 DEF FailExhausted, Contract!CLastRun
  <1>4. ASSUME NEW d \in OpTimes, FailDelegated(d)
        PROVE  Contract!CLastRun \/ Contract!CFailedRun
    <2>1. CASE next' = Stop
      BY <1>4, <2>1 DEF FailDelegated, Contract!CLastRun
    <2>2. CASE next' # Stop
      BY <1>4, <2>2 DEF FailDelegated, Contract!CFailedRun
    <2>3. QED
      BY <2>1, <2>2
  <1>5. ASSUME NEW lag \in TimerLags, Wake(lag)
        PROVE  UNCHANGED Contract!contractVars
    BY <1>5 DEF Wake, Contract!contractVars
  <1>6. CASE UNCHANGED vars
    BY <1>6 DEF vars, Contract!contractVars
  <1>7. QED
    BY <1>1, <1>2, <1>3, <1>4, <1>5, <1>6
    DEF Next, OpReturns, TimerFires, Contract!CNext

\* The retry loop implements the contract that the comment above Retry states.
THEOREM Refinement == Spec => ImplementsContract
  BY InitRefines, StepRefines, InductiveInvariant, PTL
  DEF Spec, ImplementsContract, Contract!ContractSpec
=============================================================================
