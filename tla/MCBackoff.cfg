SPECIFICATION FairSpec
CONSTANTS
    MaxTries = 3
    InitialInterval = 2
    MaxInterval = 5
    MaxElapsedTime = 12
    OpTimes <- MCOpTimes
    TimerLags <- MCTimerLags
INVARIANTS
    BudgetCountsRuns
    PauseFitsInElapsedBudget
    GivesUpOnlyWhenSpent
PROPERTIES
    IntervalNeverShrinks
    ImplementsContract
    RetryReturns
