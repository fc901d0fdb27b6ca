SPECIFICATION FairSpec
CONSTANTS
    w1 = w1
    w2 = w2
    Waiters <- OneWaiter
    MaxTries = 3
PROPERTY
    WaitEndsOnceConnected
CHECK_DEADLOCK FALSE
