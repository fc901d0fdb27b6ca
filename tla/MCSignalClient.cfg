SPECIFICATION FairSpec
CONSTANTS
    w1 = w1
    w2 = w2
    Waiters <- TwoWaiters
    MaxTries = 3
INVARIANTS
    RegisteredChannelIsOpen
    OfferNeedsSession
PROPERTIES
    ImplementsBroadcast
    StreamKeepsRetryContract
    ReconnectReleases
CHECK_DEADLOCK FALSE
