SPECIFICATION FairSpec
CONSTANTS
    a = a
    b = b
    NoEvent = NoEvent
    Events <- MCEvents
    Publishers <- MCPublishers
    BatchSize = 2
    Capacity = 1
    Limit = 1
    MaxCount = 2
    MaxFaults = 1
CHECK_DEADLOCK FALSE
INVARIANTS
    OutboxTypeOK
    NothingForgotten
PROPERTIES
    ImplementsDelivery
    EventuallySettled
