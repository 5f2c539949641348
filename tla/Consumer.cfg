SPECIFICATION FairSpec
CONSTANTS
    good = good
    bad = bad
    garbled = garbled
    alone = alone
    p1 = p1
    p2 = p2
    c1 = c1
    c2 = c2
    NoOne = NoOne
    Nothing = Nothing
    Messages <- MCMessages
    Malformed = {bad}
    Unknown = {alone}
    Keyless = {alone}
    Undecodable = {garbled}
    Partitions <- MCPartitions
    Consumers <- MCConsumers
    CacheSize = 1
    MaxLength = 2
    MaxFaults = 1
CHECK_DEADLOCK FALSE
INVARIANTS
    TypeOK
    NothingLost
    MarkedIsHandled
PROPERTY
    EventuallyDispatched
    ImplementsAtLeastOnce
