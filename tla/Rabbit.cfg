SPECIFICATION FairSpec
CONSTANTS
    good = good
    nameless = nameless
    c1 = c1
    c2 = c2
    Messages <- MCMessages
    Malformed <- MCMalformed
    Anonymous <- MCAnonymous
    Consumers <- MCConsumers
    NoCopy = NoCopy
    MaxCopies = 2
    MaxFaults = 2
INVARIANTS
    TypeOK
    TakenIsProcessed
PROPERTY
    EventuallyTaken
    ImplementsAtLeastOnce
CHECK_DEADLOCK FALSE
