SPECIFICATION RebuildSpec
CONSTANTS
    p1 = p1
    w1 = w1
    w2 = w2
    Payments <- MCPayments
    Workers <- MCWorkers
    NoPayment = NoPayment
    Idle = Idle
    NoRebuild = NoRebuild
    MaxVersion = 5
    MaxAmount = 2
    Unfit = {1}
SYMMETRY Symmetry
INVARIANTS
    RebuildTypeOK
    ReplayIsFaithful
    StoppedByReopenedOrUnfit
    ReadModelFollowsStore
PROPERTY
    ReadModelMovesOn
