SPECIFICATION Spec
CONSTANTS
    p1 = p1
    p2 = p2
    w1 = w1
    w2 = w2
    Payments <- MCPayments
    Workers <- MCWorkers
    NoPayment = NoPayment
    Idle = Idle
    MaxVersion = 3
    MaxAmount = 1
    Unfit = {}
INVARIANT
    FailedIsFinal
