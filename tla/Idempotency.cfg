SPECIFICATION FairSpec
CONSTANTS
    r1 = r1
    r2 = r2
    b = b
    p1 = p1
    Requests <- MCRequests
    Keys = {k1}
    Payloads = {a, b}
    Refunds = {b}
    Payments = {p1, p2}
    NoPayment = NoPayment
    ChosenId <- MCChosenId
    TestAnswers <- MCTestAnswers
    NoRow = NoRow
    NoRequest = NoRequest
    MaxRows = 2
    MaxFaults = 1
INVARIANTS
    TypeOK
    OnceUnderLease
    RetriesAgree
    CompletedNamesPayment
    TerminalUnlocked
    OneAnswer
PROPERTIES
    OutcomesStay
    ImplementsKey
    PendingKeySettles
