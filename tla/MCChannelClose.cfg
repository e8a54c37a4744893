CONSTANTS
    a = a
    b = b
    p1 = p1
    p2 = p2
    p3 = p3
    Opener = a
    Acceptor = b
    Payments = {p1, p2, p3}
    PayFrom <- Payers
    Amount <- Amounts
    Funding = 3
    Closers = {a, b}
    Fees = {1, 2}
    MaxDrops = 2

SPECIFICATION LiveSpec
CHECK_DEADLOCK FALSE
INVARIANTS
    TypeOK
    ForcedOnlyByOrder
    CloseAgrees
PROPERTIES
    ImplementsLedger
    EveryPaymentEnds
    Quiesces
    CloseCompletes
