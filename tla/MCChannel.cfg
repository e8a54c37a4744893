CONSTANTS
    a = a
    b = b
    p1 = p1
    p2 = p2
    p3 = p3
    Opener = a
    Acceptor = b
    Payments = {p1, p2, p3}
    PayFrom <- Payers
    Amount <- Amounts
    Funding = 4
    Closers = {}
    Fees = {1}
    MaxDrops = 2

SPECIFICATION Spec
CHECK_DEADLOCK FALSE
INVARIANTS
    NeverForced
    BalanceIsLedger
    ClaimableIsLocked
    FailedIsGone
    OneOutcome
