CONSTANTS
    a = a
    b = b
    p1 = p1
    p2 = p2
    p3 = p3
    Opener = a
    Acceptor = b
    Payments = {p1, p2}
    PayFrom <- Payers
    Amount <- Amounts
    Funding = 4
    Closers = {a, b}
    Fees = {1, 2}
    MaxDrops = 1

SPECIFICATION Spec
CHECK_DEADLOCK FALSE
INVARIANTS
    ShutdownAfterAdds
