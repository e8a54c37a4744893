CONSTANTS
    Withdrawals = {w1, w2}
    RequestOf <- OneRequest
    RgbTransfers = {g1}
    Fundings = {f1}
    Coins = {c1, c2}
    RgbCoins = {c1}
    MaxCalls = 3
    None = None

SPECIFICATION Spec
SYMMETRY CallSymmetry
CHECK_DEADLOCK FALSE
INVARIANTS
    TypeOK
    PaidOnce
PROPERTIES
    KeptUntilAbsent
