CONSTANTS
    a1 = a1
    Accounts <- OneAccount
    Sends = {s1}
    Receives = {r1}
    AccountOf <- OneAccountOf
    Coins = {c1, c2}
    CoinOwner <- OneCoinOwner
    RgbCoins = {c1}
    PeerTxs = {}
    PayeeOf <- OnePayee
    PeerSlots = {}
    ForeignCoins = {}
    Queried = {a1}
    MaxOperations = 2
    RequiredConfirmations = 1
    None = None

SPECIFICATION Spec
INVARIANTS
    TypeOK
    NoDoubleSpend
    LegacyExclusion
