CONSTANTS
    a1 = a1
    Accounts <- OneAccount
    Sends = {s1, s2}
    Receives = {}
    AccountOf <- OneAccountOf
    Coins = {c1, c2}
    CoinOwner <- OneCoinOwner
    RgbCoins = {c1}
    PeerTxs = {}
    PayeeOf <- OnePayee
    PeerSlots = {i1}
    ForeignCoins = {c2}
    Queried = {a1}
    MaxOperations = 2
    RequiredConfirmations = 1
    None = None

SPECIFICATION Spec
SYMMETRY OpSymmetry
INVARIANTS
    TypeOK
    LegacyExclusion
    ProvenBeforeBroadcast
    OnePaymentPerInvoice
    BalanceBacked
    InputsReserved
    NoDoubleSpend
PROPERTIES
    VerdictsStand
