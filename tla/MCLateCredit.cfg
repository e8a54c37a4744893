CONSTANTS
    a1 = a1
    Accounts <- OneAccount
    Sends = {s1, s2}
    Receives = {}
    AccountOf <- OneAccountOf
    Coins = {c1}
    CoinOwner <- OneCoinOwner
    RgbCoins = {c1}
    PeerTxs = {}
    PayeeOf <- OnePayee
    PeerSlots = {i1, i2}
    ForeignCoins = {}
    Queried = {}
    MaxOperations = 2
    RequiredConfirmations = 1
    None = None

SPECIFICATION Spec
SYMMETRY OpSymmetry
INVARIANTS
    InputsSettled
