CONSTANTS
    a1 = a1
    Accounts <- OneAccount
    Sends = {s1}
    Receives = {}
    AccountOf <- OneAccountOf
    Coins = {c1}
    CoinOwner <- OneCoinOwner
    RgbCoins = {c1}
    PeerTxs = {p1}
    PayeeOf <- OnePayee
    PeerSlots = {i1}
    ForeignCoins = {c1}
    Queried = {}
    MaxOperations = 2
    RequiredConfirmations = 1
    None = None

SPECIFICATION FairSpec
PROPERTIES
    SendResolves
