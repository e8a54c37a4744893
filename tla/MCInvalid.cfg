CONSTANTS
    a1 = a1
    Accounts <- OneAccount
    Sends = {}
    Receives = {r1}
    AccountOf <- OneAccountOf
    Coins = {c1}
    CoinOwner <- OneCoinOwner
    RgbCoins = {}
    PeerTxs = {p1}
    PayeeOf <- OnePayee
    PeerSlots = {}
    ForeignCoins = {c1}
    Queried = {}
    MaxOperations = 2
    RequiredConfirmations = 2
    None = None

SPECIFICATION FairSpec
PROPERTIES
    InvalidIsReviewed
