CONSTANTS
    a = a
    b = b
    c = c
    k = k
    Accounts = {a, b}
    Transfers = {1, 2}
    Sender <- AllSendA
    Recipient <- AllToB
    Input <- OneCoin
    Legacy = {}
    Aliased = {}
    Broken = {}
    Claimers = {b}
    Queriers = {}
    LegacyQueriers = {}
    Flaky = {1}
    Evictable = {1}
    Reorgable = {1}
    Cancellable = {}
    ReportedAs = {"unconfirmed"}
    Forgetful = FALSE
    MaxCrashes = 0
    None = None

SPECIFICATION Spec
INVARIANTS
    TypeOK
    CommittedNotLost
    NoConflictingPromotions
    EngineAccountsIdle
CHECK_DEADLOCK FALSE
