CONSTANTS
    a = a
    b = b
    c = c
    k = k
    Accounts = {a, b}
    Transfers = {1, 2}
    Sender <- AllSendA
    Recipient <- AllToB
    Input <- OwnCoins
    Legacy = {}
    Aliased = {}
    Broken = {}
    Claimers = {}
    Queriers = {}
    LegacyQueriers = {}
    Flaky = {}
    Evictable = {}
    Reorgable = {}
    Cancellable = {}
    ReportedAs = {"unconfirmed"}
    Forgetful = FALSE
    MaxCrashes = 0
    None = None

SPECIFICATION FairSpec
PROPERTIES
    PromotedOnceConfirmed
CHECK_DEADLOCK FALSE
