CONSTANTS
    a = a
    b = b
    c = c
    k = k
    Accounts = {a, b}
    Transfers = {1, 2}
    Sender <- AllSendA
    Recipient <- AllToB
    Input <- OneCoin
    Legacy = {}
    Aliased = {}
    Broken = {}
    Claimers = {b}
    Queriers = {}
    LegacyQueriers = {}
    Flaky = {}
    Evictable = {}
    Reorgable = {1}
    Cancellable = {}
    ReportedAs = {"unconfirmed"}
    Forgetful = FALSE
    MaxCrashes = 0
    None = None

SPECIFICATION Spec
INVARIANTS
    PromotionsExclusive
CHECK_DEADLOCK FALSE
