CONSTANTS
    a = a
    b = b
    c = c
    k = k
    Accounts = {a, b}
    Transfers = {1}
    Sender <- AllSendA
    Recipient <- AllToB
    Input <- OneCoin
    Legacy = {}
    Aliased = {}
    Broken = {}
    Claimers = {}
    Queriers = {b}
    LegacyQueriers = {}
    Flaky = {}
    Evictable = {}
    Reorgable = {}
    Cancellable = {}
    ReportedAs = {"unconfirmed"}
    Forgetful = FALSE
    MaxCrashes = 0
    None = None

SPECIFICATION Spec
INVARIANTS
    ReceiptTracked
