CONSTANTS
    a = a
    b = b
    c = c
    k = k
    Accounts = {a, b}
    Transfers = {1}
    Sender <- AllSendA
    Recipient <- AllToB
    Input <- OneCoin
    Legacy = {1}
    Aliased = {}
    Broken = {}
    Claimers = {}
    Queriers = {b}
    LegacyQueriers = {b}
    Flaky = {}
    Evictable = {}
    Reorgable = {}
    Cancellable = {1}
    ReportedAs = {"confirmed"}
    Forgetful = TRUE
    MaxCrashes = 1
    None = None

SPECIFICATION FairSpec
INVARIANTS
    CommittedNotLost
PROPERTIES
    CancelStands
    CommittedPromoted
CHECK_DEADLOCK FALSE
