CONSTANTS
    a = a
    b = b
    c = c
    k = k
    Accounts = {a, b, c}
    Transfers = {1, 2}
    Sender <- AllSendA
    Recipient <- FirstToC
    Input <- OwnCoins
    Legacy = {}
    Aliased = {}
    Broken = {1}
    Claimers = {}
    Queriers = {}
    LegacyQueriers = {}
    Flaky = {}
    Evictable = {1}
    Reorgable = {}
    Cancellable = {}
    ReportedAs = {"confirmed"}
    Forgetful = FALSE
    MaxCrashes = 0
    None = None

SPECIFICATION FairSpec
PROPERTIES
    CommittedPromoted
CHECK_DEADLOCK FALSE
