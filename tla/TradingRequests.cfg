SPECIFICATION FairSpec
CONSTANTS
    alice = alice
    bob = bob
    treasury = treasury
    Users <- MCUsers
    Treasury <- treasury
    FeeRevenue = fees
    MaxOrders = 2
    MaxExecutions = 2
    MakerFeeBps = 0
    TakerFeeBps = 100
    MinimumNotional = 100
    Prices = {101}
    Quantities <- MCQuantities
    IssuePrice = 100
    InitialCash <- MCInitialCash
    InitialUnits <- MCInitialUnits
    Suspendable = {bob}
    Holdable = {alice}
    Expiring = {1}
    TimesInForce = {"GTC", "IOC"}
    Interruptible = {1, 2}
    OperatorExpects = {"OPEN"}
INVARIANTS
    IocLeavesTheBook
    AlwaysCancellable
PROPERTIES
    RequestsEnd
CHECK_DEADLOCK FALSE
