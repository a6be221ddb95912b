SPECIFICATION Spec
CONSTANTS
    alice = alice
    bob = bob
    treasury = treasury
    Users <- MCUsers
    Treasury <- treasury
    FeeRevenue = fees
    MaxOrders = 1
    MaxExecutions = 2
    MakerFeeBps = 0
    TakerFeeBps = 0
    MinimumNotional = 100
    Prices <- MCPrices
    Quantities <- MCQuantities
    IssuePrice = 100
    InitialCash <- MCInitialCash
    InitialUnits <- MCInitialUnits
    Suspendable <- MCNobody
    Holdable <- MCNobody
    Expiring <- MCNobody
    TimesInForce = {"GTC"}
    Interruptible <- MCNobody
    OperatorExpects = {"OPEN", "HALTED", "CLOSED"}
INVARIANTS
    HaltedMarketResumes
CHECK_DEADLOCK FALSE
