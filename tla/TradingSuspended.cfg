SPECIFICATION Spec
CONSTANTS
    alice = alice
    bob = bob
    treasury = treasury
    Users <- MCUsers
    Treasury <- treasury
    FeeRevenue = fees
    MaxOrders = 2
    MaxExecutions = 2
    MakerFeeBps = 0
    TakerFeeBps = 0
    MinimumNotional = 100
    Prices <- MCPrices
    Quantities <- MCQuantities
    IssuePrice = 100
    InitialCash <- MCInitialCash
    InitialUnits <- MCInitialUnits
    Suspendable = {alice, bob}
    Holdable <- MCNobody
    Expiring <- MCNobody
    TimesInForce = {"GTC"}
    Interruptible <- MCNobody
    OperatorExpects <- MCNobody
PROPERTIES
    ActiveAtSettlement
CHECK_DEADLOCK FALSE
