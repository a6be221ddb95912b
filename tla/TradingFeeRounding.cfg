SPECIFICATION Spec
CONSTANTS
    alice = alice
    bob = bob
    treasury = treasury
    Users <- MCUsers
    Treasury <- treasury
    FeeRevenue = fees
    MaxOrders = 4
    MaxExecutions = 3
    MakerFeeBps = 0
    TakerFeeBps = 100
    MinimumNotional = 100
    Prices = {101, 160}
    Quantities <- MCQuantities
    IssuePrice = 100
    InitialCash <- MCBuyerCash
    InitialUnits <- MCSellerUnits
    Suspendable <- MCNobody
    Holdable <- MCNobody
    Expiring <- MCNobody
    TimesInForce = {"GTC"}
    Interruptible <- MCNobody
    OperatorExpects <- MCNobody
INVARIANTS
    CashReservationsExact
CHECK_DEADLOCK FALSE
