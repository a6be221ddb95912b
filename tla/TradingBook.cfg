SPECIFICATION Spec
CONSTANTS
    alice = alice
    bob = bob
    treasury = treasury
    Users <- MCUsers
    Treasury <- treasury
    FeeRevenue = fees
    MaxOrders = 3
    MaxExecutions = 2
    MakerFeeBps = 0
    TakerFeeBps = 0
    MinimumNotional = 100
    Prices <- MCPrices
    Quantities <- MCQuantities
    IssuePrice = 100
    InitialCash <- MCInitialCash
    InitialUnits <- MCInitialUnits
    Suspendable <- MCNobody
    Holdable <- MCNobody
    Expiring = {1}
    TimesInForce = {"GTC"}
    Interruptible <- MCNobody
    OperatorExpects <- MCNobody
INVARIANTS
    TypeOK
    OrderEquation
    UnitReservationsExact
    UnitsCovered
    LotsMatchPositions
    ExecutionsSound
    AverageWithinLimit
PROPERTIES
    TerminalIsFinal
    ImplementsExchange
CHECK_DEADLOCK FALSE
