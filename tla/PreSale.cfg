SPECIFICATION FairSpec
CONSTANTS
    first = first
    second = second
    ann = ann
    bea = bea
    two = two
    one = one
    late = late
    other = other
    Sales = {first, second}
    Buyers = {ann, bea}
    Commitments = {two, one, late, other}
    SaleOf <- MCSaleOf
    BuyerOf <- MCBuyerOf
    Units <- MCUnits
    Price = 50
    TakerFeeBps = 100
    Offered = 4
    Opening <- MCOpening
    Term = 1
    Sweeps = {k1}
    MaxExtension = 1
    MaxTime = 2
    MaxFaults = 1
    Arriving = {first}
    Holdable = {ann}
INVARIANTS
    CommitmentsKept
PROPERTIES
    CommitmentsEnd
CHECK_DEADLOCK FALSE
