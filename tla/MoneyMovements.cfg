SPECIFICATION FairSpec
CONSTANTS
    large = large
    small = small
    payday = payday
    Deposits = {large, small}
    Withdrawals = {payday}
    Amount <- MCAmount
    Opening = 0
    Handlers = {h1}
    Readers = {r1}
    NoMovement = NoMovement
    Plans <- MCPlans
    Course <- MCCourse
    MaxSpent = 2
    MaxFaults = 1
INVARIANTS
    TypeOK
    CashExplained
    WithdrawalsReserve
    OverdrawnUnderReview
CHECK_DEADLOCK FALSE
PROPERTY
    ImplementsStatement
    DepositsCredited
