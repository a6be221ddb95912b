SPECIFICATION Spec
CONSTANTS
    large = large
    small = small
    payday = payday
    Deposits = {large}
    Withdrawals = {payday}
    Amount <- MCAmount
    Opening = 2
    Handlers = {h1}
    Readers = {r1}
    NoMovement = NoMovement
    Plans <- MCPlans
    Course <- MCCourse
    MaxSpent = 0
    MaxFaults = 1
INVARIANT
    TransfersStayReserved
CHECK_DEADLOCK FALSE
