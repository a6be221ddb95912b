SPECIFICATION Spec
CONSTANTS
    large = large
    small = small
    payday = payday
    Deposits = {large}
    Withdrawals = {payday}
    Amount <- MCAmount
    Opening = 0
    Handlers = {h1}
    Readers = {r1}
    NoMovement = NoMovement
    Plans <- MCPlans
    Course <- MCCourse
    MaxSpent = 0
    MaxFaults = 0
INVARIANT
    NoMysteryNegative
CHECK_DEADLOCK FALSE
