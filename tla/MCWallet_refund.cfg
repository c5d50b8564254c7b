SPECIFICATION FairSpec
CONSTANTS
    order = order
    entry = entry
    match = match
    correction = correction
    NoEvent = NoEvent
    Sources <- MCSources
    Category <- MCCategory
    Net <- MCNet
    EventOf <- MCEventOf
    Events = {match}
    Withdrawals = {}
    Adjustments = {correction}
    AdjustBy <- MCAdjustBy
    Clerks = {c1, c2}
    HoldDays = 0
    MaxDay = 2
INVARIANT RefundTakesMoneyBack
CHECK_DEADLOCK FALSE
