SPECIFICATION WSpec
CONSTANTS
    order = order
    match = match
    topup = topup
    NoEvent = NoEvent
    Sources = {order}
    Category <- MCCategory
    Net <- MCNet
    EventOf <- MCEventOf
    Events = {match}
    Withdrawals = {w1, w2, w3}
    Adjustments = {topup}
    AdjustBy <- MCAdjustBy
    Clerks = {c1}
    HoldDays = 0
    MaxDay = 1
    Handlers = {h1}
    Amounts = {1, 2, 3}
    Minimum = 3
    AdminFee = 1
INVARIANTS OneOpenWithdrawal ReturnedIffRejected WithdrawnTotal WaiverNotOverdrawn
CHECK_DEADLOCK FALSE
