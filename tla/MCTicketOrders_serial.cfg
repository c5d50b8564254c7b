SPECIFICATION FairSpec
CONSTANTS
    online = online
    transfer = transfer
    cash = cash
    gift = gift
    NoDay = NoDay
    Orders = {online, transfer, cash, gift}
    Rail <- MCRail
    Free = {gift}
    Seats <- MCSeats
    DayMode = "per_day"
    Days = {1, 2}
    Picked <- MCPicked
    Quota = 3
    Handlers = {h1}
    Deliveries = 1
    LastDay = 2
INVARIANTS
    SoldIsHeld
    QuotaBinds
    TicketsMatchStatus
    HeldIffPaid
    RefundedNotAdmitted
PROPERTIES
    NoGhostOrders
CHECK_DEADLOCK FALSE
