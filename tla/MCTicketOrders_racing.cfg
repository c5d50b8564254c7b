SPECIFICATION Spec
CONSTANTS
    online = online
    transfer = transfer
    cash = cash
    gift = gift
    NoDay = NoDay
    Orders = {online, transfer}
    Rail <- MCRail
    Free = {}
    Seats <- OneSeat
    DayMode = "pass"
    Days = {1, 2}
    Picked <- NoneToPick
    Quota = 2
    Handlers = {h1, h2}
    Deliveries = 2
    LastDay = 2
INVARIANTS
    TypeOK
    AdmittedOnlyPaid
CHECK_DEADLOCK FALSE
