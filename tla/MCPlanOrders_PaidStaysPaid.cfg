SPECIFICATION Spec
CONSTANTS
    starter = starter
    pro = pro
    professional = professional
    NoEvent = NoEvent
    Raised = 1
    Events = {e1}
    Plans = {pro}
    Price <- MCPrice
    Covers <- MCCovers
    Discount = 3
    MaxRedemptions = 0
    Handlers = {h1}
    DiesAt = {}
    Switches = 1
    Attempts = 1
PROPERTIES
    PaidStaysPaid
CHECK_DEADLOCK FALSE
