SPECIFICATION Spec
CONSTANTS
    starter = starter
    pro = pro
    professional = professional
    NoEvent = NoEvent
    Raised = 2
    Events = {e1, e2}
    Plans = {pro, professional}
    Price <- MCPrice
    Covers <- MCCovers
    Discount = 3
    MaxRedemptions = 1
    Handlers = {h1}
    DiesAt = {"start"}
    Switches = 1
    Attempts = 1
INVARIANTS
    POTypeOK
    HolderGivesPlan
    
    
    CodeQuota
CHECK_DEADLOCK FALSE
