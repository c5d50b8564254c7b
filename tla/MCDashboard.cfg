CONSTANT
    Screens <- DashboardScreens
    Keys <- DashboardKeys
    Overlooked <- ToldNobody
    AtSight <- GuardsNext
    Polled <- PolledKeys
    Here <- Stay
    Elsewhere = "elsewhere"
    MaxDoing = 2
SPECIFICATION Spec
INVARIANTS
    CacheTypeOK
    ReadYourWrites
    SeenOnArrival
CHECK_DEADLOCK FALSE
