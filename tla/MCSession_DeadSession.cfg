SPECIFICATION FairSpec
CONSTANTS
    Admin = Admin
    Target = Target
    NoOne = NoOne
    Queries = {q1}
    MaxEpoch = 1
    MaxHaste = 0
    RefreshMayFail = TRUE
PROPERTY DeadSessionReachesLogin
CHECK_DEADLOCK FALSE
