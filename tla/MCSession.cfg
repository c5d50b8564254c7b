SPECIFICATION FairSpec
CONSTANTS
    Admin = Admin
    Target = Target
    NoOne = NoOne
    Queries = {q1}
    MaxEpoch = 1
    MaxHaste = 1
    RefreshMayFail = TRUE
INVARIANTS TypeOK CanBeRestored NotLockedOut
PROPERTIES ReplayedAsTarget EndsForAReason Settles
CHECK_DEADLOCK FALSE
