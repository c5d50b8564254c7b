CONSTANTS
    Home = Home
    Away = Away
    Level = Level
    NoScore = NoScore
    Nobody = Nobody
    Doors = {"admin", "crew"}
    Handlers = {h1}
SPECIFICATION FairSpec
INVARIANTS
    MDTypeOK
    SeatIsWinner
    NoScoreInEmptyTie
PROPERTY BoardStopsTicking
CHECK_DEADLOCK FALSE
