CONSTANTS
    Home = Home
    Away = Away
    Level = Level
    NoScore = NoScore
    Nobody = Nobody
    Doors = {"admin", "crew"}
    Handlers = {h1, h2}
SPECIFICATION FairSpec
PROPERTY BoardStopsTicking
CHECK_DEADLOCK FALSE
