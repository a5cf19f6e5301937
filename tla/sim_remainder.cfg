CONSTANTS
    world_size = 2
    MAX_X = 3
    MAX_Y = 2
    SendModes <- Eager
    Footprints <- Anything
    MaxRounds = 2
    P = 1
    V = 2
    Dp = 0
    Dv = 1
    Vp = 1
    Vv = 1
SPECIFICATION SimSpec
INVARIANTS EveryoneIsHeard
