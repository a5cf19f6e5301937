CONSTANTS
    world_size = 3
    MAX_X = 3
    MAX_Y = 2
    SendModes <- Eager
    Footprints <- Anything
    MaxRounds = 2
    P = 2
    V = 1
    Dp = 0
    Dv = 1
    Vp = 0
    Vv = 1
SPECIFICATION SimSpec
INVARIANTS ReportsExact EveryoneIsHeard InRegion Everyone
PROPERTIES ImplementsNoiseMap ImplementsShuffle
