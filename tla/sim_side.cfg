CONSTANTS
    world_size = 2
    MAX_X = 3
    MAX_Y = 3
    SendModes <- Eager
    Footprints <- Anything
    MaxRounds = 1
    P = 1
    V = 1
    Dp = 1
    Dv = 2
    Vp = 1
    Vv = 1
SPECIFICATION SimSpec
INVARIANTS SideAsConfigured
