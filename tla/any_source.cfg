CONSTANTS
    world_size = 3
    MAX_X = 2
    MAX_Y = 2
    SendModes <- Eager
    Footprints <- AllCells
    MaxRounds = 2
SPECIFICATION Spec
INVARIANTS ReportsExact
