CONSTANTS
    world_size = 2
    MAX_X = 2
    MAX_Y = 2
    SendModes <- Both
    Footprints <- AllCells
    MaxRounds = 2
SPECIFICATION Spec
INVARIANTS ReportsExact
