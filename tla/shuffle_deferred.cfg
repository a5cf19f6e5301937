CONSTANTS
    world_size = 3
    MAX_X = 3
    MAX_Y = 2
    SendModes <- Both
    Footprints <- AllCells
    MaxRounds = 2
SPECIFICATION FairSpec
INVARIANTS InStep
PROPERTIES Terminates
