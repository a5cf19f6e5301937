CONSTANTS
    world_size = 3
    MAX_X = 2
    MAX_Y = 2
    SendModes <- Eager
    Footprints <- AllCells
    MaxRounds = 3
SPECIFICATION FairSpec
INVARIANTS TypeOK CountInBounds SlotsFresh NoDoubleCount NothingLost RoundSkew
PROPERTIES Terminates
