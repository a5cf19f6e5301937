CONSTANTS
    MAX_WINDOW_SIZE = 3
    AVG_THRESHOLD_DB = 60
    min_noise = 10
    max_noise = 99
    Starts <- NearTheBounds
    Deltas <- UpOrDown
    Sites <- HereOrThere
    n_samples = 2
    RowBytes = 15
    Regions <- Cities
    Points <- Sights
    Kinds <- All
    RegionIds <- Told
    Spots <- InOrOut
    Rssi <- QuietOrLoud
    Levels <- SoftOrLoud
    Squares <- Between
    MaxSamples <- Enough
    MaxUnderWay = 2
    MaxFaults = 1
SPECIFICATION FairSpec
INVARIANTS TypeOK TellsTheWindow Replays RowsPlaced RowsAreReadings StoredInFull StoredOnce
PROPERTIES Settles
