CONSTANTS
    MAX_WINDOW_SIZE = 3
    AVG_THRESHOLD_DB = 60
    min_noise = 10
    max_noise = 99
    Starts <- NearTheBounds
    Deltas <- UpOrDown
    Sites <- HereOrThere
    n_samples = 2
    RowBytes = 15
    Regions <- Cities
    Points <- Sights
    Kinds <- Virtual
    RegionIds <- Sighted
    Spots <- InOrOut
    Rssi <- QuietOrLoud
    Levels <- SoftOrLoud
    Squares <- Between
    MaxSamples <- Enough
    MaxUnderWay = 2
    MaxFaults = 0
SPECIFICATION Spec
INVARIANTS ReadingsPlaced
