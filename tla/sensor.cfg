CONSTANTS
    Programs <- Both
    Room = 3
    Faults <- Anything
    MaxFaults = 6
SPECIFICATION FairSpec
INVARIANTS TypeOK RadioComesBack QueueDrains BufferIsFree AbortIsForTheOld
PROPERTIES OnlyDeadEnds
CHECK_DEADLOCK FALSE
