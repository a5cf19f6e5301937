CONSTANTS
    Programs <- IoT
    Room = 2
    Faults <- Unwelcome
    MaxFaults = 1
SPECIFICATION FairSpec
PROPERTIES KeepsPublishing
CHECK_DEADLOCK FALSE
