CONSTANTS
    Grace = 1
    Limit = 3
    MaxGap = 2
    MaxPieces = 1
    Split = FALSE
    Pipelining = FALSE
SPECIFICATION FairSpec
PROPERTIES ConsoleStaysReachable
