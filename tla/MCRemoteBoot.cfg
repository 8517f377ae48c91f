CONSTANTS
    Grace = 1
    Limit = 3
    MaxGap = 2
    MaxPieces = 3
    Split = TRUE
    Pipelining = TRUE
SPECIFICATION LoopSpec
INVARIANTS TypeOK BootsInTime AnswersBeforeBoot
PROPERTIES BootsAsRequested  ConsoleComesBack
