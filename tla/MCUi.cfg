CONSTANTS
    Sizes <- MCSizes
    MaxWidth = 2
    MaxHeight = 2
    MaxInputs = 4
SPECIFICATION Spec
INVARIANTS TypeOK BestModeIsSet  DirectBootRepeats BootsAreAsked
