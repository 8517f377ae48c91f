CONSTANTS
    Sizes <- MCSizes
    MaxWidth = 2
    MaxHeight = 2
    MaxInputs = 0
SPECIFICATION Spec
INVARIANTS FrameBufferIsCapped
