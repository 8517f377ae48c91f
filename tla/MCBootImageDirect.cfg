CONSTANTS
    NVolumes = 1
    MaxEntries = 1
SPECIFICATION Spec
INVARIANTS FailedMeansNotBooted
