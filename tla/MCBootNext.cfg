CONSTANTS
    a = a
    b = b
    c = c
    Entry <- MCEntry
    NFiles = 2
    MaxLines = 3
    MaxAttempts = 3
    DeleteMayFail = TRUE
    RewriteMayFail = TRUE
    PowerMayFail = TRUE
SPECIFICATION FairSpec
INVARIANTS TypeOK AttemptedInOrder
PROPERTIES  LossEnvelope EveryEntryIsTried
\* a machine that is switched off may stay off
CHECK_DEADLOCK FALSE
