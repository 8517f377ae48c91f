CONSTANTS
    Limit = 4
    Lengths <- MCLengths
    MaxLogs = 4
SPECIFICATION FairSpec
INVARIANTS TypeOK LogIsRecent DrawsAreBounded RealTime
 
\* the program may end, and has nothing to do when everything is logged and drawn
CHECK_DEADLOCK FALSE
