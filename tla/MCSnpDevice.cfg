CONSTANTS
    Address = {a1, a2, a3}
    Capacity = 4
SPECIFICATION FairSpec
INVARIANTS TypeOK HeldIsLate
PROPERTIES ConsumeReturns
