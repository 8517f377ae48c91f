CONSTANTS
    NTasks = 3
    e1 = e1
    e2 = e2
    Event <- MCEvent
    Wakeable = {2}
    WaitMayFail = TRUE
SPECIFICATION FairSpec
INVARIANTS TypeOK RunListSound RegistrySound NoLostWakeup
PROPERTIES ImplementsScheduler ReadyIsPolled EventIsServed
