\* Without the workaround the network task asks for packets; that Packet may be
\* unavailable covers the build with it.
CONSTANTS
    NTasks = 2
    Event <- MCEvent
    Wakeable = {}
    WaitMayFail = TRUE
    Workaround = FALSE
    Unavailable = {"packet", "pointer", "uiTimer"}
SPECIFICATION FairSSpec
INVARIANTS NetworkWaitsForGui
PROPERTIES  NetworkIsServed KeyIsNoticed UiIsRedrawn
