SPECIFICATION FairSpec
CONSTANTS
    NoPid = NoPid
    Proc = {p1, p2}
    HandleMax = 2
    IntBits = 2
    Priorities = {0}
    Modes = {"out"}
    Crashers = {p1}
    CrashPoints <- Everywhere
    OpenFails = TRUE
    CallFails = FALSE
    OneOpener = FALSE
CHECK_DEADLOCK FALSE
INVARIANTS TypeOK Ownership
PROPERTIES LowLeaksAreReclaimed NoLeakIsPassedOver
