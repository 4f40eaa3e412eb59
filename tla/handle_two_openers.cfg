SPECIFICATION Spec
CONSTANTS
    NoPid = NoPid
    Proc = {p1, p2}
    HandleMax = 2
    IntBits = 2
    Priorities = {0}
    Modes = {"out"}
    Crashers = {}
    CrashPoints = {}
    OpenFails = FALSE
    CallFails = FALSE
    OneOpener = FALSE
INVARIANTS OnlyTheDeadAreCleaned
