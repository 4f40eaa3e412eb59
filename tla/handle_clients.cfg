\* Two processes with playback and capture streams, both of which may die; one of
\* them opening at a time, as many handles as the list of the dead has bits, and
\* any call to mute or unmute a stream may fail.
SPECIFICATION Spec
CONSTANTS
    NoPid = NoPid
    Proc = {p1, p2}
    HandleMax = 2
    IntBits = 2
    Priorities = {0, 1, 2}
    Modes = {"out", "in"}
    Crashers = {p1, p2}
    CrashPoints <- Everywhere
    OpenFails = FALSE
    CallFails = TRUE
    OneOpener = TRUE
SYMMETRY Symmetry
CHECK_DEADLOCK FALSE
INVARIANTS SoloIsHeard MutedComeBack OnlyTheDeadAreCleaned NoPriorityWithoutHandle
PROPERTY ImplementsTable
