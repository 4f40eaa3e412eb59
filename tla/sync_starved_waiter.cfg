\* Two processes and nobody dies.
SPECIFICATION Spec
CONSTANTS
    Proc = {p1, p2}
    Crashers = {}
    Detached = {}
    LockSlotMax = 2
    SemValueMax = 3
    NoPid = NoPid
INVARIANT RecoveryOnlyReplaces
