SPECIFICATION Spec
CONSTANTS
    Proc = {p1, p2, p3}
    Crashers = {p1}
    Detached = {}
    LockSlotMax = 4
    SemValueMax = 3
    NoPid = NoPid
INVARIANT PatientRecoveryReplaces
