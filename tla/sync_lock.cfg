\* Three processes, one of which may die and another be refused the shared
\* memory; the pid table and the semaphore reach their limits.
SPECIFICATION FairSpec
CONSTANTS
    Proc = {p1, p2, p3}
    Crashers = {p1}
    Detached = {p2}
    LockSlotMax = 2
    SemValueMax = 2
    NoPid = NoPid
INVARIANTS TypeOK TokenConservation RecoveryBound PatientBound MutualExclusion
INVARIANTS OverpostHasACause MarksAreHonest NoStrayMarks
PROPERTIES LostLockIsRecovered ImplementsMutex
