\* Three threads on three records, no shell command running.
CONSTANTS
    Threads = {t1, t2, t3}
    Records = {r1, r2, r3}
    LockSets = {s1, s2, s3}
    Shell = {}
    MaxRecursion = 2
    NoThread = NoThread
    NoRecord = NoRecord
    NoSet = NoSet
SPECIFICATION Spec
SYMMETRY Symmetry
INVARIANTS
    MutualExclusion
    LockSetsMatchLinks
    AssertionsHold
    TryLockSucceeds
PROPERTIES
    GroupsSpec
