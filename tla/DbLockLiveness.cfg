\* Two threads that lock records and change links again and again; dblsr runs in
\* one of them.
\* A thread suspended by a failed assertion stops the other: no deadlock check.
CONSTANTS
    Threads = {t1, t2}
    Records = {r1, r2}
    LockSets = {s1, s2}
    Shell = {t2}
    MaxRecursion = 2
    NoThread = NoThread
    NoRecord = NoRecord
    NoSet = NoSet
SPECIFICATION FairSpec
CHECK_DEADLOCK FALSE
INVARIANTS
    FullInv
PROPERTIES
    HeldSetFixed
    ScanLockReturns
    LinkChangeEnds
