\* Three puts, of one chain of records or of crossing ones, every record's
\* support may answer late.
\* Puts that were called back or canceled are over: the system may stop.
CONSTANTS
    r1 = r1
    r2 = r2
    r3 = r3
    p1 = p1
    p2 = p2
    p3 = p3
    NoPut = NoPut
    Records = {r1, r2, r3}
    Puts = {p1, p2, p3}
    Async = {r1, r2, r3}
    Target <- MCTarget
    Chain <- MCChain
SPECIFICATION Spec
CHECK_DEADLOCK FALSE
INVARIANTS
    OwnersTrue
    WaitsForActive
PROPERTIES
    PutEnds
    CancelReturns
