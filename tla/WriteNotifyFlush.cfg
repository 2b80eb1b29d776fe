\* A client closes while the event task looks for labor again.
CONSTANTS
    Channels = {a}
    NoChannel = NoChannel
    MaxRequests = 1
SPECIFICATION Spec
CHECK_DEADLOCK FALSE
INVARIANTS
    LaborFlushed
