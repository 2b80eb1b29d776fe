\* A callback cancels another subscription than its own.
CONSTANTS
    Events = {e1, e2}
    Callers = {c1, task}
    Task = task
    Scan = scan
    EVENTSPERQUE = 3
    EVENTENTRIES = 2
    MaxQueues = 1
    MaxVal = 1
    FlowControl = FALSE
    NoEvent = NoEvent
    CanceledEvent = CanceledEvent
    NoThread = NoThread
SPECIFICATION Spec
SYMMETRY Symmetry
CHECK_DEADLOCK FALSE
INVARIANTS
    InUseFlagTrue
