\* Three threads pass the unlocked check of the quota together and overflow the
\* ring.
CONSTANTS
    Events = {e1, e2, e3}
    Callers = {c1, c2, task}
    Task = task
    Scan = scan
    EVENTSPERQUE = 2
    EVENTENTRIES = 1
    MaxQueues = 1
    MaxVal = 1
    FlowControl = FALSE
    NoEvent = NoEvent
    CanceledEvent = CanceledEvent
    NoThread = NoThread
SPECIFICATION Spec
SYMMETRY Symmetry
CHECK_DEADLOCK FALSE
INVARIANTS
    NoCallbackAfterCancel
    RingInOrder

    
