\* Each queue has room for one subscription, the second is allocated.
CONSTANTS
    Events = {e1, e2}
    Callers = {c1}
    Task = task
    Scan = scan
    EVENTSPERQUE = 2
    EVENTENTRIES = 2
    MaxQueues = 2
    MaxVal = 3
    FlowControl = FALSE
    NoEvent = NoEvent
    CanceledEvent = CanceledEvent
    NoThread = NoThread
SPECIFICATION Spec
SYMMETRY Symmetry
CHECK_DEADLOCK FALSE
INVARIANTS
    NothingLost
PROPERTIES
    DeliveredInOrder
