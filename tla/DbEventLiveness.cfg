\* One thread that subscribes, cancels, switches flow control and closes.
CONSTANTS
    Events = {e1, e2}
    Callers = {c1}
    Task = task
    Scan = scan
    EVENTSPERQUE = 2
    EVENTENTRIES = 2
    MaxQueues = 1
    MaxVal = 2
    FlowControl = TRUE
    NoEvent = NoEvent
    CanceledEvent = CanceledEvent
    NoThread = NoThread
SPECIFICATION FairSpec
CHECK_DEADLOCK FALSE
PROPERTIES
    PostsDelivered
    CloseEnds
