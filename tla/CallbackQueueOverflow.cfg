\* The queue fills and drains while a request fails.
CONSTANTS
    Callbacks = {a}
    Requesters = {r1, r2}
    Task = task
    callbackQueueSize = 2
    NoCallback = NoCallback
SPECIFICATION Spec
INVARIANT
    OverflowEnds
