\* Callbacks of two threads and of the task itself; two timers and two threads
\* beside the timer task; three records in two lock sets, scanned while a
\* thread moves them; two asynchronous users; a record whose link is
\* changed with three blocks; two threads that log and flush; two state sets.
\* Callbacks are dropped for good once ringOverflow sticks, so that service may
\* stop.
CONSTANTS
    Callbacks = {a, b}
    Requesters = {t1, t2, task}
    Task = task
    callbackQueueSize = 2
    NoCallback = NoCallback
    Timers = {x1, x2}
    TimerUsers = {v1, v2}
    TimerTask = timerTask
    MaxDelay = 2
    MaxLag = 1
    NoTimer = NoTimer
    r1 = r1
    r2 = r2
    r3 = r3
    s1 = s1
    s2 = s2
    Records = {r1, r2, r3}
    LockSets = {s1, s2}
    LockSetOf <- MCLockSetOf
    Scanner = scanner
    Putters = {w}
    MaxPhas = 1
    NoRecord = NoRecord
    NoThread = NoThread
    u1 = u1
    u2 = u2
    AsynUsers = {u1, u2}
    Requests <- MCRequests
    Blockers = {u2}
    Connector = connector
    MaxBlock = 1
    NoUser = NoUser
    CaLinks = {k1, k2, k3}
    NoLink = NoLink
    LogThreads = {f1, f2}
    BufferSize = 6
    MaxMessage = 2
    MaxMissed = 2
    NumSS = 2
    NoHolder = NoHolder
SPECIFICATION ServicesSpec
CHECK_DEADLOCK FALSE
INVARIANTS
    ServicesTypeOK
    CallbacksServed
    WaitsOut
    NeverOversleeps
    ScansOnce
    CancelOutwaits
    QueuedTimesOut
    PortServes
    ConnectRetried
    NothingFreed
    CalledOnce
    MonitorComes
    FlushAnswered
    StateSetsServed
PROPERTIES
    ImplementsQueue
