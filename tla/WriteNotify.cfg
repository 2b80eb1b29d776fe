\* Two requests, of two channels or of one after the other.  A client that has
\* closed stops.
CONSTANTS
    Channels = {a, b}
    NoChannel = NoChannel
    MaxRequests = 2
SPECIFICATION FairSpec
CHECK_DEADLOCK FALSE
INVARIANTS
    QueueTrue
    AnsweredOnce
    ChecksHold
PROPERTIES
    RequestAnswered
    CloseEnds
