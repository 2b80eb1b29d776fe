\* One user, whose thread and callbacks queue it at any time, with a timeout.
CONSTANTS
    u1 = u1
    Users = {u1}
    Requests <- MCRequests
    Blockers = {}
    Connector = connector
    MaxBlock = 1
    NoUser = NoUser
SPECIFICATION Spec
PROPERTIES
    CancelWaits
