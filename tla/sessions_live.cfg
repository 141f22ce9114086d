SPECIFICATION Spec
CONSTANTS
    Dpid = {1, 2}
    Host = {1, 2}
    HostOf <- EachAlone
    Speaks <- Strict
    Conn = {1, 2}
    DpidOf <- Own
    Watcher = {1}
    WatcherOf <- Shared
    Queue = {1}
    QueueOf <- Shared
    Unreliable = {}
    Overlap = FALSE
    MaxInbox = 2
    NoConn = NoConn
PROPERTIES
    TransferEnds
    EverySwitchRegistered
CHECK_DEADLOCK FALSE
