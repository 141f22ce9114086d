INIT Init
NEXT Next
CONSTANTS
    Dpid = {1}
    Host = {1}
    HostOf <- EachAlone
    Speaks <- AnyVersion
    Conn = {1, 2}
    DpidOf <- OneSwitch
    Watcher = {1, 2}
    WatcherOf <- Own
    Queue = {1, 2}
    QueueOf <- Own
    Unreliable = {1}
    Overlap = TRUE
    MaxInbox = 2
    NoConn = NoConn
INVARIANTS
    LiveSwitchRegistered
CHECK_DEADLOCK FALSE
