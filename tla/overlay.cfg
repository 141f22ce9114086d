INIT Init
NEXT Next
CONSTANTS
    Node = {1, 2}
    NetworkNode = 1
    Net = {1, 2}
    Port = {1, 2, 3}
    NetOf <- MCNetOf
    Owner <- MCOwner
    Host <- MCHost
    Tell <- MCTell
    Vlan = {1, 2}
    MaxFaults = 2
    Unreliable = {2}
    None = None
    Idle = Idle
    Unread = Unread
INVARIANTS
    TypeOK
    VlanPool
    BridgeFollows
    MeshIsComplete
    TenantsApart
    PortRecords
