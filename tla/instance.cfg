SPECIFICATION SysSpec
CONSTANTS
    Switch = {1, 2, 3, 4}
    Link <- MCLink
    Graphs <- AllGraphs
    Root = 1
    LinkCost <- UnitCost
    MAX_PATH_WEIGHT = 100
    NoLink = NoLink
    LONG_MAX = 99
INVARIANTS
    TypeOK
    RouteNeverStuck
    RouteLoopFree
    TreeClosed
    ClustersPartition
    ClustersAreComponents
    BroadcastSpans
PROPERTY
    Arrives
