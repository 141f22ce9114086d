SPECIFICATION Spec
CONSTANTS
    Switch = {1, 2, 3, 4, 5, 6, 7}
    Link <- MCLink
    Graphs <- RingGraph
    Root = 1
    LinkCost <- UnitCost
    MAX_PATH_WEIGHT = 100
    NoLink = NoLink
INVARIANT
    RouteIsShortest
