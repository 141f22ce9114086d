INIT Init
NEXT Next
CONSTANTS
    Name = {1, 2}
    Dpid = {1, 2}
    Match = {1, 2}
    Entry <- MCEntry
    None = None
INVARIANTS
    IndexesAgree
    NoGhostDocs
    FlowsAgree
