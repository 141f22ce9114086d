SPECIFICATION TopoSpec
CONSTANTS
    Switch = {1, 2}
    NodePort <- MCPorts
    Link <- MCLinks
    MaxQueued = 2
INVARIANTS
    TopoTypeOK
    StructuresAgree
    NoLostUpdate
    InstanceIsCurrent
PROPERTY
    UpdatesApplied
