SPECIFICATION SysSpec
CONSTANTS
    Switch = {1, 2}
    NodePort <- MCPorts
    Link <- MCLinks
    Flapping <- FlappingPort
    Restarting = {1}
    Version <- Versions
    Timer = Timer
    NoInfo = NoInfo
    MaxUpdates = 1
INVARIANTS
    NoMissingLinks
PROPERTY
    ImplementsLinkView
    InstanceFollowsLinks
    DeadPortsLoseLinks
CHECK_DEADLOCK FALSE
