SPECIFICATION Spec
CONSTANTS
    Switch = {1, 2}
    NodePort <- CablePorts
    Link <- CableLinks
    Flapping <- FlappingPort
    Restarting = {1}
    Version <- Versions
    Timer = Timer
    NoInfo = NoInfo
    MaxUpdates = 1
INVARIANTS
    TypeOK
    IndexesAgree
    LockedWorkIsKnown
CHECK_DEADLOCK FALSE
