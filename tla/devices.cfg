SPECIFICATION Spec
CONSTANTS
    Host = {h}
    Queue = {"q1", "q2"}
    Switch = {1, 2}
    Port = {"p1", "p2"}
    SwitchOf <- MCSwitchOf
    QueuesOf <- MCQueuesOf
    Topologies <- MCTopologies
    INACTIVITY_INTERVAL = 1
    MaxPackets = 3
    MaxTime = 3
    MaxEvents = 3
    MaxDevices = 6
    MaxObjects = 10
INVARIANTS
    LearntIsFound
    LearntIsLocated
PROPERTY
    LearningEnds
CHECK_DEADLOCK FALSE
