CONSTANTS
    d1 = d1
    d2 = d2
    d3 = d3
    nodeA = nodeA
    w1 = w1
    i1 = i1
    i2 = i2
    Device <- MCDevice
    NodeName = {nodeA}
    Message = {"test"}
    WatchdogName = {w1}
    WatchdogInfo = {i1, i2}
SPECIFICATION Spec
INVARIANTS
    TypeOK
