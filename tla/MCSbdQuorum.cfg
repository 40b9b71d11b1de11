CONSTANTS
    n1 = n1
    n2 = n2
    n3 = n3
    n4 = n4
    devA = devA
    devRel = devRel
    Node <- MCNode
    Path <- MCPath
    AbsPath <- MCAbsPath
    SbdMaxDeviceNum = 1
    MaxNodesPerChange = 2
SYMMETRY NodeSymmetry
SPECIFICATION Spec
INVARIANTS
    TypeOK
    SplitBrainGuarded
    SbdDeviceConfigConsistent
PROPERTY
    AbsSpec
