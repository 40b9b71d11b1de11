CONSTANTS
    s1 = s1
    s2 = s2
    h1 = h1
    Absent = Absent
    Sid <- MCSid
    HeaderDict <- MCHeaderDict
SPECIFICATION Spec
INVARIANTS
    TypeOK
    RequestedHeadersSent
    SessionCheckSound
\* A test method ends at its first failed assertion: no step follows it.
CHECK_DEADLOCK FALSE
