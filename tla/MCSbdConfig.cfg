CONSTANTS
    nodeA = nodeA
    wd1 = wd1
    wdDefault = wdDefault
    Char <- MCFullChar
    MaxPathLen = 2
    SbdMaxDeviceNum = 2
    NodeLabel = nodeA
    Watchdog = {wd1}
    NoWatchdog = ""
    DefaultWatchdog = wdDefault
SPECIFICATION Spec
INVARIANTS
    TypeOK
    PlainDeviceListRoundTrip
    LocalDeviceSetAsWritten
