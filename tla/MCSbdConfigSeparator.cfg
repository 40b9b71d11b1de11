CONSTANTS
    nodeA = nodeA
    wd1 = wd1
    wdDefault = wdDefault
    Char <- MCFullChar
    MaxPathLen = 3
    SbdMaxDeviceNum = 1
    NodeLabel = nodeA
    Watchdog = {wd1}
    NoWatchdog = ""
    DefaultWatchdog = wdDefault
SPECIFICATION Spec
INVARIANT DeviceListRoundTrip
