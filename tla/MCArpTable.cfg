SPECIFICATION Spec
CONSTANTS
    ARP_TABLE_SIZE = 2
    ARP_MAXAGE = 3
    ARP_AGE_REREQUEST_USED = 1
    ARP_MAXPENDING = 1
    ARP_TMR_INTERVAL = 1
    TIME_WRAP = 2
    h1 = h1
    h2 = h2
    h3 = h3
    m1 = m1
    m2 = m2
    Hosts <- MCHosts
    HwAddrs <- MCHwAddrs
    NULL = NULL
    MaxLate = 1
    Anywhere = FALSE
INVARIANTS UniqueEntries PacketsAccounted FramesReachTheirHost
PROPERTIES PacketsDoNotWait
