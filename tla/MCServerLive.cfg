SPECIFICATION FairSpec
CONSTANTS
    c1 = c1  c2 = c2  c3 = c3
    n1 = n1  n2 = n2
    l1 = l1  l2 = l2
    Conn <- MCConn
    Name <- MCName
    Level <- MCLevel
    Maps <- MCLevel
    AllowOtherMaps = TRUE
    NoClient = NoClient
    NoName = NoName
    NoLevel = NoLevel
    Uninitialised = {FALSE}
    MaxInbox = 0
    MaxWrites = 1
PROPERTIES
    ShutdownCompletes
    RefusedIsDropped
    SilentPeerIsDropped
    StoppedLeavesRoster
CHECK_DEADLOCK FALSE
