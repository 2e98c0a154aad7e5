SPECIFICATION RoomSpec
CONSTANTS
    c1 = c1  c2 = c2  c3 = c3
    n1 = n1  n2 = n2
    l1 = l1  l2 = l2  l3 = l3
    Conn <- MCConn
    Name <- MCName
    Level <- MCLevel
    Maps <- MCMaps
    MapList <- MCMapList
    AllowOtherMaps = TRUE
    NoClient = NoClient
    NoName = NoName
    NoLevel = NoLevel
    Uninitialised = {TRUE, FALSE}
    MaxInbox = 1
PROPERTY DrainedAsQueued
CHECK_DEADLOCK FALSE
