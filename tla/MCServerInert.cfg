SPECIFICATION Spec
CONSTANTS
    c1 = c1  c2 = c2  c3 = c3
    n1 = n1  n2 = n2
    l1 = l1  l2 = l2
    Conn <- MCConn
    Name <- MCNames
    Level <- MCLevel
    Maps <- MCLevel
    AllowOtherMaps = TRUE
    NoClient = NoClient
    NoName = NoName
    NoLevel = NoLevel
    Uninitialised = {TRUE, FALSE}
    MaxInbox = 1
    MaxWrites = 1
PROPERTY StoppedConnectionIsInert
CHECK_DEADLOCK FALSE
