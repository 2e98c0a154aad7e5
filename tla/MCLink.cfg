SPECIFICATION LinkSpec
CONSTANTS
    Half = 16
    Requests <- MCRequests
    Username <- MCUsername
    Spawn <- MCSpawn
    AllowTeleport = TRUE
    GoAway <- MCGoAway
    BufferSize = 64
    Leftover <- MCLeftover
    SendRoom = 18
    Gulp = 12
    MaxRequests = 4
    MaxUnread = 2
    MaxOdd = 1
INVARIANTS
    LinkInv
    FirstIsHeard
    RepliesArriveWhole
    LoadedWasReported
CHECK_DEADLOCK FALSE
