SPECIFICATION Spec
CONSTANTS
    a = a  b = b
    v1 = v1  v2 = v2
    Client <- MCClient
    Var <- MCVar
    MaxHistory = 2
    MaxLag <- MCAliasLag
INVARIANT FoundUpdateWasReceived
