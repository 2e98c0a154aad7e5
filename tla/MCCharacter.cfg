SPECIFICATION FairSpec
CONSTANTS
    health = health  posture = posture
    Var <- MCVar
    Restored <- MCVital
    Vital <- MCVital
    Uninitialised = {TRUE, FALSE}
    MaxUpdates = 1
    MaxRevivals = 1
INVARIANTS
    CharacterInv
    NeverTooWell
    ObserverMissesOnlyRevivals
PROPERTY PlayersGetUp
