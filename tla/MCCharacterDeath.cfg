SPECIFICATION Spec
CONSTANTS
    health = health  posture = posture
    Var <- MCVar
    Restored <- MCVital
    Vital <- MCVital
    Uninitialised = {FALSE}
    MaxUpdates = 1
    MaxRevivals = 1
PROPERTY DeathAnnouncedOnce
