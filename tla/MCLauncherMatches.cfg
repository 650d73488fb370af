SPECIFICATION Spec
CONSTANTS
    None = None
    MaxDONs = 1
    MaxConfigs = 1
    Memberships = {TRUE}
    IsBootstrap = FALSE
    Bounds <- Quiet
    MaxOrphans = 1
CHECK_DEADLOCK FALSE
PROPERTY MatchesPosted
