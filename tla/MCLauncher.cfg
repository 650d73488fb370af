SPECIFICATION Spec
CONSTANTS
    None = None
    MaxDONs = 2
    MaxConfigs = 3
    Memberships = {TRUE, FALSE}
    IsBootstrap = FALSE
    Bounds <- ThreeTroubles
    MaxOrphans = 2
CHECK_DEADLOCK FALSE
INVARIANTS OneOracleEach
PROPERTIES KeepsConfigured MatchesHome ServedDespiteFaults DigestsNeverReturn FollowsDiagram
