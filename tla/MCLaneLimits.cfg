SPECIFICATION Spec
CONSTANTS
    BucketConfigs <- Limits
    LaneConfigs <- Lanes
    MaxAge = 7
    Requests = {1, 3}
    MaxDelay = 2
    MaxInflight = 2
    MaxChanges = 2
    MaxWindow = 3
INVARIANTS
    FirstAttemptsFit AdmitsWithinLimits NeverBricked WaitIsExact
