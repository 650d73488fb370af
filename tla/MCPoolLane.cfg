SPECIFICATION FairSpec
CONSTANTS
    s1 = s1
    s2 = s2
    d1 = d1
    SourcePools = {s1, s2}
    DestPools = {d1}
    RemotePools = {s1, s2, d1}
    FirstSource = s1
    FirstDest = d1
    NoAddress = none
    Router = router
    Routers = {router, other}
    BucketConfigs <- Limits
    SourceUpdates <- FromSource
    DestUpdates <- AtDest
    MaxAge = 3
    Requests = {3}
    MaxMessages = 3
    MaxChanges = 3
INVARIANT ShownIsAccepted
PROPERTIES InflightArrives
