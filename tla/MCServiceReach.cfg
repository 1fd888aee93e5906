CONSTANTS
    h1 = h1
    h2 = h2
    hMissing = hMissing
    hc1 = hc1
    hc2 = hc2
    web = web
    db = db
    NoService = NoService
    Hosts <- MCHosts
    HostNames <- MCHostNames
    Services <- MCServices
    HostOf <- MCHostOf
    ShortName <- MCShortName
    HostCheck <- MCHostCheck
    HostDeps <- MCHostDeps
    ServiceDeps <- MCServiceDeps
    CheckStates <- MCCheckStates
    AckTargets = {}
    MaxAttempts = 2
    MaxTime = 1
    MaxAcks = 0
    MaxSaves = 0
    Empty = Empty
    NoSnapshot = NoSnapshot

SPECIFICATION Spec
INVARIANT ReachableAsSpecified
