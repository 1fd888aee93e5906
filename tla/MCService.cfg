CONSTANTS
    h1 = h1
    h2 = h2
    hMissing = hMissing
    hc1 = hc1
    hc2 = hc2
    web = web
    db = db
    NoService = NoService
    Hosts <- MCHosts
    HostNames <- MCHostNames
    Services <- MCServices
    HostOf <- MCHostOf
    ShortName <- MCShortName
    HostCheck <- MCHostCheck
    HostDeps <- MCHostDeps
    ServiceDeps <- MCServiceDeps
    CheckStates <- MCCheckStates
    AckTargets <- MCAckTargets
    MaxAttempts = 2
    MaxTime = 2
    MaxAcks = 1
    MaxSaves = 0
    Empty = Empty
    NoSnapshot = NoSnapshot

SPECIFICATION LiveSpec
INVARIANT TypeOK
PROPERTY SoftResultsKeepReachability
