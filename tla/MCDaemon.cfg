CONSTANTS
    h1 = h1
    h2 = h2
    hMissing = hMissing
    hc1 = hc1
    hc2 = hc2
    web = web
    db = db
    NoService = NoService
    Hosts <- MCHosts
    HostNames <- MCHostNames
    Services <- MCAckServices
    HostOf <- MCHostOf
    ShortName <- MCShortName
    HostCheck <- MCAckHostCheck
    HostDeps <- MCHostDeps
    ServiceDeps <- MCServiceDeps
    CheckStates <- MCAckCheckStates
    AckTargets <- MCAckTargets
    MaxAttempts = 2
    MaxTime = 3
    MaxAcks = 2
    MaxSaves = 2
    Empty = Empty
    NoSnapshot = NoSnapshot
    CmdLines <- MCDaemonCmdLines
    LaunchFds <- MCDaemonLaunchFds
    ErrLogOutcomes <- MCDaemonErrLogOutcomes

SPECIFICATION DaemonSpec
INVARIANT StartupConfigGate
PROPERTY AckRefinement
CHECK_DEADLOCK FALSE
