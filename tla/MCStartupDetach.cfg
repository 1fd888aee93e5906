CONSTANTS
    CmdLines <- MCCmdLines
    LaunchFds <- MCLaunchFds
    ErrLogOutcomes <- MCErrLogOutcomes

SPECIFICATION Spec
INVARIANT Detached
CHECK_DEADLOCK FALSE
