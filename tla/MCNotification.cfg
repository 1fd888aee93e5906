CONSTANTS
    u1 = u1
    u2 = u2
    u3 = u3
    uMissing = uMissing
    g1 = g1
    gMissing = gMissing
    Users <- MCUsers
    UserNames <- MCUserNames
    Groups <- MCGroups
    GroupNames <- MCGroupNames
    Members <- MCMembers
    Types <- MCTypes
    Problem <- MCProblem
    States <- MCStates
    TypeFilter <- MCTypeFilter
    StateFilter <- MCStateFilter
    UserTypeFilter <- MCUserTypeFilter
    UserStateFilter <- MCUserStateFilter
    Unset = Unset
    NoPeriod = NoPeriod
    Period <- MCPeriod
    UserPeriod <- MCUserPeriod
    Times <- MCTimes
    Interval = 2
    MaxTime = 3
    MaxTriggers = 2
    MaxChanges = 1
    MaxNextUpdates = 1

SPECIFICATION Spec
INVARIANT TypeOK
INVARIANT GatesHeld
PROPERTY EveryRecipientServed
CHECK_DEADLOCK FALSE
