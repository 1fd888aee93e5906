--------------------------- MODULE MCNotification ---------------------------
(***************************************************************************)
(* A model of Notification for TLC: three users, one listed directly, one *)
(* only through a group and one in both; a listed user name and a listed  *)
(* group name that resolve to no object; filters, periods and an          *)
(* escalation window that each reject some of the reachable cases.        *)
(***************************************************************************)
EXTENDS Notification, TLC

CONSTANTS u1, u2, u3, uMissing, g1, gMissing

MCUsers == {u1, u2, u3}
MCUserNames == {u1, uMissing}
MCGroups == {g1}
MCGroupNames == {g1, gMissing}
MCMembers == [g \in MCGroups |-> {u1, u2}]

\* NotificationProblem, NotificationCustom
MCTypes == {"Problem", "Custom"}
MCProblem == "Problem"
\* StateOK, StateWarning, StateCritical
MCStates == 0..2

MCTypeFilter == {"Problem"}
MCStateFilter == {0, 2}
MCUserTypeFilter == (u1 :> MCTypes) @@ (u2 :> {"Problem"}) @@ (u3 :> MCTypes)
MCUserStateFilter == (u1 :> MCStates) @@ (u2 :> {2}) @@ (u3 :> MCStates)
MCPeriod == {1, 3}
MCUserPeriod == (u1 :> NoPeriod) @@ (u2 :> {2, 3}) @@ (u3 :> NoPeriod)
MCTimes == [begin |-> 1, end |-> 1]
=============================================================================
