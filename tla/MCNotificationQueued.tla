------------------------ MODULE MCNotificationQueued -------------------------
(***************************************************************************)
(* MCNotification with a history variable: for every trigger, the clock   *)
(* and the service state at the moment BeginExecuteNotification queued its *)
(* jobs.  It lets a property compare the recipient gate the documentation *)
(* places before dispatch with the one ExecuteNotificationHelper applies  *)
(* when the job runs.  Kept out of Notification so that the other runs do *)
(* not pay for the extra state.                                           *)
(***************************************************************************)
EXTENDS MCNotification

VARIABLE queuedAt   \* queuedAt[i]: [time, state] when trigger i was dispatched

qvars == <<vars, queuedAt>>

QInit ==
    /\ Init
    /\ queuedAt = [i \in 1..MaxTriggers |-> [time |-> 0, state |-> 0]]

QNext ==
    /\ Next
    /\ queuedAt' = IF triggers' # triggers
                     THEN [queuedAt EXCEPT ![triggers'] = [time |-> now, state |-> svcState]]
                     ELSE queuedAt

QSpec == QInit /\ [][QNext]_qvars

\* "A later state change (e.g., recovery) does not retract an
\* already-queued notification": a job queued for a user who passed the
\* recipient gate (period, type and state filter) at dispatch is not
\* dropped by the gate ExecuteNotificationHelper applies when the job
\* runs, which reads the period and GetService()->GetState() again.
QueuedNotRetracted ==
    [][\A j \in jobs :
        /\ ExecuteNotificationHelper(j)
        /\ RefUserGate(j.user, j.type, queuedAt[j.id].time, queuedAt[j.id].state)
        => UserGate(j.user, j.type, j.force)]_qvars

=============================================================================
