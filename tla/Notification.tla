---------------------------- MODULE Notification ----------------------------
(***************************************************************************)
(* The notification engine of src/lib/icinga/notification.cpp: one        *)
(* Notification object bound to one service.                              *)
(*                                                                         *)
(*   BeginExecuteNotification  the object-level gate (time period,         *)
(*                             escalation window, type and state filter),  *)
(*                             SetLastNotification, recipient expansion    *)
(*                             and one queued async job per recipient;     *)
(*   ExecuteNotificationHelper a queued job: the recipient-level gate,     *)
(*                             the command (which may throw), and the      *)
(*                             locked counter/timestamp update;            *)
(*   SetNextNotification       stores the time and queues the              *)
(*                             OnNextNotificationChanged callback;         *)
(*   Stop                      removal of the object on config reload.     *)
(*                                                                         *)
(* The owning service's state, the clock and the consumer of the           *)
(* OnNextNotificationChanged event are the environment.                    *)
(***************************************************************************)
EXTENDS Naturals, FiniteSets

CONSTANTS
    Users,          \* user objects that exist (User::GetByName succeeds)
    UserNames,      \* m_Users: the names listed on the notification
    Groups,         \* user group objects that exist
    GroupNames,     \* m_Groups: the group names listed on the notification
    Members,        \* Members[g]: UserGroup::GetMembers() of an existing group
    Types,          \* NotificationType values
    Problem,        \* NotificationProblem, the only type with an escalation window
    States,         \* ServiceState values
    TypeFilter,     \* m_NotificationTypeFilter as the set of its bits, or Unset
    StateFilter,    \* m_NotificationStateFilter as the set of its bits, or Unset
    Unset,          \* an empty (unconfigured) filter attribute
    UserTypeFilter, \* [Users -> SUBSET Types]: User::GetNotificationTypeFilter()
    UserStateFilter,\* [Users -> SUBSET States]
    NoPeriod,       \* GetNotificationPeriod() returned a null pointer
    Period,         \* the instants where the notification period IsInside, or NoPeriod
    UserPeriod,     \* [Users -> instants, or NoPeriod]
    Times,          \* GetTimes(): a record with optional fields begin and end
    Interval,       \* GetNotificationInterval()
    MaxTime,        \* bound on the clock
    MaxTriggers,    \* bound on BeginExecuteNotification calls
    MaxChanges,     \* bound on the service's state changes
    MaxNextUpdates  \* bound on SetNextNotification calls

ASSUME Problem \in Types
ASSUME \A g \in Groups : Members[g] \subseteq Users
ASSUME TypeFilter \in SUBSET Types \cup {Unset} /\ StateFilter \in SUBSET States \cup {Unset}
ASSUME DOMAIN Times \subseteq {"begin", "end"}

\* Utility::GetTime(); 0 stands for an unset timestamp.
Time == 1..MaxTime

VARIABLES
    now,                 \* Utility::GetTime()
    svcState,            \* GetService()->GetState()
    lastHardStateChange, \* GetService()->GetLastHardStateChange()
    object,              \* the object's life: "started", "stopped" or "freed"
    lastNotification,    \* m_LastNotification
    notificationNumber,  \* m_NotificationNumber
    nextNotification,    \* m_NextNotification
    jobs,                \* queued ExecuteNotificationHelper callbacks
    events,              \* queued OnNextNotificationChanged callbacks
    peerNext,            \* the value the event's consumer last applied
    triggers,            \* number of BeginExecuteNotification calls so far
    nextUpdates,         \* number of SetNextNotification calls so far
    changes,             \* number of service state changes so far
    gated,               \* history: the triggers that passed the object gate
    sent,                \* history: the deliveries whose command succeeded
    ran                  \* history: <<trigger, user>> of every job that has run

vars == <<now, svcState, lastHardStateChange, object, lastNotification,
          notificationNumber, nextNotification, jobs, events, peerNext,
          triggers, nextUpdates, changes, gated, sent, ran>>

(***************************************************************************)
(* Helpers                                                                 *)
(***************************************************************************)

\* TimePeriod::IsInside, with a missing period meaning "always".
InPeriod(p, t) == IF p = NoPeriod THEN TRUE ELSE t \in p

\* Variant of GetUsers that keeps names that do not resolve.
GetUsersNoLookup == UserNames

\* GetUsers() and GetGroups(): names that do not resolve are skipped.
GetUsers == UserNames \cap Users
GetGroups == GroupNames \cap Groups

\* Variant that forgets the group members.
AllUsersNoGroups == GetUsers

\* The recipient set: listed users and the members of listed groups,
\* collected in a std::set, so each user appears once.
AllUsers == GetUsers \cup UNION {Members[g] : g \in GetGroups}

\* Variant that checks only the lower bound of the window.
InEscalationWindowNoEnd(t, lhsc) ==
    "begin" \in DOMAIN Times => ~(t < lhsc + Times.begin)

\* The escalation window of a Problem notification, relative to the
\* service's last hard state change.
InEscalationWindow(t, lhsc) ==
    /\ "begin" \in DOMAIN Times => ~(t < lhsc + Times.begin)
    /\ "end" \in DOMAIN Times => ~(t > lhsc + Times["end"])

\* GetNotificationTypeFilter() and GetNotificationStateFilter(): an empty
\* attribute is ~0, every bit set.
GetNotificationTypeFilter == IF TypeFilter = Unset THEN Types ELSE TypeFilter
GetNotificationStateFilter == IF StateFilter = Unset THEN States ELSE StateFilter

\* The object-level gate of BeginExecuteNotification, skipped when forced.
NotificationGate(type, force) ==
    \/ force
    \/ /\ InPeriod(Period, now)
       /\ type = Problem => InEscalationWindow(now, lastHardStateChange)
       /\ type \in GetNotificationTypeFilter
       /\ svcState \in GetNotificationStateFilter

\* The recipient-level gate of ExecuteNotificationHelper, skipped when forced.
UserGate(u, type, force) ==
    \/ force
    \/ /\ InPeriod(UserPeriod[u], now)
       /\ type \in UserTypeFilter[u]
       /\ svcState \in UserStateFilter[u]

Job == [id : 1..MaxTriggers, user : Users, type : Types, force : BOOLEAN]

(***************************************************************************)
(* Reference gates, stated from the documented filter semantics and used  *)
(* only by the history variables and the properties.                      *)
(***************************************************************************)

\* The notification's own gate: period, escalation window of a Problem,
\* type and state filter; an unset filter matches all.
RefObjectGate(type, t, state, lhsc) ==
    /\ Period # NoPeriod => t \in Period
    /\ type = Problem /\ "begin" \in DOMAIN Times => t >= lhsc + Times.begin
    /\ type = Problem /\ "end" \in DOMAIN Times => t <= lhsc + Times["end"]
    /\ TypeFilter # Unset => type \in TypeFilter
    /\ StateFilter # Unset => state \in StateFilter

\* A user's gate: their period, type and state filter.
RefUserGate(u, type, t, state) ==
    /\ UserPeriod[u] # NoPeriod => t \in UserPeriod[u]
    /\ type \in UserTypeFilter[u]
    /\ state \in UserStateFilter[u]

\* The users a notification is meant for: the listed users and the members
\* of the listed groups that exist.
RefRecipients ==
    {u \in Users : u \in UserNames \/ \E g \in GroupNames \cap Groups : u \in Members[g]}

(***************************************************************************)
(* Operations                                                              *)
(***************************************************************************)

\* Notification::Start has run: the object is started and attached to its
\* service.  Its timestamps and number are unset, which their getters read
\* as 0.
Init ==
    /\ now = 1
    /\ svcState \in States
    /\ lastHardStateChange = 1
    /\ object = "started"
    /\ lastNotification = 0
    /\ notificationNumber = 0
    /\ nextNotification = 0
    /\ jobs = {}
    /\ events = {}
    /\ peerNext = 0
    /\ triggers = 0
    /\ nextUpdates = 0
    /\ changes = 0
    /\ gated = {}
    /\ sent = {}
    /\ ran = {}

\* The clock advances.
Tick ==
    /\ now < MaxTime
    /\ now' = now + 1
    /\ UNCHANGED <<changes, svcState, lastHardStateChange, object, lastNotification,
                   notificationNumber, nextNotification, jobs, events,
                   peerNext, triggers, nextUpdates, gated, sent, ran>>

\* A check result changes the service's state; a hard change records its
\* time in last_hard_state_change.
ServiceStateChange(s, hard) ==
    /\ changes < MaxChanges
    /\ changes' = changes + 1
    /\ svcState' = s
    /\ lastHardStateChange' = IF hard THEN now ELSE lastHardStateChange
    /\ UNCHANGED <<now, object, lastNotification, notificationNumber,
                   nextNotification, jobs, events, peerNext, triggers,
                   nextUpdates, gated, sent, ran>>

\* Notification::BeginExecuteNotification.  When the gate passes, the last
\* notification time is set under the lock before any recipient is
\* notified, and one job per recipient is queued.
BeginExecuteNotification(type, force) ==
    /\ object = "started"
    /\ triggers < MaxTriggers
    /\ triggers' = triggers + 1
    /\ \/ /\ ~NotificationGate(type, force)
          /\ UNCHANGED <<lastNotification, jobs, gated>>
       \/ /\ NotificationGate(type, force)
          /\ lastNotification' = now
          /\ jobs' = jobs \cup
                {[id |-> triggers + 1, user |-> u, type |-> type, force |-> force]
                    : u \in AllUsers}
          /\ gated' = gated \cup
                {[id |-> triggers + 1,
                  ok |-> force \/ RefObjectGate(type, now, svcState, lastHardStateChange)]}
    /\ UNCHANGED <<now, svcState, lastHardStateChange, object,
                   notificationNumber, nextNotification, events, peerNext,
                   nextUpdates, changes, sent, ran>>

\* Notification::ExecuteNotificationHelper, run by a worker thread.  The
\* job holds the raw `this` pointer, so nothing stops it from running on
\* a stopped or freed object.  A command that throws is logged and nothing
\* changes.
ExecuteNotificationHelper(j) ==
    /\ j \in jobs
    /\ jobs' = jobs \ {j}
    /\ ran' = ran \cup {<<j.id, j.user>>}
    /\ \/ /\ ~UserGate(j.user, j.type, j.force)
          /\ UNCHANGED <<lastNotification, notificationNumber, sent>>
       \/ /\ UserGate(j.user, j.type, j.force)
          /\ \/ /\ notificationNumber' = notificationNumber + 1
                /\ lastNotification' = now
                /\ sent' = sent \cup
                      {[id |-> j.id, user |-> j.user,
                        ok |-> j.force \/ RefUserGate(j.user, j.type, now, svcState)]}
             \/ UNCHANGED <<lastNotification, notificationNumber, sent>>
    /\ UNCHANGED <<now, svcState, lastHardStateChange, object,
                   nextNotification, events, peerNext, triggers,
                   nextUpdates, changes, gated>>

\* Notification::SetNextNotification: the new value is stored, and the
\* OnNextNotificationChanged signal is queued as an async callback.
SetNextNotification(t) ==
    /\ nextUpdates < MaxNextUpdates
    /\ nextUpdates' = nextUpdates + 1
    /\ nextNotification' = t
    /\ events' = events \cup {[seq |-> nextUpdates + 1, time |-> t]}
    /\ UNCHANGED <<changes, now, svcState, lastHardStateChange, object,
                   lastNotification, notificationNumber, jobs, peerNext,
                   triggers, gated, sent, ran>>

\* A worker thread runs a queued OnNextNotificationChanged callback; its
\* consumer accepts the carried value as-is.
NextNotificationChanged(e) ==
    /\ e \in events
    /\ events' = events \ {e}
    /\ peerNext' = e.time
    /\ UNCHANGED <<changes, now, svcState, lastHardStateChange, object,
                   lastNotification, notificationNumber, nextNotification,
                   jobs, triggers, nextUpdates, gated, sent, ran>>

\* Notification::Stop: the object is removed by a config reload.
Stop ==
    /\ object = "started"
    /\ object' = "stopped"
    /\ UNCHANGED <<changes, now, svcState, lastHardStateChange, lastNotification,
                   notificationNumber, nextNotification, jobs, events,
                   peerNext, triggers, nextUpdates, gated, sent, ran>>

\* The references the queued jobs hold on the object: the bind of line 301
\* takes the raw `this`, which is no reference at all.
JobRefs == {}

\* The last Notification::Ptr is released: the type registry and the
\* service dropped theirs in Stop, and no job holds one, so the object is
\* destroyed.
Release ==
    /\ object = "stopped"
    /\ JobRefs = {}
    /\ object' = "freed"
    /\ UNCHANGED <<changes, now, svcState, lastHardStateChange, lastNotification,
                   notificationNumber, nextNotification, jobs, events,
                   peerNext, triggers, nextUpdates, gated, sent, ran>>

Next ==
    \/ Tick
    \/ \E s \in States, hard \in BOOLEAN : ServiceStateChange(s, hard)
    \/ \E type \in Types, force \in BOOLEAN : BeginExecuteNotification(type, force)
    \/ \E j \in jobs : ExecuteNotificationHelper(j)
    \/ SetNextNotification(now + Interval)
    \/ \E e \in events : NextNotificationChanged(e)
    \/ Stop
    \/ Release

\* Queued callbacks are run by the worker pool: a pending job or event is
\* eventually taken.
Fairness ==
    /\ WF_vars(\E j \in jobs : ExecuteNotificationHelper(j))
    /\ WF_vars(\E e \in events : NextNotificationChanged(e))

Spec == Init /\ [][Next]_vars /\ Fairness

(***************************************************************************)
(* Properties                                                              *)
(***************************************************************************)

TypeOK ==
    /\ now \in Time
    /\ svcState \in States
    /\ lastHardStateChange \in Time
    /\ object \in {"started", "stopped", "freed"}
    /\ lastNotification \in {0} \cup Time
    /\ notificationNumber \in Nat
    /\ nextNotification \in Nat
    /\ jobs \subseteq Job
    /\ events \subseteq [seq : 1..MaxNextUpdates, time : Nat]
    /\ peerNext \in Nat
    /\ triggers \in 0..MaxTriggers
    /\ nextUpdates \in 0..MaxNextUpdates
    /\ changes \in 0..MaxChanges

\* A notification is delivered to a user only if, unless forced, both
\* gates held: the notification's period, escalation window, type and
\* state filter when it was triggered (BeginExecuteNotification), and the
\* user's period, type and state filter when the queued job ran
\* (ExecuteNotificationHelper), with service state changes in between.
GatesHeld ==
    \A s \in sent : s.ok /\ \A g \in gated : g.id = s.id => g.ok

\* Every user listed directly or through a listed group, for every trigger
\* that passes the object gate, eventually has their job run by the worker
\* pool (whatever its outcome).
EveryRecipientServed ==
    \A i \in 1..MaxTriggers, u \in Users :
        (\E g \in gated : g.id = i /\ u \in RefRecipients) ~> (<<i, u>> \in ran)

\* Once no OnNextNotificationChanged callback is pending, the consumer's
\* value equals the object's next_notification.
PeerNextConverges ==
    events = {} => peerNext = nextNotification

\* A queued job never runs on a freed object: the job may outlive Stop
\* (a reload) and still run, but the object it dereferences must still
\* exist, so the job itself must keep it (line 301 binds `this`, where
\* SetNextNotification at line 191 binds GetSelf()).
HelperNeverRunsFreed ==
    [][\A j \in jobs : ExecuteNotificationHelper(j) => object # "freed"]_vars

\* last_notification is set only once a notification has actually been
\* delivered to some user (the notification number counts deliveries).
LastNotificationMeansSent ==
    lastNotification # 0 => notificationNumber > 0

=============================================================================
