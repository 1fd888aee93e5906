------------------------------ MODULE Service -------------------------------
(***************************************************************************)
(* Reachability and acknowledgements of src/lib/icinga/service.cpp.        *)
(*                                                                         *)
(* Services belong to hosts; a host may have a host-check service.  A     *)
(* service's parents are its own host, the hosts it depends on and the    *)
(* services of its host it depends on (by short name).  IsReachable reads *)
(* the parents' current state and state type.                              *)
(*                                                                         *)
(* An acknowledgement carries an optional expiry; GetAcknowledgement      *)
(* clears an expired one as it reads it.                                   *)
(*                                                                         *)
(* The state file: InternalSerialize writes the object's fields into a    *)
(* bag of named values, and InternalDeserialize reads them back after a   *)
(* restart.  A snapshot may be taken at any time and a restart brings     *)
(* back the last one.                                                      *)
(*                                                                         *)
(* Check-result ingestion (soft and hard states, attempts) is not in      *)
(* src/; it is modelled from the specification and drives the states.    *)
(***************************************************************************)
EXTENDS Naturals, FiniteSets

CONSTANTS
    Hosts,          \* the host objects that exist
    HostNames,      \* host names that dependencies may mention
    Services,       \* the service objects
    HostOf,         \* HostOf[s]: GetHost() (always an existing host here)
    ShortName,      \* ShortName[s]: GetShortName()
    HostCheck,      \* HostCheck[h]: GetHostCheckService(), or NoService
    NoService,
    HostDeps,       \* HostDeps[s]: m_HostDependencies, as host names
    ServiceDeps,    \* ServiceDeps[s]: m_ServiceDependencies, as short names
    CheckStates,    \* the states a check result may carry
    MaxAttempts,    \* max_check_attempts
    AckTargets,     \* the services operators acknowledge
    MaxTime,        \* bound on the clock
    MaxAcks,        \* bound on AcknowledgeProblem calls
    MaxSaves,       \* bound on state file writes
    Empty,          \* the empty Value: what Dictionary::Get of a missing key returns
    NoSnapshot      \* no state file written yet

ASSUME Hosts \subseteq HostNames /\ NoService \notin Services
ASSUME \A s \in Services : HostOf[s] \in Hosts /\ HostDeps[s] \subseteq HostNames
ASSUME AckTargets \subseteq Services /\ MaxAttempts \in Nat \ {0}

\* ServiceState and StateType.
OK == "OK"
Warning == "Warning"
Critical == "Critical"
Unknown == "Unknown"
States == {OK, Warning, Critical, Unknown}
Soft == "Soft"
Hard == "Hard"

\* AcknowledgementType.
AckNone == "None"
AckNormal == "Normal"
AckSticky == "Sticky"
AckTypes == {AckNone, AckNormal, AckSticky}

Time == 1..MaxTime

VARIABLES
    state,       \* state[s]: GetState()
    stateType,   \* stateType[s]: GetStateType()
    attempt,     \* attempt[s]: the check attempt counter
    hasResult,   \* hasResult[s]: GetLastCheckResult() is set
    now,         \* Utility::GetTime()
    ack,         \* ack[s]: m_Acknowledgement
    ackExpiry,   \* ackExpiry[s]: m_AcknowledgementExpiry, 0 for none
    seen,        \* seen[s]: the value the last GetAcknowledgement returned
    acks,        \* number of AcknowledgeProblem calls so far
    saved,       \* the state file: NoSnapshot, or saved[s] the bag of s
    saves        \* number of state file writes so far

vars == <<state, stateType, attempt, hasResult, now, ack, ackExpiry, seen, acks, saved, saves>>

(***************************************************************************)
(* Reachability                                                            *)
(***************************************************************************)

\* Service::GetParentHosts: the service's host, and the dependency hosts
\* that exist.
GetParentHosts(s) == {HostOf[s]} \cup (HostDeps[s] \cap Hosts)

\* Service::GetParentServices: the services of the same host named by the
\* dependencies, without the service itself.
GetParentServices(s) ==
    {x \in Services \ {s} : HostOf[x] = HostOf[s] /\ ShortName[x] \in ServiceDeps[s]}

\* Variant of ParentServiceIgnored that does not skip soft states.
ParentServiceIgnoredHardOrSoft(p) ==
    \/ ~hasResult[p]
    \/ state[p] \in {OK, Warning}

\* A parent service IsReachable skips: pending, soft, OK or Warning.
ParentServiceIgnored(p) ==
    \/ ~hasResult[p]
    \/ stateType[p] = Soft
    \/ state[p] \in {OK, Warning}

\* A parent host IsReachable skips: no host check, the service itself as
\* the host check, a soft state, or up.
ParentHostIgnored(s, h) ==
    \/ HostCheck[h] = NoService
    \/ HostCheck[h] = s
    \/ stateType[HostCheck[h]] = Soft
    \/ state[HostCheck[h]] = OK

\* Service::IsReachable.
IsReachable(s) ==
    /\ \A p \in GetParentServices(s) \ {s} : ParentServiceIgnored(p)
    /\ \A h \in GetParentHosts(s) : ParentHostIgnored(s, h)

(***************************************************************************)
(* Operations                                                              *)
(***************************************************************************)

Init ==
    /\ state = [s \in Services |-> OK]
    /\ stateType = [s \in Services |-> Hard]
    /\ attempt = [s \in Services |-> 1]
    /\ hasResult = [s \in Services |-> FALSE]
    /\ now = 1
    /\ ack = [s \in AckTargets |-> AckNone]
    /\ ackExpiry = [s \in AckTargets |-> 0]
    /\ seen = [s \in AckTargets |-> AckNone]
    /\ acks = 0
    /\ saved = NoSnapshot
    /\ saves = 0

\* The clock advances.
Tick ==
    /\ now < MaxTime
    /\ now' = now + 1
    /\ UNCHANGED <<state, stateType, attempt, hasResult, ack, ackExpiry, seen, acks, saved, saves>>

\* Variant of ProcessCheckResult that keeps counting attempts in a hard
\* problem state.
ProcessCheckResultNoHardReset(s, st) ==
    /\ hasResult' = [hasResult EXCEPT ![s] = TRUE]
    /\ state' = [state EXCEPT ![s] = st]
    /\ IF st = OK
       THEN /\ stateType' = [stateType EXCEPT ![s] = Hard]
            /\ attempt' = [attempt EXCEPT ![s] = 1]
       ELSE /\ attempt' = [attempt EXCEPT ![s] =
                    IF stateType[s] = Hard /\ state[s] = OK THEN 1 ELSE @ + 1]
            /\ stateType' = [stateType EXCEPT ![s] =
                    IF attempt'[s] >= MaxAttempts THEN Hard ELSE Soft]
    /\ UNCHANGED <<now, ack, ackExpiry, seen, acks, saved, saves>>

\* A check result for s: an OK result makes the state hard at once; a
\* problem counts attempts from a hard OK and becomes hard at
\* max_check_attempts; a problem after a hard problem stays hard.
ProcessCheckResult(s, st) ==
    /\ hasResult' = [hasResult EXCEPT ![s] = TRUE]
    /\ state' = [state EXCEPT ![s] = st]
    /\ IF st = OK
       THEN /\ stateType' = [stateType EXCEPT ![s] = Hard]
            /\ attempt' = [attempt EXCEPT ![s] = 1]
       ELSE IF stateType[s] = Hard /\ state[s] # OK
       THEN UNCHANGED <<stateType, attempt>>
       ELSE /\ attempt' = [attempt EXCEPT ![s] =
                    IF stateType[s] = Hard THEN 1 ELSE @ + 1]
            /\ stateType' = [stateType EXCEPT ![s] =
                    IF attempt'[s] >= MaxAttempts THEN Hard ELSE Soft]
    /\ UNCHANGED <<now, ack, ackExpiry, seen, acks, saved, saves>>

\* Service::GetAcknowledgement (under the object lock): an acknowledgement
\* whose expiry is set and has passed is cleared, and None is returned.
GetAcknowledgement(s) ==
    LET expired == ack[s] # AckNone /\ ackExpiry[s] # 0 /\ ackExpiry[s] < now
    IN
    /\ ack' = IF expired THEN [ack EXCEPT ![s] = AckNone] ELSE ack
    /\ ackExpiry' = IF expired THEN [ackExpiry EXCEPT ![s] = 0] ELSE ackExpiry
    /\ seen' = [seen EXCEPT ![s] = IF expired THEN AckNone ELSE ack[s]]
    /\ UNCHANGED <<state, stateType, attempt, hasResult, now, acks, saved, saves>>

\* Service::AcknowledgeProblem: type and expiry are set under the lock;
\* the comment and the acknowledgement notification request that follow
\* change nothing modelled here.
AcknowledgeProblem(s, type, expiry) ==
    /\ acks < MaxAcks
    /\ acks' = acks + 1
    /\ ack' = [ack EXCEPT ![s] = type]
    /\ ackExpiry' = [ackExpiry EXCEPT ![s] = expiry]
    /\ UNCHANGED <<state, stateType, attempt, hasResult, now, seen, saved, saves>>

\* Service::ClearAcknowledgement.
ClearAcknowledgement(s) ==
    /\ ack' = [ack EXCEPT ![s] = AckNone]
    /\ ackExpiry' = [ackExpiry EXCEPT ![s] = 0]
    /\ UNCHANGED <<state, stateType, attempt, hasResult, now, seen, acks, saved, saves>>

(***************************************************************************)
(* The state file                                                          *)
(***************************************************************************)

\* Dictionary::Get: the value under key k, or Empty when there is none.
BagGet(bag, k) == IF k \in DOMAIN bag THEN bag[k] ELSE Empty

\* Variant of Serialize that leaves out acknowledgement_expiry.
SerializeNoExpiry(s) ==
    [check_attempt |-> attempt[s],
     state |-> state[s],
     state_type |-> stateType[s],
     last_result |-> IF hasResult[s] THEN "cr" ELSE Empty,
     acknowledgement |-> IF s \in AckTargets THEN ack[s] ELSE Empty]

\* Service::InternalSerialize for the state file (no Attribute_Config: the
\* configuration attributes come from the configuration again).  Of the
\* runtime fields it writes, these are the ones the model has; a service
\* never acknowledged has an empty m_Acknowledgement.
Serialize(s) ==
    [check_attempt |-> attempt[s],
     state |-> state[s],
     state_type |-> stateType[s],
     last_result |-> IF hasResult[s] THEN "cr" ELSE Empty,
     acknowledgement |-> IF s \in AckTargets THEN ack[s] ELSE Empty,
     acknowledgement_expiry |-> IF s \in AckTargets THEN ackExpiry[s] ELSE Empty]

\* InternalDeserialize of m_Acknowledgement, as GetAcknowledgement reads
\* it: empty is AcknowledgementNone.
DeserializeAck(bag) ==
    IF BagGet(bag, "acknowledgement") = Empty THEN AckNone
    ELSE BagGet(bag, "acknowledgement")

\* InternalDeserialize of m_AcknowledgementExpiry, as
\* GetAcknowledgementExpiry reads it: empty is 0, no expiry.
DeserializeExpiry(bag) ==
    IF BagGet(bag, "acknowledgement_expiry") = Empty THEN 0
    ELSE BagGet(bag, "acknowledgement_expiry")

\* The state file is written: every service is serialized.
Save ==
    /\ saves < MaxSaves
    /\ saves' = saves + 1
    /\ saved' = [s \in Services |-> Serialize(s)]
    /\ UNCHANGED <<state, stateType, attempt, hasResult, now, ack, ackExpiry, seen, acks>>

\* A restart: every service is deserialized from the last state file.  The
\* clock goes on.
Restart ==
    /\ saved # NoSnapshot
    /\ attempt' = [s \in Services |-> saved[s].check_attempt]
    /\ state' = [s \in Services |-> saved[s].state]
    /\ stateType' = [s \in Services |-> saved[s].state_type]
    /\ hasResult' = [s \in Services |-> BagGet(saved[s], "last_result") # Empty]
    /\ ack' = [s \in AckTargets |-> DeserializeAck(saved[s])]
    /\ ackExpiry' = [s \in AckTargets |-> DeserializeExpiry(saved[s])]
    /\ UNCHANGED <<now, seen, acks, saved, saves>>

\* The steps of a running process: time, check results and the
\* acknowledgement calls.
LiveNext ==
    \/ Tick
    \/ \E s \in Services, st \in CheckStates : ProcessCheckResult(s, st)
    \/ \E s \in AckTargets : GetAcknowledgement(s)
    \/ \E s \in AckTargets, type \in AckTypes \ {AckNone}, expiry \in {0} \cup Time :
            AcknowledgeProblem(s, type, expiry)
    \/ \E s \in AckTargets : ClearAcknowledgement(s)

\* Those, and the state file: writing it and restarting from it.
Next ==
    \/ LiveNext
    \/ Save
    \/ Restart

Spec == Init /\ [][Next]_vars

\* A running process that never writes its state file.
LiveSpec == Init /\ [][LiveNext]_vars

(***************************************************************************)
(* Properties                                                              *)
(***************************************************************************)

TypeOK ==
    /\ state \in [Services -> States]
    /\ stateType \in [Services -> {Soft, Hard}]
    /\ attempt \in [Services -> 1..MaxAttempts]
    /\ hasResult \in [Services -> BOOLEAN]
    /\ now \in Time
    /\ ack \in [AckTargets -> AckTypes]
    /\ ackExpiry \in [AckTargets -> {0} \cup Time]
    /\ seen \in [AckTargets -> AckTypes]
    /\ acks \in 0..MaxAcks
    /\ saved = NoSnapshot \/ DOMAIN saved = Services
    /\ saves \in 0..MaxSaves

\* A check result that leaves its service in a soft state changes the
\* reachability of no service: IsReachable only follows hard states,
\* through parent services and through host checks alike.
SoftResultsKeepReachability ==
    [][\A s \in Services, st \in CheckStates :
         (ProcessCheckResult(s, st) /\ stateType'[s] = Soft) =>
            \A x \in Services : IsReachable(x)' = IsReachable(x)]_vars

\* The acknowledgement GetAcknowledgement would return now: the stored one,
\* unless its expiry is set and has passed.
EffectiveAck(a, e) == IF a # AckNone /\ e # 0 /\ e < now THEN AckNone ELSE a

\* The abstract acknowledgement state: what is in force, live and in the
\* state file, with the expiry of what is in force.
AbsSaved ==
    IF saved = NoSnapshot THEN NoSnapshot
    ELSE [s \in AckTargets |->
            LET a == EffectiveAck(DeserializeAck(saved[s]), DeserializeExpiry(saved[s]))
            IN <<a, IF a = AckNone THEN 0 ELSE DeserializeExpiry(saved[s])>>]

Ack == INSTANCE AckSpec WITH
    acked <- [s \in AckTargets |-> EffectiveAck(ack[s], ackExpiry[s])],
    until <- [s \in AckTargets |->
                IF EffectiveAck(ack[s], ackExpiry[s]) = AckNone THEN 0 ELSE ackExpiry[s]],
    saved <- AbsSaved,
    Expiries <- {0} \cup Time

\* The lazy clear in GetAcknowledgement, the expiry and the state file
\* together implement acknowledgements that lapse the moment their expiry
\* passes: no read, clear, snapshot or restart brings back one that has
\* lapsed or been cleared, and what a read returns is what is in force.
AckRefinement == Ack!ASpec

\* The specification's reachability: a service is reachable iff no parent
\* service other than itself is in a hard state other than OK or Warning,
\* and no parent host's host check (other than itself) is hard down, soft
\* states and OK/Warning states being ignored.
RefReachable(s) ==
    /\ \A p \in GetParentServices(s) :
          ~(hasResult[p] /\ stateType[p] = Hard /\ state[p] \notin {OK, Warning})
    /\ \A h \in GetParentHosts(s) :
          HostCheck[h] \in {NoService, s}
          \/ ~(stateType[HostCheck[h]] = Hard /\ state[HostCheck[h]] \notin {OK, Warning})

\* IsReachable agrees with the specification's reachability.
ReachableAsSpecified ==
    \A s \in Services : IsReachable(s) = RefReachable(s)

=============================================================================
