------------------------------ MODULE AckSpec --------------------------------
(***************************************************************************)
(* What a service's acknowledgement promises, without the lazy clear.      *)
(*                                                                         *)
(* An acknowledgement is in force from AcknowledgeProblem until it is      *)
(* cleared or its expiry (when not 0) has passed; the moment the clock     *)
(* passes the expiry it is gone, whether anybody reads it or not.  A       *)
(* snapshot of the acknowledgements lapses the same way, and a restart     *)
(* brings back the snapshot.  A read returns the acknowledgement in force. *)
(*                                                                         *)
(* Service implements this specification under the mapping in Service.    *)
(***************************************************************************)
EXTENDS Naturals

CONSTANTS
    AckTargets,     \* the services that may be acknowledged
    AckNone,        \* no acknowledgement
    AckTypes,       \* AckNone and the acknowledgement types
    Expiries,       \* the expiry times AcknowledgeProblem may be given
    NoSnapshot      \* no snapshot taken yet

VARIABLES
    acked,      \* acked[s]: the acknowledgement in force, or AckNone
    until,      \* until[s]: its expiry, 0 for none or when not acknowledged
    now,        \* the clock
    seen,       \* seen[s]: what the last read returned
    saved       \* NoSnapshot, or saved[s] = <<type, expiry>> of the snapshot

avars == <<acked, until, now, seen, saved>>

\* An acknowledgement of type a with expiry e is still in force at time t.
InForce(a, e, t) == a # AckNone /\ (e = 0 \/ t <= e)

\* The pair <<a, e>> as it stands at time t: unchanged while in force,
\* <<AckNone, 0>> once lapsed.
AtTime(a, e, t) == IF InForce(a, e, t) THEN <<a, e>> ELSE <<AckNone, 0>>

AInit ==
    /\ acked = [s \in AckTargets |-> AckNone]
    /\ until = [s \in AckTargets |-> 0]
    /\ now = 1
    /\ seen = [s \in AckTargets |-> AckNone]
    /\ saved = NoSnapshot

\* Time passes; acknowledgements whose expiry is passed lapse, live or saved.
ATick ==
    /\ now' = now + 1
    /\ acked' = [s \in AckTargets |-> AtTime(acked[s], until[s], now')[1]]
    /\ until' = [s \in AckTargets |-> AtTime(acked[s], until[s], now')[2]]
    /\ saved' = IF saved = NoSnapshot THEN NoSnapshot
                ELSE [s \in AckTargets |-> AtTime(saved[s][1], saved[s][2], now')]
    /\ UNCHANGED seen

AAcknowledge(s, type, expiry) ==
    /\ acked' = [acked EXCEPT ![s] = AtTime(type, expiry, now)[1]]
    /\ until' = [until EXCEPT ![s] = AtTime(type, expiry, now)[2]]
    /\ UNCHANGED <<now, seen, saved>>

AClear(s) ==
    /\ acked' = [acked EXCEPT ![s] = AckNone]
    /\ until' = [until EXCEPT ![s] = 0]
    /\ UNCHANGED <<now, seen, saved>>

ARead(s) ==
    /\ seen' = [seen EXCEPT ![s] = acked[s]]
    /\ UNCHANGED <<acked, until, now, saved>>

ASave ==
    /\ saved' = [s \in AckTargets |-> <<acked[s], until[s]>>]
    /\ UNCHANGED <<acked, until, now, seen>>

ARestore ==
    /\ saved # NoSnapshot
    /\ acked' = [s \in AckTargets |-> saved[s][1]]
    /\ until' = [s \in AckTargets |-> saved[s][2]]
    /\ UNCHANGED <<now, seen, saved>>

ANext ==
    \/ ATick
    \/ \E s \in AckTargets, type \in AckTypes \ {AckNone}, e \in Expiries :
          AAcknowledge(s, type, e)
    \/ \E s \in AckTargets : AClear(s) \/ ARead(s)
    \/ ASave
    \/ ARestore

ASpec == AInit /\ [][ANext]_avars

=============================================================================
