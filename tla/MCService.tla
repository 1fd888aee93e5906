----------------------------- MODULE MCService ------------------------------
(***************************************************************************)
(* A model of Service for TLC.                                             *)
(*                                                                         *)
(* Host h1 is checked by hc1 and runs web and db; host h2 is checked by   *)
(* hc2.  Both host checks have the short name "ping".  web depends on the *)
(* services "db", "ping" (hc1, not hc2) and itself, and on the hosts h2   *)
(* and one that does not exist.  hc1's only parent host is its own.       *)
(*                                                                         *)
(* The acknowledgement model keeps web alone, so that the state file and  *)
(* restarts stay within reach.                                             *)
(***************************************************************************)
EXTENDS Service, TLC

CONSTANTS h1, h2, hMissing, hc1, hc2, web, db

MCHosts == {h1, h2}
MCHostNames == {h1, h2, hMissing}
MCServices == {hc1, hc2, web, db}
MCHostOf == (hc1 :> h1) @@ (web :> h1) @@ (db :> h1) @@ (hc2 :> h2)
MCShortName == (hc1 :> "ping") @@ (hc2 :> "ping") @@ (web :> "web") @@ (db :> "db")
MCHostCheck == (h1 :> hc1) @@ (h2 :> hc2)
MCHostDeps == (web :> {h2, hMissing}) @@ (hc1 :> {}) @@ (hc2 :> {}) @@ (db :> {})
MCServiceDeps == (web :> {"db", "ping", "web"}) @@ (hc1 :> {}) @@ (hc2 :> {}) @@ (db :> {})
\* Unknown takes the same paths as Critical everywhere.
MCCheckStates == {OK, Warning, Critical}
MCAckTargets == {web}
\* The acknowledgement and state file model: web alone, on hosts without
\* host checks.
MCAckServices == {web}
MCAckHostCheck == (h1 :> NoService) @@ (h2 :> NoService)
MCAckCheckStates == {OK, Critical}
=============================================================================
