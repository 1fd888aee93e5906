------------------------------- MODULE Daemon ---------------------------------
(***************************************************************************)
(* The icinga-app process: main() of Startup, then the services the        *)
(* activated configuration created.  Check results, acknowledgements,      *)
(* state-file saves and restores reach a service only from the event loop  *)
(* that app->Run() starts, so Service steps are enabled only once Startup  *)
(* is running; Startup steps leave the services alone.                     *)
(***************************************************************************)
EXTENDS Service

CONSTANTS CmdLines, LaunchFds, ErrLogOutcomes

VARIABLES pc, opts, fds, forked, ownSession, errors, linked, activated,
          appObject, status, launcher

stvars == <<pc, opts, fds, forked, ownSession, errors, linked, activated,
            appObject, status, launcher>>

St == INSTANCE Startup

DaemonInit == Init /\ St!Init

DaemonNext ==
    \/ St!Next /\ UNCHANGED vars
    \/ pc = "running" /\ Next /\ UNCHANGED stvars

DaemonSpec == DaemonInit /\ [][DaemonNext]_<<vars, stvars>>

\* Configuration items are activated, and the event loop that drives the
\* services runs, only after LinkItems and ValidateItems have left no
\* error, and never under --validate (LoadConfigFiles and main).
StartupConfigGate == St!ConfigGate

=============================================================================
