----------------------------- MODULE MCDaemon --------------------------------
(***************************************************************************)
(* A model of Daemon for TLC: the acknowledgement and state-file model of  *)
(* MCService behind the command lines of MCStartup, launched with          *)
(* descriptors 0..2 on the terminal.  Daemonizing is taken with an error   *)
(* log, so that both outcomes of opening it are reached.                   *)
(***************************************************************************)
EXTENDS MCService, Daemon

MCDaemonCmdLines ==
    { {"config"}, {"config", "validate"}, {"config", "daemonize", "errorlog"},
      {"help", "version"}, {}, {"bad"} }

MCDaemonLaunchFds == { [i \in 0..2 |-> "tty"] }

MCDaemonErrLogOutcomes == {"ok", "missing", "fail"}
=============================================================================
