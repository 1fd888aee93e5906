---------------------------- MODULE MCStartup -------------------------------
(***************************************************************************)
(* A model of Startup for TLC: command lines that take every early exit,  *)
(* plain runs, --validate and --daemonize with and without --errorlog;    *)
(* launched with descriptors 0..2 on the terminal, with descriptor 0      *)
(* closed, or with all three closed (as some supervisors start daemons).  *)
(***************************************************************************)
EXTENDS Startup

MCCmdLines ==
    { {"config"}, {"config", "validate"}, {"config", "daemonize"},
      {"config", "daemonize", "errorlog"}, {"help"}, {"help", "version"},
      {}, {"bad", "config"} }

MCLaunchFds ==
    { [i \in 0..2 |-> "tty"],
      [i \in 0..2 |-> IF i = 0 THEN "closed" ELSE "tty"],
      [i \in 0..2 |-> "closed"] }

MCErrLogOutcomes == {"ok", "missing", "fail"}
=============================================================================
