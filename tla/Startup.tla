------------------------------ MODULE Startup ---------------------------------
(***************************************************************************)
(* The icinga-app entry point of src/icinga-app/icinga.cpp: main() parses *)
(* the command line, optionally daemonizes, loads the configuration with  *)
(* LoadConfigFiles and runs the Application the configuration created.    *)
(*                                                                         *)
(*   ParseOptions     option parsing and the early exits (parse error,    *)
(*                    --version, --help, no --config);                     *)
(*   Daemonize        fork, the redirection of descriptors 0, 1 and 2,     *)
(*                    setsid; main ignores its result;                     *)
(*   LoadConfigFiles  compile, the first error scan, link and validate,    *)
(*                    the second scan, activation, and main's exits after  *)
(*                    it (failure, --validate);                            *)
(*   RunApplication   Application::GetInstance and app->Run().             *)
(*                                                                         *)
(* The command line, the outcome of fork, open and setsid, and the errors  *)
(* the compiler and the validator report are inputs.  An error list is     *)
(* abstracted to the kinds of its entries: the scans only test Warning.    *)
(***************************************************************************)
EXTENDS Naturals

CONSTANTS
    CmdLines,       \* the option sets main may be started with
    LaunchFds,      \* the descriptor tables 0..2 the process may start with
    ErrLogOutcomes  \* what opening the --errorlog file may do

\* Options main tests; "bad" stands for one po::parse_command_line rejects.
Options == {"help", "version", "config", "validate", "daemonize", "errorlog", "bad"}

\* What a descriptor refers to.  Descriptor 3 stands for the first one
\* above 2, which open returns when 0..2 are all in use.
Files == {"closed", "tty", "null", "errlog"}
Fds == 0..3

\* Kinds of ConfigCompilerError: Warning set or not.
ErrKinds == {"warning", "error"}

ASSUME CmdLines \subseteq SUBSET Options
ASSUME LaunchFds \subseteq [0..2 -> {"closed", "tty"}]
ASSUME ErrLogOutcomes \subseteq {"ok", "missing", "fail"}

VARIABLES
    pc,         \* where main is
    opts,       \* g_AppParams
    fds,        \* the descriptor table
    forked,     \* main runs in the child of a successful fork
    ownSession, \* setsid succeeded
    errors,     \* the kinds in ConfigCompilerContext::GetErrors()
    linked,     \* ConfigItem::LinkItems and ValidateItems ran
    activated,  \* ConfigItem::ActivateItems ran
    appObject,  \* the activated configuration created an Application
    status,     \* main's process exit: "none", "success", "failure", "abort"
    launcher    \* the exit status whoever started icinga-app sees, or "none"

svars == <<pc, opts, fds, forked, ownSession, errors, linked, activated,
           appObject, status, launcher>>

(***************************************************************************)
(* Descriptors                                                             *)
(***************************************************************************)

\* open(): the lowest descriptor not in use.
LowestFree(f) == CHOOSE i \in Fds : f[i] = "closed" /\ \A j \in 0..(i - 1) : f[j] # "closed"

Dup2(f, from, to) == [f EXCEPT ![to] = f[from]]
CloseFd(f, i) == [f EXCEPT ![i] = "closed"]

\* The /dev/null block of Daemonize: the new descriptor replaces 0 and 1
\* unless it is one of them, and is closed if above 2, all only when it
\* is greater than 0.
RedirectNull(f) ==
    LET n == LowestFree(f)
        g == [f EXCEPT ![n] = "null"]
        a == IF n # 0 THEN Dup2(g, n, 0) ELSE g
        b == IF n # 1 THEN Dup2(a, n, 1) ELSE a
    IN IF n > 0 THEN (IF n > 2 THEN CloseFd(b, n) ELSE b) ELSE g

\* The stderr block: errPath is /dev/null without --errorlog; a missing
\* file is created by a second open; fderr replaces 2 unless it is 2, and
\* is closed if above 2, all only when it is greater than 0.
RedirectErr(f, file, outcome) ==
    IF outcome = "fail" THEN f
    ELSE LET e == LowestFree(f)
             g == [f EXCEPT ![e] = file]
             h == IF e # 2 THEN Dup2(g, e, 2) ELSE g
         IN IF e > 0 THEN (IF e > 2 THEN CloseFd(h, e) ELSE h) ELSE g

(***************************************************************************)
(* Configuration                                                           *)
(***************************************************************************)

\* Variant of the first scan that stops at any entry, warnings included.
CompileHasErrorWithWarnings(ce) == ce # {}

\* The first scan of LoadConfigFiles: an entry whose Warning is not set.
CompileHasError(ce) == "error" \in ce

(***************************************************************************)
(* Operations                                                              *)
(***************************************************************************)

Init ==
    /\ pc = "start"
    /\ opts \in CmdLines
    /\ fds \in {[i \in Fds |-> IF i = 3 THEN "closed" ELSE l[i]] : l \in LaunchFds}
    /\ forked = FALSE
    /\ ownSession = FALSE
    /\ errors = {}
    /\ linked = FALSE
    /\ activated = FALSE
    /\ appObject = FALSE
    /\ status = "none"
    /\ launcher = "none"

\* main() returns or exits with s; a launcher not already answered by the
\* parent of a fork sees s.
Exit(s) ==
    /\ pc' = "exited"
    /\ status' = s
    /\ launcher' = IF forked THEN launcher ELSE s

\* main up to the daemonize test: po::store, --help and --version, the
\* check for at least one --config.
ParseOptions ==
    /\ pc = "start"
    /\ \/ /\ "bad" \in opts
          /\ Exit("failure")
       \/ /\ "bad" \notin opts
          /\ opts \cap {"help", "version"} # {}
          /\ Exit("success")
       \/ /\ opts \cap {"bad", "help", "version", "config"} = {}
          /\ Exit("failure")
       \/ /\ opts \cap {"bad", "help", "version"} = {}
          /\ "config" \in opts
          /\ pc' = IF "daemonize" \in opts THEN "daemonize" ELSE "load"
          /\ UNCHANGED <<status, launcher>>
    /\ UNCHANGED <<opts, fds, forked, ownSession, errors, linked, activated, appObject>>

\* Daemonize(errorLog), whose result main ignores: a failed fork returns
\* at once; otherwise the parent exits 0 and the child redirects its
\* descriptors and calls setsid, which may fail.
Daemonize(forkOk, errOutcome, setsidOk) ==
    /\ pc = "daemonize"
    /\ pc' = "load"
    /\ \/ /\ ~forkOk
          /\ UNCHANGED <<fds, forked, ownSession, launcher>>
       \/ /\ forkOk
          /\ forked' = TRUE
          /\ launcher' = "success"
          /\ fds' = RedirectErr(RedirectNull(fds),
                                IF "errorlog" \in opts THEN "errlog" ELSE "null",
                                IF "errorlog" \in opts THEN errOutcome ELSE "ok")
          /\ ownSession' = setsidOk
    /\ UNCHANGED <<opts, errors, linked, activated, appObject, status>>

\* LoadConfigFiles(validateOnly) and main's tests of its result.  ce and
\* le are the kinds the compiler and LinkItems/ValidateItems report; app
\* says whether ActivateItems creates an Application object.
LoadConfigFiles(ce, le, app) ==
    LET link == ~CompileHasError(ce)
        errs == ce \cup (IF link THEN le ELSE {})
        ok   == "error" \notin errs
        validateOnly == "validate" \in opts
    IN
    /\ pc = "load"
    /\ errors' = errs
    /\ linked' = link
    /\ \/ /\ ~ok
          /\ Exit("failure")
          /\ UNCHANGED <<activated, appObject>>
       \/ /\ ok /\ validateOnly
          /\ Exit("success")
          /\ UNCHANGED <<activated, appObject>>
       \/ /\ ok /\ ~validateOnly
          /\ pc' = "activated"
          /\ activated' = TRUE
          /\ appObject' = app
          /\ UNCHANGED <<status, launcher>>
    /\ UNCHANGED <<opts, fds, forked, ownSession>>

\* Application::GetInstance(): without an Application object main throws
\* std::runtime_error, which nothing catches; otherwise app->Run() starts
\* the event loop.
RunApplication ==
    /\ pc = "activated"
    /\ \/ /\ ~appObject
          /\ Exit("abort")
       \/ /\ appObject
          /\ pc' = "running"
          /\ UNCHANGED <<status, launcher>>
    /\ UNCHANGED <<opts, fds, forked, ownSession, errors, linked, activated, appObject>>

Next ==
    \/ ParseOptions
    \/ \E f, s \in BOOLEAN, e \in ErrLogOutcomes : Daemonize(f, e, s)
    \/ \E ce, le \in SUBSET ErrKinds, app \in BOOLEAN : LoadConfigFiles(ce, le, app)
    \/ RunApplication

\* main is a single thread that runs to its end.
Spec == Init /\ [][Next]_svars /\ WF_svars(Next)

(***************************************************************************)
(* Properties                                                              *)
(***************************************************************************)

TypeOK ==
    /\ pc \in {"start", "daemonize", "load", "activated", "running", "exited"}
    /\ opts \in CmdLines
    /\ fds \in [Fds -> Files]
    /\ forked \in BOOLEAN /\ ownSession \in BOOLEAN
    /\ errors \subseteq ErrKinds
    /\ linked \in BOOLEAN /\ activated \in BOOLEAN /\ appObject \in BOOLEAN
    /\ status \in {"none", "success", "failure", "abort"}
    /\ launcher \in {"none", "success", "failure", "abort"}

\* Configuration items are activated, and the event loop runs, only after
\* LinkItems and ValidateItems have run and left no error, and never under
\* --validate: a compile warning must not skip linking (the first scan of
\* LoadConfigFiles) and an error found by linking must stop activation
\* (the second scan).
ConfigGate ==
    /\ activated => linked /\ "error" \notin errors /\ "validate" \notin opts
    /\ pc = "running" => activated

\* --daemonize "detach[es] from the controlling terminal": whenever the
\* event loop runs under --daemonize, the process leads its own session and
\* none of descriptors 0, 1 and 2 refers to the terminal.
Detached ==
    pc = "running" /\ "daemonize" \in opts =>
        /\ ownSession
        /\ \A i \in 0..2 : fds[i] # "tty"

=============================================================================
