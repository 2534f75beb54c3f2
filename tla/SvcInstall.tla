----------------------------- MODULE SvcInstall -----------------------------
(***************************************************************************)
(* The commands of src/svc_install.rs, given in consoles next to the       *)
(* service itself (module Service): install, uninstall, start, stop and    *)
(* query.  Each call to the service manager (SCM) or to the registry is a  *)
(* step, so the service, SCM and the command of another console come in    *)
(* between.  What SCM does is external: it holds the database of services, *)
(* removes a service that is marked for deletion when it has stopped and   *)
(* nobody has it open, restarts it after a crash, starts it at boot.       *)
(***************************************************************************)
EXTENDS Service, Config

CONSTANTS Console,  \* where commands are given
          Allowed,  \* which ones in which console
          Files     \* what a reader of the configuration file may find

Command == {"install", "uninstall", "start", "stop", "query"}

ASSUME AllowedAssumption == Allowed \in [Console -> SUBSET Command]

VARIABLES
  registered,  \* the service in the database of SCM: "marked" for deletion
  recovery,    \* ... with the recovery actions
  source,      \* the registry key of the event log source
  due,         \* SCM is about to start the service
  command,     \* per console: what was typed
  at,          \* ... the next call
  warned       \* ... whether install met a problem it only prints

process     == <<reportVars, checkpoint, statics, stopEvent, worker, scmVars>>
database    == <<registered, recovery, due>>
consoles    == <<command, at, warned>>
installVars == <<database, source, consoles>>
allVars     == <<vars, installVars>>

Label == {"idle", "refused", "create", "recovery", "source", "summary",
          "open", "control", "poll", "delete", "unregister", "start", "query"}

InstallTypeOK ==
  /\ TypeOK
  /\ registered \in {"absent", "installed", "marked"}
  /\ recovery \in BOOLEAN /\ due \in BOOLEAN
  /\ source \in {"absent", "partial", "complete"}
  /\ command \in [Console -> Command \cup {"none"}]
  /\ at \in [Console -> Label]
  /\ warned \in [Console -> BOOLEAN]

ConsolesIdle ==
  /\ command = [c \in Console |-> "none"]
  /\ at = [c \in Console |-> "idle"]
  /\ warned = [c \in Console |-> FALSE]

InstallInit ==
  /\ Init
  /\ registered = "absent" /\ recovery = FALSE /\ due = FALSE /\ source = "absent"
  /\ ConsolesIdle

-----------------------------------------------------------------------------
(***************************************************************************)
(* A command starts: main.rs dispatch, and service_name.                   *)
(***************************************************************************)
service_name(config) == config.name = SERVICE_NAME

\* Only install insists on a file that loads.
Accepted(cmd, file) ==
  /\ cmd = "install" => Loads(file)
  /\ service_name(LoadOrDefault(file))

Begin(c) ==
  /\ at[c] = "idle"
  /\ \E cmd \in Allowed[c], file \in Files :
       /\ command' = [command EXCEPT ![c] = cmd]
       /\ at' = [at EXCEPT ![c] = IF ~Accepted(cmd, file) THEN "refused"
                                  ELSE IF cmd = "install" THEN "create" ELSE "open"]
  /\ UNCHANGED <<vars, database, source, warned>>

Call(c, label) == at' = [at EXCEPT ![c] = label] /\ UNCHANGED <<command, warned>>
Warn(c, label) == /\ at' = [at EXCEPT ![c] = label]
                  /\ warned' = [warned EXCEPT ![c] = TRUE]
                  /\ UNCHANGED command
Leave(c) == /\ at' = [at EXCEPT ![c] = "idle"]
            /\ command' = [command EXCEPT ![c] = "none"]
            /\ warned' = [warned EXCEPT ![c] = FALSE]

Refused(c) == at[c] = "refused" /\ Leave(c) /\ UNCHANGED <<vars, database, source>>

\* The process has a handle of the service.
Holds(c) == at[c] \in {"recovery", "source", "control", "poll", "delete", "start", "query"}

\* SCM removes it with the last handle, before it serves another call.
Removable == registered = "marked" /\ scm.state = "STOPPED" /\ \A c \in Console : ~Holds(c)
Exists == registered # "absent" /\ ~Removable

-----------------------------------------------------------------------------
(***************************************************************************)
(* install                                                                 *)
(***************************************************************************)
CreateService(c) ==
  /\ at[c] = "create" /\ registered = "absent"
  /\ registered' = "installed"
  /\ Call(c, "recovery")
  /\ UNCHANGED <<vars, recovery, due, source>>

\* It exists, is marked for deletion, or the call fails.
CreateFails(c) ==
  /\ at[c] = "create"
  /\ \/ Exists /\ UNCHANGED trouble
     \/ Fault("create")
  /\ Leave(c)
  /\ UNCHANGED <<process, database, source>>

\* Broken variant: a failure is not kept for the list of warnings.
RecoveryFailsSilently(c) ==
  /\ at[c] = "recovery" /\ Fault("recovery")
  /\ Call(c, "source")
  /\ UNCHANGED <<process, database, source>>

\* set_description, then set_recovery.
SetRecovery(c) ==
  /\ at[c] = "recovery"
  /\ recovery' = TRUE
  /\ Call(c, "source")
  /\ UNCHANGED <<vars, registered, due, source>>

\* Either of them fails: the installation goes on.
RecoveryFails(c) ==
  /\ at[c] = "recovery" /\ Fault("recovery")
  /\ recovery' \in {recovery, TRUE}
  /\ Warn(c, "source")
  /\ UNCHANGED <<process, registered, due, source>>

RegisterSource(c) ==
  /\ at[c] = "source"
  /\ source' = "complete"
  /\ Call(c, "summary")
  /\ UNCHANGED <<vars, database>>

\* The key cannot be created, or one of its two values not set.
RegisterSourceFails(c) ==
  /\ at[c] = "source" /\ Fault("source")
  /\ source' \in {source, IF source = "absent" THEN "partial" ELSE source}
  /\ Warn(c, "summary")
  /\ UNCHANGED <<process, database>>

\* With the handles closed: the summary, or an error when there is no log_dir.
InstallEnds(c) == at[c] = "summary" /\ Leave(c) /\ UNCHANGED <<vars, database, source>>

-----------------------------------------------------------------------------
(***************************************************************************)
(* The others begin with open_service.  start, stop and query close their  *)
(* handle after one call, whatever it returns.                             *)
(***************************************************************************)
OpenService(c) ==
  /\ at[c] = "open" /\ Exists
  /\ Call(c, IF command[c] \in {"uninstall", "stop"} THEN "control" ELSE command[c])
  /\ UNCHANGED <<vars, database, source>>

OpenFails(c) ==
  /\ at[c] = "open"
  /\ \/ ~Exists /\ UNCHANGED trouble
     \/ Fault("open")
  /\ Leave(c)
  /\ UNCHANGED <<process, database, source>>

\* start
StartService(c) ==
  /\ at[c] = "start" /\ registered = "installed" /\ ProcessStarts
  /\ due' = FALSE
  /\ Leave(c)
  /\ UNCHANGED <<registered, recovery, source>>

\* It runs already, is marked for deletion, or the call fails.
StartServiceFails(c) ==
  /\ at[c] = "start"
  /\ \/ (alive \/ registered = "marked") /\ UNCHANGED trouble
     \/ Fault("start")
  /\ Leave(c)
  /\ UNCHANGED <<process, database, source>>

\* query
QueryService(c) == at[c] = "query" /\ Leave(c) /\ UNCHANGED <<vars, database, source>>

\* stop, and the first call of uninstall, which then waits.  That the call
\* returns only when the handler has is left to the wait.
ControlStop(c) ==
  /\ at[c] = "control" /\ SendControl("stop")
  /\ IF command[c] = "stop" THEN Leave(c) ELSE Call(c, "poll")
  /\ UNCHANGED <<database, source>>

\* A service that is not running takes no control; SCM does not wait for ever
\* for a handler that is busy.
ControlFails(c) ==
  /\ at[c] = "control"
  /\ \/ (scm.state # "RUNNING" \/ pc["handler"] # "idle") /\ UNCHANGED trouble
     \/ Fault("control")
  /\ IF command[c] = "stop" THEN Leave(c) ELSE Call(c, "delete")
  /\ UNCHANGED <<process, database, source>>

\* Broken variant: there is no deadline.
StoppedAtLast(c) ==
  /\ at[c] = "poll" /\ scm.state = "STOPPED"
  /\ Call(c, "delete")
  /\ UNCHANGED <<vars, database, source>>

\* The service has stopped, or it is past the deadline.
StoppedOrLate(c) ==
  /\ at[c] = "poll"
  /\ Call(c, "delete")
  /\ UNCHANGED <<vars, database, source>>

PollFails(c) ==
  /\ at[c] = "poll" /\ Fault("query")
  /\ Leave(c)
  /\ UNCHANGED <<process, database, source>>

\* The handles are closed at once.
DeleteService(c) ==
  /\ at[c] = "delete" /\ registered = "installed"
  /\ registered' = "marked"
  /\ Call(c, "unregister")
  /\ UNCHANGED <<vars, recovery, due, source>>

DeleteFails(c) ==
  /\ at[c] = "delete"
  /\ \/ registered = "marked" /\ UNCHANGED trouble
     \/ Fault("delete")
  /\ Leave(c)
  /\ UNCHANGED <<process, database, source>>

\* remove_event_source; when it fails a warning is printed.
RemoveSource(c) ==
  /\ at[c] = "unregister"
  /\ \/ source' = "absent" /\ UNCHANGED trouble
     \/ Fault("unregister") /\ UNCHANGED source
  /\ Leave(c)
  /\ UNCHANGED <<process, database>>

\* The console is closed.
Killed(c) ==
  /\ at[c] # "idle" /\ Fault("kill")
  /\ Leave(c)
  /\ UNCHANGED <<process, database, source>>

Proceeds(c) ==
  \/ Refused(c) \/ CreateService(c) \/ CreateFails(c) \/ SetRecovery(c) \/ RecoveryFails(c)
  \/ RegisterSource(c) \/ RegisterSourceFails(c) \/ InstallEnds(c)
  \/ OpenService(c) \/ OpenFails(c) \/ StartService(c) \/ StartServiceFails(c) \/ QueryService(c)
  \/ ControlStop(c) \/ ControlFails(c) \/ StoppedOrLate(c) \/ PollFails(c)
  \/ DeleteService(c) \/ DeleteFails(c) \/ RemoveSource(c)

-----------------------------------------------------------------------------
(***************************************************************************)
(* The service manager and the administrator.                              *)
(***************************************************************************)
Forgotten == registered' = "absent" /\ recovery' = FALSE /\ due' = FALSE

ScmRemoves == Removable /\ Forgotten /\ UNCHANGED <<vars, source, consoles>>

ScmStarts ==
  /\ due /\ registered = "installed" /\ ProcessStarts
  /\ due' = FALSE
  /\ UNCHANGED <<registered, recovery, source, consoles>>

ScmSends == /\ SendControl("stop") \/ SendControl("interrogate")
            /\ UNCHANGED installVars

ServiceCrashes ==
  /\ Crash
  /\ due' = (registered = "installed" /\ recovery)
  /\ UNCHANGED <<registered, recovery, source, consoles>>

\* Power loss included.
Reboot ==
  /\ Fault("reboot") /\ Gone
  /\ IF registered = "marked" THEN Forgotten
     ELSE due' = (registered = "installed") /\ UNCHANGED <<registered, recovery>>
  /\ command' = [c \in Console |-> "none"]
  /\ at' = [c \in Console |-> "idle"]
  /\ warned' = [c \in Console |-> FALSE]
  /\ UNCHANGED <<source>>

\* Config::load in ServiceMain.
LoadConfig == alive /\ \E file \in Files : IF Loads(file) THEN ConfigLoads ELSE ConfigError

InstallNext ==
  \/ (Process \/ LoadConfig) /\ UNCHANGED installVars
  \/ \E c \in Console : Begin(c) \/ Proceeds(c) \/ Killed(c)
  \/ ScmRemoves \/ ScmStarts \/ ScmSends \/ ServiceCrashes \/ Reboot

(***************************************************************************)
(* Fairness: as in Service; a command that was given is carried on; and    *)
(* SCM does what is due.                                                   *)
(***************************************************************************)
Unasked(A) == A /\ trouble' = trouble /\ UNCHANGED installVars

InstallFairness ==
  /\ WF_allVars(Unasked((alive /\ Proceed) \/ LoadConfig))
  /\ WF_allVars(Unasked(alive /\ Handler))
  /\ WF_allVars(Unasked(alive /\ (WorkerRuns \/ WorkerStops)))
  /\ WF_allVars(Unasked(ProcessExits))
  /\ \A c \in Console : WF_allVars(Proceeds(c) /\ trouble' = trouble)
  /\ WF_allVars(ScmRemoves \/ ScmStarts)

InstallSpec == InstallInit /\ [][InstallNext]_allVars /\ InstallFairness

-----------------------------------------------------------------------------
(***************************************************************************)
(* When SCM no longer knows the service nothing of it dials any more, no   *)
(* matter at which moment it was deleted (svc_install.rs 162-198): nobody  *)
(* could stop it.                                                          *)
(***************************************************************************)
NoGhostDialler == registered = "absent" /\ alive => worker \in {"none", "ended", "failed"}

(***************************************************************************)
(* An install that comes to its end without a warning has left a service   *)
(* with recovery actions and an event log source, whatever an earlier      *)
(* install or uninstall left half done (svc_install.rs 116-145).           *)
(***************************************************************************)
CompleteInstall ==
  [][\A c \in Console : at[c] = "summary" /\ ~warned[c] /\ at'[c] = "idle"
       => recovery /\ source = "complete"]_allVars

(***************************************************************************)
(* Uninstalling takes effect once the service was told to stop: SCM        *)
(* removes it, whatever state it was in and whether or not the command     *)
(* waited long enough (svc_install.rs 167-194).  Two consoles that take    *)
(* turns in opening the service could put that off for ever.               *)
(***************************************************************************)
OneConsole == \E c \in Console : <>[](\A d \in Console \ {c} : at[d] = "idle")

RemovalTakesEffect ==
  OneConsole => (registered = "marked" /\ STOP_REQUESTED ~> registered # "marked")

(***************************************************************************)
(* No command hangs: above all uninstall, when the service it waits for is *)
(* started again, by another console or after a crash (svc_install.rs      *)
(* 168-182).                                                               *)
(***************************************************************************)
CommandsEnd == \A c \in Console : at[c] # "idle" ~> at[c] = "idle"

-----------------------------------------------------------------------------
(***************************************************************************)
(* "Everything below must work even when the configuration file is broken, *)
(* otherwise a bad file could make the service unremovable" (main.rs       *)
(* 80-81): uninstall is never turned down because of the file.             *)
(***************************************************************************)
RemovableWhateverTheFile ==
  \A c \in Console : command[c] = "uninstall" => at[c] # "refused"

(***************************************************************************)
(* uninstall stops the service and then deletes it (docs/DESIGN.md 734):   *)
(* what is left to do for it is not to wait for the service.  It fails if  *)
(* the service is starting, when it takes no control, or past the deadline.*)
(***************************************************************************)
UninstalledMeansStopped ==
  \A c \in Console : at[c] = "unregister" => scm.state \in {"STOP_PENDING", "STOPPED"}
=============================================================================
