------------------------------ MODULE Service ------------------------------
(***************************************************************************)
(* The life of the Windows service (src/service.rs): ServiceMain on one    *)
(* thread, the control handler on the dispatcher's thread, and between     *)
(* them four statics and the stop event.  report() is two steps, since it  *)
(* stores the state before it tells the service manager (SCM).  The worker *)
(* is seen from outside here; module Dialer is its inside.                 *)
(*                                                                         *)
(* What SCM does is external: it sends a control only to a service it      *)
(* believes to be running, one at a time, ends the dispatcher when the     *)
(* service has reported STOPPED, and starts a new process on demand: when  *)
(* and why, and what the configuration file holds, is in SvcInstall.       *)
(***************************************************************************)
EXTENDS Integers

CONSTANTS Faults,        \* the kinds of failures that may happen
          MaxTrouble,    \* bound: how many of them altogether
          CheckpointMax  \* u32::MAX, where the checkpoint saturates

ASSUME BoundsAssumption == MaxTrouble \in Nat /\ CheckpointMax \in Nat \ {0, 1, 2}

Thread == {"main", "handler"}
State  == {"START_PENDING", "RUNNING", "STOP_PENDING", "STOPPED"}
Status == [state : State, checkpoint : 0..CheckpointMax]

VARIABLES
  pc,              \* where each thread is
  status, return,  \* report() in progress: what it reports, where it goes on
  checkpoint,      \* the local counter of service_main_impl
  STOP_EVENT, STATUS_HANDLE, CURRENT_STATE, STOP_REQUESTED,  \* the statics
  stopEvent,       \* the event object STOP_EVENT names
  worker,          \* the worker thread
  scm,             \* the status SCM has of the service
  dismissed,       \* SCM has told the dispatcher to end
  alive,           \* there is a process
  trouble          \* failures still to come

reportVars == <<pc, status, return>>
statics    == <<STOP_EVENT, STATUS_HANDLE, CURRENT_STATE, STOP_REQUESTED>>
scmVars    == <<scm, dismissed, alive>>
vars == <<reportVars, checkpoint, statics, stopEvent, worker, scmVars, trouble>>

ReportPC  == {"store", "publish"}
MainPC    == {"create", "register", "load", "spawn", "poll", "sleep", "close", "failed", "returned"} \cup ReportPC
HandlerPC == {"idle", "stop", "signal", "interrogate"} \cup ReportPC

Reports(state, n) == [state |-> state, checkpoint |-> n]
Fault(f) == f \in Faults /\ trouble > 0 /\ trouble' = trouble - 1

TypeOK ==
  /\ pc \in [Thread -> MainPC \cup HandlerPC]
  /\ pc["main"] \in MainPC /\ pc["handler"] \in HandlerPC
  /\ status \in [Thread -> Status]
  /\ return \in [Thread -> MainPC \cup HandlerPC]
  /\ checkpoint \in 2..CheckpointMax
  /\ STOP_EVENT \in BOOLEAN /\ STATUS_HANDLE \in BOOLEAN \* not zero
  /\ CURRENT_STATE \in State /\ STOP_REQUESTED \in BOOLEAN
  /\ stopEvent \in {"none", "clear", "set", "closed"}
  /\ worker \in {"none", "starting", "running", "ended", "failed"}
  /\ scm \in Status /\ dismissed \in BOOLEAN /\ alive \in BOOLEAN
  /\ trouble \in 0..MaxTrouble

FreshPC     == [t \in Thread |-> IF t = "main" THEN "create" ELSE "idle"]
FreshStatus == [t \in Thread |-> Reports("START_PENDING", 0)]

Init ==
  /\ pc = FreshPC /\ return = FreshPC /\ status = FreshStatus
  /\ checkpoint = 2
  /\ STOP_EVENT = FALSE /\ STATUS_HANDLE = FALSE
  /\ CURRENT_STATE = "START_PENDING" /\ STOP_REQUESTED = FALSE
  /\ stopEvent = "none" /\ worker = "none"
  /\ scm = Reports("STOPPED", 0) /\ dismissed = FALSE /\ alive = FALSE
  /\ trouble = MaxTrouble

-----------------------------------------------------------------------------
(***************************************************************************)
(* report(): does nothing before the status handle is known.               *)
(***************************************************************************)
Goto(t, label) == pc' = [pc EXCEPT ![t] = label] /\ UNCHANGED <<status, return>>

Report(t, what, then) ==
  /\ pc' = [pc EXCEPT ![t] = "store"]
  /\ status' = [status EXCEPT ![t] = what]
  /\ return' = [return EXCEPT ![t] = then]

\* Broken variant: the state is sent to SCM but not kept for an interrogation.
StoreStateForgets(t) ==
  /\ pc[t] = "store"
  /\ Goto(t, IF STATUS_HANDLE THEN "publish" ELSE return[t])
  /\ UNCHANGED <<checkpoint, statics, stopEvent, worker, scmVars, trouble>>

StoreState(t) ==
  /\ pc[t] = "store"
  /\ IF STATUS_HANDLE
     THEN CURRENT_STATE' = status[t].state /\ Goto(t, "publish")
     ELSE UNCHANGED CURRENT_STATE /\ Goto(t, return[t])
  /\ UNCHANGED <<checkpoint, STOP_EVENT, STATUS_HANDLE, STOP_REQUESTED, stopEvent, worker, scmVars, trouble>>

\* SetServiceStatus.
PublishStatus(t) ==
  /\ pc[t] = "publish"
  /\ scm' = status[t]
  /\ dismissed' = (dismissed \/ status[t].state = "STOPPED")
  /\ Goto(t, return[t])
  /\ UNCHANGED <<checkpoint, statics, stopEvent, worker, alive, trouble>>

-----------------------------------------------------------------------------
(***************************************************************************)
(* service_main and service_main_impl.                                     *)
(***************************************************************************)
\* Broken variant: the handler learns of the event when the worker is there.
CreateStopEventUnpublished ==
  /\ pc["main"] = "create"
  /\ stopEvent' = "clear"
  /\ Goto("main", "register")
  /\ UNCHANGED <<checkpoint, statics, worker, scmVars, trouble>>

CreateStopEvent ==
  /\ pc["main"] = "create"
  /\ stopEvent' = "clear" /\ STOP_EVENT' = TRUE
  /\ Goto("main", "register")
  /\ UNCHANGED <<checkpoint, STATUS_HANDLE, CURRENT_STATE, STOP_REQUESTED, worker, scmVars, trouble>>

RegisterHandler ==
  /\ pc["main"] = "register"
  /\ STATUS_HANDLE' = TRUE
  /\ Report("main", Reports("START_PENDING", 1), "load")
  /\ UNCHANGED <<checkpoint, STOP_EVENT, CURRENT_STATE, STOP_REQUESTED, stopEvent, worker, scmVars, trouble>>

mainFrame == <<checkpoint, statics, stopEvent, scmVars>>

\* The event, the handler or the directory of the executable cannot be had.
StartFails ==
  /\ \/ pc["main"] = "create" /\ Fault("event")
     \/ pc["main"] = "register" /\ Fault("register")
     \/ pc["main"] = "load" /\ Fault("exe_dir")
  /\ Goto("main", "failed")
  /\ UNCHANGED <<mainFrame, worker>>

ConfigLoads ==
  /\ pc["main"] = "load"
  /\ Report("main", Reports("RUNNING", 0), "spawn")
  /\ UNCHANGED <<mainFrame, worker, trouble>>

\* STOPPED is reported here and once more by service_main.
ConfigError ==
  /\ pc["main"] = "load"
  /\ Report("main", Reports("STOPPED", 0), "failed")
  /\ UNCHANGED <<mainFrame, worker, trouble>>

SpawnWorker ==
  /\ pc["main"] = "spawn"
  /\ worker' = "starting"
  /\ Goto("main", "poll")
  /\ UNCHANGED <<mainFrame, trouble>>

SpawnFails ==
  /\ pc["main"] = "spawn" /\ Fault("spawn")
  /\ worker' = "failed"
  /\ Goto("main", "failed")
  /\ UNCHANGED mainFrame

is_finished == worker \in {"ended", "failed"}

\* Broken variant: a stop request is reason enough to report STOPPED.
WorkerFinishedOrStopping ==
  /\ pc["main"] = "poll" /\ (is_finished \/ STOP_REQUESTED)
  /\ Report("main", Reports("STOPPED", 0), "close")
  /\ UNCHANGED <<mainFrame, worker, trouble>>

WorkerFinished ==
  /\ pc["main"] = "poll" /\ is_finished
  /\ Report("main", Reports("STOPPED", 0), "close")
  /\ UNCHANGED <<mainFrame, worker, trouble>>

WorkerBusy ==
  /\ pc["main"] = "poll" /\ ~is_finished
  /\ Goto("main", "sleep")
  /\ UNCHANGED <<mainFrame, worker, trouble>>

\* Broken variant: the checkpoint is never capped.
SecondPassesUncapped ==
  /\ pc["main"] = "sleep"
  /\ checkpoint' = IF STOP_REQUESTED THEN checkpoint + 1 ELSE checkpoint
  /\ IF STOP_REQUESTED THEN Report("main", Reports("STOP_PENDING", checkpoint'), "poll")
                       ELSE Goto("main", "poll")
  /\ UNCHANGED <<statics, stopEvent, worker, scmVars, trouble>>

\* The second of sleep is over.
SecondPasses ==
  /\ pc["main"] = "sleep"
  /\ IF STOP_REQUESTED
     THEN /\ checkpoint' = IF checkpoint = CheckpointMax THEN checkpoint ELSE checkpoint + 1
          /\ Report("main", Reports("STOP_PENDING", checkpoint'), "poll")
     ELSE Goto("main", "poll") /\ UNCHANGED checkpoint
  /\ UNCHANGED <<statics, stopEvent, worker, scmVars, trouble>>

CloseStopEvent ==
  /\ pc["main"] = "close"
  /\ stopEvent' = "closed"
  /\ Goto("main", "returned")
  /\ UNCHANGED <<checkpoint, statics, worker, scmVars, trouble>>

\* Broken variant: the error is only logged.
LogFailure ==
  /\ pc["main"] = "failed"
  /\ Goto("main", "returned")
  /\ UNCHANGED <<mainFrame, worker, trouble>>

\* service_main on an error.
ReportFailure ==
  /\ pc["main"] = "failed"
  /\ Report("main", Reports("STOPPED", 0), "returned")
  /\ UNCHANGED <<mainFrame, worker, trouble>>

\* What does not depend on the configuration file.
Proceed == \/ StoreState("main") \/ PublishStatus("main")
           \/ CreateStopEvent \/ RegisterHandler \/ StartFails
           \/ SpawnWorker \/ SpawnFails \/ WorkerFinished \/ WorkerBusy \/ SecondPasses
           \/ CloseStopEvent \/ ReportFailure

Main == Proceed \/ ConfigLoads \/ ConfigError

-----------------------------------------------------------------------------
(***************************************************************************)
(* control_handler.                                                        *)
(***************************************************************************)
handlerFrame == <<checkpoint, STOP_EVENT, STATUS_HANDLE, CURRENT_STATE, worker, scmVars, trouble>>

HandleStop ==
  /\ pc["handler"] = "stop"
  /\ STOP_REQUESTED' = TRUE
  /\ Report("handler", Reports("STOP_PENDING", 1), "signal")
  /\ UNCHANGED <<handlerFrame, stopEvent>>

SignalStop ==
  /\ pc["handler"] = "signal"
  /\ stopEvent' = IF STOP_EVENT /\ stopEvent = "clear" THEN "set" ELSE stopEvent
  /\ Goto("handler", "idle")
  /\ UNCHANGED <<handlerFrame, STOP_REQUESTED>>

HandleInterrogate ==
  /\ pc["handler"] = "interrogate"
  /\ Report("handler", Reports(CURRENT_STATE, 0), "idle")
  /\ UNCHANGED <<handlerFrame, STOP_REQUESTED, stopEvent>>

Handler == \/ StoreState("handler") \/ PublishStatus("handler")
           \/ HandleStop \/ SignalStop \/ HandleInterrogate

-----------------------------------------------------------------------------
(***************************************************************************)
(* The worker thread: run() fails before its loop, or ends after the stop  *)
(* event is set.                                                           *)
(***************************************************************************)
workerFrame == <<reportVars, mainFrame>>

WorkerRuns  == worker = "starting" /\ worker' = "running" /\ UNCHANGED <<workerFrame, trouble>>
WorkerFails == worker = "starting" /\ Fault("worker") /\ worker' = "failed" /\ UNCHANGED workerFrame
WorkerStops == /\ worker = "running" /\ stopEvent = "set"
               /\ worker' = "ended"
               /\ UNCHANGED <<workerFrame, trouble>>

(***************************************************************************)
(* The service manager.                                                    *)
(***************************************************************************)
SendControl(control) ==
  /\ alive /\ scm.state = "RUNNING" /\ pc["handler"] = "idle"
  /\ Goto("handler", control)
  /\ UNCHANGED <<mainFrame, worker, trouble>>

Gone == /\ alive' = FALSE
        /\ scm' = Reports("STOPPED", 0)
        /\ pc' = FreshPC /\ return' = FreshPC /\ status' = FreshStatus
        /\ checkpoint' = 2
        /\ STOP_EVENT' = FALSE /\ STATUS_HANDLE' = FALSE
        /\ CURRENT_STATE' = "START_PENDING" /\ STOP_REQUESTED' = FALSE
        /\ stopEvent' = "none" /\ worker' = "none" /\ dismissed' = FALSE

\* The dispatcher returns, and with main() the process ends.
ProcessExits == alive /\ dismissed /\ pc["handler"] = "idle" /\ Gone /\ UNCHANGED trouble

\* Killed, or aborted by a panic.
Crash == alive /\ Fault("crash") /\ Gone

\* By hand, at boot, or by the recovery actions.
ProcessStarts ==
  /\ ~alive /\ alive' = TRUE
  /\ scm' = Reports("START_PENDING", 0)
  /\ UNCHANGED <<reportVars, checkpoint, statics, stopEvent, worker, dismissed, trouble>>

\* What the process does, the configuration file aside.
Process == \/ alive /\ (Proceed \/ Handler \/ WorkerRuns \/ WorkerFails \/ WorkerStops)
           \/ ProcessExits

Next == \/ Process
        \/ alive /\ (ConfigLoads \/ ConfigError)
        \/ SendControl("stop") \/ SendControl("interrogate")
        \/ Crash \/ ProcessStarts

(***************************************************************************)
(* Fairness: both threads are scheduled, and the worker ends once the stop *)
(* event is set (module Dialer, StopCompletes).  No failure is due, and    *)
(* SCM need not send anything.                                             *)
(***************************************************************************)
Fairness == /\ WF_vars(alive /\ Main /\ trouble' = trouble)
            /\ WF_vars(alive /\ Handler)
            /\ WF_vars(alive /\ WorkerRuns) /\ WF_vars(alive /\ WorkerStops)
            /\ WF_vars(ProcessExits)

Spec == Init /\ [][Next]_vars /\ Fairness

-----------------------------------------------------------------------------
(***************************************************************************)
(* A stop request sticks (service.rs 101-102, 237-250): once the handler   *)
(* has returned, the event is set, even if the worker is not there yet; a  *)
(* worker that starts later still finds it.                                *)
(***************************************************************************)
StopSticks ==
  alive /\ STOP_REQUESTED /\ pc["handler"] \in {"idle", "interrogate"} => stopEvent # "clear"

(***************************************************************************)
(* SCM is told STOPPED only when no worker is left to dial (service.rs     *)
(* 153-170).                                                               *)
(***************************************************************************)
StoppedMeansIdle == alive /\ dismissed => worker \in {"none", "ended", "failed"}

(***************************************************************************)
(* ServiceMain never returns without STOPPED having reached SCM, whichever *)
(* way it failed (service.rs 91-97, 120-135, 170): otherwise the process   *)
(* would live on without a service.  It takes a status handle to report.   *)
(***************************************************************************)
EndIsReported == alive /\ pc["main"] = "returned" /\ STATUS_HANDLE => dismissed

Rank(state) == CASE state = "START_PENDING" -> 0 [] state = "RUNNING" -> 1
                 [] state = "STOP_PENDING" -> 2 [] state = "STOPPED" -> 3

(***************************************************************************)
(* The reports of the two threads reach SCM in the order of the diagram in *)
(* service.rs 8-13, unless the service gives up by itself after it was     *)
(* reported running.                                                       *)
(***************************************************************************)
OrderedUnlessFailed ==
  [][alive /\ alive' /\ worker # "failed" => Rank(scm'.state) >= Rank(scm.state)]_vars

(***************************************************************************)
(* The handler signals an event that is still open (service.rs 241-247,    *)
(* 172-174), under the same condition.                                     *)
(***************************************************************************)
SignalsOpenEvent ==
  alive /\ pc["handler"] = "signal" /\ worker # "failed" => stopEvent # "closed"

(***************************************************************************)
(* A stop that SCM delivered ends in STOPPED, whatever the threads were    *)
(* doing (service.rs 150-170).                                             *)
(***************************************************************************)
StopEndsInStopped == pc["handler"] = "stop" ~> scm.state = "STOPPED"

-----------------------------------------------------------------------------
(***************************************************************************)
(* The diagram of service.rs 8-13: nothing leads out of STOPPED.  It fails *)
(* when the worker gives up by itself while a control is handled.          *)
(***************************************************************************)
StoppedIsFinal == [][alive /\ alive' /\ scm.state = "STOPPED" => scm'.state = "STOPPED"]_vars
=============================================================================
