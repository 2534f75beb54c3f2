-------------------------- MODULE SvcInstallProofs --------------------------
(***************************************************************************)
(* The safety properties of the service under the commands, for any number *)
(* of consoles, any assignment of commands to them and any files.          *)
(***************************************************************************)
EXTENDS SvcInstall, ServiceProofs

USE BoundsAssumption, AllowedAssumption
USE DEF Thread, State, Status, ReportPC, MainPC, HandlerPC, Reports

(***************************************************************************)
(* To the service a step of a command is a step of SCM, or nothing but a   *)
(* failure less to come.                                                   *)
(***************************************************************************)
FailureElsewhere == UNCHANGED process /\ trouble' \in 0..MaxTrouble

LEMMA FaultElsewhere ==
  ASSUME TypeOK, NEW f, Fault(f), UNCHANGED process
  PROVE  FailureElsewhere
  BY DEF Fault, TypeOK, FailureElsewhere

LEMMA CommandStep ==
  ASSUME TypeOK, NEW c \in Console, Proceeds(c)
  PROVE  UNCHANGED vars \/ FailureElsewhere \/ ProcessStarts \/ SendControl("stop")
<1> USE DEF vars, process
<1>1. CASE Refused(c) \/ CreateService(c) \/ SetRecovery(c) \/ RegisterSource(c) \/ InstallEnds(c)
  BY <1>1 DEF Refused, CreateService, SetRecovery, RegisterSource, InstallEnds
<1>2. CASE CreateFails(c) \/ RecoveryFails(c) \/ RegisterSourceFails(c)
  BY <1>2, FaultElsewhere DEF CreateFails, RecoveryFails, RegisterSourceFails
<1>3. CASE OpenService(c) \/ QueryService(c) \/ StoppedOrLate(c) \/ DeleteService(c)
  BY <1>3 DEF OpenService, QueryService, StoppedOrLate, DeleteService
<1>4. CASE OpenFails(c) \/ StartServiceFails(c) \/ ControlFails(c) \/ PollFails(c)
  BY <1>4, FaultElsewhere DEF OpenFails, StartServiceFails, ControlFails, PollFails
<1>5. CASE DeleteFails(c) \/ RemoveSource(c)
  BY <1>5, FaultElsewhere DEF DeleteFails, RemoveSource
<1>6. CASE StartService(c) \/ ControlStop(c)
  BY <1>6 DEF StartService, ControlStop
<1> QED
  BY <1>1, <1>2, <1>3, <1>4, <1>5, <1>6 DEF Proceeds

LEMMA ServiceStep ==
  ASSUME TypeOK, [InstallNext]_allVars
  PROVE  [Next]_vars \/ FailureElsewhere \/ (Gone /\ trouble' \in 0..MaxTrouble)
<1>1. CASE UNCHANGED allVars
  BY <1>1 DEF allVars, vars
<1>2. CASE (Process \/ LoadConfig) /\ UNCHANGED installVars
  BY <1>2 DEF LoadConfig, Next
<1>3. ASSUME NEW c \in Console, Begin(c) PROVE UNCHANGED vars
  BY <1>3 DEF Begin, vars
<1>4. ASSUME NEW c \in Console, Proceeds(c) PROVE [Next]_vars \/ FailureElsewhere
  BY <1>4, CommandStep DEF Next
<1>5. ASSUME NEW c \in Console, Killed(c) PROVE FailureElsewhere
  BY <1>5, FaultElsewhere DEF Killed, process
<1>6. CASE ScmRemoves \/ ScmStarts \/ ScmSends \/ ServiceCrashes
  BY <1>6 DEF ScmRemoves, ScmStarts, ScmSends, ServiceCrashes, Next, vars
<1>7. CASE Reboot
  BY <1>7 DEF Reboot, Fault, TypeOK
<1> QED
  BY <1>1, <1>2, <1>3, <1>4, <1>5, <1>6, <1>7 DEF InstallNext

LEMMA ElsewhereStep ==
  ASSUME IInv, FailureElsewhere
  PROVE  IInv'
  BY DEF FailureElsewhere, process, reportVars, statics, scmVars, TypeOK, IInv, NoProcess, Routes,
     Progress, StoppedSaid, Finished, Controls, Order, HasRun, Ahead, Reporting

LEMMA ServiceInvariance == InstallSpec => []IInv
<1>1. InstallInit => IInv
  BY IInvInit DEF InstallInit
<1>2. IInv /\ [InstallNext]_allVars => IInv'
  BY ServiceStep, IInvInductive, ElsewhereStep, GoneStep DEF IInv
<1> QED
  BY <1>1, <1>2, PTL DEF InstallSpec

-----------------------------------------------------------------------------
(***************************************************************************)
(* A stop request that was handled is in the event, whether the worker is  *)
(* there yet or not (service.rs 101-102, 237-250).                         *)
(***************************************************************************)
THEOREM StopAlwaysSticks == InstallSpec => []StopSticks
  BY ServiceInvariance, Consequences, PTL

(***************************************************************************)
(* SCM hears STOPPED only when no worker is left to dial (service.rs       *)
(* 153-170).                                                               *)
(***************************************************************************)
THEOREM StoppedAlwaysIdle == InstallSpec => []StoppedMeansIdle
  BY ServiceInvariance, Consequences, PTL

(***************************************************************************)
(* ServiceMain does not return before SCM has heard STOPPED (service.rs    *)
(* 91-97, 120-135, 170).                                                   *)
(***************************************************************************)
THEOREM EndAlwaysReported == InstallSpec => []EndIsReported
  BY ServiceInvariance, Consequences, PTL

(***************************************************************************)
(* The handler signals an open event, unless the worker gave up by itself  *)
(* (service.rs 241-247, 172-174).                                          *)
(***************************************************************************)
THEOREM EventOpenWhenSignalled == InstallSpec => []SignalsOpenEvent
  BY ServiceInvariance, Consequences, PTL

(***************************************************************************)
(* The reports of the two threads reach SCM in the order of service.rs     *)
(* 8-13, unless the worker gave up by itself.                              *)
(***************************************************************************)
THEOREM ReportsInOrder == InstallSpec => OrderedUnlessFailed
<1> DEFINE A == alive /\ alive' /\ worker # "failed" => Rank(scm'.state) >= Rank(scm.state)
<1>1. IInv /\ [InstallNext]_allVars => [A]_vars
  <2> SUFFICES ASSUME IInv, [InstallNext]_allVars, alive, alive', worker # "failed"
               PROVE  Rank(scm'.state) >= Rank(scm.state)
    OBVIOUS
  <2>1. CASE [Next]_vars
    BY <2>1, StepInOrder
  <2>2. CASE FailureElsewhere
    <3>1. scm' = scm /\ scm.state \in State
      BY <2>2 DEF FailureElsewhere, process, scmVars, IInv, TypeOK
    <3> QED
      BY <3>1 DEF Rank
  <2>3. CASE Gone
    BY <2>3 DEF Gone
  <2> QED
    BY <2>1, <2>2, <2>3, ServiceStep DEF IInv
<1> QED
  BY <1>1, ServiceInvariance, PTL DEF InstallSpec, OrderedUnlessFailed

-----------------------------------------------------------------------------
(***************************************************************************)
(* The types of what the commands keep.                                    *)
(***************************************************************************)
ConsoleType ==
  /\ registered \in {"absent", "installed", "marked"}
  /\ recovery \in BOOLEAN /\ due \in BOOLEAN
  /\ source \in {"absent", "partial", "complete"}
  /\ command \in [Console -> Command \cup {"none"}]
  /\ at \in [Console -> Label]
  /\ warned \in [Console -> BOOLEAN]
  /\ \A c \in Console : at[c] = "open" => command[c] \in Command \ {"install"}

LEMMA ConsoleTypeStep ==
  ASSUME TypeOK, ConsoleType, [InstallNext]_allVars
  PROVE  ConsoleType'
<1> USE DEF ConsoleType, Command, Label
<1>1. CASE UNCHANGED allVars
  BY <1>1 DEF allVars, installVars, database, consoles
<1>2. CASE (Process \/ LoadConfig) /\ UNCHANGED installVars
  BY <1>2 DEF installVars, database, consoles
<1>3. ASSUME NEW c \in Console, Begin(c) PROVE ConsoleType'
  BY <1>3 DEF Begin, database
<1>4. ASSUME NEW c \in Console, Proceeds(c) PROVE ConsoleType'
  <2> USE DEF Leave, Call, Warn, database
  <2>1. CASE Refused(c) \/ CreateService(c) \/ SetRecovery(c) \/ RegisterSource(c) \/ InstallEnds(c)
    BY <2>1 DEF Refused, CreateService, SetRecovery, RegisterSource, InstallEnds
  <2>2. CASE CreateFails(c) \/ RecoveryFails(c) \/ RegisterSourceFails(c)
    BY <2>2 DEF CreateFails, RecoveryFails, RegisterSourceFails
  <2>3. CASE OpenService(c) \/ QueryService(c) \/ StoppedOrLate(c) \/ DeleteService(c)
    BY <2>3 DEF OpenService, QueryService, StoppedOrLate, DeleteService
  <2>4. CASE OpenFails(c) \/ StartServiceFails(c) \/ ControlFails(c) \/ PollFails(c)
    BY <2>4 DEF OpenFails, StartServiceFails, ControlFails, PollFails
  <2>5. CASE DeleteFails(c) \/ RemoveSource(c)
    BY <2>5 DEF DeleteFails, RemoveSource
  <2>6. CASE StartService(c) \/ ControlStop(c)
    BY <2>6 DEF StartService, ControlStop
  <2> QED
    BY <1>4, <2>1, <2>2, <2>3, <2>4, <2>5, <2>6 DEF Proceeds
<1>5. ASSUME NEW c \in Console, Killed(c) PROVE ConsoleType'
  BY <1>5 DEF Killed, Leave, database
<1>6. CASE ScmRemoves \/ ScmStarts \/ ScmSends \/ ServiceCrashes
  BY <1>6 DEF ScmRemoves, ScmStarts, ScmSends, ServiceCrashes, Forgotten, installVars, database, consoles
<1>7. CASE Reboot
  BY <1>7 DEF Reboot, Forgotten
<1> QED
  BY <1>1, <1>2, <1>3, <1>4, <1>5, <1>6, <1>7 DEF InstallNext

(***************************************************************************)
(* Every variable of the service and of the commands keeps its type; above *)
(* all the checkpoint stays within its 32 bits (service.rs 153-159).       *)
(***************************************************************************)
THEOREM InstallTypeCorrect == InstallSpec => []InstallTypeOK
<1>1. InstallInit => ConsoleType
  BY DEF InstallInit, ConsolesIdle, ConsoleType, Label
<1>2. IInv /\ ConsoleType /\ [InstallNext]_allVars => ConsoleType'
  BY ConsoleTypeStep DEF IInv
<1>3. IInv /\ ConsoleType => InstallTypeOK
  BY DEF IInv, ConsoleType, InstallTypeOK
<1> QED
  BY <1>1, <1>2, <1>3, ServiceInvariance, PTL DEF InstallSpec

(***************************************************************************)
(* A service that SCM no longer knows is only the rest of a process that   *)
(* has said STOPPED.                                                       *)
(***************************************************************************)
RemovedLast == registered = "absent" /\ alive => dismissed

LEMMA DismissedStays ==
  ASSUME TypeOK, [InstallNext]_allVars, alive, alive', dismissed
  PROVE  dismissed'
<1>1. CASE [Next]_vars
  BY <1>1 DEF Next, vars, Process, Proceed, Handler, StoreState, PublishStatus, CreateStopEvent, RegisterHandler,
     StartFails, SpawnWorker, SpawnFails, WorkerFinished, WorkerBusy, SecondPasses, CloseStopEvent, ReportFailure,
     ConfigLoads, ConfigError, HandleStop, SignalStop, HandleInterrogate, WorkerRuns, WorkerFails,
     WorkerStops, SendControl, ProcessExits, Crash, ProcessStarts, Gone,
     mainFrame, handlerFrame, workerFrame, scmVars
<1>2. CASE FailureElsewhere
  BY <1>2 DEF FailureElsewhere, process, scmVars
<1>3. CASE Gone
  BY <1>3 DEF Gone
<1> QED
  BY <1>1, <1>2, <1>3, ServiceStep

\* Only an installed service is started.
LEMMA StartedInstalled ==
  ASSUME TypeOK, [InstallNext]_allVars, ~alive, alive'
  PROVE  registered = "installed" /\ registered' = "installed"
<1> USE DEF process, vars, scmVars
<1>1. CASE UNCHANGED allVars
  BY <1>1 DEF allVars
<1>2. CASE (Process \/ LoadConfig) /\ UNCHANGED installVars
  BY <1>2 DEF Process, LoadConfig, ProcessExits
<1>3. ASSUME NEW c \in Console, Begin(c) \/ Killed(c) PROVE FALSE
  BY <1>3 DEF Begin, Killed
<1>4. ASSUME NEW c \in Console, Proceeds(c) PROVE registered = "installed" /\ registered' = "installed"
  BY <1>4 DEF Proceeds, Refused, CreateService, SetRecovery, RegisterSource, InstallEnds, CreateFails,
     RecoveryFails, RegisterSourceFails, OpenService, QueryService, StoppedOrLate, DeleteService, OpenFails,
     StartServiceFails, ControlFails, PollFails, DeleteFails, RemoveSource, StartService, ControlStop, SendControl
<1>5. CASE ScmRemoves \/ ScmSends \/ ServiceCrashes \/ Reboot
  BY <1>5 DEF ScmRemoves, ScmSends, SendControl, ServiceCrashes, Crash, Gone, Reboot
<1>6. CASE ScmStarts
  BY <1>6 DEF ScmStarts
<1> QED
  BY <1>1, <1>2, <1>3, <1>4, <1>5, <1>6 DEF InstallNext

\* Only SCM removes it, when it has stopped.
LEMMA RemovedStopped ==
  ASSUME [InstallNext]_allVars, registered # "absent", registered' = "absent", alive'
  PROVE  scm.state = "STOPPED" /\ UNCHANGED vars
<1>1. CASE UNCHANGED allVars \/ ((Process \/ LoadConfig) /\ UNCHANGED installVars)
  BY <1>1 DEF allVars, installVars, database
<1>2. ASSUME NEW c \in Console, Begin(c) \/ Killed(c) PROVE FALSE
  BY <1>2 DEF Begin, Killed, database
<1>3. ASSUME NEW c \in Console, Proceeds(c) PROVE FALSE
  BY <1>3 DEF Proceeds, Refused, CreateService, SetRecovery, RegisterSource, InstallEnds, CreateFails,
     RecoveryFails, RegisterSourceFails, OpenService, QueryService, StoppedOrLate, DeleteService, OpenFails,
     StartServiceFails, ControlFails, PollFails, DeleteFails, RemoveSource, StartService, ControlStop, database
<1>4. CASE ScmStarts \/ ScmSends \/ ServiceCrashes \/ Reboot
  BY <1>4 DEF ScmStarts, ScmSends, ServiceCrashes, Reboot, Gone, installVars, database
<1>5. CASE ScmRemoves
  BY <1>5 DEF ScmRemoves, Removable
<1> QED
  BY <1>1, <1>2, <1>3, <1>4, <1>5 DEF InstallNext

(***************************************************************************)
(* No worker dials for a service that SCM no longer knows (svc_install.rs  *)
(* 162-198).                                                               *)
(***************************************************************************)
THEOREM NeverAGhost == InstallSpec => []NoGhostDialler
<1>1. InstallInit => RemovedLast
  BY DEF InstallInit, Init, RemovedLast
<1>2. IInv /\ RemovedLast /\ [InstallNext]_allVars => RemovedLast'
  <2> SUFFICES ASSUME IInv, RemovedLast, [InstallNext]_allVars, registered' = "absent", alive'
               PROVE  dismissed'
    BY DEF RemovedLast
  <2>1. alive
    BY StartedInstalled DEF IInv
  <2>2. CASE registered = "absent"
    BY <2>1, <2>2, DismissedStays DEF IInv, RemovedLast
  <2>3. CASE registered # "absent"
    <3>1. scm.state = "STOPPED"
      BY <2>3, RemovedStopped
    <3>2. dismissed
      BY <2>1, <3>1 DEF IInv, Order
    <3> QED
      BY <2>1, <3>2, DismissedStays DEF IInv
  <2> QED
    BY <2>2, <2>3
<1>3. IInv /\ RemovedLast => NoGhostDialler
  BY Consequences DEF RemovedLast, NoGhostDialler, StoppedMeansIdle
<1> QED
  BY <1>1, <1>2, <1>3, ServiceInvariance, PTL DEF InstallSpec

-----------------------------------------------------------------------------
(***************************************************************************)
(* Nobody uninstalls in one console what another one is installing.  The   *)
(* code does not see to that: it takes the administrator not to do so.     *)
(***************************************************************************)
NoRivals == \A c, d \in Console : c # d /\ "install" \in Allowed[c] => "uninstall" \notin Allowed[d]

(***************************************************************************)
(* What an install has done by the next call, unless it warned: it goes    *)
(* from call to call in this order only, and nothing is undone meanwhile.  *)
(***************************************************************************)
Installing(c) ==
  /\ at[c] \in {"create", "recovery", "source", "summary"} => command[c] = "install"
  /\ at[c] \in {"recovery", "source", "summary"} => registered = "installed"
  /\ at[c] \in {"source", "summary"} /\ ~warned[c] => recovery
  /\ at[c] = "summary" /\ ~warned[c] => source = "complete"

\* What else a console does, and in which steps only an uninstall can be.
Commanded(c) ==
  /\ command[c] \in Allowed[c] \cup {"none"}
  /\ at[c] = "control" => command[c] \in {"uninstall", "stop"}
  /\ at[c] \in {"poll", "delete", "unregister"} => command[c] = "uninstall"

SoFar == \A c \in Console : Installing(c) /\ Commanded(c)

\* Every step of a console is one of the command that was typed there.
LEMMA CommandedStep ==
  ASSUME TypeOK, ConsoleType, NEW d \in Console, Commanded(d), [InstallNext]_allVars
  PROVE  Commanded(d)'
<1> USE DEF ConsoleType, Command, Label, Commanded
<1>1. CASE UNCHANGED allVars
  BY <1>1 DEF allVars, installVars, database, consoles
<1>2. CASE (Process \/ LoadConfig) /\ UNCHANGED installVars
  BY <1>2 DEF installVars, database, consoles
<1>3. ASSUME NEW c \in Console, Begin(c) PROVE Commanded(d)'
  BY <1>3 DEF Begin, database
<1>4. ASSUME NEW c \in Console, Proceeds(c) PROVE Commanded(d)'
  <2> USE DEF Leave, Call, Warn, database
  <2>1. CASE Refused(c) \/ CreateService(c) \/ SetRecovery(c) \/ RegisterSource(c) \/ InstallEnds(c)
    BY <2>1 DEF Refused, CreateService, SetRecovery, RegisterSource, InstallEnds
  <2>2. CASE CreateFails(c) \/ RecoveryFails(c) \/ RegisterSourceFails(c)
    BY <2>2 DEF CreateFails, RecoveryFails, RegisterSourceFails
  <2>3. CASE OpenService(c) \/ QueryService(c) \/ StoppedOrLate(c) \/ DeleteService(c)
    BY <2>3 DEF OpenService, QueryService, StoppedOrLate, DeleteService
  <2>4. CASE OpenFails(c) \/ StartServiceFails(c) \/ ControlFails(c) \/ PollFails(c)
    BY <2>4 DEF OpenFails, StartServiceFails, ControlFails, PollFails
  <2>5. CASE DeleteFails(c) \/ RemoveSource(c)
    BY <2>5 DEF DeleteFails, RemoveSource
  <2>6. CASE StartService(c) \/ ControlStop(c)
    BY <2>6 DEF StartService, ControlStop
  <2> QED
    BY <1>4, <2>1, <2>2, <2>3, <2>4, <2>5, <2>6 DEF Proceeds
<1>5. ASSUME NEW c \in Console, Killed(c) PROVE Commanded(d)'
  BY <1>5 DEF Killed, Leave, database
<1>6. CASE ScmRemoves \/ ScmStarts \/ ScmSends \/ ServiceCrashes
  BY <1>6 DEF ScmRemoves, ScmStarts, ScmSends, ServiceCrashes, Forgotten, installVars, database, consoles
<1>7. CASE Reboot
  BY <1>7 DEF Reboot, Forgotten
<1> QED
  BY <1>1, <1>2, <1>3, <1>4, <1>5, <1>6, <1>7 DEF InstallNext

(***************************************************************************)
(* An install keeps what it has done: the other consoles uninstall nothing *)
(* and SCM removes only what was marked for deletion.                      *)
(***************************************************************************)
LEMMA InstallingStep ==
  ASSUME NoRivals, TypeOK, ConsoleType, SoFar, NEW d \in Console, [InstallNext]_allVars
  PROVE  Installing(d)'
<1>0. Installing(d) /\ Commanded(d)
  BY DEF SoFar
<1> USE DEF ConsoleType, Command, Label, Installing
<1>1. CASE UNCHANGED allVars
  BY <1>0, <1>1 DEF allVars, installVars, database, consoles
<1>2. CASE (Process \/ LoadConfig) /\ UNCHANGED installVars
  BY <1>0, <1>2 DEF installVars, database, consoles
<1>3. ASSUME NEW c \in Console, Begin(c) PROVE Installing(d)'
  BY <1>0, <1>3 DEF Begin, database
<1>4. ASSUME NEW c \in Console, Proceeds(c) PROVE Installing(d)'
  <2> USE DEF Leave, Call, Warn, database
  <2>0. Installing(c) /\ Commanded(c)
    BY DEF SoFar
  <2>1. CASE Refused(c) \/ CreateService(c) \/ SetRecovery(c) \/ RegisterSource(c) \/ InstallEnds(c)
    BY <1>0, <2>1 DEF Refused, CreateService, SetRecovery, RegisterSource, InstallEnds
  <2>2. CASE CreateFails(c) \/ RecoveryFails(c) \/ RegisterSourceFails(c)
    BY <1>0, <2>2 DEF CreateFails, RecoveryFails, RegisterSourceFails
  <2>3. CASE OpenService(c) \/ QueryService(c) \/ StoppedOrLate(c)
    BY <1>0, <2>3 DEF OpenService, QueryService, StoppedOrLate
  <2>4. CASE OpenFails(c) \/ StartServiceFails(c) \/ ControlFails(c) \/ PollFails(c) \/ DeleteFails(c)
    BY <1>0, <2>4 DEF OpenFails, StartServiceFails, ControlFails, PollFails, DeleteFails
  <2>5. CASE DeleteService(c) \/ RemoveSource(c)
    <3>1. command[c] = "uninstall" /\ "uninstall" \in Allowed[c]
      BY <2>0, <2>5 DEF Commanded, DeleteService, RemoveSource
    <3>2. c # d => command[d] # "install"
      BY <1>0, <3>1 DEF Commanded, NoRivals
    <3>3. command[d] # "install"
      BY <3>1, <3>2
    <3>4. at[d] \notin {"create", "recovery", "source", "summary"}
      BY <1>0, <3>3
    <3>5. at'[d] \notin {"create", "recovery", "source", "summary"}
      BY <2>5, <3>4 DEF DeleteService, RemoveSource
    <3> QED
      BY <3>5
  <2>6. CASE StartService(c) \/ ControlStop(c)
    BY <1>0, <2>6 DEF StartService, ControlStop
  <2> QED
    BY <1>4, <2>1, <2>2, <2>3, <2>4, <2>5, <2>6 DEF Proceeds
<1>5. ASSUME NEW c \in Console, Killed(c) PROVE Installing(d)'
  BY <1>0, <1>5 DEF Killed, Leave, database
<1>6. CASE ScmRemoves \/ ScmStarts \/ ScmSends \/ ServiceCrashes
  BY <1>0, <1>6 DEF ScmRemoves, Removable, ScmStarts, ScmSends, ServiceCrashes, Forgotten, installVars,
     database, consoles
<1>7. CASE Reboot
  BY <1>7 DEF Reboot, Forgotten
<1> QED
  BY <1>1, <1>2, <1>3, <1>4, <1>5, <1>6, <1>7 DEF InstallNext

(***************************************************************************)
(* An install that ends without a warning has left the recovery actions    *)
(* and the event log source (svc_install.rs 116-145), whatever earlier     *)
(* commands left half done, unless somebody uninstalls at the same time in *)
(* another console.                                                        *)
(***************************************************************************)
THEOREM InstallIsComplete ==
  ASSUME NoRivals
  PROVE  InstallSpec => CompleteInstall
<1> DEFINE A == \A c \in Console : at[c] = "summary" /\ ~warned[c] /\ at'[c] = "idle"
                  => recovery /\ source = "complete"
<1>1. InstallInit => ConsoleType /\ SoFar
  BY DEF InstallInit, ConsolesIdle, ConsoleType, SoFar, Installing, Commanded, Label
<1>2. IInv /\ ConsoleType /\ SoFar /\ [InstallNext]_allVars => ConsoleType' /\ SoFar'
  BY ConsoleTypeStep, CommandedStep, InstallingStep DEF IInv, SoFar
<1>3. SoFar => [A]_allVars
  BY DEF SoFar, Installing
<1> QED
  BY <1>1, <1>2, <1>3, ServiceInvariance, PTL DEF InstallSpec, CompleteInstall
=============================================================================
