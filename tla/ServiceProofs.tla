--------------------------- MODULE ServiceProofs ---------------------------
(***************************************************************************)
(* The safety properties of the service process, for any number and kind   *)
(* of failures and any number of reports.                                  *)
(***************************************************************************)
EXTENDS Service, TLAPS

Reporting(t) == pc[t] \in ReportPC

\* Where a thread is, or will be when the report it makes is done.
Ahead(t) == IF Reporting(t) THEN return[t] ELSE pc[t]

\* ServiceMain has told SCM that the service runs, or never will.
HasRun == /\ Ahead("main") \notin {"create", "register", "load"}
          /\ ~(Reporting("main") /\ Ahead("main") = "spawn")

\* A process that is not there has no state.
NoProcess ==
  ~alive =>
    /\ pc = FreshPC /\ worker = "none" /\ stopEvent = "none" /\ scm.state = "STOPPED"
    /\ CURRENT_STATE = "START_PENDING"
    /\ ~STOP_EVENT /\ ~STATUS_HANDLE /\ ~STOP_REQUESTED /\ ~dismissed

\* Which report leads where.
Routes ==
  /\ Reporting("main") =>
       \/ return["main"] = "load" /\ status["main"].state = "START_PENDING"
       \/ return["main"] = "spawn" /\ status["main"].state = "RUNNING"
       \/ return["main"] = "poll" /\ status["main"].state = "STOP_PENDING"
       \/ return["main"] \in {"close", "failed", "returned"} /\ status["main"].state = "STOPPED"
  /\ Reporting("handler") =>
       \/ return["handler"] = "signal" /\ status["handler"].state = "STOP_PENDING"
       \/ return["handler"] = "idle"
  /\ \A t \in Thread : pc[t] = "publish" => STATUS_HANDLE

\* What ServiceMain has done by the time it is somewhere.
Progress ==
  /\ STOP_EVENT <=> stopEvent # "none"
  /\ STATUS_HANDLE => STOP_EVENT
  /\ Ahead("main") = "create" => stopEvent = "none"
  /\ ~HasRun /\ Ahead("main") # "create" => stopEvent = "clear"
  /\ stopEvent = "closed" => pc["main"] = "returned"
  /\ Ahead("main") \in {"create", "register"} => ~STATUS_HANDLE
  /\ Ahead("main") \in {"load", "spawn", "poll", "sleep", "close"} => STATUS_HANDLE
  /\ Ahead("main") \in {"create", "register", "load", "spawn"} => worker = "none"
  /\ Ahead("main") \in {"close", "failed", "returned"} => worker \in {"none", "ended", "failed"}
  /\ Ahead("main") = "close" => worker # "none"
  /\ worker = "ended" => stopEvent \in {"set", "closed"}
  /\ pc["main"] \in {"close", "returned"} /\ STATUS_HANDLE => dismissed

\* STOPPED is only ever said near the end of ServiceMain.
StoppedSaid == \/ CURRENT_STATE = "STOPPED" \/ dismissed
               \/ Reporting("handler") /\ status["handler"].state = "STOPPED"

Finished == StoppedSaid => Ahead("main") \in {"close", "failed", "returned"}

\* A control finds the service running and its event in place, and the event is
\* signalled once.
Controls ==
  /\ pc["handler"] # "idle" \/ scm.state = "RUNNING" \/ STOP_REQUESTED
       => HasRun /\ STATUS_HANDLE /\ STOP_EVENT
  /\ pc["handler"] # "idle" \/ scm.state = "RUNNING"
       => stopEvent = "clear" \/ (stopEvent = "closed" /\ worker = "failed")
  /\ pc["handler"] = "signal" => scm.state # "RUNNING"
  /\ STOP_REQUESTED => stopEvent # "clear" \/ Ahead("handler") = "signal"

\* Whatever is reported, or waits to be, is not behind what SCM knows.
Order ==
  /\ alive /\ ~HasRun => scm.state = "START_PENDING"
  /\ alive /\ scm.state = "STOPPED" => dismissed
  /\ scm.state = "STOP_PENDING" \/ CURRENT_STATE = "STOP_PENDING" => STOP_REQUESTED
  /\ \A t \in Thread : Reporting(t) /\ status[t].state = "STOP_PENDING" => STOP_REQUESTED
  /\ pc["main"] = "publish" /\ return["main"] = "spawn" => CURRENT_STATE = "RUNNING"
  /\ pc["handler"] # "idle" \/ scm.state = "RUNNING" \/ STOP_REQUESTED
       => /\ CURRENT_STATE # "START_PENDING"
          /\ Ahead("main") \in {"close", "failed", "returned"} => worker # "none"
  /\ Reporting("handler") => status["handler"].state # "START_PENDING"

IInv == TypeOK /\ NoProcess /\ Routes /\ Progress /\ Finished /\ Controls /\ Order

-----------------------------------------------------------------------------
USE BoundsAssumption
USE DEF Thread, State, Status, ReportPC, MainPC, HandlerPC, Reports, TypeOK

LEMMA IInvInit == Init => IInv
<1> SUFFICES ASSUME Init PROVE IInv
  OBVIOUS
<1>1. TypeOK
  <2>1. FreshPC \in [Thread -> MainPC \cup HandlerPC] /\ FreshPC["main"] = "create" /\ FreshPC["handler"] = "idle"
    BY DEF FreshPC
  <2>2. \A state \in State : Reports(state, 0) \in Status
    OBVIOUS
  <2>3. FreshStatus \in [Thread -> Status]
    BY <2>2 DEF FreshStatus
  <2>4. 2 \in 2..CheckpointMax /\ MaxTrouble \in 0..MaxTrouble
    OBVIOUS
  <2> QED
    BY <2>1, <2>2, <2>3, <2>4 DEF Init
<1>2. NoProcess
  BY DEF Init, NoProcess
<1>3. pc["main"] = "create" /\ pc["handler"] = "idle"
  BY DEF Init, FreshPC
<1> QED
  BY <1>1, <1>2, <1>3 DEF Init, IInv, Routes, Progress, StoppedSaid, Finished, Controls, Order, HasRun, Ahead, Reporting

LEMMA MainStep ==
  ASSUME IInv, alive, Main
  PROVE  IInv'
<1> USE DEF IInv, NoProcess, Routes, Progress, StoppedSaid, Finished, Controls, Order, HasRun, Ahead,
            Reporting, Goto, Report, mainFrame, statics, scmVars, reportVars
<1>1. CASE StoreState("main")
  BY <1>1 DEF StoreState
<1>2. CASE PublishStatus("main")
  <2> USE <1>2 DEF PublishStatus
  <2>1. TypeOK' /\ NoProcess'
    OBVIOUS
  <2>2. Routes'
    OBVIOUS
  <2>3. Progress'
    OBVIOUS
  <2>4. Finished'
    OBVIOUS
  <2>5. Controls'
    OBVIOUS
  <2>6. Order'
    OBVIOUS
  <2> QED
    BY <2>1, <2>2, <2>3, <2>4, <2>5, <2>6
<1>3. CASE CreateStopEvent
  BY <1>3 DEF CreateStopEvent
<1>4. CASE RegisterHandler
  BY <1>4 DEF RegisterHandler
<1>5. CASE StartFails
  BY <1>5 DEF StartFails, Fault
<1>6. CASE SpawnWorker
  BY <1>6 DEF SpawnWorker
<1>7. CASE SpawnFails
  BY <1>7 DEF SpawnFails, Fault
<1>8. CASE WorkerFinished
  BY <1>8 DEF WorkerFinished, is_finished
<1>9. CASE WorkerBusy
  BY <1>9 DEF WorkerBusy
<1>10. CASE SecondPasses
  <2> USE <1>10 DEF SecondPasses
  <2>1. TypeOK' /\ NoProcess'
    OBVIOUS
  <2>2. Routes'
    OBVIOUS
  <2>3. Progress'
    OBVIOUS
  <2>4. Finished'
    OBVIOUS
  <2>5. Controls'
    OBVIOUS
  <2>6. Order'
    OBVIOUS
  <2> QED
    BY <2>1, <2>2, <2>3, <2>4, <2>5, <2>6
<1>11. CASE CloseStopEvent
  <2> USE <1>11 DEF CloseStopEvent
  <2>1. TypeOK' /\ NoProcess'
    OBVIOUS
  <2>2. /\ pc["main"] = "close" /\ pc'["main"] = "returned" /\ pc'["handler"] = pc["handler"]
        /\ worker \in {"none", "ended", "failed"} /\ STATUS_HANDLE /\ dismissed
    OBVIOUS
  <2>3. Routes'
    BY <2>2
  <2>4. Progress'
    BY <2>2
  <2>5. Finished'
    BY <2>2
  <2>6. Controls'
    BY <2>2
  <2>7. Order'
    BY <2>2
  <2> QED
    BY <2>1, <2>3, <2>4, <2>5, <2>6, <2>7
<1>12. CASE ReportFailure
  BY <1>12 DEF ReportFailure
<1>13. CASE ConfigLoads
  BY <1>13 DEF ConfigLoads
<1>14. CASE ConfigError
  BY <1>14 DEF ConfigError
<1> QED
  BY <1>1, <1>2, <1>3, <1>4, <1>5, <1>6, <1>7, <1>8, <1>9, <1>10, <1>11, <1>12, <1>13, <1>14
  DEF Main, Proceed

LEMMA HandlerStep ==
  ASSUME IInv, alive, Handler
  PROVE  IInv'
<1> USE DEF IInv, NoProcess, Routes, Progress, StoppedSaid, Finished, Controls, Order, HasRun, Ahead,
            Reporting, Goto, Report, handlerFrame, statics, scmVars, reportVars
<1>1. CASE StoreState("handler")
  BY <1>1 DEF StoreState
<1>2. CASE PublishStatus("handler")
  <2> USE <1>2 DEF PublishStatus
  <2>1. TypeOK' /\ NoProcess' /\ Routes'
    OBVIOUS
  <2>2. Progress' /\ Finished'
    OBVIOUS
  <2>3. Controls'
    OBVIOUS
  <2>4. /\ pc["handler"] = "publish" /\ pc'["handler"] = return["handler"]
        /\ pc'["main"] = pc["main"] /\ scm' = status["handler"]
    OBVIOUS
  <2>5. HasRun /\ HasRun' /\ ~Reporting("handler")'
    BY <2>4
  <2>6. Order'
    <3>1. alive' /\ scm'.state = "STOPPED" => dismissed'
      BY <2>4
    <3>2. scm'.state = "STOP_PENDING" \/ CURRENT_STATE' = "STOP_PENDING" => STOP_REQUESTED'
      BY <2>4
    <3>3. \A t \in Thread : Reporting(t)' /\ status'[t].state = "STOP_PENDING" => STOP_REQUESTED'
      BY <2>4
    <3>4. pc'["main"] = "publish" /\ return'["main"] = "spawn" => CURRENT_STATE' = "RUNNING"
      BY <2>4
    <3>5. /\ CURRENT_STATE' # "START_PENDING"
          /\ Ahead("main")' \in {"close", "failed", "returned"} => worker' # "none"
      BY <2>4
    <3> QED
      BY <2>5, <3>1, <3>2, <3>3, <3>4, <3>5
  <2> QED
    BY <2>1, <2>2, <2>3, <2>6
<1>3. CASE HandleStop
  BY <1>3 DEF HandleStop
<1>4. CASE SignalStop
  BY <1>4 DEF SignalStop
<1>5. CASE HandleInterrogate
  BY <1>5 DEF HandleInterrogate
<1> QED
  BY <1>1, <1>2, <1>3, <1>4, <1>5 DEF Handler

LEMMA WorkerStep ==
  ASSUME IInv, alive, WorkerRuns \/ WorkerFails \/ WorkerStops
  PROVE  IInv'
<1> USE DEF workerFrame, mainFrame, statics, scmVars, reportVars, IInv, NoProcess, Routes, Progress,
            StoppedSaid, Finished, Controls, Order, HasRun, Ahead, Reporting
<1>1. CASE WorkerRuns
  BY <1>1 DEF WorkerRuns
<1>2. CASE WorkerFails
  BY <1>2 DEF WorkerFails, Fault
<1>3. CASE WorkerStops
  BY <1>3 DEF WorkerStops
<1> QED
  BY <1>1, <1>2, <1>3

LEMMA ControlStep ==
  ASSUME IInv, NEW control \in {"stop", "interrogate"}, SendControl(control)
  PROVE  IInv'
  BY DEF SendControl, Goto, mainFrame, statics, scmVars,
         reportVars, IInv, NoProcess, Routes, Progress, StoppedSaid, Finished, Controls, Order, HasRun,
         Ahead, Reporting

\* The end of a process leaves what Init describes.
LEMMA GoneStep ==
  ASSUME IInv, Gone, trouble' \in 0..MaxTrouble
  PROVE  IInv'
<1>1. /\ pc'["main"] = "create" /\ pc'["handler"] = "idle" /\ pc' = FreshPC
      /\ ~alive' /\ scm' = Reports("STOPPED", 0)
  BY DEF Gone, FreshPC
<1>2. FreshPC \in [Thread -> MainPC \cup HandlerPC]
  BY DEF FreshPC
<1>3. Reports("STOPPED", 0) \in Status /\ FreshStatus \in [Thread -> Status]
  BY DEF FreshStatus
<1>4. TypeOK'
  <2>1. 2 \in 2..CheckpointMax
    OBVIOUS
  <2> QED
    BY <1>1, <1>2, <1>3, <2>1 DEF Gone
<1>5. NoProcess'
  BY <1>1 DEF Gone, NoProcess
<1> QED
  BY <1>1, <1>4, <1>5 DEF Gone, IInv, Routes, Progress, StoppedSaid, Finished, Controls, Order, HasRun,
     Ahead, Reporting

LEMMA StartStep ==
  ASSUME IInv, ProcessStarts
  PROVE  IInv'
<1>1. pc["main"] = "create" /\ pc["handler"] = "idle"
  BY DEF IInv, NoProcess, ProcessStarts, FreshPC
<1>2. Reports("START_PENDING", 0) \in Status
  OBVIOUS
<1> QED
  BY <1>1, <1>2 DEF ProcessStarts, statics, reportVars, IInv, NoProcess, Routes, Progress,
     StoppedSaid, Finished, Controls, Order, HasRun, Ahead, Reporting

LEMMA IInvInductive == IInv /\ [Next]_vars => IInv'
<1> SUFFICES ASSUME IInv, [Next]_vars PROVE IInv'
  OBVIOUS
<1>1. CASE UNCHANGED vars
  BY <1>1 DEF vars, reportVars, statics, scmVars, IInv, NoProcess, Routes, Progress,
     StoppedSaid, Finished, Controls, Order, HasRun, Ahead, Reporting
<1>2. CASE Process
  <2>1. CASE ProcessExits
    BY <2>1, GoneStep DEF ProcessExits, IInv
  <2> QED
    BY <1>2, <2>1, MainStep, HandlerStep, WorkerStep DEF Process, Main
<1>3. CASE alive /\ (ConfigLoads \/ ConfigError)
  BY <1>3, MainStep DEF Main
<1>4. CASE SendControl("stop") \/ SendControl("interrogate")
  BY <1>4, ControlStep
<1>5. CASE Crash
  BY <1>5, GoneStep DEF Crash, Fault, IInv
<1>6. CASE ProcessStarts
  BY <1>6, StartStep
<1> QED
  BY <1>1, <1>2, <1>3, <1>4, <1>5, <1>6 DEF Next

LEMMA Invariance == Init /\ [][Next]_vars => []IInv
  BY IInvInit, IInvInductive, PTL

-----------------------------------------------------------------------------
\* What the invariant says, and what it says of a step.
LEMMA Consequences ==
  IInv => TypeOK /\ StopSticks /\ StoppedMeansIdle /\ EndIsReported /\ SignalsOpenEvent
<1> SUFFICES ASSUME IInv PROVE TypeOK /\ StopSticks /\ StoppedMeansIdle /\ EndIsReported /\ SignalsOpenEvent
  OBVIOUS
<1> USE DEF IInv
<1>1. TypeOK /\ StopSticks
  BY DEF StopSticks, Controls, Routes, Ahead, Reporting
<1>2. StoppedMeansIdle
  BY DEF StoppedMeansIdle, StoppedSaid, Finished, Progress
<1>3. EndIsReported
  BY DEF EndIsReported, Progress
<1>4. SignalsOpenEvent
  BY DEF SignalsOpenEvent, Controls
<1> QED
  BY <1>1, <1>2, <1>3, <1>4

LEMMA PublishInOrder ==
  ASSUME IInv, alive, worker # "failed", NEW t \in Thread, PublishStatus(t)
  PROVE  Rank(scm'.state) >= Rank(scm.state)
<1>1. scm' = status[t] /\ Reporting(t) /\ scm.state \in State /\ status[t].state \in State
  BY DEF PublishStatus, Reporting, IInv
<1>2. ~dismissed => scm.state # "STOPPED"
  BY DEF IInv, Order
<1>3. CASE t = "main"
  BY <1>1, <1>2, <1>3 DEF Rank, IInv, Routes, Order, HasRun, Ahead, StoppedSaid, Finished
<1>4. CASE t = "handler"
  <2>1. pc["handler"] # "idle" /\ stopEvent = "clear" /\ worker # "ended"
    BY <1>1, <1>4 DEF IInv, Controls, Progress, Reporting
  <2>2. ~dismissed
    BY <2>1 DEF IInv, StoppedSaid, Finished, Order, Progress
  <2>3. status["handler"].state # "START_PENDING"
    BY <1>1, <1>4 DEF IInv, Order
  <2>4. CASE return["handler"] = "signal"
    BY <1>1, <1>2, <1>4, <2>2, <2>4 DEF Rank, IInv, Routes
  <2>5. CASE return["handler"] = "idle"
    <3>1. ~STOP_REQUESTED
      BY <1>1, <1>4, <2>1, <2>5 DEF IInv, Controls, Ahead
    <3> QED
      BY <1>1, <1>2, <1>4, <2>2, <2>3, <3>1 DEF Rank, IInv, Order
  <2> QED
    BY <1>1, <1>4, <2>4, <2>5 DEF IInv, Routes
<1> QED
  BY <1>3, <1>4

LEMMA StepInOrder ==
  ASSUME IInv, [Next]_vars, alive, alive', worker # "failed"
  PROVE  Rank(scm'.state) >= Rank(scm.state)
<1>1. scm.state \in State
  BY DEF IInv
<1>2. CASE scm' = scm
  BY <1>1, <1>2 DEF Rank
<1>3. CASE \E t \in Thread : PublishStatus(t)
  BY <1>3, PublishInOrder
<1>4. scm' = scm \/ \E t \in Thread : PublishStatus(t)
  BY DEF Next, vars, Process, Proceed, Handler, StoreState, CreateStopEvent, RegisterHandler, StartFails,
     SpawnWorker, SpawnFails, WorkerFinished, WorkerBusy, SecondPasses, CloseStopEvent, ReportFailure,
     ConfigLoads, ConfigError, HandleStop, SignalStop, HandleInterrogate, WorkerRuns, WorkerFails,
     WorkerStops, SendControl, ProcessExits, Crash, ProcessStarts, Gone,
     mainFrame, handlerFrame, workerFrame, scmVars
<1> QED
  BY <1>2, <1>3, <1>4
=============================================================================
