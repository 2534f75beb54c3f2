------------------------------- MODULE Dialer -------------------------------
(***************************************************************************)
(* The dial state machine of src/worker.rs: check the cable, ask RAS       *)
(* whether the connection is up, dial, and in between sleep on the stop,   *)
(* link and RAS events until something changes.  Composed with the two     *)
(* threads of src/ras.rs (module Ras) and the machine (module Windows).    *)
(*                                                                         *)
(* The flags cable_down and online only choose log lines and are left out; *)
(* the length of a delay is the subject of module Backoff.                 *)
(***************************************************************************)
EXTENDS Ras

CONSTANTS CreateIfMissing, \* dial.create_entry_if_missing
          LinkCheck,     \* link_check.enabled
          SafetyRecheck, \* monitor.safety_recheck_secs > 0
          Debounce,      \* monitor.event_debounce_ms > 0
          WarnAfter,     \* STALE_BLOCK_WARN_AFTER
          AttemptsMax    \* u32::MAX, where Backoff.attempts saturates

ASSUME SettingsAssumption ==
  /\ CreateIfMissing \in BOOLEAN
  /\ LinkCheck \in BOOLEAN /\ SafetyRecheck \in BOOLEAN /\ Debounce \in BOOLEAN
  /\ WarnAfter \in Nat \ {0} /\ AttemptsMax \in Nat \ {0}

VARIABLES
  waitFor,   \* the verdict behind the current wait
  attempts,  \* Backoff.attempts
  blocked    \* blocked_attempts; beyond WarnAfter its value is never read

workerVars == <<waitFor, attempts, blocked>>
vars == <<winVars, pc, rasVars, workerVars>>

\* Asleep or deciding; LoopPC holds between the registration and the end of the loop.
LoopPC   == {"entry", "create", "cable", "online", "dialled", "failed", "aborted", "backoff", "wait", "debounce"}
WorkerPC == {"start", "leave", "cancel", "close", "done"} \cup LoopPC \cup DialPC \cup AbortPC

TypeOK ==
  /\ WindowsTypeOK /\ RasTypeOK
  /\ pc \in [Proc -> WorkerPC \cup WatchdogPC]
  /\ pc["worker"] \in WorkerPC /\ pc["watchdog"] \in WatchdogPC
  /\ waitFor \in {"nothing", "cable", "online", "retry"}
  /\ attempts \in 0..AttemptsMax
  /\ blocked \in 0..WarnAfter + 1

WorkerInit == waitFor = "nothing" /\ attempts = 0 /\ blocked = 0

Init == WindowsInit /\ RasInit /\ WorkerInit

-----------------------------------------------------------------------------
(***************************************************************************)
(* run(): before the loop.                                                 *)
(***************************************************************************)
\* Events and registrations; notify(initial = true) queues a first callback.
Start ==
  /\ pc["worker"] = "start"
  /\ linkReg' = TRUE /\ linkQueued' = TRUE
  /\ linkEvt' = "clear" /\ rasEvt' = "clear"
  /\ Goto("worker", "entry")
  /\ UNCHANGED <<cable, server, conns, linkRunning, rasQueued, stop, trouble, rasVars, workerVars>>

\* One of them failed: run() returns the error.
StartFails ==
  /\ pc["worker"] = "start"
  /\ Fault("setup")
  /\ Goto("worker", "done")
  /\ UNCHANGED <<cable, server, conns, linkVars, rasQueued, rasEvt, stop, rasVars, workerVars>>

\* Before the loop, and never again while the process lives.
PrepareEntry == (ProbeEntry("entry", CreateIfMissing) \/ CreateEntry) /\ UNCHANGED workerVars

-----------------------------------------------------------------------------
(***************************************************************************)
(* run(): the three questions of an evaluation.                            *)
(***************************************************************************)
evalFrame == <<cable, server, conns, linkVars, rasQueued, rasEvt, stop, rasVars, attempts, blocked>>

Sleep(verdict) == Goto("worker", "wait") /\ waitFor' = verdict

CableIsDown ==
  /\ pc["worker"] = "cable"
  /\ LinkCheck /\ ~cable
  /\ Sleep("cable")
  /\ UNCHANGED <<evalFrame, trouble>>

\* The check is off, says yes, or cannot be made.
CableAllowsDialling ==
  /\ pc["worker"] = "cable"
  /\ \/ (LinkCheck => cable) /\ UNCHANGED trouble
     \/ LinkCheck /\ Fault("query")
  /\ Goto("worker", "online")
  /\ UNCHANGED <<evalFrame, waitFor>>

AlreadyOnline ==
  /\ pc["worker"] = "online"
  /\ \E connected \in SUBSET Up : Enumerates(connected) /\ connected \cap Own # {}
  /\ Sleep("online")
  /\ UNCHANGED evalFrame

NotOnline ==
  /\ pc["worker"] = "online"
  /\ \/ \E connected \in SUBSET Up : Enumerates(connected) /\ connected \cap Own = {}
     \/ EnumerateFails
  /\ Goto("worker", "dial")
  /\ UNCHANGED <<evalFrame, waitFor>>

-----------------------------------------------------------------------------
(***************************************************************************)
(* run(): what follows ras::dial.                                          *)
(***************************************************************************)
DialSucceeded ==
  /\ pc["worker"] = "dialled"
  /\ attempts' = 0 /\ blocked' = 0
  /\ Goto("worker", "cable")
  /\ UNCHANGED <<winVars, rasVars, waitFor>>

\* Broken variant: 756 is retried like any other failure.
DialFailedRetries ==
  /\ pc["worker"] = "failed"
  /\ Goto("worker", "backoff")
  /\ UNCHANGED <<winVars, rasVars, workerVars>>

\* 756: clear the attempt that owns the port before backing off.
DialFailed ==
  /\ pc["worker"] = "failed"
  /\ Goto("worker", IF answer = "756" THEN "abort_enum" ELSE "backoff")
  /\ UNCHANGED <<winVars, rasVars, workerVars>>

AbortEnded ==
  /\ pc["worker"] = "abort_next" /\ todo["worker"] = {}
  /\ Goto("worker", "aborted")
  /\ UNCHANGED <<winVars, rasVars, workerVars>>

AbortFailed ==
  /\ pc["worker"] = "abort_enum" /\ EnumerateFails
  /\ Goto("worker", "backoff")
  /\ UNCHANGED <<evalFrame, waitFor>>

NothingAborted ==
  /\ pc["worker"] = "aborted" /\ aborted["worker"] = 0
  /\ blocked' = IF blocked > WarnAfter THEN blocked ELSE blocked + 1
  /\ Goto("worker", "backoff")
  /\ UNCHANGED <<winVars, rasVars, waitFor, attempts>>

SomeAborted ==
  /\ pc["worker"] = "aborted" /\ aborted["worker"] > 0
  /\ blocked' = 0 /\ attempts' = 0
  /\ Goto("worker", "backoff")
  /\ UNCHANGED <<winVars, rasVars, waitFor>>

\* Broken variant: a counter that does not saturate.
BackOffUnbounded ==
  /\ pc["worker"] = "backoff"
  /\ attempts' = attempts + 1
  /\ Sleep("retry")
  /\ UNCHANGED <<winVars, rasVars, blocked>>

BackOff ==
  /\ pc["worker"] = "backoff"
  /\ attempts' = IF attempts = AttemptsMax THEN attempts ELSE attempts + 1
  /\ Sleep("retry")
  /\ UNCHANGED <<winVars, rasVars, blocked>>

-----------------------------------------------------------------------------
(***************************************************************************)
(* Waiter::wait and wait_for_change.  The stop event has the lowest index, *)
(* then the link event, then the RAS event: the first that is set ends the *)
(* wait, and only that one is reset.                                       *)
(***************************************************************************)
Signalled == linkEvt = "set" \/ rasEvt = "set"

ConsumeFirst ==
  IF linkEvt = "set" THEN linkEvt' = "clear" /\ UNCHANGED rasEvt
                     ELSE rasEvt' = "clear" /\ UNCHANGED linkEvt

waitFrame == <<cable, server, conns, linkReg, linkQueued, linkRunning, rasQueued, stop, rasVars, attempts, blocked>>

Wakes(label) == Goto("worker", label) /\ waitFor' = "nothing"

WaitStopped ==
  /\ pc["worker"] \in {"wait", "debounce"} /\ stop
  /\ Wakes("leave")
  /\ UNCHANGED <<waitFrame, linkEvt, rasEvt, trouble>>

\* Broken variant: reset the events first, as left over from an earlier wait.
WaitDiscardsSignal ==
  /\ pc["worker"] = "wait" /\ ~stop /\ Signalled
  /\ ConsumeFirst
  /\ \/ Wakes(IF Debounce THEN "debounce" ELSE "cable")
     \/ UNCHANGED <<pc, waitFor>>
  /\ UNCHANGED <<waitFrame, trouble>>

WaitSignalled ==
  /\ pc["worker"] = "wait" /\ ~stop /\ Signalled
  /\ ConsumeFirst
  /\ Wakes(IF Debounce THEN "debounce" ELSE "cable")
  /\ UNCHANGED <<waitFrame, trouble>>

DebounceSwallows ==
  /\ pc["worker"] = "debounce" /\ ~stop /\ Signalled
  /\ ConsumeFirst
  /\ UNCHANGED <<waitFrame, waitFor, pc, trouble>>

DebounceEnds ==
  /\ pc["worker"] = "debounce"
  /\ Wakes("cable")
  /\ UNCHANGED <<waitFrame, linkEvt, rasEvt, trouble>>

\* Broken variant: the delay of a back-off is not passed on to the wait.
WaitIgnoresDelay ==
  /\ pc["worker"] = "wait" /\ ~stop /\ ~Signalled
  /\ SafetyRecheck
  /\ Wakes("cable")
  /\ UNCHANGED <<waitFrame, linkEvt, rasEvt, trouble>>

\* INFINITE unless backing off or a safety re-check is configured.
WaitTimesOut ==
  /\ pc["worker"] = "wait" /\ ~stop /\ ~Signalled
  /\ waitFor = "retry" \/ SafetyRecheck
  /\ Wakes("cable")
  /\ UNCHANGED <<waitFrame, linkEvt, rasEvt, trouble>>

\* Broken variant: a wait that fails ends the loop like a stop.
WaitFailureLeaves ==
  /\ pc["worker"] \in {"wait", "debounce"}
  /\ Fault("wait")
  /\ Wakes("leave")
  /\ UNCHANGED <<waitFrame, linkEvt, rasEvt>>

\* WaitForMultipleObjects failed; the second of sleep before going on is local.
WaitFails ==
  /\ pc["worker"] \in {"wait", "debounce"}
  /\ Fault("wait")
  /\ Wakes("cable")
  /\ UNCHANGED <<waitFrame, linkEvt, rasEvt>>

-----------------------------------------------------------------------------
(***************************************************************************)
(* run(): shutdown.  Dropping the guard cancels the notification, which    *)
(* waits for a callback that is running.                                   *)
(***************************************************************************)
CancelNotification ==
  /\ pc["worker"] = "leave"
  /\ linkReg' = FALSE /\ linkQueued' = FALSE
  /\ Goto("worker", "cancel")
  /\ UNCHANGED <<cable, server, conns, linkRunning, linkEvt, rasQueued, rasEvt, stop, trouble, rasVars, workerVars>>

\* Broken variant: do not wait for the callback in flight.
CallbacksAbandoned ==
  /\ pc["worker"] = "cancel"
  /\ Goto("worker", "close")
  /\ UNCHANGED <<winVars, rasVars, workerVars>>

CallbacksDrained ==
  /\ pc["worker"] = "cancel" /\ ~linkRunning
  /\ Goto("worker", "close")
  /\ UNCHANGED <<winVars, rasVars, workerVars>>

CloseEvents ==
  /\ pc["worker"] = "close"
  /\ linkEvt' = "closed" /\ rasEvt' = "closed"
  /\ Goto("worker", "done")
  /\ UNCHANGED <<cable, server, conns, linkReg, linkQueued, linkRunning, rasQueued, stop, trouble, rasVars, workerVars>>

(***************************************************************************)
(* The process dies and the service manager starts it again.  RAS keeps    *)
(* its table: an attempt in flight goes on without its caller.             *)
(***************************************************************************)
Crash ==
  /\ pc["worker"] # "done"
  /\ Fault("crash")
  /\ conns' = [h \in Handle |-> IF conns[h] = "calling" THEN "dialing" ELSE conns[h]]
  /\ linkReg' = FALSE /\ linkQueued' = FALSE /\ linkRunning' = FALSE
  /\ linkEvt' = "closed" /\ rasEvt' = "closed" /\ stop' = FALSE
  /\ pc' = Fresh
  /\ hconn' = NoHandle /\ answer' = "none" /\ doneEvt' = "closed"
  /\ todo' = [p \in Proc |-> {}] /\ target' = [p \in Proc |-> NoHandle]
  /\ aborted' = [p \in Proc |-> 0]
  /\ waitFor' = "nothing" /\ attempts' = 0 /\ blocked' = 0
  /\ UNCHANGED <<cable, server, rasQueued, entry>>

-----------------------------------------------------------------------------
Setup      == Start \/ StartFails \/ PrepareEntry
Evaluation == CableIsDown \/ CableAllowsDialling \/ AlreadyOnline \/ NotOnline
Dialling   == /\ \/ DialBegins \/ DialCannotBegin \/ EntryNotFound \/ RasDialBegins \/ RasDialReturns
                 \/ JoinWatchdog \/ HangUpFailedDial \/ FailedDialReleased
              /\ UNCHANGED workerVars
Clearing   == /\ AbortEnumerate("worker") \/ AbortHangUp("worker") \/ AbortReleased("worker")
              /\ UNCHANGED workerVars
Outcome    == \/ DialSucceeded \/ DialFailed \/ AbortEnded \/ AbortFailed
              \/ NothingAborted \/ SomeAborted \/ BackOff
Waiting    == WaitStopped \/ WaitSignalled \/ DebounceSwallows \/ WaitFails
Shutdown   == CancelNotification \/ CallbacksDrained \/ CloseEvents

\* Every step of the worker thread that does not depend on a timer.
Worker == Setup \/ Evaluation \/ Dialling \/ Clearing \/ Outcome \/ Waiting \/ Shutdown

Timer == DebounceEnds \/ WaitTimesOut

Ras_ == /\ RasConnects \/ RasRejects \/ RasCancelled
        /\ UNCHANGED workerVars

Outside == /\ \/ WindowsNext
              \/ \E h \in Handle \ Held : (h \in Own => entry) /\ OtherDials(h)
           /\ UNCHANGED <<pc, rasVars, workerVars>>

PhoneBook == PhoneBookEdited /\ UNCHANGED workerVars

Guard == Watchdog /\ UNCHANGED workerVars

Next == Worker \/ Timer \/ Guard \/ Ras_ \/ Outside \/ PhoneBook \/ Crash

Spec == Init /\ [][Next]_vars

(***************************************************************************)
(* Fairness.  Threads are scheduled, timers expire, system callbacks are   *)
(* delivered, RAS releases a port that was hung up and returns from a call *)
(* whose connection was hung up, and a reachable server answers the dial.  *)
(* Nothing is assumed of an unreachable server, of the user or of SCM, and *)
(* no fault is ever due.                                                   *)
(***************************************************************************)
Fairness ==
  /\ WF_vars(Worker /\ UNCHANGED trouble) /\ WF_vars(DebounceEnds) /\ WF_vars(WaitTimesOut)
  /\ WF_vars(Guard /\ UNCHANGED trouble)
  /\ WF_vars(CallbackStarts /\ UNCHANGED <<pc, rasVars, workerVars>>)
  /\ WF_vars(interface_changed /\ UNCHANGED <<pc, rasVars, workerVars>>)
  /\ WF_vars(RasNotifies /\ UNCHANGED <<pc, rasVars, workerVars>>)
  /\ WF_vars(RasConnects /\ UNCHANGED workerVars)
  /\ WF_vars(RasCancelled /\ UNCHANGED workerVars)
  /\ \A h \in Own : WF_vars(RasReleases(h) /\ UNCHANGED <<pc, rasVars, workerVars>>)

FairSpec == Spec /\ Fairness
=============================================================================
