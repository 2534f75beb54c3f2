-------------------------- MODULE RefinementProofs --------------------------
(***************************************************************************)
(* Dialer implements AbstractDialer, for every set of handles, every       *)
(* choice of settings and any number of adverse events: initial states map *)
(* to initial states, and every step maps to one of the abstract dialler   *)
(* or changes nothing it can see.                                          *)
(***************************************************************************)
EXTENDS DialerRefinement, DialerProofs

\* Frame conditions and one-line abbreviations, expanded everywhere.
USE DEF Has, Goto, Fault, Sleep, Wakes, evalFrame, waitFrame, abortFrame,
        winFrame, winVars, linkVars, rasVars, workerVars

\* The labels the mapping calls awake.
AwakePC == (LoopPC \ {"wait"}) \cup DialPC \cup AbortPC

(***************************************************************************)
(* The mapping, label by label.                                            *)
(***************************************************************************)
LEMMA PhaseCases ==
  /\ pc["worker"] = "start" => Phase = "starting"
  /\ pc["worker"] = "wait" => Phase = "asleep"
  /\ pc["worker"] \in {"leave", "cancel", "close"} => Phase = "leaving"
  /\ pc["worker"] = "done" => Phase = "ended"
  /\ pc["worker"] \in AwakePC => Phase = "awake"
BY DEF Phase, AwakePC, LoopPC, DialPC, AbortPC

LEMMA PhaseCasesNext ==
  /\ pc'["worker"] = "start" => Phase' = "starting"
  /\ pc'["worker"] = "wait" => Phase' = "asleep"
  /\ pc'["worker"] \in {"leave", "cancel", "close"} => Phase' = "leaving"
  /\ pc'["worker"] = "done" => Phase' = "ended"
  /\ pc'["worker"] \in AwakePC => Phase' = "awake"
BY DEF Phase, AwakePC, LoopPC, DialPC, AbortPC

(***************************************************************************)
(* The worker keeps a verdict only while it sleeps on it (wait_for_change, *)
(* worker.rs 455-486).                                                     *)
(***************************************************************************)
VerdictOnlyAsleep == ~Has("wait") => waitFor = "nothing"

LEMMA VerdictStep ==
  ASSUME TypeOK, VerdictOnlyAsleep, [Next]_vars
  PROVE  VerdictOnlyAsleep'
<1> USE DEF TypeOK, RasTypeOK, Proc, VerdictOnlyAsleep, WorkerPC, WatchdogPC, LoopPC, DialPC, AbortPC
<1>1. CASE Setup
  BY <1>1 DEF Setup, Start, StartFails, PrepareEntry, ProbeEntry, CreateEntry
<1>2. CASE Evaluation
  BY <1>2 DEF Evaluation, CableIsDown, CableAllowsDialling, AlreadyOnline, NotOnline
<1>3. CASE Dialling
  BY <1>3 DEF Dialling, DialBegins, DialCannotBegin, EntryNotFound, RasDialBegins, RasDialReturns,
        JoinWatchdog, HangUpFailedDial, HangUp, FailedDialReleased
<1>4. CASE Clearing
  BY <1>4 DEF Clearing, AbortEnumerate, AbortHangUp, HangUp, AbortReleased
<1>5. CASE Outcome
  BY <1>5 DEF Outcome, DialSucceeded, DialFailed, AbortEnded, AbortFailed,
        NothingAborted, SomeAborted, BackOff
<1>6. CASE Waiting \/ Timer
  BY <1>6 DEF Waiting, WaitStopped, WaitSignalled, DebounceSwallows, WaitFails,
        Timer, DebounceEnds, WaitTimesOut
<1>7. CASE Shutdown
  BY <1>7 DEF Shutdown, CancelNotification, CallbacksDrained, CloseEvents
<1>8. CASE Guard
  BY <1>8 DEF Guard, Watchdog, WatchdogDismissed, WatchdogFires, WatchdogEnds,
        AbortEnumerate, AbortHangUp, HangUp, AbortReleased
<1>9. CASE Ras_ \/ Outside \/ PhoneBook
  BY <1>9 DEF Ras_, RasConnects, RasRejects, RasCancelled, Outside, PhoneBook, PhoneBookEdited
<1>10. CASE Crash
  BY <1>10 DEF Crash, Fresh
<1>11. CASE UNCHANGED vars
  BY <1>11 DEF vars
<1> QED
  BY <1>1, <1>2, <1>3, <1>4, <1>5, <1>6, <1>7, <1>8, <1>9, <1>10, <1>11 DEF Next, Worker

-----------------------------------------------------------------------------
(***************************************************************************)
(* A step that leaves the worker where the mapping sees it, keeps its      *)
(* verdict and withdraws no stop request is a step of the world.           *)
(***************************************************************************)
LEMMA WorldStep ==
  ASSUME TypeOK, TypeOK', UNCHANGED <<Phase, waitFor>>, stop => stop'
  PROVE  A!World
BY DEF A!World, TypeOK, WindowsTypeOK, OwnUp

\* The groups of actions that only the watchdog, RAS and others take.
LEMMA OutsideStep ==
  ASSUME TypeOK, TypeOK', Guard \/ Ras_ \/ Outside \/ PhoneBook
  PROVE  A!World
<1> USE DEF TypeOK, RasTypeOK, Proc, WorkerPC, WatchdogPC, LoopPC, DialPC, AbortPC
<1>1. waitFor' = waitFor
  BY DEF Guard, Ras_, Outside, PhoneBook
<1>2. pc'["worker"] = pc["worker"]
  <2>1. CASE Guard
    BY <2>1 DEF Guard, Watchdog, WatchdogDismissed, WatchdogFires, WatchdogEnds,
          AbortEnumerate, AbortHangUp, HangUp, AbortReleased
  <2>2. CASE Ras_ \/ Outside \/ PhoneBook
    BY <2>2 DEF Ras_, RasConnects, RasRejects, RasCancelled, Outside, PhoneBook, PhoneBookEdited
  <2> QED
    BY <2>1, <2>2
<1>3. Phase' = Phase
  BY <1>2, PhaseCases, PhaseCasesNext DEF AwakePC
<1>4. stop => stop'
  <2>1. CASE Guard
    BY <2>1 DEF Guard, Watchdog, WatchdogDismissed, WatchdogFires, WatchdogEnds,
          AbortEnumerate, AbortHangUp, AbortReleased
  <2>2. CASE Ras_ \/ Outside \/ PhoneBook
    BY <2>2 DEF Ras_, RasConnects, RasRejects, RasCancelled, Outside, WindowsNext, CableFlip,
          OtherInterfaceChange, CallbackStarts, interface_changed, ServerFails, ServerRecovers,
          RasNotifies, RequestStop, Drops, RasReleases, OtherConnects, OtherAbandons,
          OtherHangsUp, OtherDials, PhoneBook, PhoneBookEdited
  <2> QED
    BY <2>1, <2>2
<1> QED
  BY <1>1, <1>3, <1>4, WorldStep

\* Steps of the worker that the abstract dialler cannot see: it stays awake.
LEMMA AwakeStep ==
  ASSUME TypeOK, TypeOK', VerdictOnlyAsleep, Has("wait") = FALSE, UNCHANGED stop,
         pc["worker"] \in AwakePC, pc'["worker"] \in AwakePC, UNCHANGED waitFor
  PROVE  A!World
BY PhaseCases, PhaseCasesNext, WorldStep

LEMMA EvaluationStep ==
  ASSUME TypeOK, TypeOK', VerdictOnlyAsleep, Evaluation
  PROVE  A!Next
<1> USE DEF TypeOK, RasTypeOK, WindowsTypeOK, Proc, WorkerPC, WatchdogPC, LoopPC, DialPC, AbortPC, AwakePC
<1>1. CASE CableIsDown
  <2>1. ~cable /\ Phase = "awake" /\ Phase' = "asleep" /\ waitFor' = "cable"
    BY <1>1, PhaseCases, PhaseCasesNext DEF CableIsDown
  <2>2. UNCHANGED <<cable, OwnUp, stop>>
    BY <1>1 DEF CableIsDown, OwnUp, Up
  <2> QED
    BY <2>1, <2>2 DEF A!Next, A!Sleep, A!Verdict, A!True, A!Moves, A!world
<1>2. CASE AlreadyOnline
  <2>1. OwnUp /\ Phase = "awake" /\ Phase' = "asleep" /\ waitFor' = "online"
    BY <1>2, PhaseCases, PhaseCasesNext DEF AlreadyOnline, OwnUp, Enumerates
  <2>2. UNCHANGED <<cable, OwnUp, stop>>
    BY <1>2 DEF AlreadyOnline, OwnUp, Up
  <2> QED
    BY <2>1, <2>2 DEF A!Next, A!Sleep, A!Verdict, A!True, A!Moves, A!world
<1>3. CASE CableAllowsDialling \/ NotOnline
  BY <1>3, AwakeStep DEF CableAllowsDialling, NotOnline, A!Next
<1> QED
  BY <1>1, <1>2, <1>3 DEF Evaluation

LEMMA DiallingStep ==
  ASSUME TypeOK, TypeOK', VerdictOnlyAsleep, Dialling \/ Clearing
  PROVE  A!Next
<1> USE DEF TypeOK, RasTypeOK, Proc, WorkerPC, WatchdogPC, LoopPC, DialPC, AbortPC, AwakePC
<1>1. CASE Dialling
  <2>1. pc["worker"] \in AwakePC /\ pc'["worker"] \in AwakePC
    BY <1>1 DEF Dialling, DialBegins, DialCannotBegin, EntryNotFound, RasDialBegins, RasDialReturns,
          JoinWatchdog, HangUpFailedDial, HangUp, FailedDialReleased
  <2>2. UNCHANGED <<stop, waitFor>>
    BY <1>1 DEF Dialling, DialBegins, DialCannotBegin, EntryNotFound, RasDialBegins, RasDialReturns,
          JoinWatchdog, HangUpFailedDial, FailedDialReleased
  <2> QED
    BY <2>1, <2>2, AwakeStep DEF A!Next
<1>2. CASE Clearing
  <2>1. pc["worker"] \in AwakePC /\ pc'["worker"] \in AwakePC
    BY <1>2 DEF Clearing, AbortEnumerate, AbortHangUp, HangUp, AbortReleased
  <2>2. UNCHANGED <<stop, waitFor>>
    BY <1>2 DEF Clearing, AbortEnumerate, AbortHangUp, AbortReleased
  <2> QED
    BY <2>1, <2>2, AwakeStep DEF A!Next
<1> QED
  BY <1>1, <1>2

LEMMA OutcomeStep ==
  ASSUME TypeOK, TypeOK', VerdictOnlyAsleep, Outcome
  PROVE  A!Next
<1> USE DEF TypeOK, RasTypeOK, WindowsTypeOK, Proc, WorkerPC, WatchdogPC, LoopPC, DialPC, AbortPC, AwakePC
<1>1. CASE BackOff
  <2>1. Phase = "awake" /\ Phase' = "asleep" /\ waitFor' = "retry"
    BY <1>1, PhaseCases, PhaseCasesNext DEF BackOff
  <2>2. UNCHANGED <<cable, OwnUp, stop>>
    BY <1>1 DEF BackOff, OwnUp, Up
  <2> QED
    BY <2>1, <2>2 DEF A!Next, A!Sleep, A!Verdict, A!True, A!Moves, A!world
<1>2. CASE DialSucceeded \/ DialFailed \/ AbortEnded \/ AbortFailed \/ NothingAborted \/ SomeAborted
  <2>1. pc["worker"] \in AwakePC /\ pc'["worker"] \in AwakePC
    BY <1>2 DEF DialSucceeded, DialFailed, AbortEnded, AbortFailed, NothingAborted, SomeAborted
  <2>2. UNCHANGED <<stop, waitFor>>
    BY <1>2 DEF DialSucceeded, DialFailed, AbortEnded, AbortFailed, NothingAborted, SomeAborted
  <2> QED
    BY <2>1, <2>2, AwakeStep DEF A!Next
<1> QED
  BY <1>1, <1>2 DEF Outcome

(***************************************************************************)
(* A wait ends in the abstract wake-up, or in the abstract departure when  *)
(* the stop event was first; during the debounce the worker is awake.      *)
(***************************************************************************)
LEMMA WaitingStep ==
  ASSUME TypeOK, TypeOK', VerdictOnlyAsleep, Waiting \/ Timer
  PROVE  A!Next
<1> USE DEF TypeOK, RasTypeOK, WindowsTypeOK, Proc, WorkerPC, WatchdogPC, LoopPC, DialPC, AbortPC, AwakePC
<1>1. UNCHANGED <<cable, conns, stop>>
  BY DEF Waiting, WaitStopped, WaitSignalled, DebounceSwallows, WaitFails, Timer, DebounceEnds, WaitTimesOut
<1>2. UNCHANGED <<cable, OwnUp, stop>>
  BY <1>1 DEF OwnUp, Up
<1>3. pc["worker"] \in {"wait", "debounce"}
  BY DEF Waiting, WaitStopped, WaitSignalled, DebounceSwallows, WaitFails, Timer, DebounceEnds, WaitTimesOut
<1>4. \/ Phase = "asleep" /\ Has("wait")
      \/ Phase = "awake" /\ ~Has("wait") /\ waitFor = "nothing"
  <2>1. CASE pc["worker"] = "wait"
    BY <2>1, PhaseCases
  <2>2. CASE pc["worker"] = "debounce"
    BY <2>2, PhaseCases DEF VerdictOnlyAsleep
  <2> QED
    BY <1>3, <2>1, <2>2
<1>5. CASE WaitStopped
  <2>1. stop /\ Phase' = "leaving" /\ waitFor' = "nothing"
    BY <1>5, PhaseCasesNext DEF WaitStopped
  <2> QED
    BY <1>2, <1>4, <2>1 DEF A!Next, A!Leave, A!Moves, A!world
<1>6. CASE ~WaitStopped
  <2>1. /\ waitFor' = "nothing"
        /\ pc'["worker"] \in {"debounce", "cable"}
    BY <1>3, <1>4, <1>6 DEF Waiting, WaitSignalled, DebounceSwallows, WaitFails, Timer, DebounceEnds, WaitTimesOut
  <2>2. Phase' = "awake"
    BY <2>1, PhaseCasesNext
  <2>3. CASE Has("wait")
    BY <1>2, <1>4, <2>1, <2>2, <2>3 DEF A!Next, A!Wake, A!Moves, A!world
  <2>4. CASE ~Has("wait")
    BY <1>2, <1>4, <2>1, <2>2, <2>4, WorldStep DEF A!Next
  <2> QED
    BY <2>3, <2>4
<1> QED
  BY <1>5, <1>6

\* The beginning, the end, and a crash in between.
LEMMA EndsStep ==
  ASSUME TypeOK, TypeOK', VerdictOnlyAsleep, Setup \/ Shutdown \/ Crash
  PROVE  A!Next
<1> USE DEF TypeOK, RasTypeOK, WindowsTypeOK, Proc, WorkerPC, WatchdogPC, LoopPC, DialPC, AbortPC, AwakePC
<1>1. CASE Start \/ StartFails
  <2>1. Phase = "starting" /\ waitFor = "nothing" /\ waitFor' = "nothing"
    BY <1>1, PhaseCases DEF Start, StartFails, VerdictOnlyAsleep
  <2>2. UNCHANGED <<cable, OwnUp, stop>>
    BY <1>1 DEF Start, StartFails, OwnUp, Up
  <2>3. Phase' \in {"awake", "ended"}
    BY <1>1, PhaseCasesNext DEF Start, StartFails
  <2> QED
    BY <2>1, <2>2, <2>3 DEF A!Next, A!Begin, A!GiveUp, A!Moves, A!world
<1>2. CASE PrepareEntry
  <2>1. pc["worker"] \in AwakePC /\ pc'["worker"] \in AwakePC
    BY <1>2 DEF PrepareEntry, ProbeEntry, CreateEntry
  <2>2. UNCHANGED <<stop, waitFor>> /\ ~Has("wait")
    BY <1>2 DEF PrepareEntry, ProbeEntry, CreateEntry
  <2> QED
    BY <2>1, <2>2, AwakeStep DEF A!Next
<1>3. CASE Shutdown
  <2>1. Phase = "leaving" /\ waitFor = "nothing" /\ waitFor' = "nothing"
    BY <1>3, PhaseCases DEF Shutdown, CancelNotification, CallbacksDrained, CloseEvents, VerdictOnlyAsleep
  <2>2. UNCHANGED <<cable, OwnUp, stop>>
    BY <1>3 DEF Shutdown, CancelNotification, CallbacksDrained, CloseEvents, OwnUp, Up
  <2>3. Phase' \in {"leaving", "ended"}
    BY <1>3, PhaseCasesNext DEF Shutdown, CancelNotification, CallbacksDrained, CloseEvents
  <2> QED
    BY <2>1, <2>2, <2>3, WorldStep DEF A!Next, A!End, A!Moves, A!world
<1>4. CASE Crash
  <2>1. pc["worker"] # "done" /\ waitFor' = "nothing" /\ stop' = FALSE /\ UNCHANGED cable
    BY <1>4 DEF Crash
  <2>2. UNCHANGED OwnUp
    BY <1>4 DEF Crash, OwnUp, Up
  <2>3. Phase # "ended" /\ Phase' = "starting"
    BY <1>4, <2>1, PhaseCases, PhaseCasesNext DEF Crash, Fresh
  <2> QED
    BY <2>1, <2>2, <2>3 DEF A!Next, A!Restart
<1> QED
  BY <1>1, <1>2, <1>3, <1>4 DEF Setup

-----------------------------------------------------------------------------
(***************************************************************************)
(* Every step of the dialler is one of the abstract dialler, or one it     *)
(* does not see.                                                           *)
(***************************************************************************)
LEMMA StepImplements ==
  ASSUME TypeOK, TypeOK', VerdictOnlyAsleep, [Next]_vars
  PROVE  [A!Next]_(A!vars)
<1>1. CASE UNCHANGED vars
  <2>1. UNCHANGED <<cable, OwnUp, stop, Phase, waitFor>>
    BY <1>1 DEF vars, OwnUp, Up, Phase
  <2> QED
    BY <2>1 DEF A!vars, A!world
<1>2. CASE Next
  BY <1>2, EvaluationStep, DiallingStep, OutcomeStep, WaitingStep, EndsStep, OutsideStep
     DEF Next, Worker, A!Next
<1> QED
  BY <1>1, <1>2

(***************************************************************************)
(* The refinement: whatever the dialler does (worker.rs 146-348, with both *)
(* threads of ras.rs and the notifications), seen through the mapping it   *)
(* behaves like the abstract dialler.                                      *)
(***************************************************************************)
THEOREM DialerImplements == Spec => Implements
<1>1. Init => A!Init /\ VerdictOnlyAsleep
  <2> SUFFICES ASSUME Init PROVE A!Init /\ VerdictOnlyAsleep
    OBVIOUS
  <2>1. pc["worker"] = "start" /\ waitFor = "nothing" /\ stop = FALSE /\ cable \in BOOLEAN
    BY DEF Init, WindowsInit, RasInit, WorkerInit, Fresh, Proc
  <2> QED
    BY <2>1, PhaseCases DEF A!Init, VerdictOnlyAsleep, OwnUp
<1>2. IInv => TypeOK
  BY DEF IInv
<1>3. TypeOK /\ VerdictOnlyAsleep /\ [Next]_vars => VerdictOnlyAsleep'
  BY VerdictStep
<1>4. TypeOK /\ TypeOK' /\ VerdictOnlyAsleep /\ [Next]_vars => [A!Next]_(A!vars)
  BY StepImplements
<1> QED
  BY <1>1, <1>2, <1>3, <1>4, Invariance, PTL DEF Spec, Implements, A!Spec
=============================================================================
