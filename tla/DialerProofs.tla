---------------------------- MODULE DialerProofs ----------------------------
(***************************************************************************)
(* The safety properties of the dialler for every set of handles, every    *)
(* choice of settings, and any number of adverse events.  Each conjunct of *)
(* the inductive invariant IInv has a lemma of its own, with one case per  *)
(* group of actions of the next-state relation; IInvInductive puts them    *)
(* together and the theorems follow from it.                               *)
(***************************************************************************)
EXTENDS DialerProperties, TLAPS

\* Frame conditions and one-line abbreviations, expanded everywhere.
USE DEF Has, Goto, Fault, Sleep, Wakes, evalFrame, waitFrame, abortFrame,
        winFrame, winVars, linkVars, rasVars, workerVars

(***************************************************************************)
(* The initial states satisfy the invariant (run() before its first step,  *)
(* worker.rs 158).                                                         *)
(***************************************************************************)
LEMMA InitIInv == Init => IInv
<1> SUFFICES ASSUME Init PROVE IInv
  OBVIOUS
<1> USE DEF Init, WindowsInit, RasInit, WorkerInit, Fresh, Proc
<1>1. WindowsTypeOK
  <2>1. conns \in [Handle -> ConnState]
    BY DEF ConnState
  <2>2. trouble \in 0..MaxTrouble
    BY TroubleAssumption
  <2>3. linkEvt \in EventState /\ rasEvt \in EventState
    BY DEF EventState
  <2> QED
    BY <2>1, <2>2, <2>3, Zenon DEF WindowsTypeOK
<1>2. RasTypeOK
  BY DEF RasTypeOK, Answer, EventState
<1>3. TypeOK
  BY <1>1, <1>2, SettingsAssumption DEF TypeOK, WorkerPC, WatchdogPC
<1>4. Registration
  BY DEF Registration
<1>5. WatchdogConfined
  BY DEF WatchdogConfined
<1>6. OwnAttempt
  BY DEF OwnAttempt
<1>7. ForeignNotClosing
  BY DEF ForeignNotClosing, Handle
<1>9. LetGo
  BY DEF LetGo
<1>8. NoLostWakeup
  BY DEF NoLostWakeup, CableVerdictFresh, OnlineVerdictFresh
<1> QED
  BY <1>3, <1>4, <1>5, <1>6, <1>7, <1>8, <1>9 DEF IInv

-----------------------------------------------------------------------------
(***************************************************************************)
(* Type correctness, in three parts: the connection table and the events;  *)
(* the flags of the machine; the variables of ras.rs.                      *)
(***************************************************************************)
LEMMA TableTypeStep ==
  ASSUME TypeOK, [Next]_vars
  PROVE  /\ conns' \in [Handle -> ConnState]
         /\ linkEvt' \in EventState /\ rasEvt' \in EventState
         /\ trouble' \in 0..MaxTrouble
<1> USE HandlesAssumption, TroubleAssumption DEF TypeOK, WindowsTypeOK,
        RasTypeOK, ConnState, EventState, Answer, Proc, Handle, WorkerPC,
        WatchdogPC, LoopPC, DialPC, AbortPC
<1>1. CASE Setup
  BY <1>1 DEF Setup, Start, StartFails, PrepareEntry, ProbeEntry,
        CreateEntry
<1>2. CASE Evaluation
  BY <1>2 DEF Evaluation, CableIsDown, CableAllowsDialling, AlreadyOnline,
        Enumerates, NotOnline, EnumerateFails
<1>3. CASE Dialling
  BY <1>3 DEF Dialling, DialBegins, DialCannotBegin, EntryNotFound, RasDialBegins,
        Held, Occupied, OwnUp, RasDialReturns, JoinWatchdog, HangUpFailedDial,
        HangUp, Valid, FailedDialReleased, Released
<1>4. CASE Clearing
  BY <1>4 DEF Clearing, AbortEnumerate, Enumerates, is_stale_attempt,
        Occupied, AbortHangUp, HangUp, Valid, AbortReleased, Released
<1>5. CASE Outcome
  BY <1>5 DEF Outcome, DialSucceeded, DialFailed, AbortEnded, AbortFailed,
        EnumerateFails, NothingAborted, SomeAborted, BackOff
<1>6. CASE Waiting
  BY <1>6 DEF Waiting, WaitStopped, WaitSignalled, ConsumeFirst, Signalled,
        DebounceSwallows, WaitFails
<1>7. CASE Shutdown
  BY <1>7 DEF Shutdown, CancelNotification, CallbacksDrained, CloseEvents
<1>8. CASE Timer
  BY <1>8 DEF Timer, DebounceEnds, WaitTimesOut, Signalled
<1>9. CASE Guard
  BY <1>9 DEF Guard, Watchdog, WatchdogDismissed, WatchdogFires, Reachable,
        WatchdogEnds, EnumerateFails, AbortEnumerate, Enumerates,
        is_stale_attempt, Occupied, AbortHangUp, HangUp, Valid, AbortReleased,
        Released
<1>10. CASE Ras_
  BY <1>10 DEF Ras_, RasConnects, Ringing, Reachable, RasRejects, RasCancelled
<1>11. CASE Outside
  BY <1>11 DEF Outside, WindowsNext, Held, CableFlip, OtherInterfaceChange,
        CallbackStarts, interface_changed, SetEvent, ServerFails,
        ServerRecovers, RasNotifies, RequestStop, Drops, Reachable,
        RasReleases, OtherConnects, OtherAbandons, OtherHangsUp, OtherDials, Occupied
<1>12. CASE Crash
  BY <1>12 DEF Crash, Fresh
<1>13. CASE PhoneBook
  BY <1>13 DEF PhoneBook, PhoneBookEdited, Occupied
<1>14. CASE UNCHANGED vars
  BY <1>14 DEF vars
<1> QED
  BY <1>1, <1>2, <1>3, <1>4, <1>5, <1>6, <1>7, <1>8, <1>9, <1>10, <1>11, <1>12, <1>13, <1>14 DEF Next, Worker

LEMMA FlagsTypeStep ==
  ASSUME TypeOK, [Next]_vars
  PROVE  /\ cable' \in BOOLEAN /\ server' \in BOOLEAN /\ stop' \in BOOLEAN
         /\ linkReg' \in BOOLEAN /\ linkQueued' \in BOOLEAN
         /\ linkRunning' \in BOOLEAN /\ rasQueued' \in BOOLEAN
<1> USE DEF TypeOK, WindowsTypeOK, RasTypeOK, ConnState, EventState, Answer,
        Proc, Handle, WorkerPC, WatchdogPC, LoopPC, DialPC, AbortPC
<1>1. CASE Setup
  BY <1>1 DEF Setup, Start, StartFails, PrepareEntry, ProbeEntry,
        CreateEntry
<1>2. CASE Evaluation
  BY <1>2 DEF Evaluation, CableIsDown, CableAllowsDialling, AlreadyOnline,
        Enumerates, NotOnline, EnumerateFails
<1>3. CASE Dialling
  BY <1>3 DEF Dialling, DialBegins, DialCannotBegin, EntryNotFound, RasDialBegins,
        Held, Occupied, OwnUp, RasDialReturns, JoinWatchdog, HangUpFailedDial,
        HangUp, Valid, FailedDialReleased, Released
<1>4. CASE Clearing
  BY <1>4 DEF Clearing, AbortEnumerate, Enumerates, is_stale_attempt,
        Occupied, AbortHangUp, HangUp, Valid, AbortReleased, Released
<1>5. CASE Outcome
  BY <1>5 DEF Outcome, DialSucceeded, DialFailed, AbortEnded, AbortFailed,
        EnumerateFails, NothingAborted, SomeAborted, BackOff
<1>6. CASE Waiting
  BY <1>6 DEF Waiting, WaitStopped, WaitSignalled, ConsumeFirst, Signalled,
        DebounceSwallows, WaitFails
<1>7. CASE Shutdown
  BY <1>7 DEF Shutdown, CancelNotification, CallbacksDrained, CloseEvents
<1>8. CASE Timer
  BY <1>8 DEF Timer, DebounceEnds, WaitTimesOut, Signalled
<1>9. CASE Guard
  BY <1>9 DEF Guard, Watchdog, WatchdogDismissed, WatchdogFires, Reachable,
        WatchdogEnds, EnumerateFails, AbortEnumerate, Enumerates,
        is_stale_attempt, Occupied, AbortHangUp, HangUp, Valid, AbortReleased,
        Released
<1>10. CASE Ras_
  BY <1>10 DEF Ras_, RasConnects, Ringing, Reachable, RasRejects, RasCancelled
<1>11. CASE Outside
  <2>1. CASE CableFlip \/ OtherInterfaceChange \/ CallbackStarts \/ interface_changed
    BY <2>1 DEF CableFlip, OtherInterfaceChange, CallbackStarts, interface_changed
  <2>2. CASE ServerFails \/ ServerRecovers \/ RasNotifies \/ RequestStop
    BY <2>2 DEF ServerFails, ServerRecovers, RasNotifies, RequestStop
  <2>3. CASE \E h \in Handle : \/ Drops(h) \/ RasReleases(h) \/ OtherConnects(h)
                              \/ OtherAbandons(h) \/ OtherHangsUp(h)
    BY <2>3 DEF Drops, RasReleases, OtherConnects, OtherAbandons, OtherHangsUp
  <2>4. CASE \E h \in Handle \ Held : OtherDials(h)
    BY <2>4 DEF OtherDials
  <2> QED
    BY <1>11, <2>1, <2>2, <2>3, <2>4 DEF Outside, WindowsNext
<1>12. CASE Crash
  BY <1>12 DEF Crash, Fresh
<1>13. CASE PhoneBook
  BY <1>13 DEF PhoneBook, PhoneBookEdited, Occupied
<1>14. CASE UNCHANGED vars
  BY <1>14 DEF vars
<1> QED
  BY <1>1, <1>2, <1>3, <1>4, <1>5, <1>6, <1>7, <1>8, <1>9, <1>10, <1>11, <1>12, <1>13, <1>14 DEF Next, Worker

LEMMA RasTypeStep ==
  ASSUME TypeOK, [Next]_vars
  PROVE  RasTypeOK'
<1> USE HandlesAssumption DEF TypeOK, WindowsTypeOK, RasTypeOK, ConnState,
        EventState, Answer, Proc, Handle, WorkerPC, WatchdogPC, LoopPC,
        DialPC, AbortPC
<1>1. CASE Setup
  BY <1>1 DEF Setup, Start, StartFails, PrepareEntry, ProbeEntry,
        CreateEntry
<1>2. CASE Evaluation
  BY <1>2 DEF Evaluation, CableIsDown, CableAllowsDialling, AlreadyOnline,
        Enumerates, NotOnline, EnumerateFails
<1>3. CASE Dialling
  BY <1>3 DEF Dialling, DialBegins, DialCannotBegin, EntryNotFound, RasDialBegins,
        Held, Occupied, OwnUp, RasDialReturns, JoinWatchdog, HangUpFailedDial,
        HangUp, Valid, FailedDialReleased, Released
<1>4. CASE Clearing
  BY <1>4 DEF Clearing, AbortEnumerate, Enumerates, is_stale_attempt,
        Occupied, AbortHangUp, HangUp, Valid, AbortReleased, Released
<1>5. CASE Outcome
  BY <1>5 DEF Outcome, DialSucceeded, DialFailed, AbortEnded, AbortFailed,
        EnumerateFails, NothingAborted, SomeAborted, BackOff
<1>6. CASE Waiting
  BY <1>6 DEF Waiting, WaitStopped, WaitSignalled, ConsumeFirst, Signalled,
        DebounceSwallows, WaitFails
<1>7. CASE Shutdown
  BY <1>7 DEF Shutdown, CancelNotification, CallbacksDrained, CloseEvents
<1>8. CASE Timer
  BY <1>8 DEF Timer, DebounceEnds, WaitTimesOut, Signalled
<1>9. CASE Guard
  BY <1>9 DEF Guard, Watchdog, WatchdogDismissed, WatchdogFires, Reachable,
        WatchdogEnds, EnumerateFails, AbortEnumerate, Enumerates,
        is_stale_attempt, Occupied, AbortHangUp, HangUp, Valid, AbortReleased,
        Released
<1>10. CASE Ras_
  BY <1>10 DEF Ras_, RasConnects, Ringing, Reachable, RasRejects, RasCancelled
<1>11. CASE Outside
  BY <1>11 DEF Outside, WindowsNext, Held, CableFlip, OtherInterfaceChange,
        CallbackStarts, interface_changed, SetEvent, ServerFails,
        ServerRecovers, RasNotifies, RequestStop, Drops, Reachable,
        RasReleases, OtherConnects, OtherAbandons, OtherHangsUp, OtherDials, Occupied
<1>12. CASE Crash
  BY <1>12 DEF Crash, Fresh
<1>13. CASE PhoneBook
  BY <1>13 DEF PhoneBook, PhoneBookEdited, Occupied
<1>14. CASE UNCHANGED vars
  BY <1>14 DEF vars
<1> QED
  BY <1>1, <1>2, <1>3, <1>4, <1>5, <1>6, <1>7, <1>8, <1>9, <1>10, <1>11, <1>12, <1>13, <1>14 DEF Next, Worker

(***************************************************************************)
(* The worker's own variables, and with them the whole type invariant.     *)
(***************************************************************************)
LEMMA WorkerTypeStep ==
  ASSUME TypeOK, [Next]_vars
  PROVE  /\ pc' \in [Proc -> WorkerPC \cup WatchdogPC]
         /\ pc'["worker"] \in WorkerPC /\ pc'["watchdog"] \in WatchdogPC
         /\ waitFor' \in {"nothing", "cable", "online", "retry"}
         /\ attempts' \in 0..AttemptsMax
         /\ blocked' \in 0..WarnAfter + 1
<1> USE SettingsAssumption DEF TypeOK, WindowsTypeOK, RasTypeOK, ConnState,
        EventState, Answer, Proc, Handle, WorkerPC, WatchdogPC, LoopPC,
        DialPC, AbortPC
<1>1. CASE Setup
  BY <1>1 DEF Setup, Start, StartFails, PrepareEntry, ProbeEntry,
        CreateEntry
<1>2. CASE Evaluation
  BY <1>2 DEF Evaluation, CableIsDown, CableAllowsDialling, AlreadyOnline,
        Enumerates, NotOnline, EnumerateFails
<1>3. CASE Dialling
  BY <1>3 DEF Dialling, DialBegins, DialCannotBegin, EntryNotFound, RasDialBegins,
        Held, Occupied, OwnUp, RasDialReturns, JoinWatchdog, HangUpFailedDial,
        HangUp, Valid, FailedDialReleased, Released
<1>4. CASE Clearing
  BY <1>4 DEF Clearing, AbortEnumerate, Enumerates, is_stale_attempt,
        Occupied, AbortHangUp, HangUp, Valid, AbortReleased, Released
<1>5. CASE Outcome
  BY <1>5 DEF Outcome, DialSucceeded, DialFailed, AbortEnded, AbortFailed,
        EnumerateFails, NothingAborted, SomeAborted, BackOff
<1>6. CASE Waiting
  BY <1>6 DEF Waiting, WaitStopped, WaitSignalled, ConsumeFirst, Signalled,
        DebounceSwallows, WaitFails
<1>7. CASE Shutdown
  BY <1>7 DEF Shutdown, CancelNotification, CallbacksDrained, CloseEvents
<1>8. CASE Timer
  BY <1>8 DEF Timer, DebounceEnds, WaitTimesOut, Signalled
<1>9. CASE Guard
  BY <1>9 DEF Guard, Watchdog, WatchdogDismissed, WatchdogFires, Reachable,
        WatchdogEnds, EnumerateFails, AbortEnumerate, Enumerates,
        is_stale_attempt, Occupied, AbortHangUp, HangUp, Valid, AbortReleased,
        Released
<1>10. CASE Ras_
  BY <1>10 DEF Ras_, RasConnects, Ringing, Reachable, RasRejects, RasCancelled
<1>11. CASE Outside
  BY <1>11 DEF Outside, WindowsNext, Held, CableFlip, OtherInterfaceChange,
        CallbackStarts, interface_changed, SetEvent, ServerFails,
        ServerRecovers, RasNotifies, RequestStop, Drops, Reachable,
        RasReleases, OtherConnects, OtherAbandons, OtherHangsUp, OtherDials, Occupied
<1>12. CASE Crash
  BY <1>12 DEF Crash, Fresh
<1>13. CASE PhoneBook
  BY <1>13 DEF PhoneBook, PhoneBookEdited, Occupied
<1>14. CASE UNCHANGED vars
  BY <1>14 DEF vars
<1> QED
  BY <1>1, <1>2, <1>3, <1>4, <1>5, <1>6, <1>7, <1>8, <1>9, <1>10, <1>11, <1>12, <1>13, <1>14 DEF Next, Worker

LEMMA TypeStep == TypeOK /\ [Next]_vars => TypeOK'
<1> SUFFICES ASSUME TypeOK, [Next]_vars PROVE TypeOK'
  OBVIOUS
<1>1. WindowsTypeOK'
  BY TableTypeStep, FlagsTypeStep, Zenon DEF WindowsTypeOK
<1>2. RasTypeOK'
  BY RasTypeStep
<1> QED
  BY <1>1, <1>2, WorkerTypeStep DEF TypeOK

-----------------------------------------------------------------------------
(***************************************************************************)
(* The guard of the registration and the events live from Start to the     *)
(* shutdown (worker.rs 158-173, 336-347).                                  *)
(***************************************************************************)
LEMMA RegistrationStep ==
  ASSUME TypeOK, Registration, [Next]_vars
  PROVE  Registration'
<1> USE DEF TypeOK, WindowsTypeOK, RasTypeOK, ConnState, EventState, Answer,
        Proc, Handle, WorkerPC, WatchdogPC, LoopPC, DialPC, AbortPC,
        Registration
<1>1. CASE Setup
  BY <1>1 DEF Setup, Start, StartFails, PrepareEntry, ProbeEntry,
        CreateEntry
<1>2. CASE Evaluation
  BY <1>2 DEF Evaluation, CableIsDown, CableAllowsDialling, AlreadyOnline,
        Enumerates, NotOnline, EnumerateFails
<1>3. CASE Dialling
  BY <1>3 DEF Dialling, DialBegins, DialCannotBegin, EntryNotFound, RasDialBegins,
        Held, Occupied, OwnUp, RasDialReturns, JoinWatchdog, HangUpFailedDial,
        HangUp, Valid, FailedDialReleased, Released
<1>4. CASE Clearing
  BY <1>4 DEF Clearing, AbortEnumerate, Enumerates, is_stale_attempt,
        Occupied, AbortHangUp, HangUp, Valid, AbortReleased, Released
<1>5. CASE Outcome
  BY <1>5 DEF Outcome, DialSucceeded, DialFailed, AbortEnded, AbortFailed,
        EnumerateFails, NothingAborted, SomeAborted, BackOff
<1>6. CASE Waiting
  BY <1>6 DEF Waiting, WaitStopped, WaitSignalled, ConsumeFirst, Signalled,
        DebounceSwallows, WaitFails
<1>7. CASE Shutdown
  BY <1>7 DEF Shutdown, CancelNotification, CallbacksDrained, CloseEvents
<1>8. CASE Timer
  BY <1>8 DEF Timer, DebounceEnds, WaitTimesOut, Signalled
<1>9. CASE Guard
  BY <1>9 DEF Guard, Watchdog, WatchdogDismissed, WatchdogFires, Reachable,
        WatchdogEnds, EnumerateFails, AbortEnumerate, Enumerates,
        is_stale_attempt, Occupied, AbortHangUp, HangUp, Valid, AbortReleased,
        Released
<1>10. CASE Ras_
  BY <1>10 DEF Ras_, RasConnects, Ringing, Reachable, RasRejects, RasCancelled
<1>11. CASE Outside
  BY <1>11 DEF Outside, WindowsNext, Held, CableFlip, OtherInterfaceChange,
        CallbackStarts, interface_changed, SetEvent, ServerFails,
        ServerRecovers, RasNotifies, RequestStop, Drops, Reachable,
        RasReleases, OtherConnects, OtherAbandons, OtherHangsUp, OtherDials, Occupied
<1>12. CASE Crash
  BY <1>12 DEF Crash, Fresh
<1>13. CASE PhoneBook
  BY <1>13 DEF PhoneBook, PhoneBookEdited, Occupied
<1>14. CASE UNCHANGED vars
  BY <1>14 DEF vars
<1> QED
  BY <1>1, <1>2, <1>3, <1>4, <1>5, <1>6, <1>7, <1>8, <1>9, <1>10, <1>11, <1>12, <1>13, <1>14 DEF Next, Worker

(***************************************************************************)
(* The join in dial() confines the watchdog (ras.rs 199-203).              *)
(***************************************************************************)
LEMMA WatchdogConfinedStep ==
  ASSUME TypeOK, WatchdogConfined, [Next]_vars
  PROVE  WatchdogConfined'
<1> USE DEF TypeOK, WindowsTypeOK, RasTypeOK, ConnState, EventState, Answer,
        Proc, Handle, WorkerPC, WatchdogPC, LoopPC, DialPC, AbortPC,
        WatchdogConfined
<1>1. CASE Setup
  BY <1>1 DEF Setup, Start, StartFails, PrepareEntry, ProbeEntry,
        CreateEntry
<1>2. CASE Evaluation
  BY <1>2 DEF Evaluation, CableIsDown, CableAllowsDialling, AlreadyOnline,
        Enumerates, NotOnline, EnumerateFails
<1>3. CASE Dialling
  BY <1>3 DEF Dialling, DialBegins, DialCannotBegin, EntryNotFound, RasDialBegins,
        Held, Occupied, OwnUp, RasDialReturns, JoinWatchdog, HangUpFailedDial,
        HangUp, Valid, FailedDialReleased, Released
<1>4. CASE Clearing
  BY <1>4 DEF Clearing, AbortEnumerate, Enumerates, is_stale_attempt,
        Occupied, AbortHangUp, HangUp, Valid, AbortReleased, Released
<1>5. CASE Outcome
  BY <1>5 DEF Outcome, DialSucceeded, DialFailed, AbortEnded, AbortFailed,
        EnumerateFails, NothingAborted, SomeAborted, BackOff
<1>6. CASE Waiting
  BY <1>6 DEF Waiting, WaitStopped, WaitSignalled, ConsumeFirst, Signalled,
        DebounceSwallows, WaitFails
<1>7. CASE Shutdown
  BY <1>7 DEF Shutdown, CancelNotification, CallbacksDrained, CloseEvents
<1>8. CASE Timer
  BY <1>8 DEF Timer, DebounceEnds, WaitTimesOut, Signalled
<1>9. CASE Guard
  BY <1>9 DEF Guard, Watchdog, WatchdogDismissed, WatchdogFires, Reachable,
        WatchdogEnds, EnumerateFails, AbortEnumerate, Enumerates,
        is_stale_attempt, Occupied, AbortHangUp, HangUp, Valid, AbortReleased,
        Released
<1>10. CASE Ras_
  BY <1>10 DEF Ras_, RasConnects, Ringing, Reachable, RasRejects, RasCancelled
<1>11. CASE Outside
  BY <1>11 DEF Outside, WindowsNext, Held, CableFlip, OtherInterfaceChange,
        CallbackStarts, interface_changed, SetEvent, ServerFails,
        ServerRecovers, RasNotifies, RequestStop, Drops, Reachable,
        RasReleases, OtherConnects, OtherAbandons, OtherHangsUp, OtherDials, Occupied
<1>12. CASE Crash
  BY <1>12 DEF Crash, Fresh
<1>13. CASE PhoneBook
  BY <1>13 DEF PhoneBook, PhoneBookEdited, Occupied
<1>14. CASE UNCHANGED vars
  BY <1>14 DEF vars
<1> QED
  BY <1>1, <1>2, <1>3, <1>4, <1>5, <1>6, <1>7, <1>8, <1>9, <1>10, <1>11, <1>12, <1>13, <1>14 DEF Next, Worker

(***************************************************************************)
(* What the handle of the latest attempt can be.  RasDialW gives out no    *)
(* handle of a connection that exists, and calls it up only with the       *)
(* answer "ok".                                                            *)
(***************************************************************************)
LEMMA OwnAttemptStep ==
  ASSUME TypeOK, OwnAttempt, WatchdogConfined, [Next]_vars
  PROVE  OwnAttempt'
<1> USE HandlesAssumption DEF TypeOK, WindowsTypeOK, RasTypeOK, ConnState,
        EventState, Answer, Proc, Handle, WorkerPC, WatchdogPC, LoopPC,
        DialPC, AbortPC, OwnAttempt, WatchdogConfined
<1>1. CASE Setup
  BY <1>1 DEF Setup, Start, StartFails, PrepareEntry, ProbeEntry,
        CreateEntry
<1>2. CASE Evaluation
  BY <1>2 DEF Evaluation, CableIsDown, CableAllowsDialling, AlreadyOnline,
        Enumerates, NotOnline, EnumerateFails
<1>3. CASE Dialling
  BY <1>3 DEF Dialling, DialBegins, DialCannotBegin, EntryNotFound, RasDialBegins,
        Held, Occupied, OwnUp, RasDialReturns, JoinWatchdog, HangUpFailedDial,
        HangUp, Valid, FailedDialReleased, Released
<1>4. CASE Clearing
  BY <1>4 DEF Clearing, AbortEnumerate, Enumerates, is_stale_attempt,
        Occupied, AbortHangUp, HangUp, Valid, AbortReleased, Released
<1>5. CASE Outcome
  BY <1>5 DEF Outcome, DialSucceeded, DialFailed, AbortEnded, AbortFailed,
        EnumerateFails, NothingAborted, SomeAborted, BackOff
<1>6. CASE Waiting
  BY <1>6 DEF Waiting, WaitStopped, WaitSignalled, ConsumeFirst, Signalled,
        DebounceSwallows, WaitFails
<1>7. CASE Shutdown
  BY <1>7 DEF Shutdown, CancelNotification, CallbacksDrained, CloseEvents
<1>8. CASE Timer
  BY <1>8 DEF Timer, DebounceEnds, WaitTimesOut, Signalled
<1>9. CASE Guard
  BY <1>9 DEF Guard, Watchdog, WatchdogDismissed, WatchdogFires, Reachable,
        WatchdogEnds, EnumerateFails, AbortEnumerate, Enumerates,
        is_stale_attempt, Occupied, AbortHangUp, HangUp, Valid, AbortReleased,
        Released
<1>10. CASE Ras_
  BY <1>10 DEF Ras_, RasConnects, Ringing, Reachable, RasRejects, RasCancelled
<1>11. CASE Outside
  BY <1>11 DEF Outside, WindowsNext, Held, CableFlip, OtherInterfaceChange,
        CallbackStarts, interface_changed, SetEvent, ServerFails,
        ServerRecovers, RasNotifies, RequestStop, Drops, Reachable,
        RasReleases, OtherConnects, OtherAbandons, OtherHangsUp, OtherDials, Occupied
<1>12. CASE Crash
  BY <1>12 DEF Crash, Fresh
<1>13. CASE PhoneBook
  BY <1>13 DEF PhoneBook, PhoneBookEdited, Occupied
<1>14. CASE UNCHANGED vars
  BY <1>14 DEF vars
<1> QED
  BY <1>1, <1>2, <1>3, <1>4, <1>5, <1>6, <1>7, <1>8, <1>9, <1>10, <1>11, <1>12, <1>13, <1>14 DEF Next, Worker

(***************************************************************************)
(* A failed attempt stays let go of: it is hung up before the worker goes  *)
(* on, and its handle is held until the next attempt (ras.rs 204-217).     *)
(***************************************************************************)
LEMMA LetGoStep ==
  ASSUME TypeOK, LetGo, OwnAttempt, [Next]_vars
  PROVE  LetGo'
<1> USE HandlesAssumption DEF TypeOK, WindowsTypeOK, RasTypeOK, ConnState,
        EventState, Answer, Proc, Handle, WorkerPC, WatchdogPC, LoopPC,
        DialPC, AbortPC, AfterHangUp, OwnAttempt, LetGo
<1>0. ASSUME pc'["worker"] \in {"leave", "cable", "debounce"} PROVE LetGo'
  BY <1>0
<1>1. CASE Setup
  BY <1>1 DEF Setup, Start, StartFails, PrepareEntry, ProbeEntry,
        CreateEntry
<1>2. CASE Evaluation
  BY <1>2 DEF Evaluation, CableIsDown, CableAllowsDialling, AlreadyOnline,
        Enumerates, NotOnline, EnumerateFails
<1>3. CASE Dialling
  BY <1>3 DEF Dialling, DialBegins, DialCannotBegin, EntryNotFound, RasDialBegins,
        Held, Occupied, OwnUp, RasDialReturns, JoinWatchdog, HangUpFailedDial,
        HangUp, Valid, FailedDialReleased, Released
<1>4. CASE Clearing
  BY <1>4 DEF Clearing, AbortEnumerate, Enumerates, is_stale_attempt,
        Occupied, AbortHangUp, HangUp, Valid, AbortReleased, Released
<1>5. CASE Outcome
  BY <1>5 DEF Outcome, DialSucceeded, DialFailed, AbortEnded, AbortFailed,
        EnumerateFails, NothingAborted, SomeAborted, BackOff
<1>6. CASE Waiting
  <2>1. CASE WaitStopped \/ WaitSignalled \/ WaitFails
    BY <1>0, <2>1 DEF WaitStopped, WaitSignalled, WaitFails
  <2>2. CASE DebounceSwallows
    BY <1>0, <2>2 DEF DebounceSwallows
  <2> QED
    BY <1>6, <2>1, <2>2 DEF Waiting
<1>7. CASE Shutdown
  BY <1>7 DEF Shutdown, CancelNotification, CallbacksDrained, CloseEvents
<1>8. CASE Timer
  BY <1>0, <1>8 DEF Timer, DebounceEnds, WaitTimesOut
<1>9. CASE Guard
  BY <1>9 DEF Guard, Watchdog, WatchdogDismissed, WatchdogFires, Reachable,
        WatchdogEnds, EnumerateFails, AbortEnumerate, Enumerates,
        is_stale_attempt, Occupied, AbortHangUp, HangUp, Valid, AbortReleased,
        Released
<1>10. CASE Ras_
  BY <1>10 DEF Ras_, RasConnects, Ringing, Reachable, RasRejects, RasCancelled
<1>11. CASE Outside
  BY <1>11 DEF Outside, WindowsNext, Held, CableFlip, OtherInterfaceChange,
        CallbackStarts, interface_changed, SetEvent, ServerFails,
        ServerRecovers, RasNotifies, RequestStop, Drops, Reachable,
        RasReleases, OtherConnects, OtherAbandons, OtherHangsUp, OtherDials, Occupied
<1>12. CASE Crash
  <2>1. hconn' = NoHandle
    BY <1>12 DEF Crash
  <2> QED
    BY <2>1
<1>13. CASE PhoneBook
  BY <1>13 DEF PhoneBook, PhoneBookEdited, Occupied
<1>14. CASE UNCHANGED vars
  BY <1>14 DEF vars
<1> QED
  BY <1>1, <1>2, <1>3, <1>4, <1>5, <1>6, <1>7, <1>8, <1>9, <1>10, <1>11, <1>12, <1>13, <1>14 DEF Next, Worker

(***************************************************************************)
(* Everything the service hangs up is of its own entry: the snapshot is    *)
(* filtered by name (ras.rs 285-287), and RasDialW dials no other.         *)
(***************************************************************************)
LEMMA ForeignNotClosingStep ==
  ASSUME TypeOK, ForeignNotClosing, [Next]_vars
  PROVE  ForeignNotClosing'
<1> USE HandlesAssumption DEF TypeOK, WindowsTypeOK, RasTypeOK, ConnState,
        EventState, Answer, Proc, Handle, WorkerPC, WatchdogPC, LoopPC,
        DialPC, AbortPC, ForeignNotClosing
<1>1. CASE Setup
  BY <1>1 DEF Setup, Start, StartFails, PrepareEntry, ProbeEntry,
        CreateEntry
<1>2. CASE Evaluation
  BY <1>2 DEF Evaluation, CableIsDown, CableAllowsDialling, AlreadyOnline,
        Enumerates, NotOnline, EnumerateFails
<1>3. CASE Dialling
  BY <1>3 DEF Dialling, DialBegins, DialCannotBegin, EntryNotFound, RasDialBegins,
        Held, Occupied, OwnUp, RasDialReturns, JoinWatchdog, HangUpFailedDial,
        HangUp, Valid, FailedDialReleased, Released
<1>4. CASE Clearing
  BY <1>4 DEF Clearing, AbortEnumerate, Enumerates, is_stale_attempt,
        Occupied, AbortHangUp, HangUp, Valid, AbortReleased, Released
<1>5. CASE Outcome
  BY <1>5 DEF Outcome, DialSucceeded, DialFailed, AbortEnded, AbortFailed,
        EnumerateFails, NothingAborted, SomeAborted, BackOff
<1>6. CASE Waiting
  BY <1>6 DEF Waiting, WaitStopped, WaitSignalled, ConsumeFirst, Signalled,
        DebounceSwallows, WaitFails
<1>7. CASE Shutdown
  BY <1>7 DEF Shutdown, CancelNotification, CallbacksDrained, CloseEvents
<1>8. CASE Timer
  BY <1>8 DEF Timer, DebounceEnds, WaitTimesOut, Signalled
<1>9. CASE Guard
  BY <1>9 DEF Guard, Watchdog, WatchdogDismissed, WatchdogFires, Reachable,
        WatchdogEnds, EnumerateFails, AbortEnumerate, Enumerates,
        is_stale_attempt, Occupied, AbortHangUp, HangUp, Valid, AbortReleased,
        Released
<1>10. CASE Ras_
  BY <1>10 DEF Ras_, RasConnects, Ringing, Reachable, RasRejects, RasCancelled
<1>11. CASE Outside
  BY <1>11 DEF Outside, WindowsNext, Held, CableFlip, OtherInterfaceChange,
        CallbackStarts, interface_changed, SetEvent, ServerFails,
        ServerRecovers, RasNotifies, RequestStop, Drops, Reachable,
        RasReleases, OtherConnects, OtherAbandons, OtherHangsUp, OtherDials, Occupied
<1>12. CASE Crash
  BY <1>12 DEF Crash, Fresh
<1>13. CASE PhoneBook
  BY <1>13 DEF PhoneBook, PhoneBookEdited, Occupied
<1>14. CASE UNCHANGED vars
  BY <1>14 DEF vars
<1> QED
  BY <1>1, <1>2, <1>3, <1>4, <1>5, <1>6, <1>7, <1>8, <1>9, <1>10, <1>11, <1>12, <1>13, <1>14 DEF Next, Worker

(***************************************************************************)
(* Notifications are subscribed before the question is asked, so a change  *)
(* after the answer leaves an event or a callback behind (worker.rs        *)
(* 158-173, 187-253).                                                      *)
(***************************************************************************)
LEMMA NoLostWakeupStep ==
  ASSUME TypeOK, Registration, NoLostWakeup, [Next]_vars
  PROVE  NoLostWakeup'
<1> USE HandlesAssumption DEF TypeOK, WindowsTypeOK, RasTypeOK, ConnState,
        EventState, Answer, Proc, Handle, WorkerPC, WatchdogPC, LoopPC,
        DialPC, AbortPC, NoLostWakeup, CableVerdictFresh, OnlineVerdictFresh,
        Registration, OwnUp, Up
<1>1. CASE Setup
  BY <1>1 DEF Setup, Start, StartFails, PrepareEntry, ProbeEntry,
        CreateEntry
<1>2. CASE Evaluation
  BY <1>2 DEF Evaluation, CableIsDown, CableAllowsDialling, AlreadyOnline,
        Enumerates, NotOnline, EnumerateFails
<1>3. CASE Dialling
  BY <1>3 DEF Dialling, DialBegins, DialCannotBegin, EntryNotFound, RasDialBegins,
        Held, Occupied, OwnUp, RasDialReturns, JoinWatchdog, HangUpFailedDial,
        HangUp, Valid, FailedDialReleased, Released
<1>4. CASE Clearing
  BY <1>4 DEF Clearing, AbortEnumerate, Enumerates, is_stale_attempt,
        Occupied, AbortHangUp, HangUp, Valid, AbortReleased, Released
<1>5. CASE Outcome
  BY <1>5 DEF Outcome, DialSucceeded, DialFailed, AbortEnded, AbortFailed,
        EnumerateFails, NothingAborted, SomeAborted, BackOff
<1>6. CASE Waiting
  BY <1>6 DEF Waiting, WaitStopped, WaitSignalled, ConsumeFirst, Signalled,
        DebounceSwallows, WaitFails
<1>7. CASE Shutdown
  BY <1>7 DEF Shutdown, CancelNotification, CallbacksDrained, CloseEvents
<1>8. CASE Timer
  BY <1>8 DEF Timer, DebounceEnds, WaitTimesOut, Signalled
<1>9. CASE Guard
  BY <1>9 DEF Guard, Watchdog, WatchdogDismissed, WatchdogFires, Reachable,
        WatchdogEnds, EnumerateFails, AbortEnumerate, Enumerates,
        is_stale_attempt, Occupied, AbortHangUp, HangUp, Valid, AbortReleased,
        Released
<1>10. CASE Ras_
  BY <1>10 DEF Ras_, RasConnects, Ringing, Reachable, RasRejects, RasCancelled
<1>11. CASE Outside
  BY <1>11 DEF Outside, WindowsNext, Held, CableFlip, OtherInterfaceChange,
        CallbackStarts, interface_changed, SetEvent, ServerFails,
        ServerRecovers, RasNotifies, RequestStop, Drops, Reachable,
        RasReleases, OtherConnects, OtherAbandons, OtherHangsUp, OtherDials, Occupied
<1>12. CASE Crash
  BY <1>12 DEF Crash, Fresh
<1>13. CASE PhoneBook
  BY <1>13 DEF PhoneBook, PhoneBookEdited, Occupied
<1>14. CASE UNCHANGED vars
  BY <1>14 DEF vars
<1> QED
  BY <1>1, <1>2, <1>3, <1>4, <1>5, <1>6, <1>7, <1>8, <1>9, <1>10, <1>11, <1>12, <1>13, <1>14 DEF Next, Worker

-----------------------------------------------------------------------------
(***************************************************************************)
(* The invariant is inductive.                                             *)
(***************************************************************************)
LEMMA IInvInductive == IInv /\ [Next]_vars => IInv'
  BY TypeStep, RegistrationStep, WatchdogConfinedStep, OwnAttemptStep,
     LetGoStep, ForeignNotClosingStep, NoLostWakeupStep DEF IInv

(***************************************************************************)
(* Every reachable state satisfies the invariant.                          *)
(***************************************************************************)
THEOREM Invariance == Spec => []IInv
<1>1. Init => IInv
  BY InitIInv
<1>2. IInv /\ [Next]_vars => IInv'
  BY IInvInductive
<1> QED
  BY <1>1, <1>2, PTL DEF Spec

-----------------------------------------------------------------------------
(***************************************************************************)
(* Every variable keeps its type: the back-off counter never passes        *)
(* u32::MAX (worker.rs 120-123) and the snapshots only hold handles of the *)
(* configured entry.                                                       *)
(***************************************************************************)
THEOREM TypeCorrect == Spec => []TypeOK
<1>1. IInv => TypeOK
  BY DEF IInv
<1> QED
  BY <1>1, Invariance, PTL

(***************************************************************************)
(* A worker asleep on an outdated verdict has a notification on its way    *)
(* (worker.rs 455-486).                                                    *)
(***************************************************************************)
THEOREM WakeupNeverLost == Spec => []NoLostWakeup
<1>1. IInv => NoLostWakeup
  BY DEF IInv
<1> QED
  BY <1>1, Invariance, PTL

(***************************************************************************)
(* The watchdog thread exists only inside the attempt it guards, and never *)
(* waits on a closed event (ras.rs 170-203).                               *)
(***************************************************************************)
THEOREM WatchdogStaysConfined == Spec => []WatchdogConfined
<1>1. IInv => WatchdogConfined
  BY DEF IInv
<1> QED
  BY <1>1, Invariance, PTL

(***************************************************************************)
(* No interface callback can signal an event that was closed (worker.rs    *)
(* 336-343, link.rs 237-246).                                              *)
(***************************************************************************)
THEOREM CallbackSafe == Spec => []CallbackNeverDangles
<1>1. IInv => CallbackNeverDangles
  BY DEF IInv, Registration, CallbackNeverDangles
<1> QED
  BY <1>1, Invariance, PTL

(***************************************************************************)
(* A failed attempt is hung up before the worker sleeps, so that its       *)
(* handle does not keep the port half open (ras.rs 204-217).               *)
(***************************************************************************)
THEOREM PortLetGo == Spec => []FailedDialLetGo
<1>1. IInv => FailedDialLetGo
  BY DEF IInv, LetGo, FailedDialLetGo
<1> QED
  BY <1>1, Invariance, PTL

(***************************************************************************)
(* No connection of another phone book entry is ever hung up (ras.rs       *)
(* 285-287).                                                               *)
(***************************************************************************)
THEOREM OthersUntouched == Spec => OtherEntriesUntouched
<1>1. IInv' => \A h \in Foreign : conns'[h] # "closing"
  BY DEF IInv, ForeignNotClosing
<1>2. IInv /\ [Next]_vars => [\A h \in Foreign : conns'[h] # "closing"]_vars
  BY <1>1, IInvInductive
<1> QED
  BY <1>2, Invariance, PTL DEF Spec, OtherEntriesUntouched

(***************************************************************************)
(* Only a hang-up of the watchdog or of the worker's own clearing of       *)
(* attempts ends a connection that is up: both happen while it dials or    *)
(* clears attempts, because the watchdog is confined and a failed attempt  *)
(* is not up.                                                              *)
(***************************************************************************)
LEMMA TearDownStep ==
  ASSUME IInv, [Next]_vars
  PROVE  (\E h \in Own : conns[h] = "up" /\ conns'[h] = "closing")
           => pc["worker"] \in {"call", "ringing", "join", "abort_next"}
<1> USE HandlesAssumption DEF IInv, TypeOK, WindowsTypeOK, RasTypeOK, ConnState, Proc, Handle,
        WatchdogConfined, OwnAttempt
<1>1. CASE Setup
  BY <1>1 DEF Setup, Start, StartFails, PrepareEntry, ProbeEntry,
        CreateEntry
<1>2. CASE Evaluation
  BY <1>2 DEF Evaluation, CableIsDown, CableAllowsDialling, AlreadyOnline,
        Enumerates, NotOnline, EnumerateFails
<1>3. CASE Dialling
  BY <1>3 DEF Dialling, DialBegins, DialCannotBegin, EntryNotFound, RasDialBegins,
        Held, Occupied, OwnUp, RasDialReturns, JoinWatchdog, HangUpFailedDial,
        HangUp, Valid, FailedDialReleased, Released
<1>4. CASE Clearing
  BY <1>4 DEF Clearing, AbortEnumerate, Enumerates, is_stale_attempt,
        Occupied, AbortHangUp, HangUp, Valid, AbortReleased, Released
<1>5. CASE Outcome
  BY <1>5 DEF Outcome, DialSucceeded, DialFailed, AbortEnded, AbortFailed,
        EnumerateFails, NothingAborted, SomeAborted, BackOff
<1>6. CASE Waiting
  BY <1>6 DEF Waiting, WaitStopped, WaitSignalled, ConsumeFirst, Signalled,
        DebounceSwallows, WaitFails
<1>7. CASE Shutdown
  BY <1>7 DEF Shutdown, CancelNotification, CallbacksDrained, CloseEvents
<1>8. CASE Timer
  BY <1>8 DEF Timer, DebounceEnds, WaitTimesOut, Signalled
<1>9. CASE Guard
  BY <1>9 DEF Guard, Watchdog, WatchdogDismissed, WatchdogFires, Reachable,
        WatchdogEnds, EnumerateFails, AbortEnumerate, Enumerates,
        is_stale_attempt, Occupied, AbortHangUp, HangUp, Valid, AbortReleased,
        Released
<1>10. CASE Ras_
  BY <1>10 DEF Ras_, RasConnects, Ringing, Reachable, RasRejects, RasCancelled
<1>11. CASE Outside
  BY <1>11 DEF Outside, WindowsNext, Held, CableFlip, OtherInterfaceChange,
        CallbackStarts, interface_changed, SetEvent, ServerFails,
        ServerRecovers, RasNotifies, RequestStop, Drops, Reachable,
        RasReleases, OtherConnects, OtherAbandons, OtherHangsUp, OtherDials, Occupied
<1>12. CASE Crash
  BY <1>12 DEF Crash, Fresh
<1>13. CASE PhoneBook
  BY <1>13 DEF PhoneBook, PhoneBookEdited, Occupied
<1>14. CASE UNCHANGED vars
  BY <1>14 DEF vars
<1> QED
  BY <1>1, <1>2, <1>3, <1>4, <1>5, <1>6, <1>7, <1>8, <1>9, <1>10, <1>11, <1>12, <1>13, <1>14 DEF Next, Worker

(***************************************************************************)
(* A connection that is up is never torn down while the worker sleeps,     *)
(* evaluates or shuts down (worker.rs 336-347).                            *)
(***************************************************************************)
THEOREM TearDownConfined == Spec => TearsDownOnlyWhileDialling
<1>1. IInv /\ [Next]_vars
        => [(\E h \in Own : conns[h] = "up" /\ conns'[h] = "closing")
              => pc["worker"] \in {"call", "ringing", "join", "abort_next"}]_vars
  BY TearDownStep
<1> QED
  BY <1>1, Invariance, PTL DEF Spec, TearsDownOnlyWhileDialling
=============================================================================
