--------------------------- MODULE DialOnceProofs ---------------------------
(***************************************************************************)
(* The safety properties of the dial-once command for every set of         *)
(* handles, every option and setting, and any number of adverse events.    *)
(* One lemma per conjunct of the inductive invariant, one case per group   *)
(* of actions.                                                             *)
(***************************************************************************)
EXTENDS DialOnce, TLAPS

\* Frame conditions and one-line abbreviations, expanded everywhere.
USE DEF Goto, Fault, Returns, winFrame, abortFrame, winVars, linkVars, rasVars, onceVars

\* The steps of the command: before the dial, the dial itself, and after it.
Prepares  == (ProbeEntry("start", settings.create) \/ CreateEntry) /\ UNCHANGED onceVars
Asks      == CableConnected \/ NoCable \/ NothingToDo \/ NotOnline \/ OnlineUnknown
Dials     == /\ \/ DialBegins \/ DialCannotBegin \/ EntryNotFound \/ RasDialBegins
                \/ RasDialReturns \/ JoinWatchdog \/ HangUpFailedDial \/ FailedDialReleased
             /\ UNCHANGED onceVars
Concludes == TestSucceeded \/ DialFailed \/ hang_up \/ HangUpRefused \/ TestReleased

\* Every step of the specification is of one of these kinds.
LEMMA StepKinds ==
  [Next]_vars => \/ Prepares \/ Asks \/ Dials \/ Concludes
                 \/ Guard \/ Ras_ \/ Outside \/ PhoneBook \/ Interrupted \/ UNCHANGED vars
BY DEF Next, Command, Prepares, Asks, Dials, Concludes

-----------------------------------------------------------------------------
\* The command starts without a handle (worker.rs 351).
LEMMA InitIInv ==
  ASSUME Init
  PROVE  IInv
<1> USE DEF Init, WindowsInit, RasInit, Fresh, Proc
<1>1. conns \in [Handle -> ConnState] /\ trouble \in 0..MaxTrouble
  BY TroubleAssumption DEF ConnState
<1>2. WindowsTypeOK
  BY <1>1, Zenon DEF WindowsTypeOK, EventState
<1>3. RasTypeOK
  BY DEF RasTypeOK, Answer, EventState
<1>4. TypeOK
  BY <1>2, <1>3 DEF TypeOK, OncePC, WatchdogPC
<1>5. OwnAttempt /\ ByAnswer /\ LetGo /\ NothingLeftBehind
  BY DEF OwnAttempt, ByAnswer, LetGo, NothingLeftBehind
<1> QED
  BY <1>4, <1>5 DEF IInv

(***************************************************************************)
(* Type correctness, in four parts: the connection table and the events;   *)
(* the flags of the machine; the variables of ras.rs; those of the command. *)
(***************************************************************************)
LEMMA TableTypeStep ==
  ASSUME TypeOK, [Next]_vars
  PROVE  /\ conns' \in [Handle -> ConnState]
         /\ linkEvt' \in EventState /\ rasEvt' \in EventState
         /\ trouble' \in 0..MaxTrouble
<1> USE HandlesAssumption, TroubleAssumption DEF TypeOK, WindowsTypeOK, RasTypeOK, ConnState, EventState, Answer, Proc, Handle,
        OncePC, WatchdogPC, DialPC, AbortPC
<1>1. CASE Prepares
  BY <1>1 DEF Prepares, ProbeEntry, CreateEntry
<1>2. CASE Asks
  BY <1>2 DEF Asks, CableConnected, NoCable, NothingToDo, NotOnline, OnlineUnknown,
        Enumerates
<1>3. CASE Concludes
  BY <1>3 DEF Concludes, TestSucceeded, DialFailed, hang_up, HangUp,
        Valid, HangUpRefused, TestReleased, Released
<1>4. CASE Dials
  BY <1>4 DEF Dials, DialBegins, DialCannotBegin, EntryNotFound, RasDialBegins,
        Held, Occupied, OwnUp, RasDialReturns, JoinWatchdog, HangUpFailedDial, HangUp, Valid,
        FailedDialReleased, Released
<1>5. CASE Guard
  BY <1>5 DEF Guard, Watchdog, WatchdogDismissed, WatchdogFires, Reachable,
        WatchdogEnds, EnumerateFails, AbortEnumerate, Enumerates,
        is_stale_attempt, Occupied, AbortHangUp, HangUp, Valid, AbortReleased,
        Released
<1>6. CASE Ras_
  BY <1>6 DEF Ras_, RasConnects, Ringing, Reachable, RasRejects, RasCancelled
<1>7. CASE Outside
  BY <1>7 DEF Outside, Held, CableFlip, SetEvent, ServerFails, ServerRecovers,
        RasNotifies, Drops, Reachable, RasReleases, OtherConnects, OtherAbandons,
        OtherHangsUp, OtherDials, Occupied
<1>8. CASE Interrupted
  BY <1>8 DEF Interrupted, Fresh
<1>9. CASE PhoneBook
  BY <1>9 DEF PhoneBook, PhoneBookEdited, Occupied
<1>10. CASE UNCHANGED vars
  BY <1>10 DEF vars
<1> QED
  BY <1>1, <1>2, <1>3, <1>4, <1>5, <1>6, <1>7, <1>8, <1>9, <1>10, StepKinds

(***************************************************************************)
(* The flags of the machine stay flags.                                    *)
(***************************************************************************)
LEMMA FlagsTypeStep ==
  ASSUME TypeOK, [Next]_vars
  PROVE  /\ cable' \in BOOLEAN /\ server' \in BOOLEAN /\ stop' \in BOOLEAN
         /\ linkReg' \in BOOLEAN /\ linkQueued' \in BOOLEAN
         /\ linkRunning' \in BOOLEAN /\ rasQueued' \in BOOLEAN
<1> USE DEF TypeOK, WindowsTypeOK, RasTypeOK, ConnState, EventState, Answer, Proc, Handle,
        OncePC, WatchdogPC, DialPC, AbortPC
<1>1. CASE Prepares
  BY <1>1 DEF Prepares, ProbeEntry, CreateEntry
<1>2. CASE Asks
  BY <1>2 DEF Asks, CableConnected, NoCable, NothingToDo, NotOnline, OnlineUnknown,
        Enumerates
<1>3. CASE Concludes
  BY <1>3 DEF Concludes, TestSucceeded, DialFailed, hang_up, HangUp,
        Valid, HangUpRefused, TestReleased, Released
<1>4. CASE Dials
  BY <1>4 DEF Dials, DialBegins, DialCannotBegin, EntryNotFound, RasDialBegins,
        Held, Occupied, OwnUp, RasDialReturns, JoinWatchdog, HangUpFailedDial, HangUp, Valid,
        FailedDialReleased, Released
<1>5. CASE Guard
  BY <1>5 DEF Guard, Watchdog, WatchdogDismissed, WatchdogFires, Reachable,
        WatchdogEnds, EnumerateFails, AbortEnumerate, Enumerates,
        is_stale_attempt, Occupied, AbortHangUp, HangUp, Valid, AbortReleased,
        Released
<1>6. CASE Ras_
  BY <1>6 DEF Ras_, RasConnects, Ringing, Reachable, RasRejects, RasCancelled
<1>7. CASE Outside
  <2>1. CASE CableFlip \/ ServerFails \/ ServerRecovers \/ RasNotifies
    BY <2>1 DEF CableFlip, ServerFails, ServerRecovers, RasNotifies
  <2>2. CASE \E h \in Handle : \/ Drops(h) \/ RasReleases(h) \/ OtherConnects(h)
                              \/ OtherAbandons(h) \/ OtherHangsUp(h)
    BY <2>2 DEF Drops, RasReleases, OtherConnects, OtherAbandons, OtherHangsUp
  <2>3. CASE \E h \in Handle \ Held : (h \in Own => entry) /\ OtherDials(h)
    BY <2>3 DEF OtherDials
  <2> QED
    BY <1>7, <2>1, <2>2, <2>3 DEF Outside
<1>8. CASE Interrupted
  BY <1>8 DEF Interrupted, Fresh
<1>9. CASE PhoneBook
  BY <1>9 DEF PhoneBook, PhoneBookEdited, Occupied
<1>10. CASE UNCHANGED vars
  BY <1>10 DEF vars
<1> QED
  BY <1>1, <1>2, <1>3, <1>4, <1>5, <1>6, <1>7, <1>8, <1>9, <1>10, StepKinds

(***************************************************************************)
(* What dial() and its watchdog keep stays a handle of the entry.          *)
(***************************************************************************)
LEMMA RasTypeStep ==
  ASSUME TypeOK, [Next]_vars
  PROVE  RasTypeOK'
<1> USE HandlesAssumption DEF TypeOK, WindowsTypeOK, RasTypeOK, ConnState, EventState, Answer, Proc, Handle,
        OncePC, WatchdogPC, DialPC, AbortPC
<1>1. CASE Prepares
  BY <1>1 DEF Prepares, ProbeEntry, CreateEntry
<1>2. CASE Asks
  BY <1>2 DEF Asks, CableConnected, NoCable, NothingToDo, NotOnline, OnlineUnknown,
        Enumerates
<1>3. CASE Concludes
  BY <1>3 DEF Concludes, TestSucceeded, DialFailed, hang_up, HangUp,
        Valid, HangUpRefused, TestReleased, Released
<1>4. CASE Dials
  BY <1>4 DEF Dials, DialBegins, DialCannotBegin, EntryNotFound, RasDialBegins,
        Held, Occupied, OwnUp, RasDialReturns, JoinWatchdog, HangUpFailedDial, HangUp, Valid,
        FailedDialReleased, Released
<1>5. CASE Guard
  BY <1>5 DEF Guard, Watchdog, WatchdogDismissed, WatchdogFires, Reachable,
        WatchdogEnds, EnumerateFails, AbortEnumerate, Enumerates,
        is_stale_attempt, Occupied, AbortHangUp, HangUp, Valid, AbortReleased,
        Released
<1>6. CASE Ras_
  BY <1>6 DEF Ras_, RasConnects, Ringing, Reachable, RasRejects, RasCancelled
<1>7. CASE Outside
  BY <1>7 DEF Outside, Held, CableFlip, SetEvent, ServerFails, ServerRecovers,
        RasNotifies, Drops, Reachable, RasReleases, OtherConnects, OtherAbandons,
        OtherHangsUp, OtherDials, Occupied
<1>8. CASE Interrupted
  BY <1>8 DEF Interrupted, Fresh
<1>9. CASE PhoneBook
  BY <1>9 DEF PhoneBook, PhoneBookEdited, Occupied
<1>10. CASE UNCHANGED vars
  BY <1>10 DEF vars
<1> QED
  BY <1>1, <1>2, <1>3, <1>4, <1>5, <1>6, <1>7, <1>8, <1>9, <1>10, StepKinds

(***************************************************************************)
(* The command has a result when it is over, and only then.                *)
(***************************************************************************)
LEMMA OnceTypeStep ==
  ASSUME TypeOK, [Next]_vars
  PROVE  /\ pc' \in [Proc -> OncePC \cup WatchdogPC]
         /\ pc'["worker"] \in OncePC /\ pc'["watchdog"] \in WatchdogPC
         /\ settings' \in Settings
         /\ result' \in {"none", "ok", "error"}
         /\ result' = "none" <=> pc'["worker"] # "done"
<1> USE DEF TypeOK, WindowsTypeOK, RasTypeOK, ConnState, EventState, Answer, Proc, Handle,
        OncePC, WatchdogPC, DialPC, AbortPC
<1>1. CASE Prepares
  BY <1>1 DEF Prepares, ProbeEntry, CreateEntry
<1>2. CASE Asks
  BY <1>2 DEF Asks, CableConnected, NoCable, NothingToDo, NotOnline, OnlineUnknown,
        Enumerates
<1>3. CASE Concludes
  BY <1>3 DEF Concludes, TestSucceeded, DialFailed, hang_up, HangUp,
        Valid, HangUpRefused, TestReleased, Released
<1>4. CASE Dials
  <2>1. CASE DialBegins \/ DialCannotBegin \/ EntryNotFound
    BY <1>4, <2>1 DEF Dials, DialBegins, DialCannotBegin, EntryNotFound
  <2>2. CASE RasDialBegins \/ RasDialReturns
    BY <1>4, <2>2 DEF Dials, RasDialBegins, RasDialReturns
  <2>3. CASE JoinWatchdog
    BY <1>4, <2>3 DEF Dials, JoinWatchdog
  <2>4. CASE HangUpFailedDial \/ FailedDialReleased
    BY <1>4, <2>4 DEF Dials, HangUpFailedDial, HangUp, FailedDialReleased
  <2> QED
    BY <1>4, <2>1, <2>2, <2>3, <2>4 DEF Dials
<1>5. CASE Guard
  BY <1>5 DEF Guard, Watchdog, WatchdogDismissed, WatchdogFires, Reachable,
        WatchdogEnds, EnumerateFails, AbortEnumerate, Enumerates,
        is_stale_attempt, Occupied, AbortHangUp, HangUp, Valid, AbortReleased,
        Released
<1>6. CASE Ras_
  BY <1>6 DEF Ras_, RasConnects, Ringing, Reachable, RasRejects, RasCancelled
<1>7. CASE Outside
  BY <1>7 DEF Outside, Held, CableFlip, SetEvent, ServerFails, ServerRecovers,
        RasNotifies, Drops, Reachable, RasReleases, OtherConnects, OtherAbandons,
        OtherHangsUp, OtherDials, Occupied
<1>8. CASE Interrupted
  BY <1>8 DEF Interrupted, Fresh
<1>9. CASE PhoneBook
  BY <1>9 DEF PhoneBook, PhoneBookEdited, Occupied
<1>10. CASE UNCHANGED vars
  BY <1>10 DEF vars
<1> QED
  BY <1>1, <1>2, <1>3, <1>4, <1>5, <1>6, <1>7, <1>8, <1>9, <1>10, StepKinds

(***************************************************************************)
(* RasDialW gives out no handle of a connection that exists, and nobody is *)
(* given the handle while the command holds it.                            *)
(***************************************************************************)
LEMMA OwnAttemptStep ==
  ASSUME TypeOK, OwnAttempt, ByAnswer, [Next]_vars
  PROVE  OwnAttempt'
<1> USE HandlesAssumption DEF TypeOK, WindowsTypeOK, RasTypeOK, ConnState, EventState, Answer, Proc, Handle,
        OncePC, WatchdogPC, DialPC, AbortPC,
        OwnAttempt, ByAnswer
<1>1. CASE Prepares
  BY <1>1 DEF Prepares, ProbeEntry, CreateEntry
<1>2. CASE Asks
  BY <1>2 DEF Asks, CableConnected, NoCable, NothingToDo, NotOnline, OnlineUnknown,
        Enumerates
<1>3. CASE Concludes
  BY <1>3 DEF Concludes, TestSucceeded, DialFailed, hang_up, HangUp,
        Valid, HangUpRefused, TestReleased, Released
<1>4. CASE Dials
  <2>1. CASE DialBegins \/ DialCannotBegin \/ EntryNotFound
    BY <1>4, <2>1 DEF Dials, DialBegins, DialCannotBegin, EntryNotFound
  <2>2. CASE RasDialBegins
    <3>1. \/ hconn' = hconn /\ conns' = conns
          \/ \E h \in Own : hconn' = h /\ conns' = [conns EXCEPT ![h] = "calling"]
      BY <2>2 DEF RasDialBegins
    <3>2. hconn = NoHandle /\ answer' # "ok"
      BY <2>2 DEF RasDialBegins
    <3>3. pc'["worker"] = "ringing"
      BY <2>2 DEF RasDialBegins
    <3> QED
      BY <3>1, <3>2, <3>3
  <2>3. CASE RasDialReturns \/ JoinWatchdog
    BY <1>4, <2>3 DEF Dials, RasDialReturns, JoinWatchdog
  <2>4. CASE HangUpFailedDial \/ FailedDialReleased
    BY <1>4, <2>4 DEF Dials, HangUpFailedDial, HangUp, FailedDialReleased
  <2> QED
    BY <1>4, <2>1, <2>2, <2>3, <2>4 DEF Dials
<1>5. CASE Guard
  BY <1>5 DEF Guard, Watchdog, WatchdogDismissed, WatchdogFires, Reachable,
        WatchdogEnds, EnumerateFails, AbortEnumerate, Enumerates,
        is_stale_attempt, Occupied, AbortHangUp, HangUp, Valid, AbortReleased,
        Released
<1>6. CASE Ras_
  BY <1>6 DEF Ras_, RasConnects, Ringing, Reachable, RasRejects, RasCancelled
<1>7. CASE Outside
  BY <1>7 DEF Outside, Held, CableFlip, SetEvent, ServerFails, ServerRecovers,
        RasNotifies, Drops, Reachable, RasReleases, OtherConnects, OtherAbandons,
        OtherHangsUp, OtherDials, Occupied
<1>8. CASE Interrupted
  BY <1>8 DEF Interrupted, Fresh
<1>9. CASE PhoneBook
  BY <1>9 DEF PhoneBook, PhoneBookEdited, Occupied
<1>10. CASE UNCHANGED vars
  BY <1>10 DEF vars
<1> QED
  BY <1>1, <1>2, <1>3, <1>4, <1>5, <1>6, <1>7, <1>8, <1>9, <1>10, StepKinds

(***************************************************************************)
(* The answer is not changed after the join, and the options never are.    *)
(***************************************************************************)
LEMMA ByAnswerStep ==
  ASSUME TypeOK, ByAnswer, [Next]_vars
  PROVE  ByAnswer'
<1> USE DEF TypeOK, WindowsTypeOK, RasTypeOK, ConnState, EventState, Answer, Proc, Handle,
        OncePC, WatchdogPC, DialPC, AbortPC, ByAnswer
<1>1. CASE Prepares
  BY <1>1 DEF Prepares, ProbeEntry, CreateEntry
<1>2. CASE Asks
  BY <1>2 DEF Asks, CableConnected, NoCable, NothingToDo, NotOnline, OnlineUnknown,
        Enumerates
<1>3. CASE Concludes
  BY <1>3 DEF Concludes, TestSucceeded, DialFailed, hang_up, HangUp,
        Valid, HangUpRefused, TestReleased, Released
<1>4. CASE Dials
  BY <1>4 DEF Dials, DialBegins, DialCannotBegin, EntryNotFound, RasDialBegins,
        Held, Occupied, OwnUp, RasDialReturns, JoinWatchdog, HangUpFailedDial, HangUp, Valid,
        FailedDialReleased, Released
<1>5. CASE Guard
  BY <1>5 DEF Guard, Watchdog, WatchdogDismissed, WatchdogFires, Reachable,
        WatchdogEnds, EnumerateFails, AbortEnumerate, Enumerates,
        is_stale_attempt, Occupied, AbortHangUp, HangUp, Valid, AbortReleased,
        Released
<1>6. CASE Ras_
  BY <1>6 DEF Ras_, RasConnects, Ringing, Reachable, RasRejects, RasCancelled
<1>7. CASE Outside
  BY <1>7 DEF Outside, Held, CableFlip, SetEvent, ServerFails, ServerRecovers,
        RasNotifies, Drops, Reachable, RasReleases, OtherConnects, OtherAbandons,
        OtherHangsUp, OtherDials, Occupied
<1>8. CASE Interrupted
  BY <1>8 DEF Interrupted, Fresh
<1>9. CASE PhoneBook
  BY <1>9 DEF PhoneBook, PhoneBookEdited, Occupied
<1>10. CASE UNCHANGED vars
  BY <1>10 DEF vars
<1> QED
  BY <1>1, <1>2, <1>3, <1>4, <1>5, <1>6, <1>7, <1>8, <1>9, <1>10, StepKinds

(***************************************************************************)
(* A handle that was hung up is closing or gone.                           *)
(***************************************************************************)
LEMMA LetGoStep ==
  ASSUME TypeOK, OwnAttempt, LetGo, [Next]_vars
  PROVE  LetGo'
<1> USE HandlesAssumption DEF TypeOK, WindowsTypeOK, RasTypeOK, ConnState, EventState, Answer, Proc, Handle,
        OncePC, WatchdogPC, DialPC, AbortPC, OwnAttempt, LetGo
<1>1. CASE Prepares
  BY <1>1 DEF Prepares, ProbeEntry, CreateEntry
<1>2. CASE Asks
  BY <1>2 DEF Asks, CableConnected, NoCable, NothingToDo, NotOnline, OnlineUnknown,
        Enumerates
<1>3. CASE Concludes
  BY <1>3 DEF Concludes, TestSucceeded, DialFailed, hang_up, HangUp,
        Valid, HangUpRefused, TestReleased, Released
<1>4. CASE Dials
  BY <1>4 DEF Dials, DialBegins, DialCannotBegin, EntryNotFound, RasDialBegins,
        Held, Occupied, OwnUp, RasDialReturns, JoinWatchdog, HangUpFailedDial, HangUp, Valid,
        FailedDialReleased, Released
<1>5. CASE Guard
  BY <1>5 DEF Guard, Watchdog, WatchdogDismissed, WatchdogFires, Reachable,
        WatchdogEnds, EnumerateFails, AbortEnumerate, Enumerates,
        is_stale_attempt, Occupied, AbortHangUp, HangUp, Valid, AbortReleased,
        Released
<1>6. CASE Ras_
  BY <1>6 DEF Ras_, RasConnects, Ringing, Reachable, RasRejects, RasCancelled
<1>7. CASE Outside
  BY <1>7 DEF Outside, Held, CableFlip, SetEvent, ServerFails, ServerRecovers,
        RasNotifies, Drops, Reachable, RasReleases, OtherConnects, OtherAbandons,
        OtherHangsUp, OtherDials, Occupied
<1>8. CASE Interrupted
  BY <1>8 DEF Interrupted, Fresh
<1>9. CASE PhoneBook
  BY <1>9 DEF PhoneBook, PhoneBookEdited, Occupied
<1>10. CASE UNCHANGED vars
  BY <1>10 DEF vars
<1> QED
  BY <1>1, <1>2, <1>3, <1>4, <1>5, <1>6, <1>7, <1>8, <1>9, <1>10, StepKinds

(***************************************************************************)
(* What the command reports is true when it ends, and stays so.            *)
(***************************************************************************)
LEMMA NothingLeftBehindStep ==
  ASSUME TypeOK, OwnAttempt, ByAnswer, LetGo, NothingLeftBehind, [Next]_vars
  PROVE  NothingLeftBehind'
<1> USE HandlesAssumption DEF TypeOK, WindowsTypeOK, RasTypeOK, ConnState, EventState, Answer, Proc, Handle,
        OncePC, WatchdogPC, DialPC, AbortPC,
        OwnAttempt, ByAnswer, LetGo, NothingLeftBehind
<1>1. CASE Prepares
  BY <1>1 DEF Prepares, ProbeEntry, CreateEntry
<1>2. CASE Asks
  BY <1>2 DEF Asks, CableConnected, NoCable, NothingToDo, NotOnline, OnlineUnknown,
        Enumerates
<1>3. CASE Concludes
  BY <1>3 DEF Concludes, TestSucceeded, DialFailed, hang_up, HangUp,
        Valid, HangUpRefused, TestReleased, Released
<1>4. CASE Dials
  BY <1>4 DEF Dials, DialBegins, DialCannotBegin, EntryNotFound, RasDialBegins,
        Held, Occupied, OwnUp, RasDialReturns, JoinWatchdog, HangUpFailedDial, HangUp, Valid,
        FailedDialReleased, Released
<1>5. CASE Guard
  BY <1>5 DEF Guard, Watchdog, WatchdogDismissed, WatchdogFires, Reachable,
        WatchdogEnds, EnumerateFails, AbortEnumerate, Enumerates,
        is_stale_attempt, Occupied, AbortHangUp, HangUp, Valid, AbortReleased,
        Released
<1>6. CASE Ras_
  BY <1>6 DEF Ras_, RasConnects, Ringing, Reachable, RasRejects, RasCancelled
<1>7. CASE Outside
  BY <1>7 DEF Outside, Held, CableFlip, SetEvent, ServerFails, ServerRecovers,
        RasNotifies, Drops, Reachable, RasReleases, OtherConnects, OtherAbandons,
        OtherHangsUp, OtherDials, Occupied
<1>8. CASE Interrupted
  BY <1>8 DEF Interrupted, Fresh
<1>9. CASE PhoneBook
  BY <1>9 DEF PhoneBook, PhoneBookEdited, Occupied
<1>10. CASE UNCHANGED vars
  BY <1>10 DEF vars
<1> QED
  BY <1>1, <1>2, <1>3, <1>4, <1>5, <1>6, <1>7, <1>8, <1>9, <1>10, StepKinds

-----------------------------------------------------------------------------
\* Every step keeps the invariant, conjunct by conjunct.
LEMMA StepIInv ==
  ASSUME IInv, [Next]_vars
  PROVE  IInv'
<1>1. TypeOK'
  <2>1. WindowsTypeOK'
    BY TableTypeStep, FlagsTypeStep, Zenon DEF IInv, WindowsTypeOK
  <2> QED
    BY <2>1, RasTypeStep, OnceTypeStep DEF IInv, TypeOK
<1> QED
  BY <1>1, OwnAttemptStep, ByAnswerStep, LetGoStep, NothingLeftBehindStep DEF IInv

(***************************************************************************)
(* The inductive invariant of the command.                                 *)
(***************************************************************************)
THEOREM Invariance == Spec => []IInv
BY InitIInv, StepIInv, PTL DEF Spec

(***************************************************************************)
(* Every variable keeps its type; the result is there exactly when the     *)
(* command is over (worker.rs 351-411).                                    *)
(***************************************************************************)
THEOREM TypeCorrect == Spec => []TypeOK
<1>1. IInv => TypeOK
  BY DEF IInv
<1> QED
  BY <1>1, Invariance, PTL

(***************************************************************************)
(* Success without --keep means that the test connection is gone, and no   *)
(* failed attempt keeps the port (worker.rs 404-409, ras.rs 204-217).      *)
(***************************************************************************)
THEOREM LeavesNothingBehind == Spec => []NothingLeftBehind
<1>1. IInv => NothingLeftBehind
  BY DEF IInv
<1> QED
  BY <1>1, Invariance, PTL

(***************************************************************************)
(* Whom a hang-up of the command meets: a failed attempt is not up, and    *)
(* after a success it is the test connection, to be hung up.               *)
(***************************************************************************)
LEMMA HangUpStep ==
  ASSUME IInv, [Next]_vars, NEW h \in Handle,
         conns[h] \in {"dialing", "up"}, conns'[h] = "closing"
  PROVE  pc["watchdog"] = "abort_next" \/ (h = hconn /\ ~settings.keep)
<1> USE HandlesAssumption DEF IInv, TypeOK, WindowsTypeOK, RasTypeOK, ConnState, EventState, Answer, Proc, Handle,
        OncePC, WatchdogPC, DialPC, AbortPC,
        OwnAttempt, ByAnswer
<1>1. CASE Prepares
  BY <1>1 DEF Prepares, ProbeEntry, CreateEntry
<1>2. CASE Asks
  BY <1>2 DEF Asks, CableConnected, NoCable, NothingToDo, NotOnline, OnlineUnknown,
        Enumerates
<1>3. CASE Concludes
  BY <1>3 DEF Concludes, TestSucceeded, DialFailed, hang_up, HangUp,
        Valid, HangUpRefused, TestReleased, Released
<1>4. CASE Dials
  BY <1>4 DEF Dials, DialBegins, DialCannotBegin, EntryNotFound, RasDialBegins,
        Held, Occupied, OwnUp, RasDialReturns, JoinWatchdog, HangUpFailedDial, HangUp, Valid,
        FailedDialReleased, Released
<1>5. CASE Guard
  BY <1>5 DEF Guard, Watchdog, WatchdogDismissed, WatchdogFires, Reachable,
        WatchdogEnds, EnumerateFails, AbortEnumerate, Enumerates,
        is_stale_attempt, Occupied, AbortHangUp, HangUp, Valid, AbortReleased,
        Released
<1>6. CASE Ras_
  BY <1>6 DEF Ras_, RasConnects, Ringing, Reachable, RasRejects, RasCancelled
<1>7. CASE Outside
  BY <1>7 DEF Outside, Held, CableFlip, SetEvent, ServerFails, ServerRecovers,
        RasNotifies, Drops, Reachable, RasReleases, OtherConnects, OtherAbandons,
        OtherHangsUp, OtherDials, Occupied
<1>8. CASE Interrupted
  BY <1>8 DEF Interrupted, Fresh
<1>9. CASE PhoneBook
  BY <1>9 DEF PhoneBook, PhoneBookEdited, Occupied
<1>10. CASE UNCHANGED vars
  BY <1>10 DEF vars
<1> QED
  BY <1>1, <1>2, <1>3, <1>4, <1>5, <1>6, <1>7, <1>8, <1>9, <1>10, StepKinds

(***************************************************************************)
(* The command hangs up nothing but its own test connection; what others   *)
(* dial or hold only falls to a watchdog that timed out (worker.rs         *)
(* 396-409, ras.rs 170-202).                                               *)
(***************************************************************************)
THEOREM OthersLeftAlone == Spec => LeavesOthersAlone
<1>1. IInv /\ [Next]_vars
        => [\A h \in Handle : conns[h] \in {"dialing", "up"} /\ conns'[h] = "closing" =>
              \/ pc["watchdog"] = "abort_next"
              \/ h = hconn /\ ~settings.keep]_vars
  BY HangUpStep
<1> QED
  BY <1>1, Invariance, PTL DEF Spec, LeavesOthersAlone
=============================================================================
