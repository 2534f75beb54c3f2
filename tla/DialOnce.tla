------------------------------ MODULE DialOnce ------------------------------
(***************************************************************************)
(* The dial-once command (src/worker.rs dial_once, src/main.rs): a process *)
(* of its own that dials the entry of the service once, and hangs it up    *)
(* again unless --keep is given.  It uses the same src/ras.rs, here with   *)
(* the command as the process "worker"; the service is one of the other    *)
(* programs of module Windows.                                             *)
(*                                                                         *)
(* The report on existing connections only prints and is left out.         *)
(***************************************************************************)
EXTENDS Ras

VARIABLES
  settings,  \* the options and settings of this run
  result     \* of dial_once, "none" before it returned

onceVars == <<settings, result>>
vars == <<winVars, pc, rasVars, onceVars>>

Settings == [keep   : BOOLEAN,  \* --keep
             create : BOOLEAN,  \* dial.create_entry_if_missing
             check  : BOOLEAN]  \* link_check.enabled

OncePC == {"start", "create", "cable", "online", "dialled", "failed",
           "test_hang_up", "test_release", "refused", "done"} \cup DialPC

TypeOK ==
  /\ WindowsTypeOK /\ RasTypeOK
  /\ pc \in [Proc -> OncePC \cup WatchdogPC]
  /\ pc["worker"] \in OncePC /\ pc["watchdog"] \in WatchdogPC
  /\ settings \in Settings
  /\ result \in {"none", "ok", "error"}
  /\ result = "none" <=> pc["worker"] # "done"

Init ==
  /\ WindowsInit /\ RasInit
  /\ settings \in Settings /\ result = "none"

Returns(r) == Goto("worker", "done") /\ result' = r

-----------------------------------------------------------------------------
(***************************************************************************)
(* The two questions before the dial.  Unlike the service, the command     *)
(* gives up when one of them cannot be answered.                           *)
(***************************************************************************)
CableConnected ==
  /\ pc["worker"] = "cable"
  /\ settings.check => cable
  /\ Goto("worker", "online")
  /\ UNCHANGED <<winVars, rasVars, onceVars>>

NoCable ==
  /\ pc["worker"] = "cable" /\ settings.check
  /\ \/ ~cable /\ UNCHANGED trouble
     \/ Fault("query")
  /\ Returns("error")
  /\ UNCHANGED <<winFrame, rasVars, settings>>

NothingToDo ==
  /\ pc["worker"] = "online"
  /\ \E connected \in SUBSET Up : Enumerates(connected) /\ connected \cap Own # {}
  /\ Returns("ok")
  /\ UNCHANGED <<winFrame, rasVars, settings>>

NotOnline ==
  /\ pc["worker"] = "online"
  /\ \E connected \in SUBSET Up : Enumerates(connected) /\ connected \cap Own = {}
  /\ Goto("worker", "dial")
  /\ UNCHANGED <<winFrame, rasVars, onceVars>>

\* A fault of another kind than the watchdog's list that fails.
OnlineUnknown ==
  /\ pc["worker"] = "online"
  /\ Fault("query")
  /\ Returns("error")
  /\ UNCHANGED <<winFrame, rasVars, settings>>

-----------------------------------------------------------------------------
(***************************************************************************)
(* The dial, and Dialed::hang_up after it.                                 *)
(***************************************************************************)
\* Broken variant: --keep is not looked at.
TestAlwaysHungUp ==
  /\ pc["worker"] = "dialled"
  /\ Goto("worker", "test_hang_up")
  /\ UNCHANGED <<winVars, rasVars, onceVars>>

TestSucceeded ==
  /\ pc["worker"] = "dialled"
  /\ IF settings.keep THEN Returns("ok")
                      ELSE Goto("worker", "test_hang_up") /\ UNCHANGED result
  /\ UNCHANGED <<winVars, rasVars, settings>>

\* No retry, and no clearing of what owns the port.
DialFailed ==
  /\ pc["worker"] = "failed"
  /\ Returns("error")
  /\ UNCHANGED <<winVars, rasVars, settings>>

\* Broken variant: the connection goes when the process goes.
TestForgotten ==
  /\ pc["worker"] = "test_hang_up"
  /\ Returns("ok")
  /\ UNCHANGED <<winVars, rasVars, settings>>

hang_up ==
  /\ pc["worker"] = "test_hang_up"
  /\ HangUp("worker", hconn, "test_release", "refused")
  /\ UNCHANGED <<cable, server, linkVars, rasEvt, stop, rasVars, onceVars>>

\* Broken variant: the error is dropped with the handle.
RefusalIgnored ==
  /\ pc["worker"] = "refused"
  /\ Goto("worker", "done")
  /\ UNCHANGED <<winVars, rasVars, onceVars>>

HangUpRefused ==
  /\ pc["worker"] = "refused"
  /\ Returns("error")
  /\ UNCHANGED <<winVars, rasVars, settings>>

TestReleased ==
  /\ pc["worker"] = "test_release"
  /\ Released(hconn)
  /\ Returns("ok")
  /\ UNCHANGED <<winFrame, rasVars, settings>>

(***************************************************************************)
(* Ctrl+C ends the process at once: there is no handler.  The attempt in   *)
(* flight goes on without its caller.                                      *)
(***************************************************************************)
Interrupted ==
  /\ pc["worker"] # "done"
  /\ Fault("crash")
  /\ conns' = [h \in Handle |-> IF conns[h] = "calling" THEN "dialing" ELSE conns[h]]
  /\ pc' = [Fresh EXCEPT !["worker"] = "done"]
  /\ result' = "error"
  /\ hconn' = NoHandle /\ answer' = "none" /\ doneEvt' = "closed"
  /\ todo' = [p \in Proc |-> {}] /\ target' = [p \in Proc |-> NoHandle]
  /\ aborted' = [p \in Proc |-> 0]
  /\ UNCHANGED <<cable, server, linkVars, rasQueued, rasEvt, stop, settings, entry>>

-----------------------------------------------------------------------------
Command ==
  \/ CableConnected \/ NoCable
  \/ NothingToDo \/ NotOnline \/ OnlineUnknown
  \/ TestSucceeded \/ DialFailed
  \/ hang_up \/ HangUpRefused \/ TestReleased
  \/ /\ \/ ProbeEntry("start", settings.create) \/ CreateEntry
        \/ DialBegins \/ DialCannotBegin \/ EntryNotFound \/ RasDialBegins \/ RasDialReturns
        \/ JoinWatchdog \/ HangUpFailedDial \/ FailedDialReleased
     /\ UNCHANGED onceVars

Guard == Watchdog /\ UNCHANGED onceVars

Ras_ == (RasConnects \/ RasRejects \/ RasCancelled) /\ UNCHANGED onceVars

\* The machine, and the service with its own attempts on the same entry.
Outside ==
  /\ \/ CableFlip \/ ServerFails \/ ServerRecovers \/ RasNotifies
     \/ \E h \in Handle : \/ Drops(h) \/ RasReleases(h) \/ OtherConnects(h)
                          \/ OtherAbandons(h) \/ OtherHangsUp(h)
     \/ \E h \in Handle \ Held : (h \in Own => entry) /\ OtherDials(h)
  /\ UNCHANGED <<pc, rasVars, onceVars>>

PhoneBook == PhoneBookEdited /\ UNCHANGED onceVars

Next == Command \/ Guard \/ Ras_ \/ Outside \/ PhoneBook \/ Interrupted

Spec == Init /\ [][Next]_vars

\* Threads are scheduled, RAS lets go of what was hung up, and a server that is
\* reachable answers; one that is not need never become so.
FairSpec ==
  /\ Spec
  /\ WF_vars(Command /\ UNCHANGED trouble) /\ WF_vars(Guard /\ UNCHANGED trouble)
  /\ WF_vars(RasConnects /\ UNCHANGED onceVars) /\ WF_vars(RasCancelled /\ UNCHANGED onceVars)
  /\ \A h \in Own : WF_vars(RasReleases(h) /\ UNCHANGED <<pc, rasVars, onceVars>>)

-----------------------------------------------------------------------------
(***************************************************************************)
(* The test connection is gone when the command reports success without    *)
(* --keep, and a failed attempt never keeps the port from the service      *)
(* (worker.rs 404-409, ras.rs 110-117 and 204-217).                        *)
(***************************************************************************)
NothingLeftBehind ==
  pc["worker"] = "done" /\ hconn # NoHandle /\ "hangup" \notin Faults =>
    /\ conns[hconn] \notin {"calling", "stale"}
    /\ result = "ok" /\ ~settings.keep => conns[hconn] # "up"

(***************************************************************************)
(* The command hangs up nothing but its own test connection, and that not  *)
(* with --keep: what the service dials or holds meanwhile only ever falls  *)
(* to a watchdog that timed out (worker.rs 396-409, main.rs 154-156).      *)
(***************************************************************************)
LeavesOthersAlone ==
  [][\A h \in Handle : conns[h] \in {"dialing", "up"} /\ conns'[h] = "closing" =>
       \/ pc["watchdog"] = "abort_next"
       \/ h = hconn /\ ~settings.keep]_vars

(***************************************************************************)
(* The command ends, whatever the server and the service do (ras.rs 170-   *)
(* 202): a user at the prompt never waits for longer than the time-out.    *)
(***************************************************************************)
Ends == <>(pc["worker"] = "done")

-----------------------------------------------------------------------------
(***************************************************************************)
(* The inductive invariant behind these: what they rest on beside each     *)
(* other.                                                                  *)
(***************************************************************************)

(***************************************************************************)
(* There is no handle before RasDialW is called, nobody else dials on it,  *)
(* and what RasDialW answered says what it is (ras.rs 159-217).            *)
(***************************************************************************)
OwnAttempt ==
  hconn # NoHandle =>
    /\ pc["worker"] \notin {"start", "create", "cable", "online", "dial", "call"}
    /\ conns[hconn] # "dialing"
    /\ IF answer = "ok" THEN conns[hconn] \notin {"calling", "stale"} ELSE conns[hconn] # "up"

\* Which answer leads where (worker.rs 395-411).
ByAnswer ==
  /\ pc["worker"] \in {"call", "hang_up", "hang_up_wait", "failed"} => answer # "ok"
  /\ pc["worker"] \in {"dialled", "test_hang_up", "test_release", "refused"} => answer = "ok"
  /\ pc["worker"] \in {"test_hang_up", "test_release", "refused"} => ~settings.keep

\* Nobody is given the handle after it was hung up (ras.rs 110-117, 204-217).
LetGo ==
  pc["worker"] \in {"hang_up_wait", "failed", "test_release"}
  /\ hconn # NoHandle /\ "hangup" \notin Faults
    => conns[hconn] \in {"closing", "none"}

IInv == TypeOK /\ OwnAttempt /\ ByAnswer /\ LetGo /\ NothingLeftBehind
=============================================================================
