-------------------------- MODULE DialerProperties --------------------------
(***************************************************************************)
(* What the dialler must and must not do.                                  *)
(***************************************************************************)
EXTENDS Dialer

Has(label) == pc["worker"] = label

(***************************************************************************)
(* No lost wake-up (worker.rs 455-486, link.rs, ras.rs 130-138).  A worker *)
(* asleep on a verdict that no longer holds, with no time-out to rely on,  *)
(* has a notification on its way: the interface callback or the RAS event. *)
(***************************************************************************)
CableVerdictFresh ==
  Has("wait") /\ waitFor = "cable" /\ cable
    => linkQueued \/ linkRunning \/ linkEvt = "set"

OnlineVerdictFresh ==
  Has("wait") /\ waitFor = "online" /\ ~OwnUp
    => rasQueued \/ rasEvt = "set"

NoLostWakeup == CableVerdictFresh /\ OnlineVerdictFresh

(***************************************************************************)
(* A watchdog never outlives the attempt it guards (ras.rs 170-202): it is *)
(* joined before dial() goes on, so it cannot cancel a later attempt, and  *)
(* the event it waits on is closed only after it has stopped waiting.      *)
(***************************************************************************)
WatchdogConfined ==
  pc["watchdog"] # "none" =>
    /\ pc["worker"] \in {"call", "ringing", "join"}
    /\ pc["watchdog"] = "armed" => doneEvt # "closed"

(***************************************************************************)
(* Shutdown order (worker.rs 336-343, link.rs 237-246): no interface       *)
(* callback is running, or can still start, once its event is closed.      *)
(***************************************************************************)
CallbackNeverDangles == linkQueued \/ linkRunning => linkEvt # "closed"

(***************************************************************************)
(* The service never hangs up a connection of another phone book entry     *)
(* (ras.rs 283-287): such a connection only ends by itself.                *)
(***************************************************************************)
OtherEntriesUntouched ==
  [][\A h \in Foreign : conns'[h] # "closing"]_vars

(***************************************************************************)
(* A connection that is up is only ever torn down by the service while it  *)
(* is dialling or clearing attempts: never while it sleeps, evaluates or   *)
(* shuts down (worker.rs 336-347, "the broadband connection is left        *)
(* online").                                                               *)
(***************************************************************************)
TearsDownOnlyWhileDialling ==
  [][(\E h \in Own : conns[h] = "up" /\ conns'[h] = "closing")
       => pc["worker"] \in {"call", "ringing", "join", "abort_next"}]_vars

(***************************************************************************)
(* A failed attempt is hung up before the worker sleeps (ras.rs 204-217):  *)
(* its handle never keeps the port half open during the back-off.          *)
(***************************************************************************)
FailedDialLetGo ==
  Has("wait") /\ waitFor = "retry" /\ hconn # NoHandle /\ "hangup" \notin Faults
    => conns[hconn] \notin {"calling", "stale"}

(***************************************************************************)
(* Stop completes (worker.rs 158-347, ras.rs 170-202): whatever the server *)
(* does, the worker ends after a stop request, unless it dies first.       *)
(***************************************************************************)
StopCompletes == stop ~> (Has("done") \/ ~stop)

(***************************************************************************)
(* The purpose of the service: once the adverse events are over, a machine *)
(* with a cable, an answering server and the entry in its phone book ends  *)
(* up online, unless the service is stopped.  A missing entry is an excuse *)
(* only if the service was not to create it, or something went wrong: it   *)
(* is looked for once in the life of a process (worker.rs 173).  Somebody  *)
(* who repairs the phone book later need not restart the service.          *)
(***************************************************************************)
EntryMissing == ~entry /\ (CreateIfMissing => trouble < MaxTrouble)

StaysOnline == <>[](OwnUp \/ ~Reachable \/ EntryMissing \/ stop \/ Has("done"))

-----------------------------------------------------------------------------
(***************************************************************************)
(* The inductive invariant behind the safety properties: what they rest on *)
(* beside each other.                                                      *)
(***************************************************************************)

(***************************************************************************)
(* Registration (worker.rs 158-171, 336-343): callbacks only happen while  *)
(* the worker holds the guard, and the events are open as long as it does. *)
(***************************************************************************)
Registration ==
  /\ linkReg <=> pc["worker"] \notin {"start", "cancel", "close", "done"}
  /\ linkQueued => linkReg
  /\ linkRunning => pc["worker"] \notin {"start", "close", "done"}
  /\ linkEvt = "closed" => pc["worker"] \in {"start", "done"}
  /\ rasEvt = "closed" => pc["worker"] \in {"start", "done"}

(***************************************************************************)
(* The handle of the latest attempt: there is none before RasDialW is      *)
(* called, nobody else dials on it, and it is up only if RasDialW said so. *)
(***************************************************************************)
OwnAttempt ==
  /\ hconn # NoHandle => conns[hconn] # "dialing"
  /\ hconn # NoHandle /\ answer # "ok" => conns[hconn] # "up"
  /\ pc["worker"] = "call" => hconn = NoHandle
  /\ pc["worker"] = "hang_up" => answer # "ok"

(***************************************************************************)
(* From the hang-up of a failed attempt until the end of the back-off its  *)
(* handle is closing or gone (ras.rs 204-217): RAS gives the value to      *)
(* nobody else as long as the worker holds it.                             *)
(***************************************************************************)
AfterHangUp == {"hang_up_wait", "failed", "aborted", "backoff"} \cup AbortPC

LetGo ==
  (pc["worker"] \in AfterHangUp \/ (Has("wait") /\ waitFor = "retry"))
  /\ hconn # NoHandle /\ "hangup" \notin Faults
    => conns[hconn] \in {"closing", "none"}

\* No connection of another entry is ever being closed.
ForeignNotClosing == \A h \in Foreign : conns[h] # "closing"

IInv == /\ TypeOK
        /\ Registration
        /\ WatchdogConfined
        /\ OwnAttempt
        /\ LetGo
        /\ ForeignNotClosing
        /\ NoLostWakeup

-----------------------------------------------------------------------------
(***************************************************************************)
(* Claims of the comments and documents that the code does not keep.       *)
(***************************************************************************)

(***************************************************************************)
(* "Only connections that are not online are touched, so a working         *)
(* broadband link is never dropped" (ras.rs 348-350).                      *)
(***************************************************************************)
OnlineNeverHungUp ==
  [][\A h \in Own : conns[h] = "up" => conns'[h] # "closing"]_vars

(***************************************************************************)
(* "Clear that attempt first and then drop the back-off, because the       *)
(* obstacle is gone afterwards" (worker.rs 297-299).                       *)
(***************************************************************************)
ObstacleGone ==
  Has("aborted") /\ aborted["worker"] > 0 =>
    \A h \in Own : conns[h] \notin {"stale", "closing"}

(***************************************************************************)
(* The count that triggers the "port is stuck" warning is of consecutive   *)
(* blocked attempts (worker.rs 181): a failure of another kind in between  *)
(* ends the series.                                                        *)
(***************************************************************************)
BlockedInARow ==
  Has("wait") /\ waitFor = "retry" /\ answer # "756" => blocked = 0

(***************************************************************************)
(* "A failure is never fatal: the dial attempt that follows reports the    *)
(* real RAS error (typically 623) and the retry logic takes over from      *)
(* there" (worker.rs 432-434): a service that may create the entry gets    *)
(* online although it could not create it at first.                        *)
(***************************************************************************)
RetriesTakeOver ==
  CreateIfMissing => <>[](OwnUp \/ ~Reachable \/ stop \/ Has("done"))
=============================================================================
