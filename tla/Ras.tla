-------------------------------- MODULE Ras --------------------------------
(***************************************************************************)
(* src/ras.rs as seen by its two threads: the worker, which dials, and the *)
(* watchdog thread dial() starts next to every attempt.  Both may run      *)
(* abort_stale_attempts.  The RAS calls that change something, and those   *)
(* that read, are steps of their own, so the table can change between any  *)
(* two of them; only the calls of one enumerate() are taken together.      *)
(***************************************************************************)
EXTENDS Windows

Proc == {"worker", "watchdog"}

VARIABLES
  pc,       \* where each thread is
  hconn,    \* the handle RasDialW handed to the current attempt
  answer,   \* what RasDialW returns, "none" while it blocks
  doneEvt,  \* auto-reset event: RasDialW returned
  todo,     \* abort_stale_attempts: handles of the snapshot still to hang up
  target,   \* the handle being hung up, polled by wait_for_release
  aborted,  \* abort_stale_attempts: how many were aborted
  entry     \* the phone book has the entry

rasVars == <<hconn, answer, doneEvt, todo, target, aborted, entry>>

\* What a step that changes neither the machine nor ras.rs leaves alone,
\* except that it may use up trouble.
winFrame == <<cable, server, conns, linkVars, rasQueued, rasEvt, stop>>

(***************************************************************************)
(* "ok", or the class of the error: "756" an attempt owns the port, "retry"*)
(* any other code worth retrying, "config" one that describe_error calls a *)
(* configuration problem, "error" a failure without a RAS code.            *)
(***************************************************************************)
Answer == {"none", "ok", "756", "retry", "config", "error"}

\* Where each thread is inside ras.rs.
AbortPC    == {"abort_enum", "abort_next", "abort_wait"}
WatchdogPC == {"none", "armed", "exited"} \cup AbortPC
DialPC     == {"dial", "call", "ringing", "join", "hang_up", "hang_up_wait"}

Goto(p, label) == pc' = [pc EXCEPT ![p] = label]

\* A process that has just begun: no watchdog, the worker at its first step.
Fresh == [p \in Proc |-> IF p = "worker" THEN "start" ELSE "none"]

\* An entry that is missing has no connection.
RasInit ==
  /\ pc = Fresh
  /\ hconn = NoHandle /\ answer = "none" /\ doneEvt = "closed"
  /\ todo = [p \in Proc |-> {}]
  /\ target = [p \in Proc |-> NoHandle]
  /\ aborted = [p \in Proc |-> 0]
  /\ entry \in BOOLEAN
  /\ ~entry => \A h \in Own : ~Occupied(h)

RasTypeOK ==
  /\ hconn \in Own \cup {NoHandle}
  /\ answer \in Answer /\ doneEvt \in EventState
  /\ todo \in [Proc -> SUBSET Own]
  /\ target \in [Proc -> Own \cup {NoHandle}]
  /\ aborted \in [Proc -> Nat]
  /\ entry \in BOOLEAN

-----------------------------------------------------------------------------
(***************************************************************************)
(* prepare_entry and ensure_entry, at label: unless it is told not to, the *)
(* process looks for the entry once and creates it if it is missing.  It   *)
(* goes on whatever fails, and the dials that follow meet error 623.       *)
(***************************************************************************)
ProbeEntry(label, create) ==
  /\ pc["worker"] = label
  /\ \/ /\ UNCHANGED trouble
        /\ Goto("worker", IF create /\ ~entry THEN "create" ELSE "cable")
     \/ create /\ Fault("entry") /\ Goto("worker", "cable")
  /\ UNCHANGED <<winFrame, rasVars>>

CreateEntry ==
  /\ pc["worker"] = "create"
  /\ \/ entry' = TRUE /\ UNCHANGED trouble
     \/ Fault("entry") /\ UNCHANGED entry
  /\ Goto("worker", "cable")
  /\ UNCHANGED <<winFrame, hconn, answer, doneEvt, todo, target, aborted>>

\* Somebody edits the phone book, while the entry has no connection.
PhoneBookEdited ==
  /\ \A h \in Own : ~Occupied(h)
  /\ entry' = ~entry
  /\ IF entry THEN Fault("user") ELSE UNCHANGED trouble
  /\ UNCHANGED <<winFrame, pc, hconn, answer, doneEvt, todo, target, aborted>>

-----------------------------------------------------------------------------
(***************************************************************************)
(* enumerate(): the handles RAS lists as connected.  When the status query *)
(* of one of them fails, collect() reads its state as 0, "not connected".  *)
(* The list and the queries are one step.  A connection that comes up      *)
(* between them could as well have come up before them, and what           *)
(* abort_stale_attempts read is used arbitrarily later anyway; one that    *)
(* disappears between them has a query that fails: the fault "status".     *)
(***************************************************************************)
Enumerates(connected) ==
  \/ connected = Up /\ UNCHANGED trouble
  \/ Fault("status") /\ \E h \in Up : connected = Up \ {h}

EnumerateFails == Fault("enum")

\* Broken variant: any entry that is not connected counts as stale.
AnyEntryIsStale(h, connected) ==
  Occupied(h) /\ h \notin connected

is_stale_attempt(h, connected) ==
  h \in Own /\ Occupied(h) /\ h \notin connected

(***************************************************************************)
(* RasHangUpW on behalf of thread p; wait_for_release follows at label     *)
(* waiting when it succeeds, otherwise p goes on at label next.  A null    *)
(* handle is skipped.                                                      *)
(***************************************************************************)
Valid(h) == h \in Handle /\ Occupied(h)

HangUp(p, h, waiting, next) ==
  \/ /\ Valid(h)
     /\ rasQueued' = (rasQueued \/ conns[h] = "up")
     /\ conns' = [conns EXCEPT ![h] = "closing"]
     /\ Goto(p, waiting)
     /\ UNCHANGED trouble
  \/ /\ ~Valid(h)
     /\ Goto(p, next)
     /\ UNCHANGED <<conns, rasQueued, trouble>>
  \/ /\ Valid(h)
     /\ Fault("hangup")
     /\ Goto(p, next)
     /\ UNCHANGED <<conns, rasQueued>>

\* wait_for_release(): the handle became invalid, or fifty polls went by.
Released(h) ==
  \/ ~Valid(h) /\ UNCHANGED trouble
  \/ Fault("release")

-----------------------------------------------------------------------------
(***************************************************************************)
(* abort_stale_attempts(entry), run by p.  The snapshot is taken once; the *)
(* handles in it are hung up one after the other, and each one counts as   *)
(* aborted whatever RasHangUpW answered.                                   *)
(***************************************************************************)
abortFrame == <<cable, server, linkVars, rasEvt, stop, hconn, answer, doneEvt, entry>>

AbortEnumerate(p) ==
  /\ pc[p] = "abort_enum"
  /\ \E connected \in SUBSET Up :
        /\ Enumerates(connected)
        /\ todo' = [todo EXCEPT ![p] = {h \in Handle : is_stale_attempt(h, connected)}]
  /\ aborted' = [aborted EXCEPT ![p] = 0]
  /\ Goto(p, "abort_next")
  /\ UNCHANGED <<abortFrame, conns, rasQueued, target>>

AbortHangUp(p) ==
  /\ pc[p] = "abort_next"
  /\ \E h \in todo[p] :
        /\ HangUp(p, h, "abort_wait", "abort_next")
        /\ todo' = [todo EXCEPT ![p] = todo[p] \ {h}]
        /\ target' = [target EXCEPT ![p] = IF pc'[p] = "abort_wait" THEN h ELSE NoHandle]
  /\ aborted' = [aborted EXCEPT ![p] = aborted[p] + 1]
  /\ UNCHANGED abortFrame

AbortReleased(p) ==
  /\ pc[p] = "abort_wait"
  /\ Released(target[p])
  /\ target' = [target EXCEPT ![p] = NoHandle]
  /\ Goto(p, "abort_next")
  /\ UNCHANGED <<abortFrame, conns, rasQueued, todo, aborted>>

-----------------------------------------------------------------------------
(***************************************************************************)
(* dial(): the worker's side.                                              *)
(***************************************************************************)
\* Create the event and start the watchdog; a thread that cannot be spawned
\* is silently done without.
DialBegins ==
  /\ pc["worker"] = "dial"
  /\ doneEvt' = "clear"
  /\ \/ /\ pc' = [pc EXCEPT !["worker"] = "call", !["watchdog"] = "armed"]
        /\ UNCHANGED trouble
     \/ /\ Fault("spawn")
        /\ Goto("worker", "call")
  /\ hconn' = NoHandle /\ answer' = "none"
  /\ UNCHANGED <<cable, server, conns, linkVars, rasQueued, rasEvt, stop, todo, target, aborted, entry>>

\* CreateEventW failed: an error without a code, and nothing was dialled.
DialCannotBegin ==
  /\ pc["worker"] = "dial"
  /\ Fault("event")
  /\ hconn' = NoHandle /\ answer' = "error"
  /\ Goto("worker", "hang_up")
  /\ UNCHANGED <<cable, server, conns, linkVars, rasQueued, rasEvt, stop, doneEvt, todo, target, aborted, entry>>

\* A handle value is not given out again while a thread still holds it.
Held == {hconn} \cup {target[p] : p \in Proc} \cup UNION {todo[p] : p \in Proc}

\* RasDialW is called without an entry: error 623, at once and without a handle.
EntryNotFound ==
  /\ pc["worker"] = "call" /\ ~entry
  /\ answer' = "config"
  /\ Goto("worker", "ringing")
  /\ UNCHANGED <<winVars, hconn, doneEvt, todo, target, aborted, entry>>

\* RasDialW is called.  An attempt for the entry that owns the port gets it
\* rejected at once; so does a port stuck inside RAS with nothing to show for it.
RasDialBegins ==
  /\ pc["worker"] = "call" /\ entry
  /\ Goto("worker", "ringing")
  /\ \/ /\ \A g \in Own : ~Occupied(g)
        /\ \E h \in Own \ Held : /\ hconn' = h
                                 /\ conns' = [conns EXCEPT ![h] = "calling"]
        /\ UNCHANGED <<answer, trouble>>
     \/ /\ \E g \in Own : Occupied(g)
        /\ answer' = IF OwnUp THEN "retry" ELSE "756"
        /\ UNCHANGED <<hconn, conns, trouble>>
     \/ /\ \A g \in Own : ~Occupied(g)
        /\ Fault("stuck")
        /\ answer' = "756"
        /\ UNCHANGED <<hconn, conns>>
  /\ UNCHANGED <<cable, server, linkVars, rasQueued, rasEvt, stop, doneEvt, todo, target, aborted, entry>>

\* RasDialW returned: tell the watchdog, and wait for it to end.
RasDialReturns ==
  /\ pc["worker"] = "ringing" /\ answer # "none"
  /\ doneEvt' = "set"
  /\ Goto("worker", "join")
  /\ UNCHANGED <<winVars, hconn, answer, todo, target, aborted, entry>>

\* Broken variant: close the event and go on without the join.
DetachWatchdog ==
  /\ pc["worker"] = "join"
  /\ doneEvt' = "closed"
  /\ Goto("worker", IF answer = "ok" THEN "dialled" ELSE "hang_up")
  /\ UNCHANGED <<winVars, hconn, answer, todo, target, aborted, entry>>

JoinWatchdog ==
  /\ pc["worker"] = "join"
  /\ pc["watchdog"] \in {"none", "exited"}
  /\ doneEvt' = "closed"
  /\ pc' = [pc EXCEPT !["worker"] = IF answer = "ok" THEN "dialled" ELSE "hang_up",
                      !["watchdog"] = "none"]
  /\ UNCHANGED <<winVars, hconn, answer, todo, target, aborted, entry>>

\* Broken variant: the handle of a failed dial is simply forgotten.
ForgetFailedDial ==
  /\ pc["worker"] = "hang_up"
  /\ Goto("worker", "failed")
  /\ UNCHANGED <<winVars, rasVars>>

\* A failed RasDialW still hands out a handle: hang it up, wait for the port.
HangUpFailedDial ==
  /\ pc["worker"] = "hang_up"
  /\ HangUp("worker", hconn, "hang_up_wait", "failed")
  /\ UNCHANGED <<cable, server, linkVars, rasEvt, stop, rasVars>>

FailedDialReleased ==
  /\ pc["worker"] = "hang_up_wait"
  /\ Released(hconn)
  /\ Goto("worker", "failed")
  /\ UNCHANGED <<cable, server, conns, linkVars, rasQueued, rasEvt, stop, rasVars>>

-----------------------------------------------------------------------------
(***************************************************************************)
(* dial(): the watchdog thread.                                            *)
(***************************************************************************)
WatchdogDismissed ==
  /\ pc["watchdog"] = "armed" /\ doneEvt = "set"
  /\ doneEvt' = "clear"
  /\ Goto("watchdog", "exited")
  /\ UNCHANGED <<winVars, hconn, answer, todo, target, aborted, entry>>

\* Broken variant: a watchdog that only reports the time-out.
WatchdogOnlyReports ==
  /\ pc["watchdog"] = "armed" /\ doneEvt # "set"
  /\ IF pc["worker"] = "call" THEN Fault("preempt")
     ELSE IF Reachable THEN Fault("timeout") ELSE UNCHANGED trouble
  /\ Goto("watchdog", "exited")
  /\ UNCHANGED <<cable, server, conns, linkVars, rasQueued, rasEvt, stop, rasVars>>

\* dial_timeout_secs went by.  Before RasDialW was even called the thread must
\* have been held up; with the server answering it is a slow answer.
WatchdogFires ==
  /\ pc["watchdog"] = "armed" /\ doneEvt # "set"
  /\ IF pc["worker"] = "call" THEN Fault("preempt")
     ELSE IF Reachable THEN Fault("timeout") ELSE UNCHANGED trouble
  /\ Goto("watchdog", "abort_enum")
  /\ UNCHANGED <<cable, server, conns, linkVars, rasQueued, rasEvt, stop, rasVars>>

WatchdogEnds ==
  /\ \/ pc["watchdog"] = "abort_next" /\ todo["watchdog"] = {} /\ UNCHANGED trouble
     \/ pc["watchdog"] = "abort_enum" /\ EnumerateFails
  /\ aborted' = [aborted EXCEPT !["watchdog"] = 0]
  /\ Goto("watchdog", "exited")
  /\ UNCHANGED <<abortFrame, conns, rasQueued, todo, target>>

Watchdog == \/ WatchdogDismissed \/ WatchdogFires \/ WatchdogEnds
            \/ AbortEnumerate("watchdog") \/ AbortHangUp("watchdog") \/ AbortReleased("watchdog")

-----------------------------------------------------------------------------
(***************************************************************************)
(* The RAS manager's part in an attempt of this service.                   *)
(***************************************************************************)
Ringing == pc["worker"] = "ringing" /\ answer = "none"

RasConnects ==
  /\ Ringing /\ conns[hconn] = "calling" /\ Reachable
  /\ conns' = [conns EXCEPT ![hconn] = "up"]
  /\ rasQueued' = TRUE
  /\ answer' = "ok"
  /\ UNCHANGED <<cable, server, linkVars, rasEvt, stop, trouble, pc, hconn, doneEvt, todo, target, aborted, entry>>

\* The attempt failed; its handle stays half open.
RasRejects ==
  /\ Ringing /\ conns[hconn] = "calling"
  /\ IF Reachable THEN Fault("reject") ELSE UNCHANGED trouble
  /\ conns' = [conns EXCEPT ![hconn] = "stale"]
  /\ answer' \in {"retry", "config"}
  /\ UNCHANGED <<cable, server, linkVars, rasQueued, rasEvt, stop, pc, hconn, doneEvt, todo, target, aborted, entry>>

\* Somebody hung the attempt up.
RasCancelled ==
  /\ Ringing /\ conns[hconn] \in {"closing", "none"}
  /\ answer' = "retry"
  /\ UNCHANGED <<winVars, pc, hconn, doneEvt, todo, target, aborted, entry>>
=============================================================================
