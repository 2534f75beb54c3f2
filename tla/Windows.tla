------------------------------ MODULE Windows ------------------------------
(***************************************************************************)
(* What surrounds the service: the network cable, the access concentrator  *)
(* behind it, the table of connections kept by the RAS manager, and the    *)
(* event objects and callbacks through which Windows reports a change.     *)
(*                                                                         *)
(* None of this is code of the repository except the interface-change      *)
(* callback (link.rs); the rest is the contract src/ras.rs and src/link.rs *)
(* rely on.  Every adverse event (an unplugged cable, an API call that     *)
(* fails, a user dialling by hand...) belongs to a named kind of fault; a  *)
(* model allows some kinds and at most MaxTrouble of them altogether, the  *)
(* same bound that lets liveness be stated as "once the trouble is over".  *)
(***************************************************************************)
EXTENDS Integers

CONSTANTS Own,        \* connection handles whose entry is dial.entry_name
          Foreign,    \* handles of every other phone book entry
          NoHandle,   \* the null HRASCONN
          Faults,     \* the kinds of adverse events that may happen
          MaxTrouble  \* bound: how many of them altogether

ASSUME HandlesAssumption == /\ Own # {}
                            /\ Own \cap Foreign = {}
                            /\ NoHandle \notin Own \cup Foreign
ASSUME TroubleAssumption == MaxTrouble \in Nat

Handle == Own \cup Foreign

VARIABLES
  cable,        \* a cable is plugged into the adapter
  server,       \* the access concentrator answers
  conns,        \* the RAS connection table: state of every handle
  linkReg,      \* NotifyIpInterfaceChange is registered
  linkQueued,   \* an interface callback is due
  linkRunning,  \* an interface callback is executing, before its SetEvent
  linkEvt,      \* auto-reset event: interface changed
  rasQueued,    \* the RAS manager is about to signal a connection change
  rasEvt,       \* auto-reset event: RAS connection created or terminated
  stop,         \* manual-reset stop event of the service
  trouble       \* adverse events still to come

linkVars == <<linkReg, linkQueued, linkRunning, linkEvt>>
winVars  == <<cable, server, conns, linkVars, rasQueued, rasEvt, stop, trouble>>

(***************************************************************************)
(* The state of a handle.  "calling": RasDialW of this service negotiates; *)
(* "dialing": another program does; "stale": the negotiation is over but   *)
(* nobody hung the handle up, so the port is busy; "closing": hung up, the *)
(* port is not released yet.                                               *)
(***************************************************************************)
ConnState  == {"none", "calling", "dialing", "stale", "up", "closing"}
EventState == {"closed", "clear", "set"}

Occupied(h) == conns[h] # "none"
Up          == {h \in Handle : conns[h] = "up"}
OwnUp       == Own \cap Up # {}
Reachable   == cable /\ server

SetEvent(e) == IF e = "closed" THEN e ELSE "set"

\* One adverse event of kind f.
Fault(f) == f \in Faults /\ trouble > 0 /\ trouble' = trouble - 1

WindowsTypeOK ==
  /\ cable \in BOOLEAN /\ server \in BOOLEAN /\ stop \in BOOLEAN
  /\ conns \in [Handle -> ConnState]
  /\ linkReg \in BOOLEAN /\ linkQueued \in BOOLEAN /\ linkRunning \in BOOLEAN
  /\ linkEvt \in EventState /\ rasEvt \in EventState
  /\ rasQueued \in BOOLEAN
  /\ trouble \in 0..MaxTrouble

(***************************************************************************)
(* The machine as the service finds it: a connection dialled by hand or    *)
(* left by an earlier process may be up, or half open.                     *)
(***************************************************************************)
WindowsInit ==
  /\ cable \in BOOLEAN /\ server = TRUE /\ stop = FALSE
  /\ conns \in [Handle -> {"none", "stale", "up"}]
  /\ \A h \in Foreign : conns[h] # "stale"
  /\ \A g, h \in Own : Occupied(g) /\ Occupied(h) => g = h
  /\ linkReg = FALSE /\ linkQueued = FALSE /\ linkRunning = FALSE
  /\ linkEvt = "closed" /\ rasEvt = "closed" /\ rasQueued = FALSE
  /\ trouble = MaxTrouble

-----------------------------------------------------------------------------
(***************************************************************************)
(* Interface notifications (link.rs).  The callback is queued by the       *)
(* system, runs on a system thread and does one SetEvent.                  *)
(***************************************************************************)
CableFlip ==
  /\ Fault("cable")
  /\ cable' = ~cable
  /\ linkQueued' = linkReg
  /\ UNCHANGED <<server, conns, linkReg, linkRunning, linkEvt, rasQueued, rasEvt, stop>>

\* Some other interface changed: the notification carries no filter.  The only
\* kind of event without a limit.
OtherInterfaceChange ==
  /\ "noise" \in Faults
  /\ linkReg /\ ~linkQueued
  /\ linkQueued' = TRUE
  /\ UNCHANGED <<cable, server, conns, linkReg, linkRunning, linkEvt, rasQueued, rasEvt, stop, trouble>>

CallbackStarts ==
  /\ linkQueued /\ ~linkRunning
  /\ linkQueued' = FALSE /\ linkRunning' = TRUE
  /\ UNCHANGED <<cable, server, conns, linkReg, linkEvt, rasQueued, rasEvt, stop, trouble>>

interface_changed ==
  /\ linkRunning
  /\ linkRunning' = FALSE
  /\ linkEvt' = SetEvent(linkEvt)
  /\ UNCHANGED <<cable, server, conns, linkReg, linkQueued, rasQueued, rasEvt, stop, trouble>>

(***************************************************************************)
(* The access concentrator and the connections RAS keeps.                  *)
(***************************************************************************)
ServerFails ==
  /\ Fault("server") /\ server
  /\ server' = FALSE
  /\ UNCHANGED <<cable, conns, linkVars, rasQueued, rasEvt, stop>>

ServerRecovers ==
  /\ ~server
  /\ server' = TRUE
  /\ UNCHANGED <<cable, conns, linkVars, rasQueued, rasEvt, stop, trouble>>

\* The connection ends: for want of a peer, or because someone ended it.
Drops(h) ==
  /\ conns[h] = "up"
  /\ IF Reachable /\ h \in Own THEN Fault("drop") ELSE UNCHANGED trouble
  /\ conns' = [conns EXCEPT ![h] = "none"]
  /\ rasQueued' = TRUE
  /\ UNCHANGED <<cable, server, linkVars, rasEvt, stop>>

\* A hung-up handle becomes invalid: its port is free again.
RasReleases(h) ==
  /\ conns[h] = "closing"
  /\ conns' = [conns EXCEPT ![h] = "none"]
  /\ UNCHANGED <<cable, server, linkVars, rasQueued, rasEvt, stop, trouble>>

\* Somebody dials an entry that has no connection, outside this service.
OtherDials(h) ==
  /\ Fault("user")
  /\ conns[h] = "none"
  /\ h \in Own => \A g \in Own : ~Occupied(g)
  /\ conns' = [conns EXCEPT ![h] = "dialing"]
  /\ UNCHANGED <<cable, server, linkVars, rasQueued, rasEvt, stop>>

OtherConnects(h) ==
  /\ conns[h] = "dialing"
  /\ h \in Own => Reachable
  /\ conns' = [conns EXCEPT ![h] = "up"]
  /\ rasQueued' = TRUE
  /\ UNCHANGED <<cable, server, linkVars, rasEvt, stop, trouble>>

\* The other program is gone and left the attempt half open.
OtherAbandons(h) ==
  /\ h \in Own /\ conns[h] = "dialing"
  /\ conns' = [conns EXCEPT ![h] = "stale"]
  /\ UNCHANGED <<cable, server, linkVars, rasQueued, rasEvt, stop, trouble>>

\* Another program clears the entry: rasdial, or the watchdog of a dial-once.
OtherHangsUp(h) ==
  /\ Fault("user")
  /\ h \in Own /\ conns[h] \in {"calling", "stale"}
  /\ conns' = [conns EXCEPT ![h] = "closing"]
  /\ UNCHANGED <<cable, server, linkVars, rasQueued, rasEvt, stop>>

RasNotifies ==
  /\ rasQueued
  /\ rasQueued' = FALSE
  /\ rasEvt' = SetEvent(rasEvt)
  /\ UNCHANGED <<cable, server, conns, linkVars, stop, trouble>>

\* The control handler of the service sets the stop event.
RequestStop ==
  /\ ~stop
  /\ stop' = TRUE
  /\ UNCHANGED <<cable, server, conns, linkVars, rasQueued, rasEvt, trouble>>

WindowsNext ==
  \/ CableFlip \/ OtherInterfaceChange \/ CallbackStarts \/ interface_changed
  \/ ServerFails \/ ServerRecovers \/ RasNotifies \/ RequestStop
  \/ \E h \in Handle : \/ Drops(h) \/ RasReleases(h)
                       \/ OtherConnects(h) \/ OtherAbandons(h) \/ OtherHangsUp(h)
=============================================================================
