----------------------------- MODULE LinkCheck -----------------------------
(***************************************************************************)
(* link::check of src/link.rs: which of the interfaces Windows reports     *)
(* decides whether a cable is plugged in.  An adapter is reduced to what   *)
(* the decision looks at; the table is ordered, since the first match      *)
(* wins.  Each step is an interface that changes and the evaluation that   *)
(* follows; when that evaluation happens is the subject of module Dialer.  *)
(***************************************************************************)
EXTENDS Integers, FiniteSetsExt

CONSTANTS Adapters,  \* the adapters that may exist
          Rows       \* number of rows GetIfTable2 returns

Media   == {"Connected", "Disconnected", "Unknown"}
Adapter == [wanted    : BOOLEAN,  \* its type is one of if_types
            is_filter : BOOLEAN,  \* an NDIS filter shim
            named     : BOOLEAN,  \* alias or description contains the filter
            hardware  : BOOLEAN,
            media     : Media,
            oper_up   : BOOLEAN]

ASSUME AdaptersAssumption == Adapters \subseteq Adapter /\ Rows \in Nat

VARIABLES table, filter, verdict

vars == <<table, filter, verdict>>

\* filter: link_check.adapter_name is not empty.  decided_by: 0 is None.
TypeOK ==
  /\ table \in [1..Rows -> Adapter]
  /\ filter \in BOOLEAN
  /\ verdict \in [up : BOOLEAN, fallback : BOOLEAN, decided_by : 0..Rows]
  /\ verdict.fallback => verdict.up

Such(rows, P(_)) == {i \in rows : P(table[i])}

snapshot      == Such(DOMAIN table, LAMBDA a : a.wanted)
without_shims == Such(snapshot, LAMBDA a : ~a.is_filter)
named         == IF filter THEN Such(without_shims, LAMBDA a : a.named) ELSE without_shims
hardware      == Such(named, LAMBDA a : a.hardware)

\* Broken variant: virtual adapters count as much as real ones.
matched_any == named

matched == IF hardware = {} THEN named ELSE hardware

\* Broken variant: a connected medium is enough.
plugged_down == Such(matched, LAMBDA a : a.media = "Connected")

plugged   == Such(matched, LAMBDA a : a.media = "Connected" /\ a.oper_up)
unplugged == Such(matched, LAMBDA a : a.media = "Disconnected")

\* Broken variant: only a connected medium is a report.
reported_connected == Such(matched, LAMBDA a : a.media = "Connected")

reported  == Such(matched, LAMBDA a : a.media # "Unknown")
running   == Such(matched, LAMBDA a : a.oper_up)

\* The first row of S, or else the first of T.
First(S, T) == Min(IF S # {} THEN S ELSE T)

Verdict(up, fallback, by) == [up |-> up, fallback |-> fallback, decided_by |-> by]

\* Broken variant: every verdict without a medium is called a fallback.
check_fallback ==
  CASE matched = {}  -> Verdict(FALSE, FALSE, 0)
    [] matched # {} /\ plugged # {} -> Verdict(TRUE, FALSE, First(plugged, matched))
    [] matched # {} /\ plugged = {} /\ reported # {} -> Verdict(FALSE, FALSE, First(unplugged, matched))
    [] matched # {} /\ plugged = {} /\ reported = {} ->
         Verdict(running # {}, TRUE, First(running, matched))

check ==
  CASE matched = {}  -> Verdict(FALSE, FALSE, 0)
    [] matched # {} /\ plugged # {} -> Verdict(TRUE, FALSE, First(plugged, matched))
    [] matched # {} /\ plugged = {} /\ reported # {} -> Verdict(FALSE, FALSE, First(unplugged, matched))
    [] matched # {} /\ plugged = {} /\ reported = {} ->
         Verdict(running # {}, running # {}, First(running, matched))

Init == /\ table \in [1..Rows -> Adapters]
        /\ filter \in BOOLEAN
        /\ verdict = check

\* The media state or the operational status of one interface changes.
InterfaceChanges(i) ==
  /\ UNCHANGED filter
  /\ \E media \in Media, oper_up \in BOOLEAN :
       table' = [table EXCEPT ![i].media = media, ![i].oper_up = oper_up]
  /\ table'[i] \in Adapters
  /\ verdict' = check'

Next == \E i \in 1..Rows : InterfaceChanges(i)

Spec == Init /\ [][Next]_vars

-----------------------------------------------------------------------------
(***************************************************************************)
(* A verdict "up" rests on an interface that is up, and on a cable, unless *)
(* no interface that counts reports its medium at all (link.rs 146-161).   *)
(***************************************************************************)
Counts(i) ==
  /\ table[i].wanted /\ ~table[i].is_filter
  /\ filter => table[i].named

UpMeansCable ==
  verdict.up =>
    /\ Counts(verdict.decided_by) /\ table[verdict.decided_by].oper_up
    /\ \/ table[verdict.decided_by].media = "Connected"
       \/ /\ verdict.fallback
          /\ \A i \in 1..Rows :
               Counts(i) /\ (table[i].hardware \/ ~table[verdict.decided_by].hardware)
                 => table[i].media = "Unknown"

(***************************************************************************)
(* A virtual adapter that claims to be connected does not mask a real card *)
(* whose cable is unplugged (link.rs test hardware_wins_over_virtual_      *)
(* miniports).                                                             *)
(***************************************************************************)
RealCardNotMasked ==
  LET real == {i \in 1..Rows : Counts(i) /\ table[i].hardware}
  IN  real # {} /\ (\A i \in real : table[i].media = "Disconnected") => ~verdict.up

(***************************************************************************)
(* Plugging a cable in never turns the verdict to "down", and pulling one  *)
(* out never turns it to "up", whatever the other interfaces report.       *)
(***************************************************************************)
PlugsIn(i)  == table'[i].media = "Connected" /\ table'[i].oper_up
PullsOut(i) == table'[i].media = "Disconnected" /\ ~table'[i].oper_up

Monotone ==
  [][\A i \in 1..Rows :
       (\A j \in 1..Rows \ {i} : table'[j] = table[j]) =>
         /\ PlugsIn(i) /\ verdict.up => verdict'.up
         /\ PullsOut(i) /\ verdict'.up => verdict.up]_vars

-----------------------------------------------------------------------------
(***************************************************************************)
(* DESIGN.md 926-929: real cards are preferred first, and adapter_name     *)
(* only chooses between several of them; so no virtual adapter decides     *)
(* while there is a real card.                                             *)
(***************************************************************************)
RealCardDecides ==
  /\ \E i \in 1..Rows : table[i].wanted /\ ~table[i].is_filter /\ table[i].hardware
  /\ verdict.decided_by # 0
  => table[verdict.decided_by].hardware
=============================================================================
