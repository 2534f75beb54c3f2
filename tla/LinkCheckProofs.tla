-------------------------- MODULE LinkCheckProofs --------------------------
(***************************************************************************)
(* The verdict of the cable check, for tables of any length and adapters   *)
(* of any kind.                                                            *)
(***************************************************************************)
EXTENDS LinkCheck, WellFoundedInduction, TLAPS

USE AdaptersAssumption

\* The verdict is never older than the table.
IInv == /\ table \in [1..Rows -> Adapter] /\ filter \in BOOLEAN
        /\ verdict = check

-----------------------------------------------------------------------------
(***************************************************************************)
(* The first of some rows is one of them.                                  *)
(***************************************************************************)
LEMMA MinIn ==
  ASSUME NEW S \in SUBSET (1..Rows), S # {}
  PROVE  Min(S) \in S
<1> DEFINE Less == {ss \in Nat \X Nat : ss[1] < ss[2]}
<1>1. IsWellFoundedOn(Less, Nat)
  BY NatLessThanWellFounded DEF OpToRel
<1>2. S \subseteq Nat
  OBVIOUS
<1>3. PICK x \in S : \A y \in S : ~(<<y, x>> \in Less)
  <2> HIDE DEF Less
  <2> QED
    BY <1>1, <1>2, WFMin, Zenon
<1>4. \A y \in S : x <= y
  <2> TAKE y \in S
  <2>1. x \in Nat /\ y \in Nat
    BY <1>2
  <2>2. <<y, x>> \in Less <=> y < x
    BY <2>1
  <2> QED
    BY <1>3, <2>1, <2>2
<1> QED
  BY <1>4 DEF Min

LEMMA FirstIn ==
  ASSUME NEW S \in SUBSET (1..Rows), NEW T \in SUBSET (1..Rows), T # {}
  PROVE  /\ First(S, T) \in 1..Rows
         /\ S # {} => First(S, T) \in S
         /\ S = {} => First(S, T) \in T
BY MinIn DEF First

(***************************************************************************)
(* The selection, row by row.                                              *)
(***************************************************************************)
LEMMA MatchedRows ==
  ASSUME TypeOK
  PROVE  /\ named \in SUBSET (1..Rows)
         /\ \A i \in 1..Rows : i \in named <=> Counts(i)
         /\ matched \in SUBSET (1..Rows)
         /\ \A i \in matched : Counts(i)
         /\ \A i \in matched, j \in 1..Rows :
              Counts(j) /\ (table[j].hardware \/ ~table[i].hardware) => j \in matched
         /\ \A i, j \in 1..Rows :
              Counts(j) /\ table[j].hardware /\ i \in matched => table[i].hardware
<1> USE DEF TypeOK, Adapter
<1>1. named \in SUBSET (1..Rows) /\ \A i \in 1..Rows : i \in named <=> Counts(i)
  BY DEF named, without_shims, snapshot, Such, Counts
<1>2. hardware \in SUBSET (1..Rows) /\ \A i \in 1..Rows : i \in hardware <=> i \in named /\ table[i].hardware
  BY <1>1 DEF hardware, Such
<1> QED
  BY <1>1, <1>2 DEF matched

(***************************************************************************)
(* The four cases of check.                                                *)
(***************************************************************************)
LEMMA CheckCases ==
  /\ matched = {} => check = Verdict(FALSE, FALSE, 0)
  /\ matched # {} /\ plugged # {} => check = Verdict(TRUE, FALSE, First(plugged, matched))
  /\ matched # {} /\ plugged = {} /\ reported # {}
       => check = Verdict(FALSE, FALSE, First(unplugged, matched))
  /\ matched # {} /\ plugged = {} /\ reported = {}
       => check = Verdict(running # {}, running # {}, First(running, matched))
BY DEF check

LEMMA CheckSets ==
  ASSUME table \in [1..Rows -> Adapter], filter \in BOOLEAN
  PROVE  /\ matched \in SUBSET (1..Rows)
         /\ plugged \in SUBSET matched /\ reported \in SUBSET matched
         /\ running \in SUBSET matched /\ unplugged \in SUBSET matched
<1>1. named \in SUBSET (1..Rows)
  BY DEF named, without_shims, snapshot, Such
<1>2. matched \in SUBSET (1..Rows)
  BY <1>1 DEF matched, hardware, Such
<1> QED
  BY <1>2 DEF plugged, reported, running, unplugged, Such

LEMMA VerdictType ==
  ASSUME NEW up \in BOOLEAN, NEW fallback \in BOOLEAN, fallback => up, NEW by \in 0..Rows
  PROVE  /\ Verdict(up, fallback, by) \in [up : BOOLEAN, fallback : BOOLEAN, decided_by : 0..Rows]
         /\ Verdict(up, fallback, by).fallback => Verdict(up, fallback, by).up
BY DEF Verdict

LEMMA CheckType ==
  ASSUME IInv
  PROVE  TypeOK
<1>1. \A S \in SUBSET matched : matched # {} => First(S, matched) \in 0..Rows
  BY CheckSets, FirstIn DEF IInv
<1>2. CASE matched = {}
  <2>1. check = Verdict(FALSE, FALSE, 0)
    BY <1>2, CheckCases
  <2> QED
    BY <2>1 DEF Verdict, IInv, TypeOK
<1>3. CASE matched # {} /\ plugged # {}
  <2>1. First(plugged, matched) \in 0..Rows
    BY <1>1, <1>3, CheckSets DEF IInv
  <2> QED
    BY <1>3, <2>1, CheckCases, VerdictType DEF IInv, TypeOK
<1>4. CASE matched # {} /\ plugged = {} /\ reported # {}
  <2>1. First(unplugged, matched) \in 0..Rows
    BY <1>1, <1>4, CheckSets DEF IInv
  <2> QED
    BY <1>4, <2>1, CheckCases, VerdictType DEF IInv, TypeOK
<1>5. CASE matched # {} /\ plugged = {} /\ reported = {}
  <2> DEFINE up == running # {}
  <2>1. First(running, matched) \in 0..Rows
    BY <1>1, <1>5, CheckSets DEF IInv
  <2>2. check = Verdict(up, up, First(running, matched))
    BY <1>5, CheckCases
  <2>3. up \in BOOLEAN
    OBVIOUS
  <2> HIDE DEF up
  <2> QED
    BY <2>1, <2>2, <2>3, VerdictType DEF IInv, TypeOK
<1> QED
  BY <1>2, <1>3, <1>4, <1>5

LEMMA CheckUp ==
  ASSUME IInv, verdict.up
  PROVE  /\ verdict.decided_by \in matched
         /\ \/ verdict.decided_by \in plugged
            \/ verdict.fallback /\ reported = {} /\ verdict.decided_by \in running
<1> USE DEF IInv
<1>1. matched # {} /\ ~(plugged = {} /\ reported # {})
  BY CheckCases DEF Verdict
<1>2. CASE plugged # {}
  <2>1. verdict.decided_by = First(plugged, matched)
    BY <1>1, <1>2, CheckCases DEF Verdict
  <2> QED
    BY <1>1, <1>2, <2>1, CheckSets, FirstIn
<1>3. CASE plugged = {} /\ reported = {}
  <2> DEFINE up == running # {}
  <2>1. verdict = Verdict(up, up, First(running, matched))
    BY <1>1, <1>3, CheckCases
  <2>2. up /\ verdict.fallback /\ verdict.decided_by = First(running, matched)
    <3> HIDE DEF up
    <3> QED
      BY <2>1 DEF Verdict
  <2> QED
    BY <1>1, <1>3, <2>2, CheckSets, FirstIn
<1> QED
  BY <1>1, <1>2, <1>3

-----------------------------------------------------------------------------
(***************************************************************************)
(* The verdict always belongs to the table that is there.                  *)
(***************************************************************************)
LEMMA Invariance == Spec => []IInv
<1>1. Init => IInv
  BY DEF Init, IInv
<1>2. IInv /\ [Next]_vars => IInv'
  <2> SUFFICES ASSUME IInv, [Next]_vars PROVE IInv'
    OBVIOUS
  <2>1. CASE UNCHANGED vars
    <3>1. named' = named
      BY <2>1 DEF vars, named, without_shims, snapshot, Such
    <3>2. matched' = matched
      BY <2>1, <3>1 DEF vars, matched, hardware, Such
    <3>3. plugged' = plugged /\ unplugged' = unplugged /\ reported' = reported /\ running' = running
      BY <2>1, <3>2 DEF vars, plugged, unplugged, reported, running, Such
    <3>4. check' = check
      BY <3>2, <3>3, Zenon DEF check
    <3> QED
      BY <2>1, <3>4 DEF vars, IInv
  <2>2. CASE Next
    <3>1. PICK i \in 1..Rows : InterfaceChanges(i)
      BY <2>2 DEF Next
    <3> QED
      BY <3>1 DEF InterfaceChanges, IInv, Adapter, Media
  <2> QED
    BY <2>1, <2>2
<1> QED
  BY <1>1, <1>2, PTL DEF Spec

(***************************************************************************)
(* The verdict always has its type, and a fallback is always an "up"      *)
(* (link.rs 146-161).                                                      *)
(***************************************************************************)
THEOREM LinkTypeCorrect == Spec => []TypeOK
<1>1. IInv => TypeOK
  BY CheckType
<1> QED
  BY <1>1, Invariance, PTL

(***************************************************************************)
(* A verdict "up" rests on an interface that is up, and on a cable unless  *)
(* no interface that counts reports its medium (link.rs 146-161).          *)
(***************************************************************************)
THEOREM UpAlwaysMeansCable == Spec => []UpMeansCable
<1>1. IInv => UpMeansCable
  <2> SUFFICES ASSUME IInv, verdict.up PROVE UpMeansCable
    BY DEF UpMeansCable
  <2>1. TypeOK
    BY CheckType
  <2>2. verdict.decided_by \in matched /\ verdict.decided_by \in 1..Rows
    BY <2>1, CheckUp, MatchedRows
  <2>3. CASE verdict.decided_by \in plugged
    BY <2>1, <2>2, <2>3, MatchedRows DEF plugged, Such, UpMeansCable
  <2>4. CASE verdict.fallback /\ reported = {} /\ verdict.decided_by \in running
    <3>1. \A i \in matched : table[i].media = "Unknown"
      BY <2>4 DEF reported, Such
    <3>2. table[verdict.decided_by].oper_up
      BY <2>4 DEF running, Such
    <3> QED
      BY <2>1, <2>2, <2>4, <3>1, <3>2, MatchedRows DEF UpMeansCable
  <2> QED
    BY <2>3, <2>4, CheckUp
<1> QED
  BY <1>1, Invariance, PTL

(***************************************************************************)
(* No virtual adapter masks real cards that are all unplugged (link.rs     *)
(* 163-198).                                                               *)
(***************************************************************************)
THEOREM RealCardNeverMasked == Spec => []RealCardNotMasked
<1>1. IInv => RealCardNotMasked
  <2> SUFFICES ASSUME IInv, verdict.up,
                      NEW k \in 1..Rows, Counts(k) /\ table[k].hardware,
                      \A i \in 1..Rows : Counts(i) /\ table[i].hardware => table[i].media = "Disconnected"
               PROVE  FALSE
    BY DEF RealCardNotMasked
  <2>1. TypeOK
    BY CheckType
  <2>2. verdict.decided_by \in matched
    BY CheckUp
  <2>3. \A i \in matched : i \in 1..Rows /\ Counts(i) /\ table[i].hardware
    BY <2>1, MatchedRows
  <2>4. k \in matched
    BY <2>1, <2>2, MatchedRows
  <2>5. k \in reported /\ plugged = {}
    BY <2>3, <2>4 DEF reported, plugged, Such
  <2> QED
    BY <2>2, <2>5, CheckUp
<1> QED
  BY <1>1, Invariance, PTL

\* When the verdict is "up".
UpIff == verdict.up <=> \/ plugged # {}
                        \/ reported = {} /\ running # {}

LEMMA CheckUpIff ==
  ASSUME IInv
  PROVE  UpIff
<1>1. /\ plugged \in SUBSET matched /\ running \in SUBSET matched
  BY CheckSets DEF IInv
<1> DEFINE up == running # {}
<1>2. matched # {} /\ plugged = {} /\ reported = {} => verdict = Verdict(up, up, First(running, matched))
  BY CheckCases DEF IInv
<1>3. matched # {} /\ plugged = {} /\ reported = {} => (verdict.up <=> up)
  <2> HIDE DEF up
  <2> QED
    BY <1>2 DEF Verdict
<1>4. matched = {} \/ (plugged = {} /\ reported # {}) => verdict.up = FALSE
  BY <1>1, CheckCases DEF IInv, Verdict
<1>5. matched # {} /\ plugged # {} => verdict.up = TRUE
  BY CheckCases DEF IInv, Verdict
<1> QED
  BY <1>1, <1>3, <1>4, <1>5 DEF UpIff

\* A change of the media state does not change which interfaces count.
LEMMA SameRows ==
  ASSUME IInv, NEW k \in 1..Rows, InterfaceChanges(k)
  PROVE  matched' = matched /\ matched \in SUBSET (1..Rows) /\ DOMAIN table' = 1..Rows
<1>1. /\ DOMAIN table = 1..Rows /\ DOMAIN table' = 1..Rows /\ filter' = filter
      /\ \A i \in 1..Rows : /\ table'[i].wanted = table[i].wanted
                             /\ table'[i].is_filter = table[i].is_filter
                             /\ table'[i].named = table[i].named
                             /\ table'[i].hardware = table[i].hardware
  BY DEF IInv, InterfaceChanges, Adapter
<1>2. without_shims' = without_shims /\ without_shims \in SUBSET (1..Rows)
  BY <1>1 DEF without_shims, snapshot, Such
<1>3. named' = named /\ named \in SUBSET (1..Rows)
  BY <1>1, <1>2 DEF named, Such
<1>4. hardware' = hardware /\ hardware \in SUBSET (1..Rows)
  BY <1>1, <1>3 DEF hardware, Such
<1> QED
  BY <1>1, <1>3, <1>4 DEF matched

(***************************************************************************)
(* Plugging in never turns the verdict "down", pulling out never "up",     *)
(* whatever the other interfaces report (link.rs 163-218).                 *)
(***************************************************************************)
THEOREM AlwaysMonotone == Spec => Monotone
<1> DEFINE Step(i) == (\A j \in 1..Rows \ {i} : table'[j] = table[j]) =>
                        /\ PlugsIn(i) /\ verdict.up => verdict'.up
                        /\ PullsOut(i) /\ verdict'.up => verdict.up
<1>1. IInv /\ UpIff /\ UpIff' /\ [Next]_vars => [\A i \in 1..Rows : Step(i)]_vars
  <2> SUFFICES ASSUME IInv, UpIff, UpIff', NEW k \in 1..Rows, InterfaceChanges(k),
                      NEW i \in 1..Rows, \A j \in 1..Rows \ {i} : table'[j] = table[j]
               PROVE  /\ PlugsIn(i) /\ verdict.up => verdict'.up
                      /\ PullsOut(i) /\ verdict'.up => verdict.up
    BY DEF Next
  <2>1. matched' = matched /\ matched \in SUBSET (1..Rows)
    BY SameRows
  <2>2. \A j \in matched \ {i} : /\ j \in plugged' <=> j \in plugged
                                 /\ j \in reported' <=> j \in reported
                                 /\ j \in running' <=> j \in running
    BY <2>1 DEF plugged, reported, running, Such
  <2>3. /\ plugged \in SUBSET matched /\ reported \in SUBSET matched /\ running \in SUBSET matched
        /\ plugged' \in SUBSET matched /\ reported' \in SUBSET matched /\ running' \in SUBSET matched
    BY <2>1 DEF plugged, reported, running, Such
  <2>4. CASE i \notin matched
    <3>1. plugged' = plugged /\ reported' = reported /\ running' = running
      BY <2>2, <2>3, <2>4
    <3> QED
      BY <3>1 DEF UpIff
  <2>5. CASE i \in matched
    <3>1. PlugsIn(i) => i \in plugged'
      BY <2>1, <2>5 DEF PlugsIn, plugged, Such
    <3>2. PullsOut(i) => i \in reported' /\ i \notin plugged'
      BY <2>1, <2>5 DEF PullsOut, reported, plugged, Such
    <3> QED
      BY <2>2, <2>3, <3>1, <3>2 DEF UpIff
  <2> QED
    BY <2>4, <2>5
<1>2. IInv => UpIff
  BY CheckUpIff
<1> QED
  BY <1>1, <1>2, Invariance, PTL DEF Spec, Monotone
=============================================================================
