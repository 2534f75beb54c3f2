--------------------------- MODULE BackoffProofs ---------------------------
(***************************************************************************)
(* The back-off for every width of the integers and every setting: the     *)
(* bounds of a delay, and that the delays follow the series the code       *)
(* promises.                                                               *)
(***************************************************************************)
EXTENDS Backoff, WellFoundedInduction, TLAPS

USE WidthAssumption

(***************************************************************************)
(* Saturating arithmetic stays within 64 bits (worker.rs 133, 139-141).    *)
(***************************************************************************)
LEMMA Saturation ==
  ASSUME NEW a \in Nat, NEW b \in Nat
  PROVE  /\ SatAdd(a, b) \in 0..U64Max /\ SatAdd(a, b) <= a + b
         /\ SatSub(a, b) \in Nat /\ SatSub(a, b) <= a
         /\ a + b >= 1 => SatAdd(a, b) >= 1
  BY DEF SatAdd, SatSub, Least

(***************************************************************************)
(* The table holds powers of two; all the proofs need is that they are     *)
(* positive.                                                               *)
(***************************************************************************)
LEMMA PowersPositive == \A i \in 1..17 : PowerOfTwo[i] \in Nat \ {0}
  BY DEF PowerOfTwo

(***************************************************************************)
(* A product of positive numbers is positive, saturated or not.            *)
(***************************************************************************)
LEMMA ProductPositive ==
  ASSUME NEW a \in Nat \ {0}, NEW b \in Nat \ {0}
  PROVE  SatMul(a, b) \in 1..U64Max
<1>1. a * b \in Nat /\ a * b >= 1
  OBVIOUS
<1> QED
  BY <1>1 DEF SatMul, Least

(***************************************************************************)
(* Before jitter a delay is at least a second and at most the cap.         *)
(***************************************************************************)
LEMMA NominalRange ==
  ASSUME TypeOK, NEW n \in Nat
  PROVE  Nominal(n) \in 1..cap
<1>1. Shift(n) + 1 \in 1..17
  BY DEF Shift, SatSub, Least
<1>2. PowerOfTwo[Shift(n) + 1] \in Nat \ {0}
  BY <1>1, PowersPositive
<1>3. SatMul(base, PowerOfTwo[Shift(n) + 1]) \in 1..U64Max
  BY <1>2, ProductPositive DEF TypeOK
<1> QED
  BY <1>3 DEF Nominal, Least, TypeOK

(***************************************************************************)
(* The first delay of a series is not longer than the base.                *)
(***************************************************************************)
LEMMA NominalFirst == TypeOK => Nominal(1) <= base
<1> SUFFICES ASSUME TypeOK PROVE Nominal(1) <= base
  OBVIOUS
<1>1. PowerOfTwo[Shift(1) + 1] = 1
  BY DEF Shift, SatSub, Least, PowerOfTwo
<1>2. SatMul(base, 1) = base
  BY DEF SatMul, Least, TypeOK
<1> QED
  BY <1>1, <1>2, NominalRange DEF Nominal, Least, TypeOK

(***************************************************************************)
(* Jitter moves a delay up to the jitter, or to twice the jitter when the  *)
(* subtraction stopped at zero, and never below a second.                  *)
(***************************************************************************)
LEMMA JitterBounded ==
  ASSUME TypeOK, NEW n \in Nat, NEW offset \in 0..Span - 1
  PROVE  /\ Jittered(n, offset) \in 1..U64Max
         /\ Jittered(n, offset) <= SatAdd(Greatest(Nominal(n), jitter), jitter)
<1>1. Nominal(n) \in 1..U64Max
  BY NominalRange DEF TypeOK
<1>2. offset <= jitter + jitter
  BY DEF Span, SatAdd, SatMul, Least, TypeOK
<1>3. CASE jitter = 0
  BY <1>1, <1>3 DEF Jittered, SatAdd, Greatest, Least
<1>4. CASE jitter # 0
  BY <1>1, <1>2, <1>4 DEF Jittered, SatAdd, SatSub, Greatest, Least, TypeOK
<1> QED
  BY <1>3, <1>4

(***************************************************************************)
(* millis32 is exact, unless the milliseconds do not fit 32 bits.          *)
(***************************************************************************)
LEMMA MillisRange ==
  ASSUME NEW s \in Nat
  PROVE  /\ millis32(s) \in 0..U32Max
         /\ millis32(s) = s * Millis \/ millis32(s) = U32Max
         /\ millis32(s) = U32Max => s * Millis >= U32Max
<1>1. s * Millis \in Nat
  OBVIOUS
<1> QED
  BY <1>1 DEF millis32, Least

-----------------------------------------------------------------------------
(***************************************************************************)
(* What one failed dial computes: the facts all the theorems rest on.      *)
(***************************************************************************)
LEMMA FailureStep ==
  ASSUME TypeOK, NEW failure \in Failure, DialFails(failure)
  PROVE  /\ attempts' \in 1..U32Max
         /\ delay' \in 1..U64Max
         /\ delay' <= Greatest(SatAdd(Greatest(Nominal(attempts'), jitter), jitter), Floor)
         /\ failure # "config" => delay' <= SatAdd(Greatest(Nominal(attempts'), jitter), jitter)
         /\ timeout' = millis32(delay')
         /\ outcome' = failure /\ UNCHANGED settings
<1>1. attempts' \in 1..U32Max
  BY DEF DialFails, Increment, Least, TypeOK
<1>2. PICK offset \in 0..Span - 1 :
        delay' = IF failure = "config" THEN Greatest(Greatest(Jittered(attempts', offset), 1), Floor)
                                       ELSE Greatest(Jittered(attempts', offset), 1)
  BY DEF DialFails
<1>3. /\ Jittered(attempts', offset) \in 1..U64Max
      /\ Jittered(attempts', offset) <= SatAdd(Greatest(Nominal(attempts'), jitter), jitter)
  BY <1>1, JitterBounded
<1>4. SatAdd(Greatest(Nominal(attempts'), jitter), jitter) \in Nat
  BY <1>1, NominalRange DEF SatAdd, Greatest, Least, TypeOK
<1> QED
  BY <1>1, <1>2, <1>3, <1>4 DEF DialFails, Greatest

(***************************************************************************)
(* The bounds of the three theorems together, and that a series starts at  *)
(* zero after a success.                                                   *)
(***************************************************************************)
Bounds == TypeOK /\ DelayBounded /\ SleepMatchesDelay /\ (outcome = "ok" => attempts = 0)

LEMMA BoundsInit == Init => Bounds
  BY DEF Init, new, ValidDelays, Bounds, TypeOK, Failure, DelayBounded, SleepMatchesDelay, Greatest, SatAdd, Least

LEMMA BoundsStep == Bounds /\ [Next]_vars => Bounds'
<1> SUFFICES ASSUME Bounds, [Next]_vars PROVE Bounds'
  OBVIOUS
<1> USE DEF Bounds
<1>1. CASE UNCHANGED vars
  BY <1>1 DEF vars, settings, TypeOK, DelayBounded, SleepMatchesDelay
<1>2. CASE DialSucceeds
  BY <1>2 DEF DialSucceeds, settings, TypeOK, DelayBounded, SleepMatchesDelay, Greatest, SatAdd, Least
<1>3. ASSUME NEW failure \in Failure, DialFails(failure) PROVE Bounds'
  <2>1. /\ attempts' \in 1..U32Max
        /\ delay' \in 1..U64Max
        /\ delay' <= Greatest(SatAdd(Greatest(Nominal(attempts'), jitter), jitter), Floor)
        /\ timeout' = millis32(delay')
        /\ outcome' = failure /\ UNCHANGED settings
    BY <1>3, FailureStep
  <2>2. /\ timeout' \in 0..U32Max
        /\ timeout' = delay' * Millis \/ timeout' = U32Max
        /\ timeout' = U32Max => delay' * Millis >= U32Max
    <3>1. delay' \in Nat /\ timeout' = millis32(delay')
      BY <2>1
    <3> QED
      BY <3>1, MillisRange, Zenon
  <2>3. TypeOK'
    BY <2>1, <2>2 DEF TypeOK, Failure, settings
  <2>4. DelayBounded'
    <3>1. Nominal(attempts') \in 1..cap
      BY <2>1, NominalRange
    <3> QED
      BY <2>1, <3>1 DEF DelayBounded, settings, TypeOK, Greatest, SatAdd, Least
  <2>5. SleepMatchesDelay'
    <3>1. delay' >= 1
      BY <2>1
    <3> QED
      BY <2>2, <3>1, Zenon DEF SleepMatchesDelay, INFINITE
  <2> QED
    BY <2>1, <2>3, <2>4, <2>5 DEF Failure
<1> QED
  BY <1>1, <1>2, <1>3 DEF Next

LEMMA BoundsHold == Spec => []Bounds
  BY BoundsInit, BoundsStep, PTL DEF Spec

-----------------------------------------------------------------------------
(***************************************************************************)
(* No machine integer overflows: the counter, the delay and the time-out   *)
(* stay within their widths (worker.rs 130-144, 496-499).                  *)
(***************************************************************************)
THEOREM BackoffTypeCorrect == Spec => []TypeOK
<1>1. Bounds => TypeOK
  BY DEF Bounds
<1> QED
  BY <1>1, BoundsHold, PTL

(***************************************************************************)
(* No delay exceeds the configured maximum and the jitter, or the floor of *)
(* a configuration error (worker.rs 130-144, 322-327).                     *)
(***************************************************************************)
THEOREM DelayAlwaysBounded == Spec => []DelayBounded
<1>1. Bounds => DelayBounded
  BY DEF Bounds
<1> QED
  BY <1>1, BoundsHold, PTL

(***************************************************************************)
(* The worker sleeps for exactly the delay, and for ever only if that does *)
(* not fit 32 bits (worker.rs 329, 496-499).                               *)
(***************************************************************************)
THEOREM SleepAlwaysMatches == Spec => []SleepMatchesDelay
<1>1. Bounds => SleepMatchesDelay
  BY DEF Bounds
<1> QED
  BY <1>1, BoundsHold, PTL

(***************************************************************************)
(* The delay after a success, or after clearing the attempt in the way,    *)
(* does not depend on earlier failures (worker.rs 265-267, 313-315).       *)
(***************************************************************************)
THEOREM AlwaysStartsOver == Spec => StartsOver
<1> DEFINE A == (outcome = "ok" /\ outcome' = "retry") \/ outcome' = "cleared"
                  => delay' <= SatAdd(Greatest(base, jitter), jitter)
<1>1. Bounds /\ [Next]_vars => [A]_vars
  <2> SUFFICES ASSUME Bounds, NEW failure \in Failure, DialFails(failure),
                      outcome = "ok" \/ failure = "cleared", failure # "config"
               PROVE  delay' <= SatAdd(Greatest(base, jitter), jitter)
    BY DEF Next, DialFails, DialSucceeds
  <2>1. attempts' = 1
    BY DEF Bounds, DialFails, Increment, Least
  <2>2. delay' <= SatAdd(Greatest(Nominal(1), jitter), jitter) /\ delay' \in Nat
    BY <2>1, FailureStep DEF Bounds
  <2>3. Nominal(1) \in Nat /\ Nominal(1) <= base
    BY NominalFirst, NominalRange DEF Bounds, TypeOK
  <2> QED
    BY <2>2, <2>3 DEF Bounds, TypeOK, SatAdd, Greatest, Least
<1> QED
  BY <1>1, BoundsHold, PTL DEF Spec, StartsOver

-----------------------------------------------------------------------------
(***************************************************************************)
(* The series.  It is defined by recursion, so it is first shown to exist: *)
(* Nominal, which shifts instead, satisfies the same equation.  Then no    *)
(* number can be the first where the two differ.                           *)
(***************************************************************************)
Reaches == base * PowerOfTwo[ShiftMax + 1] >= cap

\* The table holds the powers of two.
LEMMA PowersDouble == \A i \in 1..16 : PowerOfTwo[i + 1] = 2 * PowerOfTwo[i]
  BY DEF PowerOfTwo

\* Saturation does not show below the cap (worker.rs 133-136).
LEMMA NominalExact ==
  ASSUME TypeOK, NEW n \in Nat
  PROVE  /\ Shift(n) \in 0..ShiftMax /\ Shift(n) + 1 \in 1..17
         /\ PowerOfTwo[Shift(n) + 1] \in Nat \ {0}
         /\ base * PowerOfTwo[Shift(n) + 1] \in Nat
         /\ Nominal(n) = Least(base * PowerOfTwo[Shift(n) + 1], cap)
<1>1. Shift(n) \in 0..ShiftMax /\ Shift(n) + 1 \in 1..17
  BY DEF Shift, SatSub, Least
<1>2. PowerOfTwo[Shift(n) + 1] \in Nat \ {0}
  BY <1>1, PowersPositive
<1>3. base * PowerOfTwo[Shift(n) + 1] \in Nat
  BY <1>2 DEF TypeOK
<1>4. cap \in 1..U64Max /\ U64Max \in Nat
  BY DEF TypeOK
<1> DEFINE x == base * PowerOfTwo[Shift(n) + 1]
<1>5. Nominal(n) = Least(Least(x, U64Max), cap)
  BY DEF Nominal, SatMul
<1>6. Nominal(n) = Least(x, cap)
  <2>1. x \in Nat
    BY <1>3
  <2> HIDE DEF x
  <2> QED
    BY <1>4, <1>5, <2>1 DEF Least
<1> QED
  BY <1>1, <1>2, <1>3, <1>6

(***************************************************************************)
(* Each delay is twice the one before, up to the cap: the shift grows by   *)
(* one, or it has its largest value and the cap is reached.                *)
(***************************************************************************)
LEMMA NominalDoubles ==
  ASSUME TypeOK, Reaches, NEW n \in Nat
  PROVE  Nominal(n) = IF n <= 1 THEN Least(base, cap) ELSE Least(2 * Nominal(n - 1), cap)
<1>1. CASE n <= 1
  <2>1. Shift(n) = 0
    BY <1>1 DEF Shift, SatSub, Least
  <2>2. PowerOfTwo[Shift(n) + 1] = 1
    BY <2>1 DEF PowerOfTwo
  <2>3. base * 1 = base
    BY DEF TypeOK
  <2> QED
    BY <1>1, <2>2, <2>3, NominalExact
<1>2. CASE n > 1
  <2> DEFINE s == Shift(n - 1)
             x == base * PowerOfTwo[s + 1]
  <2>1. /\ n - 1 \in Nat /\ s \in 0..ShiftMax /\ s + 1 \in 1..17 /\ x \in Nat
        /\ PowerOfTwo[s + 1] \in Nat
        /\ Nominal(n - 1) = Least(x, cap)
    BY <1>2, NominalExact
  <2>2. cap \in Nat /\ base \in Nat
    BY DEF TypeOK
  <2>3. CASE n - 1 <= ShiftMax
    <3>1. Shift(n) = s + 1 /\ s + 1 \in 1..16
      BY <1>2, <2>3 DEF Shift, SatSub, Least
    <3>2. PowerOfTwo[Shift(n) + 1] = 2 * PowerOfTwo[s + 1]
      BY <3>1, PowersDouble
    <3>3. base * (2 * PowerOfTwo[s + 1]) = 2 * x
      BY <2>1, <2>2
    <3>4. Nominal(n) = Least(2 * x, cap)
      BY <3>2, <3>3, NominalExact
    <3> HIDE DEF x
    <3> QED
      BY <1>2, <2>1, <2>2, <3>4 DEF Least
  <2>4. CASE n - 1 > ShiftMax
    <3>1. Shift(n) = ShiftMax
      BY <1>2, <2>4 DEF Shift, SatSub, Least
    <3>2. Nominal(n) = cap
      <4> DEFINE y == base * PowerOfTwo[ShiftMax + 1]
      <4>1. y \in Nat /\ Nominal(n) = Least(y, cap)
        BY <3>1, NominalExact
      <4>2. y >= cap
        BY DEF Reaches
      <4> HIDE DEF y
      <4> QED
        BY <2>2, <4>1, <4>2 DEF Least
    <3>3. CASE n - 2 >= ShiftMax
      <4>1. s = ShiftMax
        BY <1>2, <3>3 DEF Shift, SatSub, Least
      <4>2. x >= cap
        BY <4>1 DEF Reaches
      <4> HIDE DEF x
      <4>3. Nominal(n - 1) = cap
        BY <2>1, <2>2, <4>2 DEF Least
      <4> QED
        BY <1>2, <2>2, <3>2, <4>3 DEF Least
    <3> QED
      BY <2>4, <3>3
  <2> QED
    BY <2>1, <2>3, <2>4
<1> QED
  BY <1>1, <1>2

\* The equation of the series holds, because something satisfies it.
LEMMA SeriesEquation ==
  ASSUME TypeOK, Reaches, NEW n \in Nat
  PROVE  Series[n] = IF n <= 1 THEN Least(base, cap) ELSE Least(2 * Series[n - 1], cap)
<1> DEFINE g == [m \in Nat |-> Nominal(m)]
<1>1. g = [m \in Nat |-> IF m <= 1 THEN Least(base, cap) ELSE Least(2 * g[m - 1], cap)]
  <2>1. ASSUME NEW m \in Nat
        PROVE  g[m] = IF m <= 1 THEN Least(base, cap) ELSE Least(2 * g[m - 1], cap)
    <3>1. m <= 1 \/ (m - 1 \in Nat /\ g[m - 1] = Nominal(m - 1))
      OBVIOUS
    <3> QED
      BY <3>1, NominalDoubles
  <2> HIDE DEF g
  <2>2. g = [m \in Nat |-> g[m]]
    BY DEF g
  <2> QED
    BY <2>1, <2>2
<1> HIDE DEF g
<1>2. Series = [m \in Nat |-> IF m <= 1 THEN Least(base, cap) ELSE Least(2 * Series[m - 1], cap)]
  BY <1>1 DEF Series
<1> QED
  BY <1>2

\* The series is what next_delay computes before jitter (worker.rs 129-136).
LEMMA SeriesIsNominal ==
  ASSUME TypeOK, Reaches
  PROVE  \A n \in Nat : Series[n] = Nominal(n)
<1> DEFINE Differ == {n \in Nat : Series[n] # Nominal(n)}
           Less   == {nn \in Nat \X Nat : nn[1] < nn[2]}
<1> SUFFICES ASSUME Differ # {} PROVE FALSE
  OBVIOUS
<1>1. IsWellFoundedOn(Less, Nat)
  BY NatLessThanWellFounded DEF OpToRel
<1>2. PICK x \in Differ : \A y \in Differ : ~(<<y, x>> \in Less)
  <2>1. Differ \subseteq Nat
    OBVIOUS
  <2> HIDE DEF Less, Differ
  <2> QED
    BY <1>1, <2>1, WFMin, Zenon
<1>3. x > 1 => Series[x - 1] = Nominal(x - 1)
  <2>1. SUFFICES ASSUME x > 1, x - 1 \in Differ PROVE FALSE
    OBVIOUS
  <2>2. <<x - 1, x>> \in Less
    BY <2>1
  <2> QED
    BY <1>2, <2>1, <2>2
<1>4. Series[x] = Nominal(x)
  BY <1>3, SeriesEquation, NominalDoubles
<1> QED
  BY <1>4

(***************************************************************************)
(* What was proved of a failed dial so far is the upper bound; this is the *)
(* lower one (worker.rs 138-144).                                          *)
(***************************************************************************)
LEMMA FailureStepLower ==
  ASSUME TypeOK, NEW failure \in Failure, DialFails(failure)
  PROVE  delay' >= Nominal(attempts') - jitter
<1>1. attempts' \in Nat
  BY DEF DialFails, Increment, Least, TypeOK
<1>2. PICK offset \in 0..Span - 1 :
        delay' = IF failure = "config" THEN Greatest(Greatest(Jittered(attempts', offset), 1), Floor)
                                       ELSE Greatest(Jittered(attempts', offset), 1)
  BY DEF DialFails
<1>3. Nominal(attempts') \in 1..U64Max
  BY <1>1, NominalRange DEF TypeOK
<1>4. offset \in Nat
  BY DEF Span, SatAdd, SatMul, Least, TypeOK
<1>5. Jittered(attempts', offset) >= Nominal(attempts') - jitter /\ Jittered(attempts', offset) \in Nat
  BY <1>3, <1>4 DEF Jittered, SatAdd, SatSub, Greatest, Least, TypeOK
<1> QED
  BY <1>2, <1>3, <1>5 DEF Greatest, TypeOK

(***************************************************************************)
(* FollowsSeries with Nominal for the series: inductive with the bounds.   *)
(***************************************************************************)
FollowsNominal ==
  outcome \in {"retry", "cleared"} =>
    /\ delay >= Greatest(1, Nominal(attempts) - jitter)
    /\ delay <= Greatest(1, SatAdd(Greatest(Nominal(attempts), jitter), jitter))

LEMMA FollowsStep == Bounds /\ FollowsNominal /\ [Next]_vars => FollowsNominal'
<1> SUFFICES ASSUME Bounds, FollowsNominal, [Next]_vars PROVE FollowsNominal'
  OBVIOUS
<1>1. CASE UNCHANGED vars
  BY <1>1 DEF vars, settings, FollowsNominal, Nominal
<1>2. CASE DialSucceeds
  BY <1>2 DEF DialSucceeds, FollowsNominal
<1>3. ASSUME NEW failure \in Failure, DialFails(failure) PROVE FollowsNominal'
  <2>1. /\ attempts' \in Nat /\ delay' \in 1..U64Max /\ UNCHANGED settings /\ outcome' = failure
        /\ failure # "config" => delay' <= SatAdd(Greatest(Nominal(attempts'), jitter), jitter)
        /\ delay' >= Nominal(attempts') - jitter
    BY <1>3, FailureStep, FailureStepLower DEF Bounds
  <2>2. Nominal(attempts)' = Nominal(attempts')
    BY <2>1 DEF settings, Nominal
  <2>3. Nominal(attempts') \in Nat /\ jitter \in Nat
    BY <2>1, NominalRange DEF Bounds, TypeOK
  <2>4. failure # "config" =>
          /\ delay' >= Greatest(1, Nominal(attempts') - jitter)
          /\ delay' <= Greatest(1, SatAdd(Greatest(Nominal(attempts'), jitter), jitter))
    BY <2>1, <2>3 DEF Greatest, SatAdd, Least
  <2> QED
    BY <2>1, <2>2, <2>4 DEF FollowsNominal, settings
<1> QED
  BY <1>1, <1>2, <1>3 DEF Next

(***************************************************************************)
(* Every retryable failure waits what the comment of next_delay promises:  *)
(* the base, doubled with every failure up to the cap, give or take the    *)
(* jitter (worker.rs 129-144).                                             *)
(***************************************************************************)
THEOREM SeriesAlwaysFollowed == Spec => []FollowsSeries
<1>1. Init => FollowsNominal
  BY DEF Init, FollowsNominal
<1>2. Bounds /\ FollowsNominal => FollowsSeries
  <2> SUFFICES ASSUME Bounds, FollowsNominal, Reaches, outcome \in {"retry", "cleared"}
               PROVE  /\ delay >= Greatest(1, Series[attempts] - jitter)
                      /\ delay <= Greatest(1, SatAdd(Greatest(Series[attempts], jitter), jitter))
    BY DEF FollowsSeries, Reaches
  <2>1. Series[attempts] = Nominal(attempts)
    BY SeriesIsNominal DEF Bounds, TypeOK
  <2> QED
    BY <2>1 DEF FollowsNominal
<1> QED
  BY <1>1, <1>2, FollowsStep, BoundsHold, PTL DEF Spec
=============================================================================
