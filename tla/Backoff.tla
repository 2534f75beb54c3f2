------------------------------ MODULE Backoff ------------------------------
(***************************************************************************)
(* The back-off of src/worker.rs: how long the worker sleeps after each    *)
(* failed dial, in unsigned machine arithmetic.  The widths of the two     *)
(* integer types are constants, so that TLC meets their limits with small  *)
(* numbers; the code has 2^64-1, 2^32-1, a shift of at most 16, a floor of *)
(* 60 seconds and 1000 milliseconds to the second.                         *)
(***************************************************************************)
EXTENDS Config

CONSTANTS Seconds,   \* the values of the three [monitor] settings
          U64Max, U32Max,
          ShiftMax,  \* the shift never exceeds this
          Floor,     \* least delay after a configuration error
          Millis     \* milliseconds in a second

ASSUME WidthAssumption ==
  /\ U64Max \in Nat \ {0} /\ U32Max \in Nat \ {0}
  /\ Seconds \subseteq 0..U64Max
  /\ ShiftMax \in 0..16
  /\ Floor \in 1..U64Max
  /\ Millis \in Nat \ {0}

Least(a, b)    == IF a <= b THEN a ELSE b
Greatest(a, b) == IF a <= b THEN b ELSE a
SatAdd(a, b)   == Least(a + b, U64Max)
SatMul(a, b)   == Least(a * b, U64Max)
SatSub(a, b)   == IF a <= b THEN 0 ELSE a - b

\* 1 << 0 .. 1 << 16, which is as far as the code shifts.
PowerOfTwo == <<1, 2, 4, 8, 16, 32, 64, 128, 256, 512, 1024, 2048, 4096, 8192,
                16384, 32768, 65536>>

VARIABLES
  base, cap, jitter,  \* Backoff.base, .max and .jitter
  attempts,           \* Backoff.attempts
  outcome,            \* of the last dial
  delay,              \* seconds the worker decided to sleep
  timeout             \* milliseconds handed to WaitForMultipleObjects

settings == <<base, cap, jitter>>
vars == <<settings, attempts, outcome, delay, timeout>>

\* A dial succeeded, failed with a retryable code, with a configuration error,
\* or with 756 and the attempt in the way could be cleared.
Failure == {"retry", "config", "cleared"}

TypeOK ==
  /\ base \in 1..U64Max /\ cap \in 1..U64Max /\ jitter \in 0..U64Max
  /\ attempts \in 0..U32Max
  /\ outcome \in Failure \cup {"ok"}
  /\ delay \in 0..U64Max
  /\ timeout \in 0..U32Max

\* Backoff::new, of settings that Config::validate accepts.
new == /\ \E m \in [reconnect_delay_secs : Seconds, max_backoff_secs : Seconds] :
             /\ ValidDelays(m)
             /\ base = m.reconnect_delay_secs /\ cap = m.max_backoff_secs
       /\ jitter \in Seconds
       /\ attempts = 0

Init == new /\ outcome = "ok" /\ delay = 0 /\ timeout = 0

\* Broken variant: a counter that does not saturate.
IncrementUnbounded(n) == n + 1

Increment(n) == Least(n + 1, U32Max)

\* Broken variant: shift first, subtract never.
ShiftTooFar(n) == Least(n, ShiftMax)

Shift(n) == Least(SatSub(n, 1), ShiftMax)

\* Broken variant: no cap.
NominalUncapped(n) == SatMul(base, PowerOfTwo[Shift(n) + 1])

\* The n-th delay before jitter.
Nominal(n) == Least(SatMul(base, PowerOfTwo[Shift(n) + 1]), cap)

Span == SatAdd(SatMul(jitter, 2), 1)

\* offset is next_random() % span.
Jittered(n, offset) ==
  IF jitter = 0 THEN Nominal(n)
  ELSE Greatest(SatAdd(SatSub(Nominal(n), jitter), offset), 1)

\* Broken variant: let the milliseconds wrap around.
millis32_wrapping(seconds) == (seconds * Millis) % (U32Max + 1)

millis32(seconds) == Least(seconds * Millis, U32Max)

\* WaitForMultipleObjects takes this value for "no time-out".
INFINITE == U32Max

-----------------------------------------------------------------------------
DialFails(failure) ==
  /\ outcome' = failure
  /\ attempts' = Increment(IF failure = "cleared" THEN 0 ELSE attempts)
  /\ \E offset \in 0..Span - 1 :
       LET d == Greatest(Jittered(attempts', offset), 1)
       IN  delay' = IF failure = "config" THEN Greatest(d, Floor) ELSE d
  /\ timeout' = millis32(delay')
  /\ UNCHANGED settings

\* Broken variant: success does not restart the series.
DialSucceedsWithoutReset ==
  /\ outcome' = "ok" /\ delay' = 0 /\ timeout' = 0
  /\ UNCHANGED <<settings, attempts>>

\* The next evaluation follows at once.
DialSucceeds ==
  /\ outcome' = "ok" /\ attempts' = 0 /\ delay' = 0 /\ timeout' = 0
  /\ UNCHANGED settings

Next == DialSucceeds \/ \E failure \in Failure : DialFails(failure)

Spec == Init /\ [][Next]_vars

-----------------------------------------------------------------------------
(***************************************************************************)
(* The series the comment of next_delay promises (worker.rs 129): base,    *)
(* doubled with every failure, never above the cap.                        *)
(***************************************************************************)
Series[n \in Nat] == IF n <= 1 THEN Least(base, cap) ELSE Least(2 * Series[n - 1], cap)

(***************************************************************************)
(* Every retryable failure waits the promised delay give or take the       *)
(* jitter, and at least a second, as long as the capped shift reaches the  *)
(* configured maximum.  A promised delay below the jitter counts as the    *)
(* jitter: subtracting it stops at zero, adding up to twice of it does not.*)
(***************************************************************************)
FollowsSeries ==
  outcome \in {"retry", "cleared"} /\ base * PowerOfTwo[ShiftMax + 1] >= cap =>
    /\ delay >= Greatest(1, Series[attempts] - jitter)
    /\ delay <= Greatest(1, SatAdd(Greatest(Series[attempts], jitter), jitter))

(***************************************************************************)
(* However long the series of failures, a delay never exceeds the maximum  *)
(* plus the jitter (or twice the jitter), or the floor of a configuration  *)
(* error (worker.rs 130-144, 322-327).                                     *)
(***************************************************************************)
DelayBounded ==
  delay <= Greatest(SatAdd(Greatest(cap, jitter), jitter), Floor)

(***************************************************************************)
(* The worker sleeps for the delay, at least a second, in milliseconds; it *)
(* sleeps without a time-out only if the delay does not fit 32 bits        *)
(* (worker.rs 329, 496-499).                                               *)
(***************************************************************************)
SleepMatchesDelay ==
  outcome # "ok" =>
    /\ delay >= 1
    /\ timeout = delay * Millis \/ timeout = INFINITE
    /\ timeout = INFINITE => delay * Millis >= U32Max

(***************************************************************************)
(* A success, or an attempt in the way that was cleared, starts the series *)
(* over: the delay that follows does not depend on the failures before it  *)
(* (worker.rs 265-267, 313-315).                                           *)
(***************************************************************************)
StartsOver ==
  [][(outcome = "ok" /\ outcome' = "retry") \/ outcome' = "cleared"
       => delay' <= SatAdd(Greatest(base, jitter), jitter)]_vars

-----------------------------------------------------------------------------
(***************************************************************************)
(* "plus +/- jitter" (worker.rs 129): the code keeps to it only while the  *)
(* promised delay is at least the jitter.                                  *)
(***************************************************************************)
WithinJitter == outcome = "retry" => delay <= SatAdd(Nominal(attempts), jitter)
=============================================================================
