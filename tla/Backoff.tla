------------------------------- MODULE Backoff -------------------------------
(***************************************************************************)
(* BackoffConfig.Delay of internal/jobs/job.go, computed in the int64      *)
(* nanoseconds the code computes in.  TLC's integers are too small for     *)
(* that, so a duration is four 16-bit limbs, lowest first, and every       *)
(* product drops what does not fit, as the code's multiplication does.     *)
(*                                                                         *)
(* The state is one job that fails again and again under one server        *)
(* configuration.                                                          *)
(***************************************************************************)
EXTENDS Integers, Sequences

CONSTANTS
  BaseSeconds,   \* values of --retry-base-seconds; 0 means unset
  MaxSeconds,    \* values of --retry-max-seconds; 0 means unset
  Attempts       \* bound: failures of the job, as many as ValidateNew allows

VARIABLES base, max, attempt

bvars == <<base, max, attempt>>

ASSUME BackoffAssumption ==
  BaseSeconds \subseteq Nat /\ MaxSeconds \subseteq Nat /\ Attempts \in Nat

Limb == 2^16

Zero == <<0, 0, 0, 0>>

(* x * m modulo 2^64, for a small m. *)
Times(x, m) ==
  LET carry[i \in 0..4] ==
        IF i = 0 THEN 0 ELSE (x[i] * m + carry[i - 1]) \div Limb
  IN  [i \in 1..4 |-> (x[i] * m + carry[i - 1]) % Limb]

Negative(x) == x[4] >= Limb \div 2

(* Comparison of two durations that are not negative. *)
Longer(x, y) ==
  \E i \in 1..4 : x[i] > y[i] /\ \A j \in (i + 1)..4 : x[j] = y[j]

(* A flag in seconds as a time.Duration. *)
Seconds(s) == Times(Times(Times(<<s % Limb, s \div Limb, 0, 0>>, 1000), 1000), 1000)

(* time.Duration(2^n) * x: the power is exact, the product wraps. *)
Shifted(x, n) ==
  LET power[i \in 0..n] == IF i = 0 THEN x ELSE Times(power[i - 1], 2)
  IN  power[n]

DefaultBase == Seconds(1)

DefaultMax == Seconds(300)

(* Delay once its parameters have their defaults, without the test for a   *)
(* product that wrapped to a negative duration.                            *)
UncheckedDelay(b, m, n) ==
  LET d == Shifted(b, n - 1)
  IN  IF n > 40 \/ (~Negative(d) /\ Longer(d, m)) THEN m ELSE d

Capped(b, m, n) ==
  LET d == Shifted(b, n - 1)
  IN  IF n > 40 \/ Negative(d) \/ d = Zero \/ Longer(d, m) THEN m ELSE d

Delay(b, m, n) ==
  Capped(IF Longer(b, Zero) THEN b ELSE DefaultBase,
         IF Longer(m, Zero) THEN m ELSE DefaultMax,
         IF n < 1 THEN 1 ELSE n)

BInit ==
  /\ base \in {Seconds(s) : s \in BaseSeconds}
  /\ max \in {Seconds(s) : s \in MaxSeconds}
  /\ attempt = 0

Fail ==
  /\ attempt < Attempts
  /\ attempt' = attempt + 1
  /\ UNCHANGED <<base, max>>

BSpec == BInit /\ [][Fail]_bvars
------------------------------------------------------------------------------
(* Doubling that stops at the ceiling and so never leaves 64 bits. *)
Saturating(b, m, n) ==
  LET capped(d) == IF Longer(d, m) THEN m ELSE d
      delay[i \in 1..n] ==
        IF i = 1 THEN capped(b) ELSE capped(Times(delay[i - 1], 2))
  IN  delay[n]

(* For every attempt a job may have, the delay is base * 2^(attempt - 1)   *)
(* cut off at the ceiling, although the product in Delay leaves int64 long *)
(* before the exponent is clamped: no wrapped product is taken for a       *)
(* delay, and unset flags mean one second and five minutes.                *)
DelayIsCappedDoubling ==
  Delay(base, max, attempt) =
    Saturating(IF base = Zero THEN DefaultBase ELSE base,
               IF max = Zero THEN DefaultMax ELSE max,
               IF attempt = 0 THEN 1 ELSE attempt)
=============================================================================
