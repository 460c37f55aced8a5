------------------------------- MODULE Backoff ------------------------------
(***************************************************************************)
(* How long a failed attempt waits (src/pkg/backoff/backoff.go): the nominal  *)
(* delay doubles until its cap, and the jitter takes up to half of it away.   *)
(* The doubling is done in floating point and capped before it becomes a      *)
(* time.Duration, an integer of Width bits.                                   *)
(***************************************************************************)
EXTENDS Integers

CONSTANTS Width, DefaultBase, DefaultMax

\* base * 2^times
Doubled(base, times) ==
  LET product[k \in 0..times] == IF k = 0 THEN base ELSE 2 * product[k - 1] IN product[times]

ASSUME BackoffAssumption ==
  /\ Width \in Nat \ {0, 1}
  /\ DefaultMax \in 1..(Doubled(1, Width - 1) - 1) /\ DefaultBase \in 1..DefaultMax

Lesser(m, n) == IF m < n THEN m ELSE n

\* time.Duration(f): the low bits, read as a signed number.
Duration(n) ==
  LET range == Doubled(1, Width)  low == n % range IN
  IF low < Doubled(1, Width - 1) THEN low ELSE low - range

\* Default: settings that make no sense are replaced.
Default(base, max) ==
  LET b == IF base <= 0 THEN DefaultBase ELSE base IN
  [base |-> b, max |-> IF max <= 0 \/ max < b THEN DefaultMax ELSE max]

\* What the n-th attempt would wait without a cap.
Uncapped(p, n) == Doubled(p.base, IF n < 1 THEN 0 ELSE n - 1)

\* Mutant: the cap comes after the conversion.
NominalLate(p, n) == Lesser(Duration(Uncapped(p, n)), p.max)

Nominal(p, n) == Duration(Lesser(Uncapped(p, n), p.max))

\* The delays Delay may return after the n-th attempt.
Delay(p, n) == (Nominal(p, n) \div 2)..(2 * (Nominal(p, n) \div 2))
=============================================================================
