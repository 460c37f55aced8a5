------------------------ MODULE MC_Algorithms_proofs ------------------------
(***************************************************************************)
(* What the runs ask of the pure functions over small inputs, for inputs of   *)
(* any size: each theorem takes a question of the general kind and proves the *)
(* property that the run checks of its small ones.                            *)
(***************************************************************************)
EXTENDS MC_Algorithms, Algorithms_proofs

-----------------------------------------------------------------------------
(***************************************************************************)
(* How long a failed attempt waits.                                           *)
(***************************************************************************)
\* A base doubled up to N times.
LEMMA ProductsExist ==
  ASSUME NEW base, NEW N \in Nat
  PROVE  \E f : f = [k \in 0..N |-> IF k = 0 THEN base ELSE 2 * f[k - 1]]
<1> DEFINE P(k) == \E f : f = [n \in 0..k |-> IF n = 0 THEN base ELSE 2 * f[n - 1]]
           K == {k \in 0..N : ~P(k)}
<1>1. SUFFICES K = {}
  <2>1. N \in 0..N
    OBVIOUS
  <2>2. QED
    BY <2>1
<1>2. SUFFICES ASSUME K # {}
               PROVE  FALSE
  OBVIOUS
<1>3. PICK m \in K : \A k \in K : m <= k
  <2>1. K \in SUBSET Int /\ K \subseteq 0..N /\ 0 \in Int /\ N \in Int
    <3> HIDE DEF P
    <3>1. QED
      OBVIOUS
  <2> HIDE DEF K
  <2>2. QED
    BY <1>2, <2>1, LeastOf, Zenon
<1>4. m \in 0..N /\ ~P(m)
  <2> HIDE DEF P
  <2>1. QED
    BY <1>3
<1>5. m # 0
  <2> DEFINE f == [n \in 0..0 |-> base]
  <2>1. f = [n \in 0..0 |-> IF n = 0 THEN base ELSE 2 * f[n - 1]]
    <3>1. \A n \in 0..0 : n = 0
      OBVIOUS
    <3>2. QED
      BY <3>1
  <2> HIDE DEF f
  <2>2. P(0)
    BY <2>1
  <2> HIDE DEF P
  <2>3. QED
    BY <1>4, <2>2, Zenon
<1>6. m - 1 \in 0..N /\ m - 1 < m
  BY <1>4, <1>5
<1>7. P(m - 1)
  <2> HIDE DEF P
  <2>1. m - 1 \notin K
    <3>1. ~(m <= m - 1)
      BY <1>6
    <3> HIDE DEF K
    <3>2. QED
      BY <1>3, <3>1, Zenon
  <2>2. QED
    BY <1>6, <2>1, Zenon
<1>8. PICK f : f = [n \in 0..(m - 1) |-> IF n = 0 THEN base ELSE 2 * f[n - 1]]
  BY <1>7, Zenon
<1> DEFINE g == [n \in 0..m |-> IF n = m THEN 2 * f[m - 1] ELSE f[n]]
<1>9. ASSUME NEW n \in 0..m
      PROVE  g[n] = IF n = 0 THEN base ELSE 2 * g[n - 1]
  <2>1. CASE n = m
    <3>1. n # 0 /\ n - 1 = m - 1 /\ n - 1 \in 0..m /\ n - 1 # m
      BY <1>6, <2>1, <1>5
    <3>2. g[n] = 2 * f[m - 1] /\ g[n - 1] = f[n - 1]
      BY <2>1, <3>1, Zenon
    <3>3. QED
      BY <2>1, <3>1, <3>2, Zenon
  <2>2. CASE n # m
    <3>1. n \in 0..(m - 1)
      BY <1>4, <2>2
    <3>2. g[n] = f[n]
      BY <2>2, Zenon
    <3>3. f[n] = IF n = 0 THEN base ELSE 2 * f[n - 1]
      BY <1>8, <3>1, Zenon
    <3>4. CASE n = 0
      BY <3>2, <3>3, <3>4, Zenon
    <3>5. CASE n # 0
      <4>1. n - 1 \in 0..m /\ n - 1 # m
        BY <3>1, <3>5, <1>4
      <4>2. g[n - 1] = f[n - 1]
        BY <4>1, Zenon
      <4>3. QED
        BY <3>2, <3>3, <3>5, <4>2, Zenon
    <3>6. QED
      BY <3>4, <3>5
  <2>3. QED
    BY <2>1, <2>2
<1>10. g = [n \in 0..m |-> IF n = 0 THEN base ELSE 2 * g[n - 1]]
  <2> DEFINE h == [n \in 0..m |-> IF n = 0 THEN base ELSE 2 * g[n - 1]]
  <2>1. g = [n \in 0..m |-> g[n]]
    OBVIOUS
  <2> HIDE DEF g
  <2>2. QED
    BY <1>9, <2>1, Zenon
<1>11. P(m)
  <2> HIDE DEF g
  <2>1. QED
    BY <1>10, Zenon
<1>12. QED
  BY <1>4, <1>11

Product(base, N) == CHOOSE f : f = [k \in 0..N |-> IF k = 0 THEN base ELSE 2 * f[k - 1]]

LEMMA ProductIs ==
  ASSUME NEW base, NEW N \in Nat
  PROVE  Product(base, N) = [k \in 0..N |-> IF k = 0 THEN base ELSE 2 * Product(base, N)[k - 1]]
<1>1. \E f : f = [k \in 0..N |-> IF k = 0 THEN base ELSE 2 * f[k - 1]]
  BY ProductsExist
<1>2. QED
  BY <1>1, Zenon DEF Product

\* The product is doubled once more each time, and never less than the base.
LEMMA DoubledIs ==
  ASSUME NEW base \in Nat \ {0}, NEW times \in Nat
  PROVE  /\ Doubled(base, 0) = base
         /\ Doubled(base, times) \in Nat /\ Doubled(base, times) >= base
         /\ Doubled(base, times + 1) = 2 * Doubled(base, times)
<1> DEFINE f(N) == Product(base, N)
           M == times + 1
           K == {k \in 0..times : ~(f(M)[k] = f(times)[k] /\ f(M)[k] \in Nat /\ f(M)[k] >= base)}
<1>1. \A N : Doubled(base, N) = f(N)[N]
  BY DEF Doubled, Product
<1>2. ASSUME NEW N \in Nat
      PROVE  f(N) = [k \in 0..N |-> IF k = 0 THEN base ELSE 2 * f(N)[k - 1]]
  BY ProductIs, Zenon
<1> HIDE DEF f
<1>3. ASSUME NEW N \in Nat, NEW k \in 0..N
      PROVE  f(N)[k] = IF k = 0 THEN base ELSE 2 * f(N)[k - 1]
  BY <1>2, Zenon
<1>4. K = {}
  <2>1. SUFFICES ASSUME K # {}
                 PROVE  FALSE
    OBVIOUS
  <2>2. PICK m \in K : \A k \in K : m <= k
    <3>1. K \in SUBSET Int /\ K \subseteq 0..times /\ 0 \in Int /\ times \in Int
      OBVIOUS
    <3> HIDE DEF K
    <3>2. QED
      BY <2>1, <3>1, LeastOf, Zenon
  <2>3. m \in 0..times /\ m \in 0..M /\ M \in Nat
    BY <2>2
  <2>4. f(M)[m] = IF m = 0 THEN base ELSE 2 * f(M)[m - 1]
    BY <1>3, <2>3, Zenon
  <2>5. f(times)[m] = IF m = 0 THEN base ELSE 2 * f(times)[m - 1]
    BY <1>3, <2>3, Zenon
  <2>6. m # 0
    BY <2>2, <2>4, <2>5
  <2>7. m - 1 \in 0..times /\ ~(m <= m - 1)
    BY <2>3, <2>6
  <2>8. m - 1 \notin K
    BY <2>2, <2>7, Zenon
  <2>9. f(M)[m - 1] = f(times)[m - 1] /\ f(M)[m - 1] \in Nat /\ f(M)[m - 1] >= base
    BY <2>7, <2>8, Zenon
  <2> DEFINE a == f(M)[m - 1]
  <2>10. f(M)[m] = 2 * a /\ f(times)[m] = 2 * a
    BY <2>4, <2>5, <2>6, <2>9
  <2>11. 2 * a \in Nat /\ 2 * a >= base
    <3> HIDE DEF a
    <3>1. a \in Nat /\ a >= base
      BY <2>9 DEF a
    <3>2. QED
      BY <3>1
  <2>12. m \notin K
    BY <2>10, <2>11
  <2>13. QED
    BY <2>2, <2>12
<1>5. f(M)[times] = f(times)[times] /\ f(M)[times] \in Nat /\ f(M)[times] >= base
  <2>1. times \in 0..times
    OBVIOUS
  <2>2. QED
    BY <1>4, <2>1
<1>6. f(M)[M] = 2 * f(M)[times]
  <2>1. M \in Nat /\ M \in 0..M /\ M # 0 /\ M - 1 = times
    OBVIOUS
  <2> HIDE DEF M
  <2>2. QED
    BY <1>3, <2>1
<1>7. f(0)[0] = base
  <2>1. 0 \in 0..0 /\ 0 \in Nat
    OBVIOUS
  <2>2. QED
    BY <1>3, <2>1
<1>8. QED
  BY <1>1, <1>5, <1>6, <1>7

\* A time below half the range is kept by the conversion.
LEMMA DurationIs ==
  ASSUME NEW n \in Nat, n < Doubled(1, Width - 1)
  PROVE  Duration(n) = n
<1> DEFINE half == Doubled(1, Width - 1)
           range == Doubled(1, Width)
<1>1. 1 \in Nat \ {0} /\ Width - 1 \in Nat /\ (Width - 1) + 1 = Width
  BY BackoffAssumption
<1>2. half \in Nat /\ range = 2 * half
  BY <1>1, DoubledIs
<1> HIDE DEF half, range
<1>3. n < half
  BY DEF half
<1>4. range \in Nat /\ n < range /\ 0 < range
  BY <1>2, <1>3
<1>5. n % range = n
  BY <1>4
<1>6. Duration(n) = LET low == n % range IN IF low < half THEN low ELSE low - range
  BY DEF Duration, half, range
<1>7. QED
  BY <1>3, <1>5, <1>6, Zenon

\* The setting that Default leaves: a base, and a cap that is a time.
LEMMA DefaultIs ==
  ASSUME NEW base \in Int, NEW max \in Int, max < Doubled(1, Width - 1)
  PROVE  LET p == Default(base, max) IN
         /\ p.base \in Nat \ {0} /\ p.max \in Nat \ {0} /\ p.max < Doubled(1, Width - 1)
<1> DEFINE half == Doubled(1, Width - 1)
<1>1. 1 \in Nat \ {0} /\ Width - 1 \in Nat
  BY BackoffAssumption
<1>2. half \in Nat
  BY <1>1, DoubledIs
<1>3. DefaultMax \in 1..(half - 1) /\ DefaultBase \in 1..DefaultMax
  BY BackoffAssumption DEF half
<1> HIDE DEF half
<1>4. DefaultMax \in Nat \ {0} /\ DefaultMax < half /\ DefaultBase \in Nat \ {0}
  BY <1>2, <1>3
<1>5. max < half
  BY DEF half
<1> DEFINE b == IF base <= 0 THEN DefaultBase ELSE base
           m == IF max <= 0 \/ max < b THEN DefaultMax ELSE max
<1>6. b \in Nat \ {0}
  BY <1>4
<1>7. m \in Nat \ {0} /\ m < half
  BY <1>4, <1>5
<1>8. Default(base, max) = [base |-> b, max |-> m]
  BY DEF Default
<1>9. QED
  BY <1>6, <1>7, <1>8 DEF half

\* Between the least and the most that Delay may return.
LEMMA DelaysOf ==
  ASSUME NEW nominal \in Nat, NEW d \in (nominal \div 2)..(2 * (nominal \div 2))
  PROVE  d \in Nat /\ d <= nominal /\ 2 * d + 1 >= nominal
OBVIOUS

\* However often a reply has been tried, it waits no longer than the cap, at least
\* half of the base (or of a cap below it), and nominally no shorter than before:
\* for every policy, every width of the integer a time is kept in, and every number
\* of attempts, as long as the cap itself is a time (Policy.Delay).
THEOREM DelaysAreSaneAlways ==
  ASSUME ask \in [base : Int, max : Int, n : Int], ask.max < Doubled(1, Width - 1)
  PROVE  DelaysAreSane
<1> DEFINE p == Default(ask.base, ask.max)
           times(n) == IF n < 1 THEN 0 ELSE n - 1
           wait(n) == Doubled(p.base, times(n))
<1>1. p.base \in Nat \ {0} /\ p.max \in Nat \ {0} /\ p.max < Doubled(1, Width - 1)
  BY DefaultIs
<1> HIDE DEF p
<1>2. ASSUME NEW n \in Int
      PROVE  /\ wait(n) \in Nat /\ wait(n) >= p.base
             /\ wait(n + 1) = wait(n) \/ wait(n + 1) = 2 * wait(n)
             /\ Nominal(p, n) = Lesser(wait(n), p.max) /\ Lesser(wait(n), p.max) \in Nat
  <2>1. times(n) \in Nat
    OBVIOUS
  <2>2. times(n + 1) = times(n) \/ times(n + 1) = times(n) + 1
    OBVIOUS
  <2>3. wait(n) \in Nat /\ wait(n) >= p.base /\ Doubled(p.base, times(n) + 1) = 2 * wait(n)
    BY <1>1, <2>1, DoubledIs
  <2>4. wait(n + 1) = wait(n) \/ wait(n + 1) = 2 * wait(n)
    BY <2>2, <2>3
  <2>5. Uncapped(p, n) = wait(n)
    BY DEF Uncapped
  <2> HIDE DEF wait
  <2>6. Lesser(wait(n), p.max) \in Nat /\ Lesser(wait(n), p.max) <= p.max
    BY <1>1, <2>3 DEF Lesser
  <2>7. Lesser(wait(n), p.max) < Doubled(1, Width - 1)
    <3> DEFINE half == Doubled(1, Width - 1)
    <3>1. half \in Nat
      BY BackoffAssumption, DoubledIs
    <3>2. p.max < half
      BY <1>1
    <3> HIDE DEF half
    <3>3. Lesser(wait(n), p.max) < half
      BY <1>1, <2>6, <3>1, <3>2
    <3>4. QED
      BY <3>3 DEF half
  <2>8. Nominal(p, n) = Lesser(wait(n), p.max)
    BY <2>5, <2>6, <2>7, DurationIs DEF Nominal
  <2>9. QED
    BY <2>3, <2>4, <2>6, <2>8
<1> HIDE DEF wait
<1>3. ask.n \in Int /\ ask.n + 1 \in Int
  OBVIOUS
<1>4. Nominal(p, ask.n) <= Nominal(p, ask.n + 1)
  <2>1. /\ wait(ask.n) \in Nat /\ wait(ask.n + 1) \in Nat /\ wait(ask.n) <= wait(ask.n + 1)
    BY <1>2, <1>3
  <2>2. Lesser(wait(ask.n), p.max) <= Lesser(wait(ask.n + 1), p.max)
    BY <1>1, <2>1 DEF Lesser
  <2>3. QED
    BY <1>2, <1>3, <2>2
<1>5. ASSUME NEW d \in Delay(p, ask.n)
      PROVE  d <= p.max /\ 2 * d + 1 >= Lesser(p.base, p.max)
  <2> DEFINE o == Nominal(p, ask.n)
  <2>1. /\ o \in Nat /\ o = Lesser(wait(ask.n), p.max)
        /\ wait(ask.n) \in Nat /\ wait(ask.n) >= p.base
    BY <1>2, <1>3
  <2>2. d \in (o \div 2)..(2 * (o \div 2))
    BY DEF Delay
  <2> HIDE DEF o
  <2>3. d \in Nat /\ d <= o /\ 2 * d + 1 >= o
    BY <2>1, <2>2, DelaysOf
  <2>4. o <= p.max /\ o >= Lesser(p.base, p.max) /\ Lesser(p.base, p.max) \in Nat
    BY <1>1, <2>1 DEF Lesser
  <2>5. QED
    BY <1>1, <2>1, <2>3, <2>4
<1>6. QED
  BY <1>4, <1>5 DEF DelaysAreSane, p

-----------------------------------------------------------------------------
(***************************************************************************)
(* The places of a text that are kept.                                        *)
(***************************************************************************)
\* The choice among the first places, one after the other.
Choice(kept, N) ==
  CHOOSE f : f = [k \in 0..N |-> IF k = 0 THEN <<>> ELSE IF k \in kept THEN Append(f[k - 1], k) ELSE f[k - 1]]

LEMMA ChoiceIs ==
  ASSUME NEW kept, NEW N \in Nat
  PROVE  Choice(kept, N) =
           [k \in 0..N |-> IF k = 0 THEN <<>>
                           ELSE IF k \in kept THEN Append(Choice(kept, N)[k - 1], k)
                           ELSE Choice(kept, N)[k - 1]]
<1>0. SUFFICES \E f : f = [k \in 0..N |-> IF k = 0 THEN <<>> ELSE IF k \in kept THEN Append(f[k - 1], k) ELSE f[k - 1]]
  BY Zenon DEF Choice
<1> DEFINE next(q, n) == IF n \in kept THEN Append(q, n) ELSE q
           P(k) == \E f : f = [n \in 0..k |-> IF n = 0 THEN <<>> ELSE next(f[n - 1], n)]
           K == {k \in 0..N : ~P(k)}
<1>1. SUFFICES K = {}
  <2>1. N \in 0..N
    OBVIOUS
  <2>2. QED
    BY <2>1
<1>2. SUFFICES ASSUME K # {}
               PROVE  FALSE
  OBVIOUS
<1>3. PICK m \in K : \A k \in K : m <= k
  <2>1. K \in SUBSET Int /\ K \subseteq 0..N /\ 0 \in Int /\ N \in Int
    <3> HIDE DEF P
    <3>1. QED
      OBVIOUS
  <2> HIDE DEF K
  <2>2. QED
    BY <1>2, <2>1, LeastOf, Zenon
<1>4. m \in 0..N /\ ~P(m)
  <2> HIDE DEF P
  <2>1. QED
    BY <1>3
<1>5. m # 0
  <2> DEFINE f == [n \in 0..0 |-> <<>>]
  <2>1. f = [n \in 0..0 |-> IF n = 0 THEN <<>> ELSE next(f[n - 1], n)]
    <3>1. \A n \in 0..0 : n = 0
      OBVIOUS
    <3> HIDE DEF next
    <3>2. QED
      BY <3>1
  <2> HIDE DEF f
  <2>2. P(0)
    BY <2>1
  <2> HIDE DEF P
  <2>3. QED
    BY <1>4, <2>2, Zenon
<1>6. m - 1 \in 0..N /\ m - 1 < m
  BY <1>4, <1>5
<1>7. P(m - 1)
  <2> HIDE DEF P
  <2>1. m - 1 \notin K
    <3>1. ~(m <= m - 1)
      BY <1>6
    <3> HIDE DEF K
    <3>2. QED
      BY <1>3, <3>1, Zenon
  <2>2. QED
    BY <1>6, <2>1, Zenon
<1>8. PICK f : f = [n \in 0..(m - 1) |-> IF n = 0 THEN <<>> ELSE next(f[n - 1], n)]
  BY <1>7, Zenon
<1> DEFINE g == [n \in 0..m |-> IF n = m THEN next(f[m - 1], m) ELSE f[n]]
<1>9. ASSUME NEW n \in 0..m
      PROVE  g[n] = IF n = 0 THEN <<>> ELSE next(g[n - 1], n)
  <2>1. CASE n = m
    <3>1. n # 0 /\ n - 1 = m - 1 /\ n - 1 \in 0..m /\ n - 1 # m
      BY <1>6, <2>1, <1>5
    <3>2. g[n] = next(f[m - 1], m) /\ g[n - 1] = f[n - 1]
      BY <2>1, <3>1, Zenon
    <3>3. QED
      BY <2>1, <3>1, <3>2, Zenon
  <2>2. CASE n # m
    <3>1. n \in 0..(m - 1)
      BY <1>4, <2>2
    <3>2. g[n] = f[n]
      BY <2>2, Zenon
    <3>3. f[n] = IF n = 0 THEN <<>> ELSE next(f[n - 1], n)
      BY <1>8, <3>1, Zenon
    <3>4. CASE n = 0
      BY <3>2, <3>3, <3>4, Zenon
    <3>5. CASE n # 0
      <4>1. n - 1 \in 0..m /\ n - 1 # m
        BY <3>1, <3>5, <1>4
      <4>2. g[n - 1] = f[n - 1]
        BY <4>1, Zenon
      <4>3. QED
        BY <3>2, <3>3, <3>5, <4>2, Zenon
    <3>6. QED
      BY <3>4, <3>5
  <2>3. QED
    BY <2>1, <2>2
<1>10. g = [n \in 0..m |-> IF n = 0 THEN <<>> ELSE next(g[n - 1], n)]
  <2> DEFINE h == [n \in 0..m |-> IF n = 0 THEN <<>> ELSE next(g[n - 1], n)]
  <2>1. g = [n \in 0..m |-> g[n]]
    OBVIOUS
  <2> HIDE DEF g, next
  <2>2. QED
    BY <1>9, <2>1, Zenon
<1>11. P(m)
  <2> HIDE DEF g
  <2>1. QED
    BY <1>10, Zenon
<1>12. QED
  BY <1>4, <1>11

\* The places up to n that are kept, in order.
Chosen(q, n, kept) ==
  /\ q \in Seq(1..n)
  /\ \A k \in 1..Len(q) : q[k] \in kept
  /\ \A k, l \in 1..Len(q) : k < l => q[k] < q[l]
  /\ \A i \in 1..n : i \in kept => \E k \in 1..Len(q) : q[k] = i

LEMMA ChosenNext ==
  ASSUME NEW n \in Nat, NEW kept, NEW q, Chosen(q, n, kept)
  PROVE  Chosen(IF n + 1 \in kept THEN Append(q, n + 1) ELSE q, n + 1, kept)
<1> DEFINE m == n + 1
           a == Append(q, m)
<1>1. m \in Nat /\ 1..n \subseteq 1..m /\ m \in 1..m /\ \A i \in 1..m : i = m \/ i \in 1..n
  OBVIOUS
<1>2. /\ q \in Seq(1..n) /\ Len(q) \in Nat /\ \A k \in 1..Len(q) : q[k] \in 1..n
  BY DEF Chosen
<1>3. q \in Seq(1..m)
  BY <1>1, <1>2
<1>4. CASE m \in kept
  <2>1. /\ a \in Seq(1..m) /\ Len(a) = Len(q) + 1 /\ a[Len(q) + 1] = m
        /\ \A k \in 1..Len(q) : a[k] = q[k]
    BY <1>1, <1>3
  <2>2. \A k \in 1..Len(a) : k = Len(q) + 1 \/ k \in 1..Len(q)
    BY <1>2, <2>1
  <2>3. 1..Len(q) \subseteq 1..Len(a) /\ Len(q) + 1 \in 1..Len(a)
    BY <1>2, <2>1
  <2> HIDE DEF a, m
  <2>4. \A k \in 1..Len(a) : a[k] \in kept
    BY <1>4, <2>1, <2>2 DEF Chosen
  <2>5. ASSUME NEW k \in 1..Len(a), NEW l \in 1..Len(a), k < l
        PROVE  a[k] < a[l]
    <3>1. k \in 1..Len(q)
      BY <1>2, <2>1, <2>5
    <3>2. CASE l \in 1..Len(q)
      BY <2>1, <2>5, <3>1, <3>2 DEF Chosen
    <3>3. CASE l = Len(q) + 1
      <4>1. a[k] \in 1..n /\ a[l] = m
        BY <1>2, <2>1, <3>1, <3>3
      <4>2. QED
        BY <4>1 DEF m
    <3>4. QED
      BY <2>2, <3>2, <3>3
  <2>6. ASSUME NEW i \in 1..m, i \in kept
        PROVE  \E k \in 1..Len(a) : a[k] = i
    <3>1. CASE i = m
      BY <2>1, <2>3, <3>1
    <3>2. CASE i \in 1..n
      <4>1. PICK k \in 1..Len(q) : q[k] = i
        BY <2>6, <3>2 DEF Chosen
      <4>2. k \in 1..Len(a) /\ a[k] = i
        BY <2>1, <2>3, <4>1
      <4>3. QED
        BY <4>2
    <3>3. QED
      BY <1>1, <3>1, <3>2
  <2>7. Chosen(a, m, kept)
    BY <2>1, <2>4, <2>5, <2>6 DEF Chosen
  <2>8. QED
    BY <1>4, <2>7 DEF a, m
<1>5. CASE m \notin kept
  <2>1. Chosen(q, m, kept)
    <3>1. \A i \in 1..m : i \in kept => \E k \in 1..Len(q) : q[k] = i
      BY <1>1, <1>5 DEF Chosen
    <3> HIDE DEF m
    <3>2. QED
      BY <1>3, <3>1 DEF Chosen
  <2>2. QED
    BY <1>5, <2>1
<1>6. QED
  BY <1>4, <1>5

LEMMA PlacesAre ==
  ASSUME NEW s, Len(s) \in Nat, NEW kept
  PROVE  Chosen(Places(s, kept), Len(s), kept)
<1> DEFINE N == Len(s)
           f == Choice(kept, N)
           K == {k \in 0..N : ~Chosen(f[k], k, kept)}
<1>1. Places(s, kept) = f[N]
  BY DEF Places, Choice
<1>2. f = [k \in 0..N |-> IF k = 0 THEN <<>> ELSE IF k \in kept THEN Append(f[k - 1], k) ELSE f[k - 1]]
  BY ChoiceIs, Zenon
<1> HIDE DEF f
<1>3. SUFFICES K = {}
  <2>1. N \in 0..N
    OBVIOUS
  <2>2. QED
    BY <1>1, <2>1, Zenon
<1>4. SUFFICES ASSUME K # {}
               PROVE  FALSE
  OBVIOUS
<1>5. PICK m \in K : \A k \in K : m <= k
  <2>1. K \in SUBSET Int /\ K \subseteq 0..N /\ 0 \in Int /\ N \in Int
    OBVIOUS
  <2> HIDE DEF K
  <2>2. QED
    BY <1>4, <2>1, LeastOf, Zenon
<1>6. m \in 0..N /\ ~Chosen(f[m], m, kept)
  BY <1>5, Zenon
<1>7. f[m] = IF m = 0 THEN <<>> ELSE IF m \in kept THEN Append(f[m - 1], m) ELSE f[m - 1]
  BY <1>2, <1>6, Zenon
<1>8. CASE m = 0
  <2>1. Chosen(<<>>, 0, kept)
    BY DEF Chosen
  <2>2. QED
    BY <1>6, <1>7, <1>8, <2>1, Zenon
<1>9. CASE m # 0
  <2>1. m - 1 \in 0..N /\ m - 1 \in Nat /\ (m - 1) + 1 = m /\ ~(m <= m - 1)
    BY <1>6, <1>9
  <2>2. Chosen(f[m - 1], m - 1, kept)
    <3>1. m - 1 \notin K
      <4> HIDE DEF K
      <4>1. QED
        BY <1>5, <2>1, Zenon
    <3>2. QED
      BY <2>1, <3>1, Zenon
  <2>3. Chosen(IF m \in kept THEN Append(f[m - 1], m) ELSE f[m - 1], m, kept)
    <3> DEFINE n == m - 1
    <3>1. Chosen(IF n + 1 \in kept THEN Append(f[n], n + 1) ELSE f[n], n + 1, kept)
      <4>1. n \in Nat /\ Chosen(f[n], n, kept)
        BY <2>1, <2>2
      <4> HIDE DEF n
      <4>2. QED
        BY <4>1, ChosenNext
    <3>2. QED
      BY <2>1, <3>1
  <2>4. QED
    BY <1>6, <1>7, <1>9, <2>3, Zenon
<1>10. QED
  BY <1>8, <1>9

\* What is kept of a text: its length, and where each of its characters stood.
LEMMA KeptIs ==
  ASSUME NEW s, Len(s) \in Nat, NEW kept
  PROVE  LET q == Places(s, kept) IN
         /\ Chosen(q, Len(s), kept) /\ Len(q) \in Nat /\ DOMAIN q = 1..Len(q)
         /\ Kept(s, kept) = [k \in 1..Len(q) |-> s[q[k]]]
         /\ Len(Kept(s, kept)) = Len(q) /\ DOMAIN Kept(s, kept) = 1..Len(q)
<1> DEFINE q == Places(s, kept)
<1>1. Chosen(q, Len(s), kept)
  BY PlacesAre
<1> HIDE DEF q
<1>2. q \in Seq(1..Len(s)) /\ Len(q) \in Nat /\ DOMAIN q = 1..Len(q)
  BY <1>1 DEF Chosen
<1>3. Kept(s, kept) = [k \in DOMAIN q |-> s[q[k]]]
  BY DEF Kept, q
<1>4. Len([k \in 1..Len(q) |-> s[q[k]]]) = Len(q)
  BY <1>2
<1>5. QED
  BY <1>1, <1>2, <1>3, <1>4 DEF q

-----------------------------------------------------------------------------
(***************************************************************************)
(* The search for a keyword, in the texts that are compared.                  *)
(***************************************************************************)
\* A text has characters at the places from 1 to its length.
Text(s) == Len(s) \in Nat /\ DOMAIN s = 1..Len(s)

LEMMA TextOf ==
  ASSUME NEW n \in Nat, NEW s, s = [i \in 1..n |-> s[i]]
  PROVE  Text(s) /\ Len(s) = n
<1>1. Len([i \in 1..n |-> s[i]]) = n
  OBVIOUS
<1>2. DOMAIN [i \in 1..n |-> s[i]] = 1..n
  OBVIOUS
<1>3. QED
  BY <1>1, <1>2 DEF Text

LEMMA KeptIsText ==
  ASSUME NEW s, Text(s), NEW kept
  PROVE  Text(Kept(s, kept)) /\ Text(Places(s, kept))
BY KeptIs DEF Text

LEMMA ComposedIsText ==
  ASSUME NEW s, Text(s)
  PROVE  Text(Composed(s))
<1> DEFINE base(i) == i < Len(s) /\ s[i] \in {"a", "A"} /\ s[i + 1] = ":"
           mark(i) == i > 1 /\ base(i - 1)
           kept == Places(s, {i \in DOMAIN s : ~mark(i)})
           letter(i) == IF ~base(i) THEN s[i] ELSE IF s[i] = "a" THEN "a:" ELSE "A:"
<1>1. Composed(s) = [k \in DOMAIN kept |-> letter(kept[k])]
  BY DEF Composed
<1>2. Text(kept)
  BY KeptIsText
<1> HIDE DEF kept, letter
<1>3. Composed(s) = [k \in 1..Len(kept) |-> Composed(s)[k]] /\ Len(kept) \in Nat
  BY <1>1, <1>2 DEF Text
<1>4. QED
  BY <1>3, TextOf

LEMMA CollapsedIsText ==
  ASSUME NEW s, Text(s)
  PROVE  Text(Collapsed(s))
<1> DEFINE inner(i) == \E j, k \in DOMAIN s : j < i /\ i < k /\ ~Blank(s[j]) /\ ~Blank(s[k])
           spaced == [i \in DOMAIN s |-> IF Blank(s[i]) THEN " " ELSE s[i]]
           kept == {i \in DOMAIN s : ~Blank(s[i]) \/ (inner(i) /\ ~Blank(s[i + 1]))}
<1>1. Collapsed(s) = Kept(spaced, kept)
  BY DEF Collapsed
<1>2. Text(spaced)
  <2>1. Len(s) \in Nat /\ spaced = [i \in 1..Len(s) |-> spaced[i]]
    BY DEF Text
  <2> HIDE DEF spaced
  <2>2. QED
    BY <2>1, TextOf
<1> HIDE DEF spaced, kept
<1>3. QED
  BY <1>1, <1>2, KeptIsText

LEMMA NormalizedIsText ==
  ASSUME NEW s, Text(s)
  PROVE  Text(Normalize(s))
<1> DEFINE whole == Composed(s)
           shown == Collapsed(Kept(whole, {i \in DOMAIN whole : ~Ignorable(whole[i])}))
           fold(c) == FoldCase(FoldLookalike(c))
<1>1. Normalize(s) = [i \in DOMAIN shown |-> fold(shown[i])]
  BY DEF Normalize
<1>2. Text(shown)
  BY ComposedIsText, KeptIsText, CollapsedIsText
<1> HIDE DEF shown, fold
<1>3. Normalize(s) = [i \in 1..Len(shown) |-> Normalize(s)[i]] /\ Len(shown) \in Nat
  BY <1>1, <1>2 DEF Text
<1>4. QED
  BY <1>3, TextOf

\* CONTAINS finds a keyword exactly when it stands somewhere as whole words, also
\* where occurrences overlap: in every text, for every keyword (Matches).
THEOREM MatchesWholeWordsAlways ==
  ASSUME ask.text \in Seq(STRING), ask.keyword \in Seq(STRING)
  PROVE  MatchesWholeWords
<1> DEFINE s == Normalize(ask.text)
           kw == Normalize(ask.keyword)
<1>1. Text(s) /\ Text(kw)
  <2>1. Text(ask.text) /\ Text(ask.keyword)
    BY DEF Text
  <2>2. QED
    BY <2>1, NormalizedIsText
<1> HIDE DEF s, kw
<1>2. /\ Len(s) \in Nat /\ DOMAIN s = 1..Len(s) /\ Len(kw) \in Nat
  BY <1>1 DEF Text
<1>3. ContainsWord(s, kw) <=> \E i \in DOMAIN s : WordAt(s, kw, i)
  BY <1>2, ContainsFindsWholeWords
<1>4. (\E i \in DOMAIN s : WordAt(s, kw, i)) => s # <<>>
  <2>1. s = <<>> => DOMAIN s = {}
    OBVIOUS
  <2>2. QED
    BY <2>1
<1>5. Matches(s, kw, "CONTAINS") <=> kw # <<>> /\ \E i \in DOMAIN s : WordAt(s, kw, i)
  <2>1. "CONTAINS" # "EXACT" /\ "CONTAINS" # "STARTS_WITH"
    OBVIOUS
  <2>2. QED
    BY <1>3, <1>4, <2>1, Zenon DEF Matches
<1>6. QED
  BY <1>5, Zenon DEF MatchesWholeWords, WordAt, s, kw

-----------------------------------------------------------------------------
(***************************************************************************)
(* The calendar of a series.                                                  *)
(***************************************************************************)
\* Where a change takes back one unit of the clock at most, days go on.
LEMMA ShortChange ==
  ASSUME NEW z \in Zone, z.before - z.after <= 1
  PROVE  DaysGoOn(z)
<1>1. ASSUME NEW t \in Int, NEW u \in Int, t <= u
      PROVE  Day(z, t) <= Day(z, u)
  <2> DEFINE v == Wall(z, t)
             w == Wall(z, u)
  <2>1. v \in Int /\ w \in Int /\ v <= w
    BY <1>1, ZoneTypes DEF Wall, Offset
  <2>2. Day(z, t) = v \div DayLength /\ Day(z, u) = w \div DayLength
    BY DEF Day
  <2> HIDE DEF v, w
  <2>3. v \div DayLength <= w \div DayLength
    <3> DEFINE p == v \div DayLength
               q == w \div DayLength
    <3>1. p \in Int /\ q \in Int /\ p * DayLength <= v /\ w < q * DayLength + DayLength
      BY <2>1, HoursOfDay
    <3> HIDE DEF p, q
    <3>2. SUFFICES p <= q
      BY DEF p, q
    <3>3. SUFFICES ASSUME q + 1 <= p
                   PROVE  FALSE
      BY <3>1
    <3>4. (q + 1) * DayLength <= p * DayLength
      BY <3>1, <3>3, CalendarAssumption
    <3>5. (q + 1) * DayLength = q * DayLength + DayLength
      BY <3>1, CalendarAssumption
    <3>6. p * DayLength \in Int /\ (q + 1) * DayLength \in Int
      BY <3>1, CalendarAssumption
    <3>7. QED
      BY <2>1, <3>1, <3>4, <3>5, <3>6
  <2>4. QED
    BY <2>2, <2>3
<1>2. QED
  BY <1>1 DEF DaysGoOn

\* A contact is given the earliest webinar of the whole series that still claims
\* who arrives, whatever the zone, as long as its change moves no midnight and no
\* webinar to another day and puts nobody back into the day before
\* (NextOccurrenceAfter, whose loop stops after a few days).
THEOREM CalendarIsExactAlways ==
  ASSUME Days = Int, ask.now \in Int, ask.tail \in Int,
         ask.campaign.daily = TRUE, ask.campaign.clock \in Hours,
         ask.campaign.zone \in Zone, ask.campaign.zone.known, DaysGoOn(ask.campaign.zone),
         ask.campaign.start \in Int \cup {NoDay}, ask.campaign.event \in Int \cup {NoTime}
  PROVE  CalendarIsExact
<1> DEFINE c == ask.campaign
           r == RecurrenceOf(c)
           from == ask.now - (IF ask.tail > 0 THEN ask.tail ELSE 0)
<1>1. SUFFICES ASSUME KeepsDays(r.zone, r.clock, Int)
               PROVE  OccurrenceFor(r, ask.now, ask.tail) = NextInSeries(r, from, Int)
  BY DEF CalendarIsExact
<1>2. r.zone = c.zone /\ r.clock = c.clock /\ r.enabled = TRUE
  BY DEF RecurrenceOf
<1>3. r.start \in Int \cup {NoDay}
  BY ZoneTypes, HoursOfDay DEF RecurrenceOf, Day
<1>4. r \in Settings
  <2>1. r = [enabled |-> r.enabled, clock |-> r.clock, zone |-> r.zone, start |-> r.start]
    BY DEF RecurrenceOf
  <2> HIDE DEF r
  <2>2. QED
    BY <1>2, <1>3, <2>1 DEF Settings, Hours
<1>5. from \in Int /\ OccurrenceFor(r, ask.now, ask.tail) = NextOccurrenceAfter(r, from)
  <2>1. ask.now - (IF ask.tail < 0 THEN 0 ELSE ask.tail) = from
    OBVIOUS
  <2> HIDE DEF from, r
  <2>2. OccurrenceFor(r, ask.now, ask.tail) = NextOccurrenceAfter(r, from)
    BY <2>1 DEF OccurrenceFor
  <2>3. from \in Int
    BY DEF from
  <2>4. QED
    BY <2>2, <2>3
<1> HIDE DEF r, from
<1>6. QED
  BY <1>1, <1>2, <1>4, <1>5, NextIsEarliest

-----------------------------------------------------------------------------
(***************************************************************************)
(* What is typed into the forms.                                              *)
(***************************************************************************)
LEMMA AllPlaces ==
  ASSUME NEW s, Len(s) \in Nat, NEW kept, \A i \in 1..Len(s) : i \in kept
  PROVE  Places(s, kept) = [i \in 1..Len(s) |-> i]
<1> DEFINE N == Len(s)
           f == Choice(kept, N)
           all(k) == [i \in 1..k |-> i]
           K == {k \in 0..N : f[k] # all(k)}
<1>1. Places(s, kept) = f[N]
  BY DEF Places, Choice
<1>2. f = [k \in 0..N |-> IF k = 0 THEN <<>> ELSE IF k \in kept THEN Append(f[k - 1], k) ELSE f[k - 1]]
  BY ChoiceIs, Zenon
<1> HIDE DEF f
<1>3. SUFFICES K = {}
  <2>1. N \in 0..N
    OBVIOUS
  <2>2. QED
    BY <1>1, <2>1, Zenon
<1>4. SUFFICES ASSUME K # {}
               PROVE  FALSE
  OBVIOUS
<1>5. PICK m \in K : \A k \in K : m <= k
  <2>1. K \in SUBSET Int /\ K \subseteq 0..N /\ 0 \in Int /\ N \in Int
    OBVIOUS
  <2> HIDE DEF K
  <2>2. QED
    BY <1>4, <2>1, LeastOf, Zenon
<1>6. m \in 0..N /\ f[m] # all(m)
  BY <1>5, Zenon
<1>7. f[m] = IF m = 0 THEN <<>> ELSE IF m \in kept THEN Append(f[m - 1], m) ELSE f[m - 1]
  BY <1>2, <1>6, Zenon
<1>8. CASE m = 0
  <2>1. all(0) = <<>>
    OBVIOUS
  <2>2. QED
    BY <1>6, <1>7, <1>8, <2>1, Zenon
<1>9. CASE m # 0
  <2>1. m - 1 \in 0..N /\ m - 1 \in Nat /\ (m - 1) + 1 = m /\ ~(m <= m - 1) /\ m \in kept
    BY <1>6, <1>9
  <2>2. f[m - 1] = all(m - 1)
    <3>1. m - 1 \notin K
      <4> HIDE DEF K
      <4>1. QED
        BY <1>5, <2>1, Zenon
    <3>2. QED
      BY <2>1, <3>1, Zenon
  <2>3. Append(all(m - 1), m) = all(m)
    <3> DEFINE n == m - 1
    <3>1. n \in Nat /\ m = n + 1
      BY <2>1
    <3> HIDE DEF n
    <3>2. all(n) \in Seq(Nat) /\ Len(all(n)) = n
      BY <3>1
    <3>3. Append(all(n), n + 1) = all(n + 1)
      BY <3>1, <3>2
    <3>4. QED
      BY <3>1, <3>3 DEF n
  <2>4. QED
    BY <1>6, <1>7, <1>9, <2>1, <2>2, <2>3, Zenon
<1>10. QED
  BY <1>8, <1>9

\* Where everything is kept, nothing changes.
LEMMA AllKept ==
  ASSUME NEW X, NEW s \in Seq(X), NEW kept, \A i \in DOMAIN s : i \in kept
  PROVE  Kept(s, kept) = s
<1>1. Len(s) \in Nat /\ DOMAIN s = 1..Len(s)
  OBVIOUS
<1>2. Places(s, kept) = [i \in 1..Len(s) |-> i]
  BY <1>1, AllPlaces
<1>3. Kept(s, kept) = [k \in 1..Len(s) |-> s[k]]
  BY <1>2 DEF Kept
<1>4. QED
  BY <1>1, <1>3

\* A word that is kept, of those that were typed.
Counts(typed, i) ==
  /\ \E k \in DOMAIN typed[i] : ~Blank(typed[i][k])
  /\ \A j \in 1..(i - 1) : Normalize(typed[j]) # Normalize(typed[i])

LEMMA WordsAre ==
  ASSUME NEW typed
  PROVE  UnsubscribeWords(typed) =
           LET kept == Kept(typed, {i \in DOMAIN typed : Counts(typed, i)}) IN
           IF kept = <<>> THEN <<<<"b", "a">>>> ELSE kept
BY DEF UnsubscribeWords, Counts

\* Words that are typed again as they were kept are kept (SaveInput.toCampaign).
LEMMA WordsSettle ==
  ASSUME NEW W, NEW typed \in Seq(W)
  PROVE  UnsubscribeWords(UnsubscribeWords(typed)) = UnsubscribeWords(typed)
<1> DEFINE u == UnsubscribeWords(typed)
           chosen == {i \in DOMAIN typed : Counts(typed, i)}
           q == Places(typed, chosen)
           kept == Kept(typed, chosen)
           again == {i \in DOMAIN u : Counts(u, i)}
<1>1. u = IF kept = <<>> THEN <<<<"b", "a">>>> ELSE kept
  BY WordsAre
<1>2. SUFFICES u \in Seq(W \cup {<<"b", "a">>}) /\ u # <<>> /\ \A k \in DOMAIN u : Counts(u, k)
  <2>1. Kept(u, again) = u
    BY AllKept
  <2>2. UnsubscribeWords(u) = IF Kept(u, again) = <<>> THEN <<<<"b", "a">>>> ELSE Kept(u, again)
    BY WordsAre
  <2> HIDE DEF u, again
  <2>3. QED
    BY <2>1, <2>2 DEF u
<1>3. CASE kept = <<>>
  <2> DEFINE word == <<"b", "a">>
  <2>1. u = <<word>>
    BY <1>1, <1>3
  <2>2. 1 \in DOMAIN word /\ ~Blank(word[1])
    <3>1. 1 \in DOMAIN word /\ word[1] = "b"
      OBVIOUS
    <3>2. ~Blank("b")
      BY DEF Blank
    <3>3. QED
      BY <3>1, <3>2, Zenon
  <2> HIDE DEF word, u
  <2>3. u \in Seq(W \cup {word}) /\ u # <<>> /\ \A k \in DOMAIN u : k = 1 /\ u[k] = word
    BY <2>1, <2>2
  <2>4. \A j \in 1..(1 - 1) : FALSE
    OBVIOUS
  <2>5. QED
    BY <2>2, <2>3, <2>4 DEF Counts, word
<1>4. CASE kept # <<>>
  <2>1. u = kept
    BY <1>1, <1>4
  <2>2. Len(typed) \in Nat /\ DOMAIN typed = 1..Len(typed)
    OBVIOUS
  <2>3. /\ Chosen(q, Len(typed), chosen) /\ Len(q) \in Nat
        /\ kept = [k \in 1..Len(q) |-> typed[q[k]]]
    <3> HIDE DEF chosen
    <3> DEFINE places == Places(typed, chosen)
    <3>1. /\ Chosen(places, Len(typed), chosen) /\ Len(places) \in Nat
          /\ Kept(typed, chosen) = [k \in 1..Len(places) |-> typed[places[k]]]
      BY ONLY <2>2, KeptIs
    <3>2. QED
      BY <3>1
  <2>4. ASSUME NEW k \in 1..Len(q)
        PROVE  q[k] \in DOMAIN typed /\ Counts(typed, q[k])
    BY <2>3, <2>4, Zenon DEF Chosen
  <2> HIDE DEF q, kept, u, chosen
  <2>5. kept \in Seq(W) /\ DOMAIN kept = 1..Len(q)
    BY <2>2, <2>3, <2>4
  <2>6. ASSUME NEW k \in 1..Len(q)
        PROVE  Counts(kept, k)
    <3>1. kept[k] = typed[q[k]]
      BY <2>3
    <3>2. \E l \in DOMAIN kept[k] : ~Blank(kept[k][l])
      BY <2>4, <3>1, Zenon DEF Counts
    <3>3. ASSUME NEW j \in 1..(k - 1)
          PROVE  Normalize(kept[j]) # Normalize(kept[k])
      <4>1. j \in 1..Len(q) /\ j < k
        BY <2>3
      <4>2. q[j] < q[k]
        BY <2>3, <4>1 DEF Chosen
      <4>3. q[j] \in 1..(q[k] - 1)
        BY <2>2, <2>4, <4>1, <4>2
      <4>4. Normalize(typed[q[j]]) # Normalize(typed[q[k]])
        BY <2>4, <4>3, Zenon DEF Counts
      <4>5. kept[j] = typed[q[j]]
        BY <2>3, <4>1
      <4>6. QED
        BY <3>1, <4>4, <4>5, Zenon
    <3>4. QED
      BY <3>2, <3>3, Zenon DEF Counts
  <2>7. QED
    BY <1>4, <2>1, <2>5, <2>6
<1>5. QED
  BY <1>3, <1>4

LEMMA SavedRecord ==
  ASSUME NEW in, NEW now, Accepted(in, now)
  PROVE  LET c == ToCampaign(in, now) IN
         /\ c = [clock |-> c.clock, start |-> c.start, event |-> c.event, zone |-> c.zone, daily |-> c.daily,
                 limit |-> c.limit, attempts |-> c.attempts, words |-> c.words]
         /\ c.attempts = IF in.attempts \in 1..20 THEN in.attempts ELSE 5
         /\ c.words = UnsubscribeWords(in.words)
<1> DEFINE c == ToCampaign(in, now)
           a == ApplyRecurrence(in, now)
           tries == IF in.attempts \in 1..20 THEN in.attempts ELSE 5
           words == UnsubscribeWords(in.words)
<1>1. c = [clock |-> a.clock, start |-> a.start, event |-> a.event,
           zone |-> in.zone, daily |-> in.daily, limit |-> in.limit,
           attempts |-> tries, words |-> words]
  <2>1. ~(~in.zone.known \/ (in.limit # NoLimit /\ in.limit < 1)
            \/ (in.daily /\ ~Valid(SeriesTyped(in, now))))
    BY Zenon DEF Accepted
  <2>2. QED
    BY <2>1, Zenon DEF ToCampaign
<1> HIDE DEF c, a, tries, words
<1>2. /\ c = [clock |-> c.clock, start |-> c.start, event |-> c.event, zone |-> c.zone, daily |-> c.daily,
              limit |-> c.limit, attempts |-> c.attempts, words |-> c.words]
      /\ c.attempts = tries /\ c.words = words
  BY <1>1
<1>3. QED
  BY <1>2 DEF c, tries, words

\* A campaign is what it was when its form has been opened and saved.
LEMMA OpenedIsSame ==
  ASSUME NEW in, Form(in), NEW now \in Int, NEW later \in Int, NEW W, in.words \in Seq(W),
         ToCampaign(in, now) # Refused, in.daily => ZoneKeepsSeries(ToCampaign(in, now))
  PROVE  LET c == ToCampaign(in, now) IN OpenedIsSaved(c, ToCampaign(FormOf(c, c.zone), later))
<1> DEFINE c == ToCampaign(in, now)
           form == FormOf(c, c.zone)
           opened == ToCampaign(form, later)
<1>1. Accepted(in, now)
  BY AcceptedIs
<1>2. /\ Accepted(form, later) /\ ~Disturbs(c, opened)
      /\ opened.daily = c.daily /\ opened.clock = c.clock /\ opened.start = c.start
      /\ opened.zone = c.zone /\ opened.event = c.event /\ opened.limit = c.limit
  <2> DEFINE settings == {"daily", "clock", "start", "zone", "event", "limit"}
  <2>1. Accepted(form, later) /\ ~Disturbs(c, opened) /\ \A setting \in settings : opened[setting] = c[setting]
    BY OpeningDisturbsNobody
  <2>2. /\ "daily" \in settings /\ "clock" \in settings /\ "start" \in settings
        /\ "zone" \in settings /\ "event" \in settings /\ "limit" \in settings
    OBVIOUS
  <2> HIDE DEF c, form, opened, settings
  <2>3. QED
    BY <2>1, <2>2
<1>3. form.attempts = c.attempts /\ form.words = c.words
  BY DEF FormOf
<1>4. /\ c = [clock |-> c.clock, start |-> c.start, event |-> c.event, zone |-> c.zone, daily |-> c.daily,
              limit |-> c.limit, attempts |-> c.attempts, words |-> c.words]
      /\ c.attempts = IF in.attempts \in 1..20 THEN in.attempts ELSE 5
      /\ c.words = UnsubscribeWords(in.words)
  BY <1>1, SavedRecord
<1> HIDE DEF c, form
<1>5. /\ opened = [clock |-> opened.clock, start |-> opened.start, event |-> opened.event,
                   zone |-> opened.zone, daily |-> opened.daily,
                   limit |-> opened.limit, attempts |-> opened.attempts, words |-> opened.words]
      /\ opened.attempts = IF c.attempts \in 1..20 THEN c.attempts ELSE 5
      /\ opened.words = UnsubscribeWords(c.words)
  BY <1>2, <1>3, SavedRecord
<1> HIDE DEF opened
<1>6. opened.attempts = c.attempts
  <2>1. 5 \in 1..20
    OBVIOUS
  <2>2. c.attempts \in 1..20
    BY <1>4, <2>1, Zenon
  <2>3. QED
    BY <1>5, <2>2, Zenon
<1>7. opened.words = c.words
  BY <1>4, <1>5, WordsSettle
<1>8. opened = c
  BY <1>2, <1>4, <1>5, <1>6, <1>7, Zenon
<1>9. OpenedIsSaved(c, opened)
  BY <1>2, <1>8 DEF OpenedIsSaved
<1>10. QED
  BY <1>9 DEF c, form, opened

\* A webinar has work to do for some time, or for none.
LEMMA TailIs ==
  ASSUME NEW a, a.offset \in Int, NEW b, b.offset \in Int
  PROVE  StepTail(<<a, b>>) \in Nat
<1> DEFINE steps == <<a, b>>
           late == {i \in DOMAIN steps : steps[i].enabled /\ steps[i].kind # "ON_TRIGGER"}
           after == {0} \cup {steps[i].offset : i \in late}
           low == IF a.offset < b.offset THEN IF a.offset < 0 THEN a.offset ELSE 0
                  ELSE IF b.offset < 0 THEN b.offset ELSE 0
           high == IF a.offset > b.offset THEN IF a.offset > 0 THEN a.offset ELSE 0
                   ELSE IF b.offset > 0 THEN b.offset ELSE 0
<1>1. StepTail(steps) = CHOOSE o \in after : \A other \in after : other <= o
  BY DEF StepTail
<1>2. after \subseteq {0, a.offset, b.offset}
  <2>1. \A i \in DOMAIN steps : steps[i] \in {a, b}
    OBVIOUS
  <2>2. \A i \in late : i \in DOMAIN steps
    OBVIOUS
  <2> HIDE DEF steps, late
  <2>3. QED
    BY <2>1, <2>2
<1> HIDE DEF after
<1>3. 0 \in after
  BY DEF after
<1> HIDE DEF steps
<1>4. after \in SUBSET Int /\ low \in Int /\ high \in Int /\ after \subseteq low..high
  BY <1>2
<1> HIDE DEF low, high
<1>5. \E o \in after : \A other \in after : other <= o
  BY <1>3, <1>4, GreatestOf
<1>6. /\ StepTail(steps) \in after /\ \A other \in after : other <= StepTail(steps)
  BY <1>1, <1>5, Zenon
<1>7. StepTail(steps) \in Nat
  <2> DEFINE t == StepTail(steps)
  <2>1. t \in Int /\ 0 <= t
    <3> HIDE DEF t, late
    <3>1. t \in after /\ \A other \in after : other <= t
      BY <1>6 DEF t
    <3>2. QED
      BY <1>3, <1>4, <3>1
  <2> HIDE DEF t
  <2>2. t \in Nat
    BY <2>1
  <2>3. QED
    BY <2>2 DEF t
<1>8. QED
  BY <1>7 DEF steps

\* The moment of a step, as it is shown and as it is sent.
LEMMA MomentIsKept ==
  ASSUME NEW in, Form(in), NEW at \in Int, at = ask.now, ToCampaign(in, at) # Refused,
         in.daily => ZoneKeepsSeries(ToCampaign(in, at)),
         ask.later \in Int, at <= ask.later, ask.tail \in Int,
         ask.step[1] \in Int, ask.step[2] \in Hours \cup {NoTime}
  PROVE  LET c == ToCampaign(in, at) IN
         StepIsKept(c, Series(RecurrenceOf(c), Int), Parse(ask.step[1], ask.step[2], c.zone), PreviewAnchor(c, at))
<1> DEFINE c == ToCampaign(in, at)
           webinars == Series(RecurrenceOf(c), Int)
           typed == Parse(ask.step[1], ask.step[2], c.zone)
           anchor == PreviewAnchor(c, at)
           step == [enabled |-> TRUE, kind |-> "RELATIVE_TO_EVENT",
                    offset |-> OffsetTyped(c, ask.now, ask.step[1], ask.step[2])]
           other == [step EXCEPT !.offset = ask.tail]
           tail == StepTail(<<step, other>>)
           claims(t) == t >= ask.later - tail
           shown == (c.daily => ~\E t \in webinars : ask.now <= t /\ t < ask.later)
                      => PreviewRow(PreviewAnchor(c, ask.later), step).shown = typed
           sent == (c.daily => claims(anchor) /\ ~\E t \in webinars : t < anchor /\ claims(t))
                     => EventAnchor(c, WebinarFor(c, <<step, other>>, ask.later)) + step.offset = typed
<1>1. StepIsKept(c, webinars, typed, anchor) <=>
        (step.offset # Refused /\ ValidStep(step.kind, step.offset, TRUE, typed) => shown /\ sent)
  BY DEF StepIsKept
<1>2. SUFFICES ASSUME step.offset # Refused, ValidStep(step.kind, step.offset, TRUE, typed)
               PROVE  shown /\ sent
  <2> HIDE DEF shown, sent, step, c, webinars, typed, anchor
  <2>1. StepIsKept(c, webinars, typed, anchor)
    BY <1>1, <1>2
  <2>2. QED
    BY <2>1 DEF c, webinars, typed, anchor
<1>3. c.daily = in.daily
  BY AcceptedIs, SavedAs
<1>4. /\ step.kind = "RELATIVE_TO_EVENT" /\ step.kind # "ON_TRIGGER"
      /\ step.offset = OffsetTyped(c, at, ask.step[1], ask.step[2]) /\ other.offset = ask.tail
  OBVIOUS
<1>5. step.offset \in Int
  BY <1>2, FormsAssumption DEF ValidStep
<1>6. tail \in Nat
  <2> HIDE DEF step, other
  <2>1. QED
    BY <1>4, <1>5, TailIs
<1>7. shown
  <2>1. SUFFICES ASSUME c.daily => ~\E t \in webinars : ask.now <= t /\ t < ask.later
                 PROVE  PreviewRow(PreviewAnchor(c, ask.later), step).shown = typed
    OBVIOUS
  <2>2. in.daily => \A t \in webinars : ~(at <= t /\ t < ask.later)
    BY <1>3, <2>1
  <2> HIDE DEF step
  <2>3. QED
    BY <1>2, <1>4, <2>2, TypedIsShown
<1>8. sent
  <2> HIDE DEF step, other, tail
  <2>1. SUFFICES ASSUME c.daily => claims(anchor) /\ ~\E t \in webinars : t < anchor /\ claims(t)
                 PROVE  EventAnchor(c, WebinarFor(c, <<step, other>>, ask.later)) + step.offset = typed
    OBVIOUS
  <2>2. in.daily => /\ anchor >= ask.later - tail
                    /\ \A t \in webinars : t < anchor => t < ask.later - tail
    <3>1. SUFFICES ASSUME in.daily
                   PROVE  /\ anchor >= ask.later - tail
                          /\ \A t \in webinars : t < anchor => t < ask.later - tail
      OBVIOUS
    <3>2. webinars \in SUBSET Int
      BY <3>1, AnchorIs, SettingTypes DEF Series, Webinar
    <3> HIDE DEF webinars, anchor, c
    <3>3. QED
      BY <1>3, <1>6, <2>1, <3>1, <3>2
  <2>3. WebinarFor(c, <<step, other>>, ask.later) = OccurrenceFor(RecurrenceOf(c), ask.later, tail)
    BY DEF WebinarFor, tail
  <2>4. QED
    BY <1>2, <1>4, <1>6, <2>2, <2>3, TypedIsSent
<1>9. QED
  BY <1>7, <1>8

\* A series is saved with its first webinar as the event; a form that is opened and
\* saved again, in the campaign's zone, changes nothing and moves nobody, nor does
\* the cutoff of a step; and a moment typed for a step is the moment shown of it
\* until the next webinar begins, and the moment it leaves for whoever writes while
\* that webinar claims who arrives and no earlier one does: for every form, every
\* zone in which days go on, and a series without end (toCampaign,
\* applyRecurrence, toInput, Preview, occurrenceFor).
THEOREM WhatIsTypedIsSentAlways ==
  ASSUME Days = Int, Form(ask.in), DaysGoOn(ask.in.zone), NEW W, ask.in.words \in Seq(W),
         ask.now \in Int, ask.later \in Int, ask.now <= ask.later, ask.tail \in Int,
         ask.step[1] \in Int, ask.step[2] \in Hours \cup {NoTime}
  PROVE  WhatIsTypedIsSent
<1> DEFINE in == ask.in
           c == ToCampaign(in, ask.now)
           typed == Parse(ask.step[1], ask.step[2], c.zone)
           webinars == Series(RecurrenceOf(c), Int)
<1>1. SUFFICES ASSUME c # Refused, c.daily => KeepsDays(c.zone, c.clock, Int)
               PROVE  /\ SeriesIsKept(c, webinars)
                      /\ OpenedIsSaved(c, ToCampaign(FormOf(c, c.zone), ask.later))
                      /\ CutoffIsKept(c, typed)
                      /\ StepIsKept(c, webinars, typed, PreviewAnchor(c, ask.now))
  <2> DEFINE kept(a) == /\ SeriesIsKept(a, Series(RecurrenceOf(a), Int))
                        /\ OpenedIsSaved(a, ToCampaign(FormOf(a, a.zone), ask.later))
                        /\ CutoffIsKept(a, Parse(ask.step[1], ask.step[2], a.zone))
                        /\ StepIsKept(a, Series(RecurrenceOf(a), Int), Parse(ask.step[1], ask.step[2], a.zone),
                                      PreviewAnchor(a, ask.now))
  <2>1. c # Refused /\ (c.daily => KeepsDays(c.zone, c.clock, Int)) => kept(c)
    BY <1>1, Zenon
  <2>2. WhatIsTypedIsSent <=>
          (On("form") => \A a \in {c} : a # Refused /\ (a.daily => KeepsDays(a.zone, a.clock, Int)) => kept(a))
    BY Zenon DEF WhatIsTypedIsSent
  <2> HIDE DEF c, kept
  <2>3. QED
    BY <2>1, <2>2, Zenon
<1>2. c.daily = in.daily /\ c.zone = in.zone
  BY <1>1, AcceptedIs, SavedAs
<1>3. in.daily => ZoneKeepsSeries(c)
  BY <1>1, <1>2 DEF ZoneKeepsSeries
<1>4. SeriesIsKept(c, webinars)
  BY <1>1, <1>2, <1>3, EventIsFirst DEF SeriesIsKept
<1>5. OpenedIsSaved(c, ToCampaign(FormOf(c, c.zone), ask.later))
  BY <1>1, <1>3, OpenedIsSame
<1>6. CutoffIsKept(c, typed)
  <2> DEFINE w == ask.step[1] * DayLength + (IF ask.step[2] = NoTime THEN 0 ELSE ask.step[2])
  <2>1. w \in Int /\ typed = Date(c.zone, w) /\ c.zone \in Zone
    BY <1>2, CalendarAssumption DEF Hours, Parse, Form
  <2>2. c.zone.known
    BY <1>1, <1>2, AcceptedIs DEF Accepted
  <2> HIDE DEF w, typed, c
  <2>3. Day(c.zone, typed) \in Int /\ Parse(Day(c.zone, typed), Clock(c.zone, typed), c.zone) = typed
    BY <2>1, ShownIsTyped
  <2>4. Day(c.zone, typed) # NoDay
    BY <2>3, CalendarAssumption
  <2>5. ASSUME NEW zone \in {NoZone, c.zone}
        PROVE  Cutoff(c, Day(c.zone, typed), Clock(c.zone, typed), zone) = typed
    BY <2>2, <2>3, <2>4 DEF Cutoff
  <2>6. QED
    BY <2>5 DEF CutoffIsKept
<1>7. StepIsKept(c, webinars, typed, PreviewAnchor(c, ask.now))
  BY <1>1, <1>3, MomentIsKept
<1>8. QED
  BY <1>4, <1>5, <1>6, <1>7

-----------------------------------------------------------------------------
(***************************************************************************)
(* What is reported of a message.                                             *)
(***************************************************************************)
LEMMA MappedIs ==
  ASSUME NEW body
  PROVE  Parsed(body).status \in Reported
<1>1. MapStatus(body.status) \in Reported
  BY DEF MapStatus, Reported
<1>2. "" \in Reported
  BY DEF Reported
<1>3. Parsed(body).status = IF body.type = "outgoingMessageStatus" THEN MapStatus(body.status) ELSE ""
  BY DEF Parsed
<1>4. QED
  BY <1>1, <1>2, <1>3, Zenon

\* Two reports of one message with the same key are of one account and say the same.
LEMMA KeyTells ==
  ASSUME NEW a, NEW b, NEW x, NEW y, x.id = y.id, ScopedDedupeKey(a, x) = ScopedDedupeKey(b, y)
  PROVE  a = b /\ Parsed(x).status = Parsed(y).status
<1> DEFINE kx == DedupeKey(x)
           ky == DedupeKey(y)
           type == "outgoingMessageStatus"
<1>1. a = b /\ kx = ky
  <2> HIDE DEF kx, ky
  <2>1. <<a, kx>> = <<b, ky>>
    BY DEF ScopedDedupeKey, kx, ky
  <2>2. QED
    BY <2>1
<1>2. kx[1] = x.type /\ ky[1] = y.type
  BY DEF DedupeKey
<1>3. x.type = y.type
  BY <1>1, <1>2
<1>4. CASE x.type # type
  <2>1. y.type # type
    BY <1>3, <1>4
  <2>2. \A z : z.type # type => Parsed(z).status = ""
    BY DEF Parsed
  <2>3. QED
    BY <1>1, <1>4, <2>1, <2>2
<1>5. CASE x.type = type /\ x.id = NoId
  <2>1. kx = <<x.type, "sha256", x>> /\ ky = <<y.type, "sha256", y>>
    BY <1>5, Zenon DEF DedupeKey
  <2> HIDE DEF kx, ky
  <2>2. x = y
    <3>1. kx[3] = x /\ ky[3] = y
      BY <2>1
    <3>2. QED
      BY <1>1, <3>1, Zenon
  <2>3. QED
    BY <1>1, <2>2
<1>6. CASE x.type = type /\ x.id # NoId
  <2>1. kx = <<x.type, x.id, x.status>> /\ ky = <<y.type, y.id, y.status>>
    BY <1>3, <1>6, Zenon DEF DedupeKey
  <2> HIDE DEF kx, ky
  <2>2. x.status = y.status
    <3>1. kx[3] = x.status /\ ky[3] = y.status
      BY <2>1
    <3>2. QED
      BY <1>1, <3>1, Zenon
  <2>3. QED
    BY <1>1, <1>3, <2>2 DEF Parsed
<1>7. QED
  BY <1>4, <1>5, <1>6

\* The first of the reports with a key is taken as new.
LEMMA FirstIsFresh ==
  ASSUME NEW got, Len(got) \in Nat, DOMAIN got = 1..Len(got), NEW i \in DOMAIN got
  PROVE  \E j \in Fresh(got) : Key(got[j]) = Key(got[i])
<1> DEFINE S == {j \in DOMAIN got : Key(got[j]) = Key(got[i])}
<1>1. PICK j \in S : \A k \in S : j <= k
  <2>1. S \in SUBSET Int /\ S \subseteq 1..Len(got) /\ 1 \in Int /\ Len(got) \in Int /\ S # {}
    OBVIOUS
  <2> HIDE DEF S
  <2>2. QED
    BY <2>1, LeastOf, Zenon
<1>2. j \in DOMAIN got /\ Key(got[j]) = Key(got[i])
  BY <1>1
<1>3. ASSUME NEW k \in 1..(j - 1)
      PROVE  Key(got[k]) # Key(got[j])
  <2>1. k \in DOMAIN got /\ ~(j <= k)
    BY <1>2
  <2>2. k \notin S
    <3> HIDE DEF S
    <3>1. QED
      BY <1>1, <2>1, Zenon
  <2>3. QED
    BY <1>2, <2>1, <2>2, Zenon
<1>4. j \in Fresh(got)
  BY <1>2, <1>3, Zenon DEF Fresh
<1>5. QED
  BY <1>2, <1>4

\* Reports come in any order, repeatedly, and with ids that another account uses
\* too: a message ends in the furthest status reported of it, with a time of delivery
\* and of reading where its status tells of them, and delivered no later than read:
\* for any number of reports, of any number of accounts
\* (ParseWebhook, scopedDedupeKey, ApplyStatus).
THEOREM ReportsAddUpAlways ==
  ASSUME NEW Accounts, NEW id, NEW Statuses, NEW Rest,
         ask.got \in Seq(Accounts \X [type : Types, id : {id}, status : Statuses, rest : Rest])
  PROVE  StatusesAddUp
<1> DEFINE got == ask.got
           Bodies == [type : Types, id : {id}, status : Statuses, rest : Rest]
<1>1. /\ Len(got) \in Nat /\ DOMAIN got = 1..Len(got)
      /\ \A i \in DOMAIN got : got[i][2].id = id
  <2>1. \A i \in DOMAIN got : got[i][2] \in Bodies
    BY SMT
  <2>2. QED
    BY <2>1
<1> HIDE DEF got
<1>2. ASSUME NEW account
      PROVE  LET own == Kept(got, {i \in Fresh(got) : got[i][1] = account})
                 row == After([i \in DOMAIN own |-> Parsed(own[i][2]).status])
                 told == {Parsed(got[i][2]).status : i \in {i \in DOMAIN got : got[i][1] = account}}
             IN /\ \A s \in told \cup {"SENT"} : Rank(s) <= Rank(row.status)
                /\ row.status \in told \cup {"SENT"}
                /\ row.read # 0 => row.delivered \in 1..row.read
                /\ row.status \in {"DELIVERED", "READ"} => row.delivered # 0
                /\ row.status = "READ" => row.read # 0
  <2> DEFINE new == {i \in Fresh(got) : got[i][1] = account}
             q == Places(got, new)
             own == Kept(got, new)
             statuses == [i \in DOMAIN own |-> Parsed(own[i][2]).status]
             row == After(statuses)
             mine == {i \in DOMAIN got : got[i][1] = account}
             told == {Parsed(got[i][2]).status : i \in mine}
             N == Len(q)
  <2>1. /\ Chosen(q, Len(got), new) /\ N \in Nat /\ DOMAIN own = 1..N
        /\ own = [k \in 1..N |-> got[q[k]]]
    <3> HIDE DEF new
    <3> DEFINE places == Places(got, new)
    <3>1. /\ Chosen(places, Len(got), new) /\ Len(places) \in Nat /\ DOMAIN Kept(got, new) = 1..Len(places)
          /\ Kept(got, new) = [k \in 1..Len(places) |-> got[places[k]]]
      BY ONLY <1>1, KeptIs
    <3>2. QED
      BY <3>1
  <2>2. \A k \in 1..N : q[k] \in new /\ q[k] \in mine
    <3>1. \A i \in new : i \in mine
      BY DEF Fresh
    <3> HIDE DEF new, q, mine
    <3>2. QED
      BY <2>1, <3>1, Zenon DEF Chosen
  <2> HIDE DEF own, q
  <2>3. statuses = [k \in 1..N |-> Parsed(got[q[k]][2]).status]
    BY <2>1
  <2>4. Len(statuses) = N /\ \A k \in 1..N : statuses[k] = Parsed(got[q[k]][2]).status
    BY <2>1, <2>3
  <2> HIDE DEF statuses, N
  <2>5. Sums(statuses, N, row)
    <3>1. \A k \in 1..Len(statuses) : statuses[k] \in Reported
      BY <2>4, MappedIs
    <3>2. QED
      BY <2>1, <2>4, <3>1, StatusesAddUpAlways
  <2> HIDE DEF row
  <2>6. row.status = "SENT" \/ row.status \in told
    <3>1. row.status = "SENT" \/ \E m \in 1..N : statuses[m] = row.status
      BY <2>5 DEF Sums
    <3> HIDE DEF new, mine
    <3>2. \A m \in 1..N : statuses[m] \in told
      BY <2>2, <2>4
    <3>3. QED
      BY <3>1, <3>2
  <2>7. ASSUME NEW s \in told
        PROVE  \E m \in 1..N : statuses[m] = s
    <3>1. PICK i \in mine : s = Parsed(got[i][2]).status
      BY DEF told
    <3>2. i \in DOMAIN got /\ got[i][1] = account
      BY <3>1
    <3>3. PICK j \in Fresh(got) : Key(got[j]) = Key(got[i])
      BY <1>1, <3>2, FirstIsFresh
    <3>4. j \in DOMAIN got
      BY <3>3 DEF Fresh
    <3>5. got[j][1] = got[i][1] /\ Parsed(got[j][2]).status = Parsed(got[i][2]).status
      <4>1. got[j][2].id = got[i][2].id
        BY <1>1, <3>2, <3>4
      <4>2. ScopedDedupeKey(got[j][1], got[j][2]) = ScopedDedupeKey(got[i][1], got[i][2])
        BY <3>3 DEF Key
      <4>3. QED
        BY <4>1, <4>2, KeyTells
    <3>6. j \in new /\ j \in 1..Len(got)
      BY <1>1, <3>2, <3>3, <3>4, <3>5
    <3>7. PICK m \in 1..N : q[m] = j
      <4> HIDE DEF new
      <4>1. QED
        BY <2>1, <3>6, Zenon DEF Chosen, N
    <3>8. QED
      BY <2>4, <3>1, <3>5, <3>7
  <2>8. ASSUME NEW s \in told \cup {"SENT"}
        PROVE  Rank(s) <= Rank(row.status)
    <3>1. CASE s \in told
      BY <2>5, <2>7, <3>1 DEF Sums
    <3>2. CASE s = "SENT"
      <4>1. row.status = "SENT" \/ row.status = "DELIVERED" \/ row.status = "READ" \/ row.status = "FAILED"
        BY <2>5 DEF Sums, Rows
      <4>2. QED
        BY <3>2, <4>1, RanksApart, Zenon
    <3>3. QED
      BY <3>1, <3>2
  <2>9. /\ row.read # 0 => row.delivered \in 1..row.read
        /\ row.status \in {"DELIVERED", "READ"} => row.delivered # 0
        /\ row.status = "READ" => row.read # 0
    BY <2>5 DEF Sums
  <2> HIDE DEF told
  <2>10. row.status \in told \cup {"SENT"}
    BY <2>6
  <2>11. QED
    BY <2>8, <2>9, <2>10 DEF row, statuses, own, told
<1>3. QED
  BY <1>2, Zenon DEF StatusesAddUp, got

-----------------------------------------------------------------------------
(***************************************************************************)
(* The preview and the checklist.                                             *)
(***************************************************************************)
\* The first m numbers, enumerated in the order A.
Enumerates(f, m, A) ==
  /\ f \in [1..m -> 1..m]
  /\ \A v \in 1..m : \E k \in 1..m : f[k] = v
  /\ \A k, l \in 1..m : k < l => <<f[k], f[l]>> \in A

\* One more is put in its place.
LEMMA OneMore ==
  ASSUME NEW m \in Nat, NEW A,
         \A i, j, k \in 1..(m + 1) : <<i, j>> \in A /\ <<j, k>> \in A => <<i, k>> \in A,
         \A i, j \in 1..(m + 1) : i # j => <<i, j>> \in A \/ <<j, i>> \in A,
         NEW f, Enumerates(f, m, A)
  PROVE  \E g : Enumerates(g, m + 1, A)
<1> DEFINE n == m + 1
           later == {k \in 1..m : <<n, f[k]>> \in A}
           places == later \cup {n}
<1>1. PICK p \in places : \A k \in places : p <= k
  <2>1. places \in SUBSET Int /\ places \subseteq 1..n /\ places # {} /\ 1 \in Int /\ n \in Int
    OBVIOUS
  <2> HIDE DEF places, n
  <2>2. QED
    BY <2>1, LeastOf, Zenon
<1>2. /\ p \in 1..n /\ n \in Nat /\ 1..m \subseteq 1..n /\ n \in 1..n
      /\ p # n => p \in 1..m /\ <<n, f[p]>> \in A
      /\ \A k \in 1..m : k < p => <<n, f[k]>> \notin A
  <2>1. \A k \in 1..m : k < p => k \notin later
    <3>1. p \in 1..n /\ n \in Nat
      OBVIOUS
    <3>2. \A k \in 1..m : k < p => ~(p <= k)
      BY <3>1
    <3> HIDE DEF later
    <3>3. QED
      BY <1>1, <3>2
  <2>2. p \in later \/ p = n
    BY <1>1
  <2>3. QED
    BY <2>1, <2>2
<1> DEFINE g == [k \in 1..n |-> IF k < p THEN f[k] ELSE IF k = p THEN n ELSE f[k - 1]]
<1>3. /\ f \in [1..m -> 1..m]
      /\ \A v \in 1..m : \E k \in 1..m : f[k] = v
      /\ \A k, l \in 1..m : k < l => <<f[k], f[l]>> \in A
  BY DEF Enumerates
<1>4. \A k \in 1..m : f[k] \in 1..m /\ f[k] \in 1..n /\ f[k] # n
  BY <1>3
<1> HIDE DEF later, places
<1>5. ASSUME NEW k \in 1..n
      PROVE  /\ k < p => k \in 1..m /\ g[k] = f[k]
             /\ k = p => g[k] = n
             /\ p < k => k - 1 \in 1..m /\ g[k] = f[k - 1]
  BY <1>2
<1>6. \A k \in 1..m : /\ k < p => k \in 1..n /\ g[k] = f[k]
                      /\ p <= k => k + 1 \in 1..n /\ g[k + 1] = f[k]
  <2>1. ASSUME NEW k \in 1..m
        PROVE  /\ k < p => k \in 1..n /\ g[k] = f[k]
               /\ p <= k => k + 1 \in 1..n /\ g[k + 1] = f[k]
    <3>1. CASE k < p
      BY <1>2, <1>5, <3>1
    <3>2. CASE p <= k
      <4>1. k + 1 \in 1..n /\ p < k + 1 /\ (k + 1) - 1 = k
        BY <1>2, <3>2
      <4> HIDE DEF g, n
      <4>2. g[k + 1] = f[(k + 1) - 1]
        BY <1>5, <4>1, Zenon
      <4>3. ~(k < p)
        BY <1>2, <3>2
      <4>4. QED
        BY <4>1, <4>2, <4>3
    <3>3. QED
      BY <1>2, <3>1, <3>2
  <2>2. QED
    BY <2>1
<1>7. g \in [1..n -> 1..n]
  <2>1. \A k \in 1..n : g[k] \in 1..n
    <3>1. ASSUME NEW k \in 1..n
          PROVE  g[k] \in 1..n
      <4>1. k < p \/ k = p \/ p < k
        BY <1>2
      <4> HIDE DEF g, n
      <4>2. QED
        BY <1>2, <1>4, <1>5, <4>1, Zenon
    <3>2. QED
      BY <3>1
  <2>2. g = [k \in 1..n |-> g[k]]
    OBVIOUS
  <2> HIDE DEF g, n
  <2>3. QED
    BY <2>1, <2>2
<1> HIDE DEF g
<1>8. ASSUME NEW v \in 1..n
      PROVE  \E k \in 1..n : g[k] = v
  <2>1. CASE v = n
    BY <1>2, <1>5, <2>1
  <2>2. CASE v # n
    <3>1. v \in 1..m
      BY <2>2
    <3>2. PICK k \in 1..m : f[k] = v
      BY <1>3, <3>1
    <3>3. k < p \/ p <= k
      BY <1>2
    <3> HIDE DEF n
    <3>4. QED
      BY <1>6, <3>2, <3>3, Zenon
  <2>3. QED
    BY <2>1, <2>2
<1>9. ASSUME NEW k \in 1..n, NEW l \in 1..n, k < l
      PROVE  <<g[k], g[l]>> \in A
  <2>1. CASE l < p
    <3>1. k < p
      BY <1>2, <1>9, <2>1
    <3>2. k \in 1..m /\ l \in 1..m /\ g[k] = f[k] /\ g[l] = f[l]
      BY <1>5, <2>1, <3>1, Zenon
    <3>3. QED
      BY <1>3, <1>9, <3>2
  <2>2. CASE l = p
    <3>1. k \in 1..m /\ g[k] = f[k] /\ g[l] = n /\ k < p
      BY <1>2, <1>5, <1>9, <2>2
    <3>2. <<n, f[k]>> \notin A /\ f[k] \in 1..n /\ f[k] # n /\ n \in 1..n
      BY <1>2, <1>4, <3>1
    <3> HIDE DEF n
    <3>3. <<f[k], n>> \in A
      BY <3>2 DEF n
    <3>4. QED
      BY <3>1, <3>3
  <2>3. CASE p < l
    <3>1. l - 1 \in 1..m /\ g[l] = f[l - 1]
      BY <1>5, <2>3
    <3>2. CASE k < p
      <4>1. k \in 1..m /\ g[k] = f[k] /\ k < l - 1
        BY <1>2, <1>5, <2>3, <3>1, <3>2
      <4>2. QED
        BY <1>3, <3>1, <4>1
    <3>3. CASE k = p
      <4>1. p # n /\ p <= l - 1 /\ g[k] = n
        BY <1>2, <1>5, <2>3, <3>3
      <4>2. p \in 1..m /\ <<n, f[p]>> \in A
        BY <1>2, <4>1
      <4>3. p = l - 1 \/ p < l - 1
        BY <1>2, <4>1
      <4>4. CASE p = l - 1
        BY <3>1, <4>1, <4>2, <4>4
      <4>5. CASE p < l - 1
        <5>1. <<f[p], f[l - 1]>> \in A
          BY <1>3, <3>1, <4>2, <4>5
        <5>2. n \in 1..n /\ f[p] \in 1..n /\ f[l - 1] \in 1..n
          BY <1>2, <1>4, <3>1, <4>2
        <5> DEFINE x == f[p]
                   y == f[l - 1]
        <5> HIDE DEF x, y
        <5>3. <<n, x>> \in A /\ <<x, y>> \in A /\ x \in 1..n /\ y \in 1..n /\ n \in 1..n
          BY <4>2, <5>1, <5>2 DEF x, y
        <5>4. <<n, y>> \in A
          BY <5>3
        <5>5. QED
          BY <3>1, <4>1, <5>4 DEF y
      <4>6. QED
        BY <4>3, <4>4, <4>5
    <3>4. CASE p < k
      <4>1. k - 1 \in 1..m /\ g[k] = f[k - 1] /\ k - 1 < l - 1
        BY <1>5, <1>9, <3>4
      <4>2. QED
        BY <1>3, <3>1, <4>1
    <3>5. QED
      BY <1>2, <3>2, <3>3, <3>4
  <2>4. QED
    BY <1>2, <2>1, <2>2, <2>3
<1>10. Enumerates(g, n, A)
  <2> HIDE DEF n
  <2>1. QED
    BY <1>7, <1>8, <1>9, Zenon DEF Enumerates
<1>11. QED
  BY <1>10, Zenon

\* Finitely many can be sorted.
LEMMA CanBeSorted ==
  ASSUME NEW N \in Nat, NEW A,
         \A i, j, k \in 1..N : <<i, j>> \in A /\ <<j, k>> \in A => <<i, k>> \in A,
         \A i, j \in 1..N : i # j => <<i, j>> \in A \/ <<j, i>> \in A
  PROVE  \E f : Enumerates(f, N, A)
<1> DEFINE P(k) == \E f : Enumerates(f, k, A)
           K == {k \in 0..N : ~P(k)}
<1> HIDE DEF P
<1>1. SUFFICES K = {}
  <2>1. N \in 0..N
    OBVIOUS
  <2>2. P(N)
    BY <1>1, <2>1
  <2>3. QED
    BY <2>2 DEF P
<1>2. SUFFICES ASSUME K # {}
               PROVE  FALSE
  OBVIOUS
<1>3. PICK m \in K : \A k \in K : m <= k
  <2>1. K \in SUBSET Int /\ K \subseteq 0..N /\ 0 \in Int /\ N \in Int
    OBVIOUS
  <2> HIDE DEF K
  <2>2. QED
    BY <1>2, <2>1, LeastOf, Zenon
<1>4. m \in 0..N /\ ~P(m)
  BY <1>3
<1>5. P(0)
  <2> DEFINE f == [k \in 1..0 |-> k]
  <2>1. Enumerates(f, 0, A)
    BY DEF Enumerates
  <2> HIDE DEF f
  <2>2. QED
    BY <2>1 DEF P
<1>6. m # 0
  BY <1>4, <1>5
<1>7. m - 1 \in Nat /\ m - 1 \in 0..N /\ (m - 1) + 1 = m /\ ~(m <= m - 1)
  BY <1>4, <1>6
<1>8. P(m - 1)
  <2>1. m - 1 \notin K
    <3> HIDE DEF K
    <3>1. QED
      BY <1>3, <1>7, Zenon
  <2>2. QED
    BY <1>7, <2>1
<1>9. PICK f : Enumerates(f, m - 1, A)
  BY <1>8, Zenon DEF P
<1>10. 1..m \subseteq 1..N
  BY <1>4
<1>11. \E g : Enumerates(g, m, A)
  <2> DEFINE l == m - 1
  <2>1. l \in Nat /\ l + 1 = m /\ 1..(l + 1) \subseteq 1..N /\ Enumerates(f, l, A)
    BY <1>7, <1>9, <1>10
  <2> HIDE DEF l
  <2>2. \A i, j, k \in 1..(l + 1) : <<i, j>> \in A /\ <<j, k>> \in A => <<i, k>> \in A
    BY <2>1
  <2>3. \A i, j \in 1..(l + 1) : i # j => <<i, j>> \in A \/ <<j, i>> \in A
    BY <2>1
  <2>4. \E g : Enumerates(g, l + 1, A)
    BY ONLY <2>1, <2>2, <2>3, OneMore
  <2>5. QED
    BY <2>1, <2>4
<1>12. QED
  BY <1>4, <1>11, Zenon DEF P

\* The rows of a preview are in one order.
Sortable(rows) ==
  /\ Text(rows)
  /\ \A i \in DOMAIN rows : rows[i].rank \in Int /\ rows[i].key \in Int

LEMMA AboveIs ==
  ASSUME NEW rows, Sortable(rows), NEW i \in DOMAIN rows, NEW j \in DOMAIN rows
  PROVE  Above(rows, i, j) <=>
           \/ rows[i].rank < rows[j].rank
           \/ rows[i].rank = rows[j].rank /\ rows[i].key < rows[j].key
           \/ rows[i].rank = rows[j].rank /\ rows[i].key = rows[j].key /\ i < j
BY Zenon DEF Above, Precedes

LEMMA AboveIsOrder ==
  ASSUME NEW rows, Sortable(rows)
  PROVE  /\ \A i, j, k \in DOMAIN rows : Above(rows, i, j) /\ Above(rows, j, k) => Above(rows, i, k)
         /\ \A i, j \in DOMAIN rows : i # j => Above(rows, i, j) \/ Above(rows, j, i)
<1>1. ASSUME NEW i \in DOMAIN rows, NEW j \in DOMAIN rows, NEW k \in DOMAIN rows,
             Above(rows, i, j), Above(rows, j, k)
      PROVE  Above(rows, i, k)
  <2> DEFINE a == rows[i].rank  b == rows[j].rank  c == rows[k].rank
             x == rows[i].key   y == rows[j].key   z == rows[k].key
  <2>1. /\ a \in Int /\ b \in Int /\ c \in Int /\ x \in Int /\ y \in Int /\ z \in Int
        /\ i \in Int /\ j \in Int /\ k \in Int
    BY DEF Sortable, Text
  <2>2. /\ a < b \/ (a = b /\ x < y) \/ (a = b /\ x = y /\ i < j)
        /\ b < c \/ (b = c /\ y < z) \/ (b = c /\ y = z /\ j < k)
    BY <1>1, AboveIs
  <2> HIDE DEF a, b, c, x, y, z
  <2>3. a < c \/ (a = c /\ x < z) \/ (a = c /\ x = z /\ i < k)
    BY <2>1, <2>2
  <2>4. QED
    BY <2>3, AboveIs DEF a, b, c, x, y, z
<1>2. ASSUME NEW i \in DOMAIN rows, NEW j \in DOMAIN rows, i # j
      PROVE  Above(rows, i, j) \/ Above(rows, j, i)
  <2> DEFINE a == rows[i].rank  b == rows[j].rank
             x == rows[i].key   y == rows[j].key
  <2>1. a \in Int /\ b \in Int /\ x \in Int /\ y \in Int /\ i \in Int /\ j \in Int
    BY DEF Sortable, Text
  <2> HIDE DEF a, b, x, y
  <2>2. \/ a < b \/ (a = b /\ x < y) \/ (a = b /\ x = y /\ i < j)
        \/ b < a \/ (b = a /\ y < x) \/ (b = a /\ y = x /\ j < i)
    BY <1>2, <2>1
  <2>3. QED
    BY <2>2, AboveIs DEF a, b, x, y
<1>3. QED
  BY <1>1, <1>2

\* The preview lists every row once, in the order (sortPreview).
LEMMA SortedIs ==
  ASSUME NEW rows, Sortable(rows)
  PROVE  LET order == Sorted(rows) IN
         /\ order \in [DOMAIN rows -> DOMAIN rows]
         /\ \A i \in DOMAIN rows : \E k \in DOMAIN rows : order[k] = i
         /\ \A k, l \in DOMAIN rows : k < l => Above(rows, order[k], order[l])
<1> DEFINE N == Len(rows)
           A == {p \in (1..N) \X (1..N) : Above(rows, p[1], p[2])}
<1>1. N \in Nat /\ DOMAIN rows = 1..N
  BY DEF Sortable, Text
<1>2. \A i, j \in 1..N : <<i, j>> \in A <=> Above(rows, i, j)
  OBVIOUS
<1> HIDE DEF A, N
<1>3. /\ \A i, j, k \in 1..N : <<i, j>> \in A /\ <<j, k>> \in A => <<i, k>> \in A
      /\ \A i, j \in 1..N : i # j => <<i, j>> \in A \/ <<j, i>> \in A
  BY <1>1, <1>2, AboveIsOrder
<1>4. PICK f : Enumerates(f, N, A)
  BY <1>1, <1>3, CanBeSorted
<1>5. f \in [1..N -> 1..N]
  BY <1>4 DEF Enumerates
<1>6. \A k, l \in 1..N : k < l => Above(rows, f[k], f[l])
  <2>1. ASSUME NEW k \in 1..N, NEW l \in 1..N, k < l
        PROVE  Above(rows, f[k], f[l])
    <3>1. f[k] \in 1..N /\ f[l] \in 1..N
      BY <1>5
    <3>2. <<f[k], f[l]>> \in A
      BY <1>4, <2>1 DEF Enumerates
    <3>3. QED
      BY <1>2, <3>1, <3>2
  <2>2. QED
    BY <2>1
<1>7. f \in Surjection(DOMAIN rows, DOMAIN rows)
  BY <1>1, <1>4 DEF Enumerates, Surjection
<1>8. \E order \in Surjection(DOMAIN rows, DOMAIN rows) :
         \A k, l \in DOMAIN rows : k < l => Above(rows, order[k], order[l])
  BY <1>1, <1>6, <1>7
<1> DEFINE order == Sorted(rows)
<1>9. /\ order \in Surjection(DOMAIN rows, DOMAIN rows)
      /\ \A k, l \in DOMAIN rows : k < l => Above(rows, order[k], order[l])
  BY <1>8, Zenon DEF Sorted
<1>10. QED
  BY <1>9, Zenon DEF Surjection

\* The webinar of the preview, if there is one, is a moment.
LEMMA AnchorIsMoment ==
  ASSUME NEW c, c.zone \in Zone, c.clock \in Hours \cup {NoTime},
         c.start \in Int \cup {NoDay}, c.event \in Int \cup {NoTime}, c.daily \in BOOLEAN, NEW now \in Int
  PROVE  PreviewAnchor(c, now) \in Int \cup {NoTime}
<1> DEFINE r == RecurrenceOf(c)
           at == Candidates(r, now)
           coming == {i \in DOMAIN at : at[i] >= now}
           first == CHOOSE i \in coming : \A j \in coming : i <= j
           next == NextOccurrenceAfter(r, now)
<1>1. r.enabled = c.daily /\ r.zone = c.zone /\ r.clock = c.clock
  BY DEF RecurrenceOf
<1>2. r.start \in Int \cup {NoDay}
  BY ZoneTypes, HoursOfDay DEF RecurrenceOf, Day
<1>3. ASSUME NEW day \in Int, r.clock \in Hours
      PROVE  Occurrence(r, day) \in Int /\ AddDay(r.zone, day) \in Int
  <2> DEFINE d == Day(r.zone, day)
  <2>1. d \in Int /\ r.clock \in Int
    BY <1>1, <1>3, ZoneTypes, HoursOfDay, CalendarAssumption DEF Day, Hours
  <2>2. d * DayLength + r.clock \in Int /\ Wall(r.zone, day) + DayLength \in Int
    BY <1>1, <2>1, ZoneTypes, CalendarAssumption
  <2> HIDE DEF d, r
  <2>3. Occurrence(r, day) = Date(r.zone, d * DayLength + r.clock)
    BY DEF Occurrence, d
  <2>4. QED
    BY <1>1, <2>2, <2>3, ZoneTypes DEF AddDay
<1>4. FirstDay(r, now) \in Int
  <2>1. Day(r.zone, now) \in Int
    BY <1>1, ZoneTypes, HoursOfDay DEF Day
  <2>2. Day(r.zone, now) * DayLength \in Int /\ (r.start # NoDay => r.start * DayLength \in Int)
    BY <1>2, <2>1, CalendarAssumption
  <2> HIDE DEF r
  <2>3. QED
    BY <1>1, <2>2, ZoneTypes DEF FirstDay, StartOfDay
<1>5. CASE next = NoTime
  BY <1>5 DEF PreviewAnchor, NextOccurrence, Either
<1>6. CASE next # NoTime
  <2>1. r.enabled /\ Valid(r) /\ coming # {} /\ next = at[first]
    BY <1>6, Zenon DEF NextOccurrenceAfter
  <2>2. r.clock \in Hours
    BY <1>1, <2>1 DEF Valid
  <2> DEFINE one == FirstDay(r, now)
             two == AddDay(r.zone, one)
             three == AddDay(r.zone, two)
  <2>3. one \in Int /\ two \in Int /\ three \in Int
    BY <1>3, <1>4, <2>2
  <2>4. Occurrence(r, one) \in Int /\ Occurrence(r, two) \in Int /\ Occurrence(r, three) \in Int
    BY <1>3, <2>2, <2>3
  <2>5. at = <<Occurrence(r, one), Occurrence(r, two), Occurrence(r, three)>>
    BY Zenon DEF Candidates
  <2> HIDE DEF r, at, one, two, three
  <2>6. DOMAIN at = 1..3 /\ \A i \in 1..3 : at[i] \in Int
    BY <2>4, <2>5
  <2>7. first \in coming
    <3>1. \E i \in coming : \A j \in coming : i <= j
      <4>1. coming \in SUBSET Int /\ coming \subseteq 1..3 /\ coming # {} /\ 1 \in Int /\ 3 \in Int
        BY <2>1, <2>6
      <4> HIDE DEF coming
      <4>2. QED
        BY <4>1, LeastOf, Zenon
    <3> HIDE DEF coming
    <3>2. QED
      BY <3>1, Zenon
  <2>8. next \in Int
    BY <2>1, <2>6, <2>7
  <2>9. PreviewAnchor(c, now) = next
    BY <1>6 DEF PreviewAnchor, NextOccurrence, Either, r
  <2>10. QED
    BY <2>8, <2>9
<1>7. QED
  BY <1>5, <1>6

\* What the checklist finds against the order of sending is what the preview shows.
LEMMA PreviewShows ==
  ASSUME NEW c, Text(c.steps), Checked(c), NEW anchor \in Int
  PROVE  LET index == [i \in DOMAIN c.steps |-> c.steps[i].order]
             off(i) == c.steps[i].offset
         IN InOrder(c.steps, Preview(c.steps, anchor), Timed(c)) <=>
              \A i, j \in Timed(c) : i # j => off(i) # off(j) /\ ~(Precedes(index, i, j) /\ off(j) < off(i))
<1> DEFINE D == DOMAIN c.steps
           T == Timed(c)
           index == [i \in D |-> c.steps[i].order]
           off(i) == c.steps[i].offset
           rows == [i \in D |-> PreviewRow(anchor, c.steps[i])]
           order == Sorted(rows)
<1>1. /\ D = 1..Len(c.steps) /\ Len(c.steps) \in Nat /\ T \subseteq D /\ T \in SUBSET Int
      /\ \A i \in D : off(i) \in Int /\ index[i] \in Int
  BY DEF Text, Checked, Timed, Enabled
<1>2. anchor # NoTime
  BY CalendarAssumption
<1>3. ASSUME NEW i \in D
      PROVE  /\ rows[i].rank \in Int /\ rows[i].key \in Int
             /\ i \in T => rows[i].rank = 1 /\ rows[i].key = anchor + off(i)
  <2>1. rows[i] = PreviewRow(anchor, c.steps[i])
    OBVIOUS
  <2>2. off(i) \in Int
    BY <1>1
  <2>3. CASE c.steps[i].kind = "ON_TRIGGER"
    <3>1. rows[i].rank = 0 /\ rows[i].key = off(i)
      BY <2>1, <2>3 DEF PreviewRow
    <3>2. i \notin T
      BY <2>3 DEF Timed
    <3>3. QED
      BY <2>2, <3>1, <3>2
  <2>4. CASE c.steps[i].kind # "ON_TRIGGER"
    <3>1. rows[i].rank = 1 /\ rows[i].key = anchor + off(i)
      BY <1>2, <2>1, <2>4 DEF PreviewRow
    <3>2. QED
      BY <2>2, <3>1
  <2>5. QED
    BY <2>3, <2>4
<1>4. Text(rows) /\ DOMAIN rows = D
  <2>1. rows = [i \in 1..Len(c.steps) |-> rows[i]]
    BY <1>1
  <2> HIDE DEF rows
  <2>2. QED
    BY <1>1, <2>1, TextOf
<1>5. Preview(c.steps, anchor) = order
  BY DEF Preview
<1> HIDE DEF rows, index, off
<1>6. Sortable(rows)
  BY <1>3, <1>4 DEF Sortable
<1>7. /\ order \in [D -> D]
      /\ \A i \in D : \E k \in D : order[k] = i
      /\ \A k, l \in D : k < l => Above(rows, order[k], order[l])
  BY <1>4, <1>6, SortedIs
<1> HIDE DEF order
<1>8. ASSUME NEW i \in T, NEW j \in T, Above(rows, i, j)
      PROVE  off(i) < off(j) \/ (off(i) = off(j) /\ i < j)
  <2> DEFINE x == off(i)
             y == off(j)
  <2>1. i \in D /\ j \in D /\ x \in Int /\ y \in Int /\ i \in Int /\ j \in Int
    BY <1>1
  <2>2. rows[i].rank = 1 /\ rows[j].rank = 1 /\ rows[i].key = anchor + x /\ rows[j].key = anchor + y
    BY <1>3, <2>1
  <2>3. \/ rows[i].rank < rows[j].rank
        \/ rows[i].rank = rows[j].rank /\ rows[i].key < rows[j].key
        \/ rows[i].rank = rows[j].rank /\ rows[i].key = rows[j].key /\ i < j
    BY <1>4, <1>6, <1>8, <2>1, AboveIs
  <2> HIDE DEF x, y
  <2>4. anchor + x < anchor + y \/ (anchor + x = anchor + y /\ i < j)
    BY <2>2, <2>3
  <2>5. x < y \/ (x = y /\ i < j)
    BY <2>1, <2>4
  <2>6. QED
    BY <2>5 DEF x, y
<1> DEFINE fine == \A i, j \in T : i # j => off(i) # off(j) /\ ~(Precedes(index, i, j) /\ off(j) < off(i))
           shown == \A a, b \in D : a < b /\ order[a] \in T /\ order[b] \in T =>
                      Precedes(index, order[a], order[b]) /\ off(order[a]) # off(order[b])
<1>9. InOrder(c.steps, order, T) <=> shown
  <2>1. DOMAIN order = D
    BY <1>7
  <2>2. \A i \in T : i \in D
    BY <1>1
  <2>3. QED
    BY <2>1, <2>2, Zenon DEF InOrder, index, off
<1>10. ASSUME fine
       PROVE  shown
  <2>1. ASSUME NEW a \in D, NEW b \in D, a < b, order[a] \in T, order[b] \in T
        PROVE  Precedes(index, order[a], order[b]) /\ off(order[a]) # off(order[b])
    <3> DEFINE i == order[a]
               j == order[b]
    <3>1. Above(rows, i, j)
      BY <1>7, <2>1
    <3>2. i \in T /\ j \in T
      BY <2>1
    <3> HIDE DEF i, j
    <3>3. off(i) < off(j) \/ (off(i) = off(j) /\ i < j)
      BY <1>8, <3>1, <3>2
    <3>4. i # j /\ i \in D /\ j \in D /\ off(i) \in Int /\ off(j) \in Int
      BY <1>1, <3>2, <3>3
    <3>5. off(i) # off(j)
      BY <1>10, <3>2, <3>4
    <3>6. off(i) < off(j)
      BY <3>3, <3>5
    <3>7. ~Precedes(index, j, i)
      BY <1>10, <3>2, <3>4, <3>6
    <3>8. Precedes(index, i, j)
      <4>1. \A k \in T : index[k] \in Int
        BY <1>1
      <4>2. QED
        BY <1>1, <3>2, <3>4, <3>7, <4>1, PrecedesIsOrder
    <3>9. QED
      BY <3>5, <3>8 DEF i, j
  <2>2. QED
    BY <2>1
<1>11. ASSUME shown
       PROVE  fine
  <2>1. ASSUME NEW i \in T, NEW j \in T, i # j
        PROVE  off(i) # off(j) /\ ~(Precedes(index, i, j) /\ off(j) < off(i))
    <3>1. PICK a \in D : order[a] = i
      BY <1>1, <1>7
    <3>2. PICK b \in D : order[b] = j
      BY <1>1, <1>7
    <3>3. a # b /\ a \in Int /\ b \in Int
      BY <1>1, <2>1, <3>1, <3>2
    <3>4. CASE a < b
      <4>1. off(i) # off(j)
        BY <1>11, <3>1, <3>2, <3>4
      <4>2. Above(rows, i, j)
        BY <1>7, <3>1, <3>2, <3>4
      <4>3. off(i) < off(j) \/ (off(i) = off(j) /\ i < j)
        BY <1>8, <4>2
      <4>4. off(i) \in Int /\ off(j) \in Int
        BY <1>1
      <4>5. QED
        BY <4>1, <4>3, <4>4
    <3>5. CASE b < a
      <4>1. Precedes(index, j, i) /\ off(j) # off(i)
        BY <1>11, <3>1, <3>2, <3>5
      <4>2. ~Precedes(index, i, j)
        <5>1. \A k \in T : index[k] \in Int
          BY <1>1
        <5>2. QED
          BY <1>1, <4>1, <5>1, PrecedesIsOrder
      <4>3. QED
        BY <4>1, <4>2
    <3>6. QED
      BY <3>3, <3>4, <3>5
  <2>2. QED
    BY <2>1
<1>12. QED
  BY <1>5, <1>9, <1>10, <1>11 DEF index, off

\* A campaign without a blocking problem has what each of its steps needs.
LEMMA NothingMissing ==
  ASSUME NEW c, Checked(c), NEW now, Blocking(Validate(c, now)) = {}, NEW i \in Enabled(c)
  PROVE  /\ c.steps[i].faults = {}
         /\ IF c.steps[i].kind = "ON_TRIGGER" THEN c.steps[i].offset >= 0 ELSE PreviewAnchor(c, now) # NoTime
<1> DEFINE step == c.steps[i]
           of(j) == {Problem(fault, j, TRUE) : fault \in c.steps[j].faults}
                    \cup IfSo(c.steps[j].kind = "ON_TRIGGER" /\ c.steps[j].offset < 0, Problem("offset", j, TRUE))
<1>1. \A p \in Validate(c, now) : p.blocking # TRUE
  BY DEF Blocking
<1>2. ASSUME NEW field, NEW n
      PROVE  Problem(field, n, TRUE) \notin Validate(c, now)
  BY <1>1 DEF Problem
<1>3. \A p \in of(i) : p \in StepProblems(c)
  <2>1. StepProblems(c) = UNION {of(j) : j \in Enabled(c)}
    BY DEF StepProblems
  <2> HIDE DEF of
  <2>2. QED
    BY <2>1
<1>4. step.faults = {}
  <2>1. SUFFICES ASSUME NEW fault \in step.faults
                 PROVE  FALSE
    OBVIOUS
  <2>2. Problem(fault, i, TRUE) \in StepProblems(c)
    <3>1. Problem(fault, i, TRUE) \in of(i)
      BY <2>1
    <3>2. QED
      BY <1>3, <3>1
  <2>3. QED
    BY <1>2, <2>2, Zenon DEF Validate
<1>5. CASE step.kind = "ON_TRIGGER"
  <2>1. ~(step.offset < 0)
    <3>1. SUFFICES ASSUME step.offset < 0
                   PROVE  FALSE
      OBVIOUS
    <3>2. Problem("offset", i, TRUE) \in StepProblems(c)
      <4>1. Problem("offset", i, TRUE) \in of(i)
        BY <1>5, <3>1 DEF IfSo
      <4>2. QED
        BY <1>3, <4>1
    <3>3. QED
      BY <1>2, <3>2, Zenon DEF Validate
  <2>2. step.offset \in Int
    BY DEF Checked, Enabled
  <2>3. step.offset >= 0
    <3> HIDE DEF step
    <3>1. QED
      BY <2>1, <2>2
  <2>4. QED
    BY <1>4, <1>5, <2>3
<1>6. CASE step.kind # "ON_TRIGGER"
  <2>1. i \in Timed(c)
    BY <1>6 DEF Timed
  <2>2. c.event # NoTime
    <3>1. SUFFICES ASSUME c.event = NoTime
                   PROVE  FALSE
      OBVIOUS
    <3>2. Timed(c) # {}
      BY <2>1
    <3>3. Problem("event", 0, TRUE) \in Validate(c, now)
      BY <3>1, <3>2, Zenon DEF Validate, IfSo
    <3>4. QED
      BY <1>2, <3>3, Zenon
  <2>3. PreviewAnchor(c, now) # NoTime
    BY <2>2, Zenon DEF PreviewAnchor, Either
  <2>4. QED
    BY <1>4, <1>6, <2>3
<1>7. QED
  BY <1>5, <1>6

\* The checklist looks at neighbours only, and still warns whenever any two steps
\* are sent against their order, or at one moment; and a campaign it lets pass has
\* a template and a moment for each step.  It has nothing to say of the order just
\* when the preview lists the steps as they are numbered, no two at one moment: for
\* a campaign of any number of steps (Validate, scheduleConflicts, sortPreview).
THEOREM ChecklistIsCompleteAlways ==
  ASSUME ask.now \in Int, Text(ask.campaign.steps), Checked(ask.campaign),
         ask.campaign.zone \in Zone, ask.campaign.clock \in Hours \cup {NoTime}, ask.campaign.daily \in BOOLEAN,
         ask.campaign.start \in Int \cup {NoDay}, ask.campaign.event \in Int \cup {NoTime}
  PROVE  ChecklistIsComplete
<1> DEFINE c == ask.campaign
           problems == Validate(c, ask.now)
           anchor == PreviewAnchor(c, ask.now)
           T == Timed(c)
           pairs == {p \in T \X T : p[1] # p[2]}
           index == [i \in DOMAIN c.steps |-> c.steps[i].order]
           off(i) == c.steps[i].offset
           against == \E p \in pairs : Precedes(index, p[1], p[2]) /\ off(p[2]) < off(p[1])
           together == \E p \in pairs : off(p[1]) = off(p[2])
           warned(field) == \E p \in problems : p.field = field
<1>1. anchor \in Int \cup {NoTime}
  BY AnchorIsMoment
<1>2. ASSUME anchor # NoTime
      PROVE  /\ warned("order") <=> against
             /\ warned("moment") <=> together
             /\ ~(warned("order") \/ warned("moment")) <=> InOrder(c.steps, Preview(c.steps, anchor), T)
  <2>1. anchor \in Int
    BY <1>1, <1>2
  <2>2. /\ warned("order") <=> \E i, j \in T : Precedes(index, i, j) /\ off(j) < off(i)
        /\ warned("moment") <=> \E i, j \in T : i # j /\ off(i) = off(j)
    BY <2>1, ChecklistFindsEverything
  <2>3. \A i \in T : index[i] \in Int /\ ~Precedes(index, i, i)
    BY DEF Timed, Enabled, Checked, Precedes
  <2>4. InOrder(c.steps, Preview(c.steps, anchor), T) <=>
          \A i, j \in T : i # j => off(i) # off(j) /\ ~(Precedes(index, i, j) /\ off(j) < off(i))
    BY <2>1, PreviewShows
  <2> HIDE DEF T, index, off, problems, anchor
  <2>5. against <=> \E i, j \in T : Precedes(index, i, j) /\ off(j) < off(i)
    <3>1. ASSUME NEW i \in T, NEW j \in T, Precedes(index, i, j) /\ off(j) < off(i)
          PROVE  against
      <4>1. i # j
        BY <2>3, <3>1
      <4>2. <<i, j>> \in pairs
        BY <4>1
      <4>3. QED
        BY <3>1, <4>2
    <3>2. QED
      BY <3>1
  <2>6. together <=> \E i, j \in T : i # j /\ off(i) = off(j)
    <3>1. ASSUME NEW i \in T, NEW j \in T, i # j, off(i) = off(j)
          PROVE  together
      <4>1. <<i, j>> \in pairs
        BY <3>1
      <4>2. QED
        BY <3>1, <4>1
    <3>2. QED
      BY <3>1
  <2> HIDE DEF against, together, warned
  <2>7. ~(warned("order") \/ warned("moment")) <=> InOrder(c.steps, Preview(c.steps, anchor), T)
    <3>1. (\E i, j \in T : Precedes(index, i, j) /\ off(j) < off(i))
            <=> \E i, j \in T : i # j /\ Precedes(index, i, j) /\ off(j) < off(i)
      BY <2>3, Zenon
    <3>2. QED
      BY <2>2, <2>4, <3>1, Zenon
  <2>8. QED
    BY <2>2, <2>5, <2>6, <2>7
<1>3. ASSUME Blocking(problems) = {}, NEW i \in Enabled(c)
      PROVE  /\ c.steps[i].faults = {}
             /\ IF c.steps[i].kind = "ON_TRIGGER" THEN c.steps[i].offset >= 0 ELSE anchor # NoTime
  BY <1>3, NothingMissing
<1>4. QED
  BY <1>2, <1>3, Zenon DEF ChecklistIsComplete

-----------------------------------------------------------------------------
(***************************************************************************)
(* What spelling does not change: a list of the places that are kept is told *)
(* by them, so two texts whose kept places answer one another read alike.    *)
(***************************************************************************)
\* The places that are kept are places, and are kept.
LEMMA ChosenTypes ==
  ASSUME NEW N \in Nat, NEW kept, NEW q, Chosen(q, N, kept)
  PROVE  Len(q) \in Nat /\ \A k \in 1..Len(q) : q[k] \in 1..N /\ q[k] \in kept
BY DEF Chosen

\* There is one list of the places that are kept.
LEMMA ChosenOnce ==
  ASSUME NEW N \in Nat, NEW kept, NEW a, NEW b, Chosen(a, N, kept), Chosen(b, N, kept)
  PROVE  a = b
<1> DEFINE Apart(x, y) == {k \in 1..Len(x) : k \in 1..Len(y) => x[k] # y[k]}
<1>1. ASSUME NEW x, NEW y, Chosen(x, N, kept), Chosen(y, N, kept)
      PROVE  Apart(x, y) = {}
  <2>1. /\ Len(x) \in Nat /\ \A k \in 1..Len(x) : x[k] \in 1..N /\ x[k] \in kept
        /\ Len(y) \in Nat /\ \A k \in 1..Len(y) : y[k] \in 1..N /\ y[k] \in kept
    BY <1>1, ChosenTypes
  <2>2. /\ \A k, l \in 1..Len(x) : k < l => x[k] < x[l]
        /\ \A k, l \in 1..Len(y) : k < l => y[k] < y[l]
        /\ \A i \in 1..N : i \in kept => \E k \in 1..Len(x) : x[k] = i
        /\ \A i \in 1..N : i \in kept => \E k \in 1..Len(y) : y[k] = i
    BY <1>1 DEF Chosen
  <2>3. SUFFICES ASSUME Apart(x, y) # {}
                 PROVE  FALSE
    OBVIOUS
  <2>4. PICK m \in Apart(x, y) : \A k \in Apart(x, y) : m <= k
    <3>1. Apart(x, y) \in SUBSET Int /\ Apart(x, y) \subseteq 1..Len(x) /\ 1 \in Int /\ Len(x) \in Int
      BY <2>1
    <3> HIDE DEF Apart
    <3>2. QED
      BY <2>3, <3>1, LeastOf, Zenon
  <2>5. m \in 1..Len(x) /\ (m \in 1..Len(y) => x[m] # y[m])
    OBVIOUS
  <2>6. \A k \in 1..Len(x) : k < m => k \in 1..Len(y) /\ x[k] = y[k]
    <3>1. SUFFICES ASSUME NEW k \in 1..Len(x), k < m
                   PROVE  k \notin Apart(x, y)
      OBVIOUS
    <3>2. ~(m <= k)
      BY <2>1, <2>5, <3>1
    <3> HIDE DEF Apart
    <3>3. QED
      BY <2>4, <3>2, Zenon
  <2> HIDE DEF Apart
  <2>7. PICK k \in 1..Len(y) : y[k] = x[m]
    BY <2>1, <2>2, <2>5
  <2>8. ~(k < m)
    <3>1. SUFFICES ASSUME k < m
                   PROVE  FALSE
      OBVIOUS
    <3>2. k \in 1..Len(x)
      BY <2>1, <2>5, <3>1
    <3>3. x[k] = x[m] /\ x[k] < x[m]
      BY <2>2, <2>5, <2>6, <2>7, <3>1, <3>2
    <3>4. QED
      BY <2>1, <2>5, <3>3
  <2>9. k # m
    BY <2>5, <2>7
  <2>10. m \in 1..Len(y) /\ y[m] < x[m]
    <3>1. m \in 1..Len(y) /\ m < k
      BY <2>1, <2>5, <2>8, <2>9
    <3>2. QED
      BY <2>2, <2>7, <3>1
  <2>11. PICK l \in 1..Len(x) : x[l] = y[m]
    BY <2>1, <2>2, <2>10
  <2>12. l < m
    <3>1. l = m \/ m < l \/ l < m
      BY <2>1, <2>5
    <3>2. ~(l = m)
      BY <2>5, <2>10, <2>11
    <3>3. ~(m < l)
      <4>1. m < l => x[m] < x[l]
        BY <2>2, <2>5
      <4>2. x[m] \in Int /\ x[l] \in Int /\ ~(x[m] < x[l])
        BY <2>1, <2>5, <2>10, <2>11
      <4>3. QED
        BY <4>1, <4>2
    <3>4. QED
      BY <3>1, <3>2, <3>3
  <2>13. x[l] = y[l] /\ l \in 1..Len(y) /\ y[l] < y[m]
    BY <2>2, <2>6, <2>10, <2>12
  <2>14. QED
    BY <2>1, <2>10, <2>11, <2>13
<1>2. Apart(a, b) = {} /\ Apart(b, a) = {}
  BY <1>1
<1>3. /\ a \in Seq(1..N) /\ b \in Seq(1..N)
      /\ \A k \in 1..Len(a) : k \in 1..Len(b) /\ a[k] = b[k]
      /\ \A k \in 1..Len(b) : k \in 1..Len(a)
  BY <1>2 DEF Chosen
<1>4. Len(a) = Len(b)
  <2>1. Len(a) \in Nat /\ Len(b) \in Nat
    BY <1>3
  <2>2. ASSUME NEW n \in Nat, NEW m \in Nat, \A k \in 1..n : k \in 1..m
        PROVE  n <= m
    <3>1. n = 0 \/ n \in 1..n
      BY <2>2
    <3>2. QED
      BY <2>2, <3>1
  <2>3. Len(a) <= Len(b) /\ Len(b) <= Len(a)
    BY <1>3, <2>1, <2>2
  <2>4. QED
    BY <2>1, <2>3
<1>5. QED
  BY <1>3, <1>4

\* What is kept of what is kept.
LEMMA ChosenOfChosen ==
  ASSUME NEW N \in Nat, NEW kept, NEW q, Chosen(q, N, kept), NEW among, NEW p, Chosen(p, Len(q), among),
         NEW both, \A k \in 1..Len(q) : k \in among <=> q[k] \in both,
         \A i \in 1..N : i \in both => i \in kept
  PROVE  Chosen([k \in 1..Len(p) |-> q[p[k]]], N, both)
<1> DEFINE r == [k \in 1..Len(p) |-> q[p[k]]]
<1>1. Len(q) \in Nat /\ \A k \in 1..Len(q) : q[k] \in 1..N
  BY DEF Chosen
<1>2. Len(p) \in Nat /\ \A k \in 1..Len(p) : p[k] \in 1..Len(q) /\ p[k] \in among
  BY <1>1 DEF Chosen
<1>3. r \in Seq(1..N) /\ Len(r) = Len(p)
  BY <1>1, <1>2
<1>4. \A k \in 1..Len(p) : r[k] = q[p[k]]
  OBVIOUS
<1> HIDE DEF r
<1>5. \A k \in 1..Len(r) : r[k] \in both
  BY <1>2, <1>3, <1>4
<1>6. \A k, l \in 1..Len(r) : k < l => r[k] < r[l]
  <2>1. SUFFICES ASSUME NEW k \in 1..Len(p), NEW l \in 1..Len(p), k < l
                 PROVE  q[p[k]] < q[p[l]]
    BY <1>3, <1>4
  <2>2. p[k] < p[l]
    BY <2>1 DEF Chosen
  <2>3. QED
    BY <1>2, <2>2 DEF Chosen
<1>7. \A i \in 1..N : i \in both => \E k \in 1..Len(r) : r[k] = i
  <2>1. SUFFICES ASSUME NEW i \in 1..N, i \in both
                 PROVE  \E k \in 1..Len(p) : q[p[k]] = i
    BY <1>3, <1>4
  <2>2. PICK m \in 1..Len(q) : q[m] = i
    BY <2>1 DEF Chosen
  <2>3. m \in among
    BY <2>1, <2>2
  <2>4. PICK k \in 1..Len(p) : p[k] = m
    BY <2>3 DEF Chosen
  <2>5. QED
    BY <2>2, <2>4
<1>8. QED
  BY <1>3, <1>5, <1>6, <1>7 DEF Chosen, r

\* The places kept up to n and those kept up to m answer one another in order.
Moves(g, n, kept, m, other) ==
  /\ \A i \in 1..n : i \in kept => g[i] \in 1..m /\ g[i] \in other
  /\ \A i, j \in 1..n : i \in kept /\ j \in kept /\ i < j => g[i] < g[j]
  /\ \A j \in 1..m : j \in other => \E i \in 1..n : i \in kept /\ g[i] = j

\* Then the one list is made of the other.
LEMMA PlacesMove ==
  ASSUME NEW s, NEW t, Len(s) \in Nat, Len(t) \in Nat, NEW kept, NEW other, NEW g,
         Moves(g, Len(s), kept, Len(t), other)
  PROVE  Places(t, other) = [k \in 1..Len(Places(s, kept)) |-> g[Places(s, kept)[k]]]
<1>0. /\ \A i \in 1..Len(s) : i \in kept => g[i] \in 1..Len(t) /\ g[i] \in other
      /\ \A i, j \in 1..Len(s) : i \in kept /\ j \in kept /\ i < j => g[i] < g[j]
      /\ \A j \in 1..Len(t) : j \in other => \E i \in 1..Len(s) : i \in kept /\ g[i] = j
  BY DEF Moves
<1> USE <1>0
<1> DEFINE q == Places(s, kept)
           r == [k \in 1..Len(q) |-> g[q[k]]]
<1>1. Chosen(q, Len(s), kept) /\ Chosen(Places(t, other), Len(t), other)
  BY PlacesAre
<1> HIDE DEF q
<1>2. Len(q) \in Nat /\ \A k \in 1..Len(q) : q[k] \in 1..Len(s) /\ q[k] \in kept
  BY <1>1 DEF Chosen
<1>3. r \in Seq(1..Len(t)) /\ Len(r) = Len(q)
  BY <1>2
<1>4. \A k \in 1..Len(q) : r[k] = g[q[k]]
  OBVIOUS
<1> HIDE DEF r
<1>5. \A k \in 1..Len(r) : r[k] \in other
  BY <1>2, <1>3, <1>4
<1>6. \A k, l \in 1..Len(r) : k < l => r[k] < r[l]
  <2>1. SUFFICES ASSUME NEW k \in 1..Len(q), NEW l \in 1..Len(q), k < l
                 PROVE  g[q[k]] < g[q[l]]
    BY <1>3, <1>4
  <2>2. q[k] < q[l]
    BY <1>1, <2>1 DEF Chosen
  <2>3. QED
    BY <1>2, <2>2
<1>7. \A j \in 1..Len(t) : j \in other => \E k \in 1..Len(r) : r[k] = j
  <2>1. SUFFICES ASSUME NEW j \in 1..Len(t), j \in other
                 PROVE  \E k \in 1..Len(q) : g[q[k]] = j
    BY <1>3, <1>4
  <2>2. PICK i \in 1..Len(s) : i \in kept /\ g[i] = j
    BY <2>1
  <2>3. PICK k \in 1..Len(q) : q[k] = i
    BY <1>1, <2>2 DEF Chosen
  <2>4. QED
    BY <2>2, <2>3
<1>8. Chosen(r, Len(t), other)
  BY <1>3, <1>5, <1>6, <1>7 DEF Chosen
<1>9. Places(t, other) = r
  BY <1>1, <1>8, ChosenOnce
<1>10. QED
  BY <1>9 DEF q, r

-----------------------------------------------------------------------------
(***************************************************************************)
(* A text is normalised by what stays of it: each character that is neither  *)
(* invisible nor the mark of the one before, folded, and one blank between   *)
(* two words.                                                                *)
(***************************************************************************)
\* A letter of a text with a mark after it, and that mark.
Base(s, i) == i < Len(s) /\ s[i] \in {"a", "A"} /\ s[i + 1] = ":"
Mark(s, i) == i > 1 /\ Base(s, i - 1)

\* A character that is neither invisible nor part of the one before it.
Visible(s, i) == ~Mark(s, i) /\ ~Ignorable(s[i])

\* A blank stays if it is the last before a word and there is a word before it.
Stays(s, i) ==
  /\ Visible(s, i)
  /\ Blank(s[i]) =>
       /\ \E j \in 1..(i - 1) : Visible(s, j) /\ ~Blank(s[j])
       /\ \E j \in (i + 1)..Len(s) : /\ Visible(s, j) /\ ~Blank(s[j])
                                     /\ \A k \in (i + 1)..(j - 1) : ~Visible(s, k)

Staying(s) == {i \in DOMAIN s : Stays(s, i)}

\* What a character that stays becomes.
Letter(s, i) == IF ~Base(s, i) THEN s[i] ELSE IF s[i] = "a" THEN "a:" ELSE "A:"
Image(s, i) == IF Blank(s[i]) THEN " " ELSE FoldCase(FoldLookalike(Letter(s, i)))

\* A letter is composed of a letter, whatever it is composed with.
LEMMA LetterIs ==
  ASSUME NEW s, NEW i
  PROVE  (Blank(Letter(s, i)) <=> Blank(s[i])) /\ (Ignorable(Letter(s, i)) <=> Ignorable(s[i]))
<1>1. CASE Base(s, i)
  <2>1. s[i] \in {"a", "A"} /\ Letter(s, i) \in {"a:", "A:"}
    BY <1>1 DEF Base, Letter
  <2>2. \A c \in {"a", "A", "a:", "A:"} : ~Blank(c) /\ ~Ignorable(c)
    BY DEF Blank, Ignorable
  <2>3. QED
    BY <2>1, <2>2
<1>2. CASE ~Base(s, i)
  BY <1>2 DEF Letter
<1>3. QED
  BY <1>1, <1>2

\* Capitals and look-alikes are letters and signs, and fold once and for all.
LEMMA FoldedIs ==
  ASSUME NEW c
  PROVE  LET folded == FoldCase(FoldLookalike(c)) IN
         /\ FoldCase(FoldLookalike(folded)) = folded
         /\ Blank(folded) <=> Blank(c)
         /\ Ignorable(folded) <=> Ignorable(c)
         /\ folded = ":" <=> c = ":"
         /\ folded \in {"a", "A"} <=> c \in {"a", "A"}
<1> DEFINE folded == FoldCase(FoldLookalike(c))
           plain(x) == ~Blank(x) /\ ~Ignorable(x) /\ x # ":"
           Same(x, y) == /\ FoldCase(FoldLookalike(x)) = x
                         /\ Blank(x) <=> Blank(y)
                         /\ Ignorable(x) <=> Ignorable(y)
                         /\ x = ":" <=> y = ":"
                         /\ x \in {"a", "A"} <=> y \in {"a", "A"}
<1>1. ASSUME c = "A"
      PROVE  Same(folded, c)
  <2>1. folded = "a" /\ FoldCase(FoldLookalike("a")) = "a"
    BY <1>1, SMT DEF FoldCase, FoldLookalike
  <2>2. plain("a") /\ plain("A")
    BY SMT DEF Blank, Ignorable
  <2>3. Same("a", "A")
    BY <2>1, <2>2, Zenon
  <2> HIDE DEF Same, folded
  <2>4. QED
    BY <1>1, <2>1, <2>3, Zenon
<1>2. ASSUME c = "A:"
      PROVE  Same(folded, c)
  <2>1. folded = "a:" /\ FoldCase(FoldLookalike("a:")) = "a:"
    BY <1>2, SMT DEF FoldCase, FoldLookalike
  <2>2. plain("a:") /\ plain("A:")
    BY SMT DEF Blank, Ignorable
  <2>3. "a:" \notin {"a", "A"} /\ "A:" \notin {"a", "A"}
    BY SMT
  <2>4. Same("a:", "A:")
    BY <2>1, <2>2, <2>3, Zenon
  <2> HIDE DEF Same, folded
  <2>5. QED
    BY <1>2, <2>1, <2>4, Zenon
<1>3. ASSUME c = "--"
      PROVE  Same(folded, c)
  <2>1. folded = "-" /\ FoldCase(FoldLookalike("-")) = "-"
    BY <1>3, SMT DEF FoldCase, FoldLookalike
  <2>2. plain("-") /\ plain("--")
    BY SMT DEF Blank, Ignorable
  <2>3. "-" \notin {"a", "A"} /\ "--" \notin {"a", "A"}
    BY SMT
  <2>4. Same("-", "--")
    BY <2>1, <2>2, <2>3, Zenon
  <2> HIDE DEF Same, folded
  <2>5. QED
    BY <1>3, <2>1, <2>4, Zenon
<1>4. ASSUME c # "A" /\ c # "A:" /\ c # "--"
      PROVE  Same(folded, c)
  <2>1. folded = c
    BY <1>4, SMT DEF FoldCase, FoldLookalike
  <2>2. QED
    BY <2>1, Zenon
<1>5. Same(folded, c)
  <2> HIDE DEF Same, folded
  <2>1. QED
    BY <1>1, <1>2, <1>3, <1>4, Zenon
<1>6. QED
  BY <1>5, Zenon

\* A list of places runs with the places, and its neighbours have none between them.
LEMMA ChosenRuns ==
  ASSUME NEW N \in Nat, NEW kept, NEW q, Chosen(q, N, kept), NEW k \in 1..Len(q), NEW l \in 1..Len(q)
  PROVE  /\ q[k] < q[l] <=> k < l
         /\ \A i \in 1..N : q[k] < i /\ i < q[l] /\ i \in kept =>
              \E j \in 1..Len(q) : k < j /\ j < l /\ q[j] = i
<1>1. /\ Len(q) \in Nat /\ \A j \in 1..Len(q) : q[j] \in 1..N
      /\ \A a, b \in 1..Len(q) : a < b => q[a] < q[b]
      /\ \A i \in 1..N : i \in kept => \E j \in 1..Len(q) : q[j] = i
  BY DEF Chosen
<1>2. ASSUME NEW a \in 1..Len(q), NEW b \in 1..Len(q), q[a] < q[b]
      PROVE  a < b
  <2>1. a < b \/ a = b \/ b < a
    BY <1>1
  <2>2. b < a => q[b] < q[a]
    BY <1>1
  <2>3. QED
    BY <1>1, <1>2, <2>1, <2>2
<1>3. q[k] < q[l] <=> k < l
  BY <1>1, <1>2
<1>4. ASSUME NEW i \in 1..N, q[k] < i, i < q[l], i \in kept
      PROVE  \E j \in 1..Len(q) : k < j /\ j < l /\ q[j] = i
  <2>1. PICK j \in 1..Len(q) : q[j] = i
    BY <1>1, <1>4
  <2>2. k < j /\ j < l
    BY <1>2, <1>4, <2>1
  <2>3. QED
    BY <2>1, <2>2
<1>5. QED
  BY <1>3, <1>4

\* A text is normalised by what stays of it.
LEMMA NormalizeIs ==
  ASSUME NEW s, Text(s)
  PROVE  Normalize(s) = [k \in 1..Len(Places(s, Staying(s))) |-> Image(s, Places(s, Staying(s))[k])]
<1> DEFINE N == Len(s)
           unmarked == {i \in DOMAIN s : ~Mark(s, i)}
           q == Places(s, unmarked)
           whole == Composed(s)
           heard == {m \in DOMAIN whole : ~Ignorable(whole[m])}
           p == Places(whole, heard)
           seen == Kept(whole, heard)
           v == [k \in 1..Len(p) |-> q[p[k]]]
           inner(i) == \E j, k \in DOMAIN seen : j < i /\ i < k /\ ~Blank(seen[j]) /\ ~Blank(seen[k])
           spaced == [i \in DOMAIN seen |-> IF Blank(seen[i]) THEN " " ELSE seen[i]]
           single == {i \in DOMAIN seen : ~Blank(seen[i]) \/ (inner(i) /\ ~Blank(seen[i + 1]))}
           r == Places(spaced, single)
           shown == Kept(spaced, single)
           w == [k \in 1..Len(r) |-> v[r[k]]]
<1>1. N \in Nat /\ DOMAIN s = 1..N
  BY DEF Text
<1>2. Chosen(q, N, unmarked)
  BY <1>1, PlacesAre
<1>3. Len(q) \in Nat /\ DOMAIN q = 1..Len(q) /\ \A k \in 1..Len(q) : q[k] \in 1..N /\ ~Mark(s, q[k])
  <2>1. Len(q) \in Nat /\ DOMAIN q = 1..Len(q) /\ \A k \in 1..Len(q) : q[k] \in 1..N /\ q[k] \in unmarked
    BY <1>1, <1>2, ChosenTypes DEF Chosen
  <2> HIDE DEF q
  <2>2. QED
    BY <2>1
<1>4. whole = [k \in 1..Len(q) |-> Letter(s, q[k])]
  <2>1. whole = [k \in DOMAIN q |-> Letter(s, q[k])]
    BY Zenon DEF Composed, Mark, Base, Letter
  <2> HIDE DEF q, whole
  <2>2. QED
    BY <1>3, <2>1
<1>5. Len(whole) = Len(q) /\ DOMAIN whole = 1..Len(q) /\ \A k \in 1..Len(q) : whole[k] = Letter(s, q[k])
  <2> HIDE DEF q, whole
  <2>1. QED
    BY <1>3, <1>4
<1>6. /\ Chosen(p, Len(q), heard) /\ Len(p) \in Nat /\ Len(seen) = Len(p) /\ DOMAIN seen = 1..Len(p)
      /\ seen = [k \in 1..Len(p) |-> whole[p[k]]]
  <2> HIDE DEF q, whole, heard
  <2>1. Len(whole) \in Nat
    BY <1>3, <1>5
  <2>2. QED
    BY <1>5, <2>1, KeptIs
<1> HIDE DEF q, p, whole, seen
<1>7. \A k \in 1..Len(p) : p[k] \in 1..Len(q) /\ seen[k] = Letter(s, v[k]) /\ v[k] \in 1..N
  BY <1>3, <1>5, <1>6, ChosenTypes
<1> DEFINE visible == {i \in DOMAIN s : Visible(s, i)}
<1>8. Chosen(v, N, visible)
  <2>1. ASSUME NEW k \in 1..Len(q)
        PROVE  k \in heard <=> q[k] \in visible
    <3>1. k \in heard <=> ~Ignorable(s[q[k]])
      BY <1>5, LetterIs
    <3>2. q[k] \in visible <=> ~Ignorable(s[q[k]])
      BY <1>1, <1>3 DEF Visible
    <3>3. QED
      BY <3>1, <3>2
  <2>2. \A i \in 1..N : i \in visible => i \in unmarked
    BY DEF Visible
  <2> HIDE DEF unmarked, heard, visible
  <2>3. QED
    BY <1>1, <1>2, <1>6, <2>1, <2>2, ChosenOfChosen
<1>9. Len(v) = Len(p) /\ \A k \in 1..Len(p) : v[k] \in 1..N /\ Visible(s, v[k])
  <2>1. Len(v) = Len(p)
    <3>1. \A k \in 1..Len(p) : q[p[k]] \in 1..N
      BY <1>7
    <3>2. v \in Seq(1..N)
      BY <1>8 DEF Chosen
    <3>3. QED
      BY <1>6, <3>2
  <2> HIDE DEF v
  <2>2. QED
    BY <1>1, <1>8, <2>1, ChosenTypes
<1>10. \A k \in 1..Len(p) : Blank(seen[k]) <=> Blank(s[v[k]])
  BY <1>7, LetterIs
<1>11. /\ Chosen(r, Len(p), single) /\ Len(r) \in Nat /\ Len(shown) = Len(r) /\ DOMAIN shown = 1..Len(r)
       /\ shown = [k \in 1..Len(r) |-> spaced[r[k]]]
  <2>1. Len(spaced) = Len(p)
    BY <1>6
  <2> HIDE DEF spaced, single
  <2>2. QED
    BY <1>6, <2>1, KeptIs
<1>12. Normalize(s) = [i \in DOMAIN shown |-> FoldCase(FoldLookalike(shown[i]))]
  BY Zenon DEF Normalize, Collapsed, whole, seen
<1> HIDE DEF r, shown, v
<1>13. \A k \in 1..Len(r) : r[k] \in 1..Len(p) /\ w[k] = v[r[k]] /\ w[k] \in 1..N
  <2> HIDE DEF single
  <2>1. QED
    BY <1>6, <1>9, <1>11, ChosenTypes
<1>14. ASSUME NEW m \in 1..Len(p)
       PROVE  m \in single <=> v[m] \in Staying(s)
  <2>1. v[m] \in Staying(s) <=>
          (Blank(s[v[m]]) =>
             /\ \E j \in 1..(v[m] - 1) : Visible(s, j) /\ ~Blank(s[j])
             /\ \E j \in (v[m] + 1)..N : /\ Visible(s, j) /\ ~Blank(s[j])
                                         /\ \A k \in (v[m] + 1)..(j - 1) : ~Visible(s, k))
    BY <1>1, <1>9 DEF Staying, Stays
  <2>2. (\E j \in 1..(v[m] - 1) : Visible(s, j) /\ ~Blank(s[j])) <=> \E j \in 1..Len(p) : j < m /\ ~Blank(seen[j])
    <3>1. ASSUME NEW j \in 1..Len(p), j < m, ~Blank(seen[j])
          PROVE  v[j] \in 1..(v[m] - 1) /\ Visible(s, v[j]) /\ ~Blank(s[v[j]])
      <4>1. v[j] < v[m]
        BY <1>8, <1>9, <3>1 DEF Chosen
      <4>2. QED
        BY <1>1, <1>9, <1>10, <3>1, <4>1
    <3>2. ASSUME NEW i \in 1..(v[m] - 1), Visible(s, i), ~Blank(s[i])
          PROVE  \E j \in 1..Len(p) : j < m /\ ~Blank(seen[j])
      <4>1. i \in 1..N /\ i < v[m]
        BY <1>1, <1>9
      <4>2. PICK j \in 1..Len(p) : v[j] = i
        BY <1>1, <1>8, <1>9, <3>2, <4>1 DEF Chosen
      <4>3. j < m
        BY <1>1, <1>8, <1>9, <4>1, <4>2, ChosenRuns
      <4>4. QED
        BY <1>10, <3>2, <4>2, <4>3
    <3> HIDE DEF inner, single
    <3>3. QED
      BY <3>1, <3>2
  <2>3. (\E j \in (v[m] + 1)..N : /\ Visible(s, j) /\ ~Blank(s[j])
                                  /\ \A k \in (v[m] + 1)..(j - 1) : ~Visible(s, k))
          <=> m + 1 \in 1..Len(p) /\ ~Blank(seen[m + 1])
    <3>1. ASSUME m + 1 \in 1..Len(p), ~Blank(seen[m + 1])
          PROVE  \E j \in (v[m] + 1)..N : /\ Visible(s, j) /\ ~Blank(s[j])
                                          /\ \A k \in (v[m] + 1)..(j - 1) : ~Visible(s, k)
      <4>1. v[m] < v[m + 1] /\ v[m + 1] \in 1..N /\ Visible(s, v[m + 1]) /\ ~Blank(s[v[m + 1]])
        BY <1>8, <1>9, <1>10, <3>1 DEF Chosen
      <4>2. ASSUME NEW k \in (v[m] + 1)..(v[m + 1] - 1), Visible(s, k)
            PROVE  FALSE
        <5>1. k \in 1..N /\ v[m] < k /\ k < v[m + 1]
          BY <1>1, <1>9, <4>1
        <5>2. k \in visible
          BY <1>1, <4>2, <5>1
        <5>3. PICK j \in 1..Len(v) : m < j /\ j < m + 1
          <6> HIDE DEF visible, inner, single
          <6>1. QED
            BY <1>1, <1>8, <1>9, <3>1, <5>1, <5>2, ChosenRuns
        <5>4. QED
          BY <1>6, <1>9, <5>3
      <4>3. v[m + 1] \in (v[m] + 1)..N
        BY <1>1, <1>9, <4>1
      <4> HIDE DEF inner, single, visible
      <4>4. QED
        BY <4>1, <4>2, <4>3
    <3>2. ASSUME NEW i \in (v[m] + 1)..N, Visible(s, i), ~Blank(s[i]), \A k \in (v[m] + 1)..(i - 1) : ~Visible(s, k)
          PROVE  m + 1 \in 1..Len(p) /\ ~Blank(seen[m + 1])
      <4>1. i \in 1..N /\ v[m] < i /\ i \in visible
        BY <1>1, <1>9, <3>2
      <4>2. PICK l \in 1..Len(p) : v[l] = i
        BY <1>1, <1>8, <1>9, <4>1 DEF Chosen
      <4>3. m < l
        <5> HIDE DEF visible, inner, single
        <5>1. QED
          BY <1>1, <1>8, <1>9, <4>1, <4>2, ChosenRuns
      <4>4. m + 1 \in 1..Len(p)
        BY <1>6, <4>3
      <4>5. l = m + 1
        <5>1. SUFFICES ASSUME l # m + 1
                       PROVE  FALSE
          OBVIOUS
        <5>2. m < m + 1 /\ m + 1 < l
          BY <1>6, <4>3, <5>1
        <5>3. v[m] < v[m + 1] /\ v[m + 1] < i
          BY <1>8, <1>9, <4>2, <4>4, <5>2 DEF Chosen
        <5>4. v[m + 1] \in (v[m] + 1)..(i - 1) /\ Visible(s, v[m + 1])
          BY <1>1, <1>9, <4>1, <4>4, <5>3
        <5>5. QED
          BY <3>2, <5>4
      <4>6. QED
        BY <1>10, <3>2, <4>2, <4>4, <4>5
    <3> HIDE DEF inner, single
    <3>3. QED
      BY <3>1, <3>2
  <2>4. m \in single <=> ~Blank(seen[m]) \/ (inner(m) /\ ~Blank(seen[m + 1]))
    BY <1>6
  <2>5. (inner(m) /\ ~Blank(seen[m + 1])) <=>
          (\E j \in 1..Len(p) : j < m /\ ~Blank(seen[j])) /\ m + 1 \in 1..Len(p) /\ ~Blank(seen[m + 1])
    <3>1. \A j \in 1..Len(p) : j > m => m + 1 \in 1..Len(p)
      BY <1>6
    <3>2. m + 1 > m
      OBVIOUS
    <3>3. QED
      BY <1>6, <3>1, <3>2
  <2> HIDE DEF inner, single
  <2>6. QED
    BY <1>10, <2>1, <2>2, <2>3, <2>4, <2>5
<1>15. Chosen(w, N, Staying(s))
  <2>1. \A i \in 1..N : i \in Staying(s) => i \in visible
    BY <1>1 DEF Staying, Stays
  <2> HIDE DEF visible, single
  <2>2. QED
    BY <1>1, <1>8, <1>9, <1>11, <1>14, <2>1, ChosenOfChosen
<1>16. Places(s, Staying(s)) = w
  BY <1>1, <1>15, PlacesAre, ChosenOnce
<1>17. Len(w) = Len(r)
  <2>1. ASSUME NEW n \in Nat, NEW x
        PROVE  Len([k \in 1..n |-> x[r[k]]]) = n
    OBVIOUS
  <2>2. QED
    BY <1>11, <2>1
<1>18. ASSUME NEW k \in 1..Len(r)
       PROVE  FoldCase(FoldLookalike(shown[k])) = Image(s, w[k])
  <2>1. shown[k] = IF Blank(s[v[r[k]]]) THEN " " ELSE Letter(s, v[r[k]])
    BY <1>6, <1>7, <1>10, <1>11, <1>13
  <2>2. FoldCase(FoldLookalike(" ")) = " "
    BY SMT DEF FoldCase, FoldLookalike
  <2>3. QED
    BY <1>13, <2>1, <2>2, Zenon DEF Image
<1>19. Normalize(s) = [k \in 1..Len(r) |-> Image(s, w[k])]
  BY <1>11, <1>12, <1>18
<1>20. QED
  BY <1>16, <1>17, <1>19, Zenon

\* A text t has the characters of s in their order, at the places g tells, and
\* they look the same there.
Carries(s, t, g) ==
  /\ \A i \in 1..Len(s) : g[i] \in 1..Len(t)
  /\ \A i, j \in 1..Len(s) : i < j => g[i] < g[j]
  /\ \A i \in 1..Len(s) : /\ Visible(t, g[i]) <=> Visible(s, i)
                          /\ Blank(t[g[i]]) <=> Blank(s[i])
                          /\ Image(t, g[i]) = Image(s, i)

\* What t has at x beside them does not show, or is a blank that does not stay.
Mute(s, t, g, x) ==
  \/ ~Visible(t, x)
  \/ /\ Blank(t[x]) /\ ~Stays(t, x)
     /\ \A i, j \in 1..Len(s) : g[i] < x /\ x < g[j] /\ ~Blank(s[j]) =>
          \E k \in 1..Len(s) : i < k /\ k < j /\ Visible(s, k)

\* A text with something put in that does not show or does not stay is normalised
\* as it was without.
LEMMA SpelledSame ==
  ASSUME NEW s, NEW t, Text(s), Text(t), NEW g, Carries(s, t, g),
         \A x \in 1..Len(t) : (\E i \in 1..Len(s) : g[i] = x) \/ Mute(s, t, g, x)
  PROVE  Normalize(t) = Normalize(s)
<1>0. /\ \A i \in 1..Len(s) : g[i] \in 1..Len(t)
      /\ \A i, j \in 1..Len(s) : i < j => g[i] < g[j]
      /\ \A i \in 1..Len(s) : /\ Visible(t, g[i]) <=> Visible(s, i)
                              /\ Blank(t[g[i]]) <=> Blank(s[i])
                              /\ Image(t, g[i]) = Image(s, i)
      /\ \A x \in 1..Len(t) :
           \/ \E i \in 1..Len(s) : g[i] = x
           \/ ~Visible(t, x)
           \/ /\ Blank(t[x]) /\ ~Stays(t, x)
              /\ \A i, j \in 1..Len(s) : g[i] < x /\ x < g[j] /\ ~Blank(s[j]) =>
                   \E k \in 1..Len(s) : i < k /\ k < j /\ Visible(s, k)
  BY Zenon DEF Carries, Mute
<1> USE <1>0
<1> DEFINE q == Places(s, Staying(s))
<1>1. Len(s) \in Nat /\ DOMAIN s = 1..Len(s) /\ Len(t) \in Nat /\ DOMAIN t = 1..Len(t)
  BY DEF Text
<1>2. \A i, j \in 1..Len(s) : g[i] < g[j] => i < j
  <2>1. SUFFICES ASSUME NEW i \in 1..Len(s), NEW j \in 1..Len(s), g[i] < g[j]
                 PROVE  i < j
    OBVIOUS
  <2>2. i = j \/ i < j \/ j < i
    BY <1>1
  <2>3. j < i => g[j] < g[i]
    OBVIOUS
  <2>4. g[i] \in Int /\ g[j] \in Int
    BY <1>1
  <2>5. QED
    BY <2>1, <2>2, <2>3, <2>4
<1>3. ASSUME NEW i \in 1..Len(s)
      PROVE  Stays(t, g[i]) <=> Stays(s, i)
  <2>1. (\E j \in 1..(g[i] - 1) : Visible(t, j) /\ ~Blank(t[j])) <=> \E j \in 1..(i - 1) : Visible(s, j) /\ ~Blank(s[j])
    <3>1. ASSUME NEW j \in 1..(i - 1), Visible(s, j), ~Blank(s[j])
          PROVE  \E x \in 1..(g[i] - 1) : Visible(t, x) /\ ~Blank(t[x])
      <4>1. j \in 1..Len(s) /\ j < i
        BY <1>1
      <4>2. g[j] < g[i] /\ g[j] \in 1..Len(t) /\ g[i] \in 1..Len(t)
        BY <4>1
      <4>3. g[j] \in 1..(g[i] - 1)
        BY <1>1, <4>2
      <4>4. QED
        BY <3>1, <4>1, <4>3
    <3>2. ASSUME NEW x \in 1..(g[i] - 1), Visible(t, x), ~Blank(t[x])
          PROVE  \E j \in 1..(i - 1) : Visible(s, j) /\ ~Blank(s[j])
      <4>1. x \in 1..Len(t) /\ x < g[i]
        BY <1>1
      <4>2. PICK j \in 1..Len(s) : g[j] = x
        BY <3>2, <4>1
      <4>3. j < i
        BY <1>2, <4>1, <4>2
      <4>4. j \in 1..(i - 1)
        BY <1>1, <4>3
      <4>5. QED
        BY <3>2, <4>2, <4>4
    <3>3. QED
      BY <3>1, <3>2
  <2>2. (\E x \in (g[i] + 1)..Len(t) : /\ Visible(t, x) /\ ~Blank(t[x])
                                       /\ \A y \in (g[i] + 1)..(x - 1) : ~Visible(t, y))
        <=> \E j \in (i + 1)..Len(s) : /\ Visible(s, j) /\ ~Blank(s[j])
                                       /\ \A k \in (i + 1)..(j - 1) : ~Visible(s, k)
    <3>1. ASSUME NEW j \in (i + 1)..Len(s), Visible(s, j), ~Blank(s[j]), \A k \in (i + 1)..(j - 1) : ~Visible(s, k)
          PROVE  \E x \in (g[i] + 1)..Len(t) : /\ Visible(t, x) /\ ~Blank(t[x])
                                               /\ \A y \in (g[i] + 1)..(x - 1) : ~Visible(t, y)
      <4>1. j \in 1..Len(s) /\ i < j
        BY <1>1
      <4>2. g[i] < g[j] /\ g[j] \in 1..Len(t) /\ g[i] \in 1..Len(t)
        BY <4>1
      <4>3. g[j] \in (g[i] + 1)..Len(t)
        BY <1>1, <4>2
      <4>4. \A k \in 1..Len(s) : i < k /\ k < j => ~Visible(s, k)
        BY <1>1, <3>1, <4>1
      <4>5. ASSUME NEW y \in (g[i] + 1)..(g[j] - 1), Visible(t, y)
            PROVE  FALSE
        <5>1. y \in 1..Len(t) /\ g[i] < y /\ y < g[j]
          BY <1>1, <4>2
        <5>2. ~\E k \in 1..Len(s) : g[k] = y
          <6>1. SUFFICES ASSUME NEW k \in 1..Len(s), g[k] = y
                         PROVE  FALSE
            OBVIOUS
          <6>2. i < k /\ k < j
            BY <1>2, <4>1, <5>1, <6>1
          <6>3. QED
            BY <4>4, <4>5, <6>1, <6>2
        <5>3. QED
          BY <3>1, <4>1, <4>4, <4>5, <5>1, <5>2
      <4>6. QED
        BY <3>1, <4>1, <4>3, <4>5
    <3>2. ASSUME NEW x \in (g[i] + 1)..Len(t), Visible(t, x), ~Blank(t[x]), \A y \in (g[i] + 1)..(x - 1) : ~Visible(t, y)
          PROVE  \E j \in (i + 1)..Len(s) : /\ Visible(s, j) /\ ~Blank(s[j])
                                            /\ \A k \in (i + 1)..(j - 1) : ~Visible(s, k)
      <4>1. x \in 1..Len(t) /\ g[i] < x
        BY <1>1
      <4>2. PICK j \in 1..Len(s) : g[j] = x
        BY <3>2, <4>1
      <4>3. i < j /\ j \in (i + 1)..Len(s)
        BY <1>1, <1>2, <4>1, <4>2
      <4>4. ASSUME NEW k \in (i + 1)..(j - 1), Visible(s, k)
            PROVE  FALSE
        <5>1. k \in 1..Len(s) /\ i < k /\ k < j
          BY <1>1
        <5>2. g[i] < g[k] /\ g[k] < x /\ g[k] \in 1..Len(t) /\ g[i] \in 1..Len(t)
          BY <4>2, <5>1
        <5>3. g[k] \in (g[i] + 1)..(x - 1)
          BY <1>1, <4>1, <5>2
        <5>4. QED
          BY <3>2, <4>4, <5>1, <5>3
      <4>5. QED
        BY <3>2, <4>2, <4>3, <4>4
    <3>3. QED
      BY <3>1, <3>2
  <2>3. QED
    BY <2>1, <2>2 DEF Stays
<1>4. Places(t, Staying(t)) = [k \in 1..Len(q) |-> g[q[k]]]
  <2>1. \A i \in 1..Len(s) : i \in Staying(s) => g[i] \in 1..Len(t) /\ g[i] \in Staying(t)
    BY <1>1, <1>3 DEF Staying
  <2>2. ASSUME NEW x \in 1..Len(t), x \in Staying(t)
        PROVE  \E i \in 1..Len(s) : i \in Staying(s) /\ g[i] = x
    <3>1. Stays(t, x) /\ Visible(t, x)
      BY <2>2 DEF Staying, Stays
    <3>2. PICK i \in 1..Len(s) : g[i] = x
      BY <3>1
    <3>3. i \in Staying(s)
      BY <1>1, <1>3, <3>1, <3>2 DEF Staying
    <3>4. QED
      BY <3>2, <3>3
  <2>3. \A i, j \in 1..Len(s) : i \in Staying(s) /\ j \in Staying(s) /\ i < j => g[i] < g[j]
    OBVIOUS
  <2>4. Moves(g, Len(s), Staying(s), Len(t), Staying(t))
    BY <2>1, <2>2, <2>3 DEF Moves
  <2>5. QED
    BY ONLY <1>1, <2>4, PlacesMove
<1>5. Len(q) \in Nat /\ \A k \in 1..Len(q) : q[k] \in 1..Len(s)
  <2>1. Chosen(q, Len(s), Staying(s))
    BY <1>1, PlacesAre
  <2> HIDE DEF q
  <2>2. QED
    BY <1>1, <2>1, ChosenTypes
<1>6. Normalize(s) = [k \in 1..Len(q) |-> Image(s, q[k])]
  BY NormalizeIs
<1> DEFINE r == [k \in 1..Len(q) |-> g[q[k]]]
<1>7. Normalize(t) = [k \in 1..Len(r) |-> Image(t, r[k])]
  <2> DEFINE p == Places(t, Staying(t))
  <2>1. Normalize(t) = [k \in 1..Len(p) |-> Image(t, p[k])]
    BY NormalizeIs
  <2>2. p = r
    BY <1>4
  <2> HIDE DEF p, r
  <2>3. QED
    BY <2>1, <2>2, Zenon
<1> HIDE DEF q
<1>8. Len(r) = Len(q)
  BY <1>5
<1>9. \A k \in 1..Len(q) : Image(t, r[k]) = Image(s, q[k])
  BY <1>5
<1>10. QED
  <2> HIDE DEF r
  <2>1. QED
    BY <1>6, <1>7, <1>8, <1>9

\* Capitals and look-alikes do not count.
LEMMA CapitalsDoNotCount ==
  ASSUME NEW s, Text(s)
  PROVE  Normalize([i \in DOMAIN s |-> FoldLookalike(FoldCase(s[i]))]) = Normalize(s)
<1> DEFINE t == [i \in DOMAIN s |-> FoldLookalike(FoldCase(s[i]))]
           fold(c) == FoldCase(FoldLookalike(c))
           g == [i \in 1..Len(s) |-> i]
<1>1. Len(s) \in Nat /\ DOMAIN s = 1..Len(s)
  BY DEF Text
<1>2. Text(t) /\ Len(t) = Len(s)
  <2>1. t = [i \in 1..Len(s) |-> t[i]]
    BY <1>1
  <2> HIDE DEF t
  <2>2. QED
    BY <1>1, <2>1, TextOf
<1>3. ASSUME NEW i \in 1..Len(s)
      PROVE  t[i] = fold(s[i])
  <2>1. \A c : FoldLookalike(FoldCase(c)) = fold(c)
    BY SMT DEF FoldLookalike, FoldCase
  <2>2. QED
    BY <1>1, <2>1
<1> HIDE DEF t
<1>4. ASSUME NEW i \in 1..Len(s)
      PROVE  /\ Blank(t[i]) <=> Blank(s[i])
             /\ Ignorable(t[i]) <=> Ignorable(s[i])
             /\ t[i] = ":" <=> s[i] = ":"
             /\ t[i] \in {"a", "A"} <=> s[i] \in {"a", "A"}
             /\ fold(t[i]) = t[i]
  BY <1>3, FoldedIs
<1>5. ASSUME NEW i \in 1..Len(s)
      PROVE  Base(t, i) <=> Base(s, i)
  <2>1. i < Len(s) => i + 1 \in 1..Len(s)
    BY <1>1
  <2>2. QED
    BY <1>2, <1>4, <2>1 DEF Base
<1>6. ASSUME NEW i \in 1..Len(s)
      PROVE  Visible(t, i) <=> Visible(s, i)
  <2>1. i > 1 => i - 1 \in 1..Len(s)
    BY <1>1
  <2>2. Mark(t, i) <=> Mark(s, i)
    BY <1>5, <2>1 DEF Mark
  <2>3. QED
    BY <1>4, <2>2 DEF Visible
<1>7. ASSUME NEW i \in 1..Len(s)
      PROVE  Image(t, i) = Image(s, i)
  <2>1. CASE Base(s, i)
    <3>1. s[i] \in {"a", "A"} /\ t[i] = fold(s[i])
      BY <1>3, <2>1 DEF Base
    <3>2. /\ fold("a") = "a" /\ fold("A") = "a" /\ fold("a:") = "a:" /\ fold("A:") = "a:"
      BY SMT DEF FoldCase, FoldLookalike
    <3>3. fold(Letter(s, i)) = "a:" /\ fold(Letter(t, i)) = "a:"
      <4>1. t[i] = "a" /\ Base(t, i)
        BY <1>5, <2>1, <3>1, <3>2
      <4> HIDE DEF fold
      <4>2. QED
        BY <2>1, <3>1, <3>2, <4>1 DEF Letter
    <3>4. ~Blank(s[i]) /\ ~Blank(t[i])
      <4>1. ~Blank("a") /\ ~Blank("A")
        BY SMT DEF Blank
      <4>2. QED
        BY <1>4, <3>1, <4>1
    <3>5. QED
      BY <3>3, <3>4, Zenon DEF Image
  <2>2. CASE ~Base(s, i)
    <3>1. Letter(s, i) = s[i] /\ Letter(t, i) = t[i]
      BY <1>5, <2>2 DEF Letter
    <3>2. fold(t[i]) = fold(s[i])
      BY <1>3, <1>4, Zenon
    <3>3. QED
      BY <1>4, <3>1, <3>2, Zenon DEF Image
  <2>3. QED
    BY <2>1, <2>2
<1>8. \A i \in 1..Len(s) : g[i] = i
  OBVIOUS
<1> HIDE DEF g
<1>9. Carries(s, t, g)
  BY <1>2, <1>4, <1>6, <1>7, <1>8 DEF Carries
<1>10. \A x \in 1..Len(t) : \E i \in 1..Len(s) : g[i] = x
  BY <1>2, <1>8
<1>11. Normalize(t) = Normalize(s)
  BY <1>2, <1>9, <1>10, SpelledSame
<1>12. QED
  BY <1>11 DEF t

\* What it is to put a character into a text.
LEMMA InsertedIs ==
  ASSUME NEW W, NEW s \in Seq(W), NEW at \in 1..(Len(s) + 1), NEW c
  PROVE  LET t == InsertAt(s, at, c) IN
         /\ Text(t) /\ Len(t) = Len(s) + 1 /\ t[at] = c
         /\ \A i \in 1..Len(s) : i < at => t[i] = s[i]
         /\ \A i \in 1..Len(s) : i >= at => t[i + 1] = s[i]
<1> DEFINE V == W \cup {c}
           a == SubSeq(s, 1, at - 1)
           b == SubSeq(s, at, Len(s))
           d == a \o <<c>>
           t == InsertAt(s, at, c)
<1>1. s \in Seq(V) /\ c \in V /\ Len(s) \in Nat /\ at - 1 \in Nat /\ at - 1 <= Len(s)
  OBVIOUS
<1> HIDE DEF V
<1>2. a \in Seq(V) /\ Len(a) = at - 1 /\ \A i \in 1..(at - 1) : a[i] = s[i]
  BY <1>1
<1>3. b \in Seq(V) /\ Len(b) = Len(s) - at + 1 /\ \A i \in 1..(Len(s) - at + 1) : b[i] = s[at + i - 1]
  BY <1>1
<1> HIDE DEF a, b
<1>4. d \in Seq(V) /\ Len(d) = at /\ d[at] = c /\ \A i \in 1..(at - 1) : d[i] = s[i]
  BY <1>1, <1>2
<1> HIDE DEF d
<1>5. t = d \o b
  BY DEF InsertAt, a, b, d
<1>6. t \in Seq(V) /\ Len(t) = Len(s) + 1
  BY <1>1, <1>3, <1>4, <1>5
<1>7. \A i \in 1..at : t[i] = d[i]
  BY <1>3, <1>4, <1>5
<1>8. \A i \in 1..(Len(s) - at + 1) : t[at + i] = b[i]
  BY <1>3, <1>4, <1>5
<1> HIDE DEF t
<1>9. t[at] = c /\ \A i \in 1..Len(s) : i < at => t[i] = s[i]
  BY <1>1, <1>4, <1>7
<1>10. ASSUME NEW i \in 1..Len(s), i >= at
       PROVE  t[i + 1] = s[i]
  <2>1. i - at + 1 \in 1..(Len(s) - at + 1) /\ at + (i - at + 1) = i + 1 /\ at + (i - at + 1) - 1 = i
    BY <1>1, <1>10
  <2>2. QED
    BY <1>3, <1>8, <2>1
<1>11. Text(t)
  BY <1>6 DEF Text
<1>12. QED
  BY <1>6, <1>9, <1>10, <1>11 DEF t

\* Blanks at the ends do not count.
LEMMA EndsDoNotCount ==
  ASSUME NEW W, NEW s \in Seq(W), NEW b, NEW c, Blank(b), Blank(c), b \notin {"a", "A"}, c # ":"
  PROVE  Normalize(<<b>> \o s \o <<c>>) = Normalize(s)
<1> DEFINE V == W \cup {b, c}
           t == <<b>> \o s \o <<c>>
           n == Len(s)
           g == [i \in 1..n |-> i + 1]
<1>1. s \in Seq(V) /\ b \in V /\ c \in V /\ n \in Nat /\ DOMAIN s = 1..n
  OBVIOUS
<1>2. Text(t) /\ Len(t) = n + 2 /\ t[1] = b /\ t[n + 2] = c /\ \A i \in 1..n : t[i + 1] = s[i]
  <2> DEFINE u == <<b>> \o s
  <2> HIDE DEF V
  <2>1. u \in Seq(V) /\ Len(u) = n + 1 /\ u[1] = b /\ \A i \in 1..n : u[i + 1] = s[i]
    BY <1>1
  <2>2. t = u \o <<c>>
    OBVIOUS
  <2> HIDE DEF u, t
  <2>3. t \in Seq(V) /\ Len(t) = n + 2 /\ t[n + 2] = c /\ \A i \in 1..(n + 1) : t[i] = u[i]
    BY <1>1, <2>1, <2>2
  <2>4. \A i \in 1..n : i + 1 \in 1..(n + 1)
    BY <1>1
  <2>5. 1 \in 1..(n + 1)
    BY <1>1
  <2>6. Text(t)
    BY <2>3 DEF Text
  <2>7. QED
    BY <2>1, <2>3, <2>4, <2>5, <2>6
<1> HIDE DEF t, V
<1>3. Blank(b) /\ Blank(c) /\ b \notin {"a", "A"} /\ c # ":"
  OBVIOUS
<1>4. ASSUME NEW i \in 1..n
      PROVE  Base(t, i + 1) <=> Base(s, i)
  <2>1. CASE i < n
    <3>1. i + 1 \in 1..n /\ i + 1 < n + 2 /\ (i + 1) + 1 = i + 2
      BY <1>1, <2>1
    <3>2. t[i + 1] = s[i] /\ t[(i + 1) + 1] = s[i + 1]
      BY <1>2, <3>1
    <3>3. QED
      BY <1>2, <2>1, <3>1, <3>2 DEF Base
  <2>2. CASE ~(i < n)
    <3>1. (i + 1) + 1 = n + 2
      BY <1>1, <2>2
    <3>2. ~Base(t, i + 1)
      BY <1>2, <1>3, <3>1 DEF Base
    <3>3. QED
      BY <2>2, <3>2 DEF Base
  <2>3. QED
    BY <2>1, <2>2
<1>5. ASSUME NEW i \in 1..n
      PROVE  Mark(t, i + 1) <=> Mark(s, i)
  <2>1. (i + 1) - 1 = i /\ i + 1 > 1
    BY <1>1
  <2>2. CASE i = 1
    <3>1. ~Base(t, 1)
      BY <1>2, <1>3 DEF Base
    <3>2. QED
      BY <2>2, <3>1 DEF Mark
  <2>3. CASE i # 1
    <3>1. i - 1 \in 1..n /\ (i - 1) + 1 = i /\ i > 1
      BY <1>1, <2>3
    <3>2. Base(t, i) <=> Base(s, i - 1)
      BY <1>4, <3>1
    <3>3. QED
      BY <2>1, <3>1, <3>2 DEF Mark
  <2>4. QED
    BY <2>2, <2>3
<1>6. \A i \in 1..n : g[i] = i + 1
  OBVIOUS
<1> HIDE DEF g
<1>7. \A i \in 1..n : /\ Visible(t, g[i]) <=> Visible(s, i)
                      /\ Blank(t[g[i]]) <=> Blank(s[i])
                      /\ Image(t, g[i]) = Image(s, i)
  BY <1>2, <1>4, <1>5, <1>6, Zenon DEF Visible, Image, Letter
<1>8. ASSUME NEW x \in 1..Len(t)
      PROVE  (\E i \in 1..n : g[i] = x) \/ Mute(s, t, g, x)
  <2>1. CASE x = 1
    <3>1. 1..(x - 1) = {}
      BY <2>1
    <3>2. Blank(t[x]) /\ ~Stays(t, x)
      BY <1>2, <1>3, <2>1, <3>1 DEF Stays
    <3>3. \A i \in 1..n : ~(g[i] < x)
      BY <1>1, <1>6, <2>1
    <3>4. QED
      BY <3>2, <3>3 DEF Mute
  <2>2. CASE x = n + 2
    <3>1. (x + 1)..Len(t) = {}
      BY <1>1, <1>2, <2>2
    <3>2. Blank(t[x]) /\ ~Stays(t, x)
      BY <1>2, <1>3, <2>2, <3>1 DEF Stays
    <3>3. \A j \in 1..n : ~(x < g[j])
      BY <1>1, <1>6, <2>2
    <3>4. QED
      BY <3>2, <3>3 DEF Mute
  <2>3. CASE x # 1 /\ x # n + 2
    <3>1. x - 1 \in 1..n /\ (x - 1) + 1 = x
      BY <1>1, <1>2, <2>3
    <3>2. QED
      BY <1>6, <3>1
  <2>4. QED
    BY <2>1, <2>2, <2>3
<1>9. Text(s) /\ \A i \in 1..n : g[i] \in 1..Len(t)
  BY <1>1, <1>2, <1>6 DEF Text
<1>10. \A i, j \in 1..n : i < j => g[i] < g[j]
  BY <1>1, <1>6
<1>11. Carries(s, t, g)
  BY <1>7, <1>9, <1>10 DEF Carries
<1>12. Normalize(t) = Normalize(s)
  BY <1>2, <1>8, <1>9, <1>11, SpelledSame
<1>13. QED
  BY <1>12 DEF t

\* Where the characters go when one is put in.
Shifted(s, at) == [i \in 1..Len(s) |-> IF i < at THEN i ELSE i + 1]

\* A character that is no letter and is put before anything but a mark leaves the
\* others as they are.
LEMMA PutBetween ==
  ASSUME NEW W, NEW s \in Seq(W), NEW at \in DOMAIN s, s[at] # ":",
         NEW c, c # ":", c # "a", c # "A"
  PROVE  /\ Text(s) /\ Text(InsertAt(s, at, c)) /\ Len(InsertAt(s, at, c)) = Len(s) + 1
         /\ InsertAt(s, at, c)[at] = c
         /\ ~Mark(InsertAt(s, at, c), at + 1)
         /\ \A i \in 1..Len(s) : InsertAt(s, at, c)[Shifted(s, at)[i]] = s[i]
         /\ Carries(s, InsertAt(s, at, c), Shifted(s, at))
         /\ \A x \in 1..Len(InsertAt(s, at, c)) : x = at \/ \E i \in 1..Len(s) : Shifted(s, at)[i] = x
<1> DEFINE t == InsertAt(s, at, c)
           g == Shifted(s, at)
           n == Len(s)
<1>1. n \in Nat /\ DOMAIN s = 1..n /\ at \in 1..n /\ at \in 1..(n + 1)
  OBVIOUS
<1>2. /\ Text(t) /\ Len(t) = n + 1 /\ t[at] = c
      /\ \A i \in 1..n : i < at => t[i] = s[i]
      /\ \A i \in 1..n : i >= at => t[i + 1] = s[i]
  BY <1>1, InsertedIs
<1> HIDE DEF t
<1>3. /\ \A i \in 1..n : i < at => g[i] = i
      /\ \A i \in 1..n : i >= at => g[i] = i + 1
  BY <1>1 DEF Shifted
<1> HIDE DEF g
<1>4. \A i \in 1..n : g[i] \in 1..Len(t) /\ t[g[i]] = s[i]
  <2>1. SUFFICES ASSUME NEW i \in 1..n
                 PROVE  g[i] \in 1..Len(t) /\ t[g[i]] = s[i]
    OBVIOUS
  <2>2. CASE i < at
    BY <1>1, <1>2, <1>3, <2>2
  <2>3. CASE i >= at
    BY <1>1, <1>2, <1>3, <2>3
  <2>4. QED
    BY <1>1, <2>2, <2>3
<1>5. \A i, j \in 1..n : i < j => g[i] < g[j]
  <2>1. SUFFICES ASSUME NEW i \in 1..n, NEW j \in 1..n, i < j
                 PROVE  g[i] < g[j]
    OBVIOUS
  <2>2. (g[i] = i \/ (i >= at /\ g[i] = i + 1)) /\ (g[j] = j + 1 \/ (j < at /\ g[j] = j))
    BY <1>1, <1>3
  <2>3. QED
    BY <1>1, <2>1, <2>2
<1>6. ~Base(t, at)
  BY <1>2 DEF Base
<1>7. ASSUME NEW i \in 1..n
      PROVE  Base(t, g[i]) <=> Base(s, i)
  <2>1. CASE i + 1 < at
    <3>1. i < at /\ i + 1 \in 1..n /\ i < n /\ i < n + 1
      BY <1>1, <2>1
    <3>2. g[i] = i /\ t[i] = s[i] /\ t[i + 1] = s[i + 1]
      BY <1>2, <1>3, <2>1, <3>1
    <3>3. QED
      BY <1>2, <3>1, <3>2 DEF Base
  <2>2. CASE i + 1 = at
    <3>1. g[i] = i /\ t[i + 1] = c /\ s[i + 1] # ":"
      BY <1>1, <1>2, <1>3, <2>2
    <3>2. QED
      BY <3>1 DEF Base
  <2>3. CASE i >= at
    <3>1. g[i] = i + 1 /\ t[i + 1] = s[i]
      BY <1>2, <1>3, <2>3
    <3>2. CASE i < n
      <4>1. i + 1 \in 1..n /\ i + 1 >= at /\ i + 1 < n + 1
        BY <1>1, <2>3, <3>2
      <4>2. t[(i + 1) + 1] = s[i + 1]
        BY <1>2, <4>1
      <4>3. QED
        BY <1>2, <3>1, <3>2, <4>1, <4>2 DEF Base
    <3>3. CASE ~(i < n)
      <4>1. ~(i + 1 < n + 1)
        BY <1>1, <3>3
      <4>2. QED
        BY <1>2, <3>1, <3>3, <4>1 DEF Base
    <3>4. QED
      BY <3>2, <3>3
  <2>4. QED
    BY <1>1, <2>1, <2>2, <2>3
<1>8. ASSUME NEW i \in 1..n
      PROVE  Mark(t, g[i]) <=> Mark(s, i)
  <2>1. CASE i = at
    <3>1. g[i] = at + 1 /\ (at + 1) - 1 = at /\ (i > 1 => (i - 1) + 1 = i)
      BY <1>1, <1>3, <2>1
    <3>2. ~Mark(t, g[i])
      BY <1>6, <3>1 DEF Mark
    <3>3. ~Mark(s, i)
      BY <2>1, <3>1 DEF Mark, Base
    <3>4. QED
      BY <3>2, <3>3
  <2>2. CASE i # at
    <3>1. CASE i = 1
      <4>1. i < at
        BY <1>1, <2>2, <3>1
      <4>2. g[i] = 1
        BY <1>3, <3>1, <4>1
      <4>3. QED
        BY <3>1, <4>2 DEF Mark
    <3>2. CASE i # 1
      <4>1. i - 1 \in 1..n /\ i > 1 /\ (i < at => i - 1 < at) /\ (i >= at => i - 1 >= at) /\ i + 1 > 1
            /\ (i - 1) + 1 = i /\ (i + 1) - 1 = i /\ (i < at \/ i >= at)
        BY <1>1, <2>2, <3>2
      <4>2. g[i] > 1 /\ g[i] - 1 = g[i - 1]
        BY <1>3, <4>1
      <4>3. Base(t, g[i - 1]) <=> Base(s, i - 1)
        BY <1>7, <4>1
      <4>4. QED
        BY <4>1, <4>2, <4>3 DEF Mark
    <3>3. QED
      BY <3>1, <3>2
  <2>3. QED
    BY <2>1, <2>2
<1>9. \A i \in 1..n : /\ Visible(t, g[i]) <=> Visible(s, i)
                      /\ Blank(t[g[i]]) <=> Blank(s[i])
                      /\ Image(t, g[i]) = Image(s, i)
  BY <1>4, <1>7, <1>8, Zenon DEF Visible, Image, Letter
<1>10. ASSUME NEW x \in 1..Len(t), x # at
       PROVE  \E i \in 1..n : g[i] = x
  <2>1. CASE x < at
    BY <1>1, <1>3, <2>1
  <2>2. CASE x > at
    <3>1. x - 1 \in 1..n /\ x - 1 >= at /\ (x - 1) + 1 = x
      BY <1>1, <1>2, <2>2
    <3>2. QED
      BY <1>3, <3>1
  <2>3. QED
    BY <1>1, <1>2, <1>10, <2>1, <2>2
<1>11. ~Mark(t, at + 1)
  <2>1. (at + 1) - 1 = at
    BY <1>1
  <2>2. QED
    BY <1>6, <2>1 DEF Mark
<1>12. Text(s)
  BY <1>1 DEF Text
<1>13. Carries(s, t, g)
  BY <1>4, <1>5, <1>9 DEF Carries
<1>14. QED
  BY <1>2, <1>4, <1>10, <1>11, <1>12, <1>13 DEF t, g

\* Invisible characters do not count, but before a mark.
LEMMA InvisibleDoesNotCount ==
  ASSUME NEW W, NEW s \in Seq(W), NEW at \in DOMAIN s, s[at] # ":",
         NEW c, Ignorable(c), c # ":", c # "a", c # "A"
  PROVE  Normalize(InsertAt(s, at, c)) = Normalize(s)
<1> DEFINE t == InsertAt(s, at, c)
           g == Shifted(s, at)
<1>1. /\ Text(s) /\ Text(t) /\ t[at] = c /\ Carries(s, t, g)
      /\ \A x \in 1..Len(t) : x = at \/ \E i \in 1..Len(s) : g[i] = x
  BY PutBetween
<1> HIDE DEF g, t
<1>2. Mute(s, t, g, at)
  BY <1>1 DEF Visible, Mute
<1>3. \A x \in 1..Len(t) : (\E i \in 1..Len(s) : g[i] = x) \/ Mute(s, t, g, x)
  BY <1>1, <1>2, Zenon
<1>4. Normalize(t) = Normalize(s)
  BY <1>1, <1>3, SpelledSame, Zenon
<1>5. QED
  BY <1>4 DEF t

\* Nor does it count how many blanks there are, and which.
LEMMA BlanksDoNotCount ==
  ASSUME NEW W, NEW s \in Seq(W), NEW at \in DOMAIN s, Blank(s[at]),
         NEW c, Blank(c), c # ":", c # "a", c # "A"
  PROVE  Normalize(InsertAt(s, at, c)) = Normalize(s)
<1> DEFINE t == InsertAt(s, at, c)
           g == Shifted(s, at)
<1>1. \A x : Blank(x) => x # ":" /\ ~Ignorable(x)
  <2>1. ~Blank(":") /\ ~Blank("zwj") /\ ~Blank("bom")
    BY Zenon DEF Blank
  <2>2. QED
    BY <2>1, Zenon DEF Ignorable
<1>2. /\ Text(s) /\ Text(t) /\ Len(t) = Len(s) + 1 /\ t[at] = c /\ ~Mark(t, at + 1)
      /\ \A i \in 1..Len(s) : t[g[i]] = s[i]
      /\ Carries(s, t, g)
      /\ \A x \in 1..Len(t) : x = at \/ \E i \in 1..Len(s) : g[i] = x
  <2>1. s[at] # ":"
    BY <1>1
  <2>2. QED
    BY <2>1, PutBetween
<1>3. /\ Len(s) \in Nat /\ at \in 1..Len(s)
      /\ \A i \in 1..Len(s) : g[i] = (IF i < at THEN i ELSE i + 1)
  BY DEF Shifted
<1> HIDE DEF g, t
<1>4. g[at] = at + 1 /\ at + 1 \in 1..Len(t)
  BY <1>2, <1>3
<1>5. Visible(t, at + 1) /\ Blank(t[at + 1]) /\ Visible(s, at)
  BY <1>1, <1>2, <1>3, <1>4 DEF Visible, Carries
<1>6. ~Stays(t, at)
  <2>1. SUFFICES ASSUME NEW j \in (at + 1)..Len(t), ~Blank(t[j]), \A k \in (at + 1)..(j - 1) : ~Visible(t, k)
                 PROVE  FALSE
    BY <1>2 DEF Stays
  <2>2. j # at + 1
    BY <1>5, <2>1
  <2>3. at + 1 \in (at + 1)..(j - 1)
    BY <1>2, <1>3, <2>2
  <2>4. QED
    BY <1>5, <2>1, <2>3
<1>7. ASSUME NEW i \in 1..Len(s), NEW j \in 1..Len(s), g[i] < at, at < g[j], ~Blank(s[j])
      PROVE  i < at /\ at < j
  <2>1. i < at
    BY <1>3, <1>7
  <2>2. ~(j < at)
    BY <1>3, <1>7
  <2>3. j # at
    BY <1>7
  <2>4. QED
    BY <1>3, <2>1, <2>2, <2>3
<1>8. Mute(s, t, g, at)
  BY <1>2, <1>3, <1>5, <1>6, <1>7 DEF Mute
<1>9. \A x \in 1..Len(t) : (\E i \in 1..Len(s) : g[i] = x) \/ Mute(s, t, g, x)
  BY <1>2, <1>8, Zenon
<1>10. Normalize(t) = Normalize(s)
  BY <1>2, <1>9, SpelledSame, Zenon
<1>11. QED
  BY <1>10 DEF t

\* What stays of a text looks the same when it is folded again.
LEMMA ImageIs ==
  ASSUME NEW s, NEW i, Visible(s, i)
  PROVE  /\ Blank(Image(s, i)) <=> Blank(s[i])
         /\ Blank(s[i]) => Image(s, i) = " "
         /\ ~Ignorable(Image(s, i))
         /\ FoldCase(FoldLookalike(Image(s, i))) = Image(s, i)
         /\ Image(s, i) = ":" => s[i] = ":"
         /\ Image(s, i) \in {"a", "A"} => s[i] \in {"a", "A"} /\ ~Base(s, i)
<1>1. CASE Blank(s[i])
  <2>1. Image(s, i) = " "
    BY <1>1 DEF Image
  <2>2. /\ Blank(" ") /\ ~Ignorable(" ") /\ " " # ":" /\ " " \notin {"a", "A"}
    BY Zenon DEF Blank, Ignorable
  <2>3. FoldCase(FoldLookalike(" ")) = " "
    BY Zenon DEF FoldCase, FoldLookalike
  <2>4. QED
    BY <1>1, <2>1, <2>2, <2>3, Zenon
<1>2. CASE ~Blank(s[i])
  <2> DEFINE c == Letter(s, i)
             folded == FoldCase(FoldLookalike(c))
  <2>1. Image(s, i) = folded
    BY <1>2 DEF Image
  <2>2. /\ FoldCase(FoldLookalike(folded)) = folded
        /\ Blank(folded) <=> Blank(c)
        /\ Ignorable(folded) <=> Ignorable(c)
        /\ folded = ":" <=> c = ":"
        /\ folded \in {"a", "A"} <=> c \in {"a", "A"}
    BY FoldedIs, Zenon
  <2>3. ~Blank(c) /\ ~Ignorable(c)
    BY <1>2, LetterIs DEF Visible
  <2>4. Base(s, i) => c \in {"a:", "A:"}
    BY Zenon DEF Letter
  <2>5. ~Base(s, i) => c = s[i]
    BY Zenon DEF Letter
  <2>6. \A x \in {"a:", "A:"} : x # ":" /\ x \notin {"a", "A"}
    BY SMT
  <2> HIDE DEF folded, c
  <2>7. QED
    BY <1>2, <2>1, <2>2, <2>3, <2>4, <2>5, <2>6, Zenon
<1>3. QED
  BY <1>1, <1>2

\* A text that is normalised stays as it is, if no invisible character stands
\* between a letter and its mark.
LEMMA NormalizedStays ==
  ASSUME NEW s, Text(s), \A i \in DOMAIN s : i > 1 /\ s[i] = ":" => ~Ignorable(s[i - 1])
  PROVE  Normalize(Normalize(s)) = Normalize(s)
<1> DEFINE q == Places(s, Staying(s))
           t == Normalize(s)
           n == Len(q)
<1>1. Len(s) \in Nat /\ DOMAIN s = 1..Len(s)
  BY DEF Text
<1>2. Chosen(q, Len(s), Staying(s))
  BY <1>1, PlacesAre
<1>3. t = [k \in 1..n |-> Image(s, q[k])]
  BY NormalizeIs
<1> HIDE DEF q, t
<1>4. n \in Nat /\ \A k \in 1..n : q[k] \in 1..Len(s) /\ q[k] \in Staying(s)
  BY <1>1, <1>2, ChosenTypes
<1>5. Text(t) /\ Len(t) = n /\ DOMAIN t = 1..n
  <2>1. t = [k \in 1..n |-> t[k]]
    BY <1>3
  <2>2. QED
    BY <1>4, <2>1, TextOf DEF Text
<1>6. ASSUME NEW k \in 1..n
      PROVE  /\ t[k] = Image(s, q[k]) /\ Stays(s, q[k]) /\ Visible(s, q[k])
             /\ Blank(t[k]) <=> Blank(s[q[k]])
             /\ Blank(t[k]) => t[k] = " "
             /\ ~Ignorable(t[k]) /\ FoldCase(FoldLookalike(t[k])) = t[k]
             /\ t[k] = ":" => s[q[k]] = ":"
             /\ t[k] \in {"a", "A"} => s[q[k]] \in {"a", "A"} /\ ~Base(s, q[k])
  <2>1. t[k] = Image(s, q[k])
    BY <1>3
  <2>2. Stays(s, q[k]) /\ Visible(s, q[k])
    BY <1>4 DEF Staying, Stays
  <2> DEFINE i == q[k]
  <2> HIDE DEF i
  <2>3. Visible(s, i)
    BY <2>2 DEF i
  <2>4. /\ Blank(Image(s, i)) <=> Blank(s[i])
        /\ Blank(s[i]) => Image(s, i) = " "
        /\ ~Ignorable(Image(s, i))
        /\ FoldCase(FoldLookalike(Image(s, i))) = Image(s, i)
        /\ Image(s, i) = ":" => s[i] = ":"
        /\ Image(s, i) \in {"a", "A"} => s[i] \in {"a", "A"} /\ ~Base(s, i)
    BY ONLY <2>3, ImageIs, Zenon
  <2>5. t[k] = Image(s, i) /\ i = q[k]
    BY <2>1 DEF i
  <2>6. QED
    BY <2>2, <2>4, <2>5, Zenon
<1>7. ASSUME NEW i \in 1..Len(s), Visible(s, i), ~Blank(s[i])
      PROVE  \E k \in 1..n : q[k] = i
  <2>1. i \in Staying(s)
    BY <1>1, <1>7 DEF Staying, Stays
  <2>2. QED
    BY <1>2, <2>1 DEF Chosen
<1>8. ASSUME NEW k \in 1..n, NEW l \in 1..n
      PROVE  q[k] < q[l] <=> k < l
  BY <1>1, <1>2, ChosenRuns
<1>9. /\ ~Ignorable(":") /\ ~Ignorable("a") /\ ~Ignorable("A") /\ ~Blank(":") /\ ~Blank("a") /\ ~Blank("A")
      /\ ":" # "a" /\ ":" # "A"
  BY Zenon DEF Ignorable, Blank
<1>10. ASSUME NEW k \in 1..n
       PROVE  ~Base(t, k)
  <2>1. SUFFICES ASSUME k < n, t[k] \in {"a", "A"}, t[k + 1] = ":"
                 PROVE  FALSE
    BY <1>5 DEF Base
  <2> DEFINE i == q[k]
             j == q[k + 1]
             m == j - 1
  <2>2. k + 1 \in 1..n /\ k < k + 1
    BY <1>4, <2>1
  <2>3. /\ i \in 1..Len(s) /\ s[i] \in {"a", "A"} /\ ~Base(s, i)
        /\ j \in 1..Len(s) /\ s[j] = ":" /\ Visible(s, j) /\ i < j
    BY <1>4, <1>6, <1>8, <2>1, <2>2
  <2>4. ASSUME NEW x \in 1..Len(s), i < x, x < j, Visible(s, x)
        PROVE  Blank(s[x])
    <3>1. SUFFICES ASSUME ~Blank(s[x])
                   PROVE  FALSE
      OBVIOUS
    <3>2. PICK l \in 1..n : q[l] = x
      BY <1>7, <2>4, <3>1
    <3>3. k < l /\ l < k + 1
      BY <1>8, <2>2, <2>4, <3>2
    <3>4. QED
      BY <1>4, <3>3
  <2> HIDE DEF i, j
  <2>5. m \in 1..Len(s) /\ m + 1 = j /\ m < j /\ i <= m /\ m < Len(s) /\ j > 1
    BY <1>1, <2>3
  <2>6. m # i
    <3>1. SUFFICES ASSUME m = i
                   PROVE  FALSE
      OBVIOUS
    <3>2. Base(s, i)
      BY <2>3, <2>5, <3>1 DEF Base
    <3>3. QED
      BY <2>3, <3>2
  <2>7. i < m
    BY <1>1, <2>3, <2>5, <2>6
  <2>8. ~Ignorable(s[m])
    BY <1>1, <2>3, <2>5
  <2>9. CASE Mark(s, m)
    <3>1. Base(s, m - 1) /\ m > 1
      BY <2>9 DEF Mark
    <3>2. m - 1 \in 1..Len(s) /\ m - 1 < j /\ i <= m - 1
      BY <1>1, <2>3, <2>5, <2>7, <3>1
    <3>3. i # m - 1
      BY <2>3, <3>1
    <3>4. s[m - 1] \in {"a", "A"} /\ ~Mark(s, m - 1)
      <4>1. m - 1 > 1 => (m - 1 - 1) + 1 = m - 1
        BY <3>2
      <4>2. s[m - 1] \in {"a", "A"} /\ s[m - 1] # ":"
        BY <1>9, <3>1 DEF Base
      <4>3. QED
        BY <4>1, <4>2 DEF Mark, Base
    <3>5. Visible(s, m - 1) /\ ~Blank(s[m - 1])
      BY <1>9, <3>4 DEF Visible
    <3>6. i < m - 1
      BY <1>1, <2>3, <3>2, <3>3
    <3>7. QED
      BY <2>4, <3>2, <3>5, <3>6
  <2>10. CASE ~Mark(s, m)
    <3>1. Visible(s, m)
      BY <2>8, <2>10 DEF Visible
    <3>2. Blank(s[m])
      BY <2>4, <2>5, <2>7, <3>1
    <3>3. m \in Staying(s)
      <4>1. i \in 1..(m - 1) /\ Visible(s, i) /\ ~Blank(s[i])
        <5>1. i \in 1..(m - 1)
          BY <1>1, <2>3, <2>5, <2>7
        <5>2. QED
          BY <1>6, <1>9, <2>3, <5>1 DEF i
      <4>2. j \in (m + 1)..Len(s) /\ Visible(s, j) /\ ~Blank(s[j]) /\ (m + 1)..(j - 1) = {}
        <5>1. j \in (m + 1)..Len(s) /\ (m + 1)..(j - 1) = {}
          BY <1>1, <2>3, <2>5
        <5>2. QED
          BY <1>9, <2>3, <5>1
      <4>3. QED
        BY <1>1, <2>5, <3>1, <4>1, <4>2 DEF Staying, Stays
    <3>4. PICK l \in 1..n : q[l] = m
      BY <1>2, <2>5, <3>3 DEF Chosen
    <3>5. k < l /\ l < k + 1
      BY <1>8, <2>2, <2>5, <2>7, <3>4 DEF i, j
    <3>6. QED
      BY <1>4, <3>5
  <2>11. QED
    BY <2>9, <2>10
<1>11. ASSUME NEW k \in 1..n
       PROVE  Visible(t, k)
  <2>1. k > 1 => k - 1 \in 1..n
    BY <1>4
  <2>2. QED
    BY <1>6, <1>10, <2>1 DEF Visible, Mark
<1>12. ASSUME NEW k \in 1..n
       PROVE  Stays(t, k)
  <2>1. SUFFICES ASSUME Blank(t[k])
                 PROVE  /\ \E l \in 1..(k - 1) : Visible(t, l) /\ ~Blank(t[l])
                        /\ \E l \in (k + 1)..Len(t) : /\ Visible(t, l) /\ ~Blank(t[l])
                                                      /\ \A x \in (k + 1)..(l - 1) : ~Visible(t, x)
    BY <1>11 DEF Stays
  <2>2. Blank(s[q[k]]) /\ q[k] \in 1..Len(s)
    BY <1>4, <1>6, <2>1
  <2>3. PICK i \in 1..(q[k] - 1) : Visible(s, i) /\ ~Blank(s[i])
    BY <1>6, <2>2 DEF Stays
  <2>4. PICK j \in (q[k] + 1)..Len(s) : /\ Visible(s, j) /\ ~Blank(s[j])
                                        /\ \A x \in (q[k] + 1)..(j - 1) : ~Visible(s, x)
    BY <1>6, <2>2 DEF Stays
  <2>5. \E l \in 1..(k - 1) : Visible(t, l) /\ ~Blank(t[l])
    <3>1. i \in 1..Len(s) /\ i < q[k]
      BY <1>1, <2>2
    <3>2. PICK l \in 1..n : q[l] = i
      BY <1>7, <2>3, <3>1
    <3>3. l < k
      BY <1>8, <3>1, <3>2
    <3>4. l \in 1..(k - 1)
      BY <1>4, <3>3
    <3>5. QED
      BY <1>6, <1>11, <2>3, <3>2, <3>4
  <2>6. \E l \in (k + 1)..Len(t) : /\ Visible(t, l) /\ ~Blank(t[l])
                                   /\ \A x \in (k + 1)..(l - 1) : ~Visible(t, x)
    <3>1. j \in 1..Len(s) /\ q[k] < j
      BY <1>1, <2>2
    <3>2. PICK l \in 1..n : q[l] = j
      BY <1>7, <2>4, <3>1
    <3>3. k < l
      BY <1>8, <3>1, <3>2
    <3>4. ~(k + 1 < l)
      <4>1. SUFFICES ASSUME k + 1 < l
                     PROVE  FALSE
        OBVIOUS
      <4>2. k + 1 \in 1..n /\ k < k + 1
        BY <1>4, <4>1
      <4>3. q[k] < q[k + 1] /\ q[k + 1] < j /\ q[k + 1] \in 1..Len(s)
        BY <1>4, <1>8, <3>2, <4>1, <4>2
      <4>4. q[k + 1] \in (q[k] + 1)..(j - 1)
        BY <1>1, <2>2, <3>1, <4>3
      <4>5. QED
        BY <1>6, <2>4, <4>2, <4>4
    <3>5. l = k + 1 /\ l \in (k + 1)..Len(t) /\ (k + 1)..(l - 1) = {}
      BY <1>4, <1>5, <3>3, <3>4
    <3>6. QED
      BY <1>6, <1>11, <2>4, <3>2, <3>5
  <2>7. QED
    BY <2>5, <2>6
<1>13. ASSUME NEW k \in 1..n
       PROVE  Image(t, k) = t[k]
  <2>1. Letter(t, k) = t[k]
    BY <1>10 DEF Letter
  <2>2. QED
    BY <1>6, <2>1 DEF Image
<1>14. Places(t, Staying(t)) = [k \in 1..n |-> k]
  <2>1. \A k \in 1..Len(t) : k \in Staying(t)
    BY <1>5, <1>12 DEF Staying
  <2>2. QED
    BY <1>4, <1>5, <2>1, AllPlaces
<1>15. Normalize(t) = [k \in 1..n |-> t[k]]
  <2> DEFINE p == [k \in 1..n |-> k]
  <2>1. Len(p) = n /\ \A k \in 1..n : p[k] = k
    BY <1>4
  <2>2. Normalize(t) = [k \in 1..Len(p) |-> Image(t, p[k])]
    BY <1>5, <1>14, NormalizeIs
  <2> HIDE DEF p
  <2>3. QED
    BY <1>13, <2>1, <2>2
<1>16. Normalize(t) = t
  <2>1. t = [k \in 1..n |-> t[k]]
    BY <1>3
  <2>2. QED
    BY <1>15, <2>1, Zenon
<1>17. QED
  BY <1>16 DEF t

-----------------------------------------------------------------------------
(***************************************************************************)
(* The telephone number and the route of a message.                          *)
(***************************************************************************)
\* The digits that stand before any address.
Address(c) == c \in {"@c.us", "@g.us"}
Numbers(s) == {i \in DOMAIN s : Digit(s[i]) /\ \A j \in 1..i : ~Address(s[j])}
Digits(s) == LET p == Places(s, Numbers(s)) IN [k \in 1..Len(p) |-> s[p[k]]]

NoNumber(s, digits) == IsGroupChatID(s) \/ Len(digits) \notin MinDigits..MaxDigits \/ digits[1] = "0"

\* A telephone number is those digits.
LEMMA PhoneIs ==
  ASSUME NEW W, NEW s \in Seq(W)
  PROVE  Phone(s) = IF NoNumber(s, Digits(s)) THEN <<>> ELSE Digits(s)
<1> DEFINE at == {i \in DOMAIN s : s[i] \in {"@c.us", "@g.us"}}
           first == CHOOSE i \in at : \A j \in at : i <= j
           number == IF at = {} THEN s ELSE SubSeq(s, 1, first - 1)
           early == {i \in DOMAIN number : Digit(number[i])}
           p == Places(number, early)
           g == [i \in 1..Len(number) |-> i]
<1>1. Len(s) \in Nat /\ DOMAIN s = 1..Len(s)
  OBVIOUS
<1>2. at # {} => first \in at /\ \A j \in at : first <= j
  <2>1. SUFFICES ASSUME at # {}
                 PROVE  first \in at /\ \A j \in at : first <= j
    OBVIOUS
  <2>2. at \in SUBSET Int /\ at \subseteq 1..Len(s) /\ 1 \in Int /\ Len(s) \in Int
    BY <1>1
  <2> HIDE DEF at
  <2>3. \E i \in at : \A j \in at : i <= j
    BY <2>1, <2>2, LeastOf, Zenon
  <2>4. QED
    BY <2>3, Zenon
<1>3. \A i \in 1..Len(s) : i \in at <=> Address(s[i])
  BY <1>1 DEF Address
<1>4. at \subseteq 1..Len(s)
  BY <1>1
<1> HIDE DEF at, first
<1>5. /\ Len(number) \in Nat /\ DOMAIN number = 1..Len(number) /\ Len(number) <= Len(s)
      /\ \A i \in 1..Len(number) : number[i] = s[i] /\ ~Address(s[i])
      /\ Len(number) < Len(s) => Address(s[Len(number) + 1])
  <2>1. CASE at = {}
    <3>1. number = s
      BY <2>1
    <3> HIDE DEF number
    <3>2. QED
      BY <1>1, <1>3, <2>1, <3>1
  <2>2. CASE at # {}
    <3>1. number = SubSeq(s, 1, first - 1)
      BY <2>2
    <3>2. first \in 1..Len(s) /\ Address(s[first]) /\ \A i \in 1..Len(s) : i < first => ~Address(s[i])
      <4>1. first \in 1..Len(s) /\ Address(s[first])
        BY <1>2, <1>3, <1>4, <2>2
      <4>2. ASSUME NEW i \in 1..Len(s), i < first
            PROVE  ~Address(s[i])
        <5>1. ~(first <= i)
          BY <1>1, <4>1, <4>2
        <5>2. QED
          BY <1>2, <1>3, <2>2, <5>1
      <4>3. QED
        BY <4>1, <4>2
    <3> HIDE DEF number
    <3>3. Len(number) = first - 1 /\ DOMAIN number = 1..(first - 1) /\ \A i \in 1..(first - 1) : number[i] = s[i]
      BY <1>1, <3>1, <3>2
    <3>4. first - 1 \in Nat /\ (first - 1) + 1 = first /\ \A i \in 1..(first - 1) : i \in 1..Len(s) /\ i < first
      BY <1>1, <3>2
    <3>5. QED
      BY <1>1, <3>2, <3>3, <3>4
  <2>3. QED
    BY <2>1, <2>2
<1> HIDE DEF number
<1>6. Moves(g, Len(number), early, Len(s), Numbers(s))
  <2>1. \A i \in 1..Len(number) : g[i] = i
    OBVIOUS
  <2> HIDE DEF g
  <2>2. \A i \in 1..Len(number) : i \in early => i \in 1..Len(s) /\ i \in Numbers(s)
    <3>1. SUFFICES ASSUME NEW i \in 1..Len(number), i \in early
                   PROVE  i \in 1..Len(s) /\ i \in Numbers(s)
      OBVIOUS
    <3>2. i \in 1..Len(s) /\ Digit(s[i])
      BY <1>1, <1>5, <3>1
    <3>3. \A j \in 1..i : j \in 1..Len(number)
      BY <1>5
    <3>4. QED
      BY <1>1, <1>5, <3>2, <3>3 DEF Numbers
  <2>3. ASSUME NEW j \in 1..Len(s), j \in Numbers(s)
        PROVE  j \in 1..Len(number) /\ j \in early
    <3>1. Digit(s[j]) /\ \A i \in 1..j : ~Address(s[i])
      BY <2>3 DEF Numbers
    <3>2. j <= Len(number)
      <4>1. SUFFICES ASSUME ~(j <= Len(number))
                     PROVE  FALSE
        OBVIOUS
      <4>2. Len(number) < Len(s) /\ Len(number) + 1 \in 1..j
        BY <1>1, <1>5, <4>1
      <4>3. QED
        BY <1>5, <3>1, <4>2
    <3>3. j \in 1..Len(number)
      BY <1>1, <3>2
    <3>4. QED
      BY <1>5, <3>1, <3>3
  <2>4. QED
    BY <2>1, <2>2, <2>3 DEF Moves
<1>7. Places(s, Numbers(s)) = [k \in 1..Len(p) |-> g[p[k]]]
  <2> HIDE DEF g, early
  <2>1. QED
    BY <1>1, <1>5, <1>6, PlacesMove
<1>8. /\ Kept(number, early) = [k \in 1..Len(p) |-> number[p[k]]]
      /\ Len(p) \in Nat /\ \A k \in 1..Len(p) : p[k] \in 1..Len(number)
  <2> HIDE DEF early
  <2>1. Chosen(p, Len(number), early) /\ Kept(number, early) = [k \in 1..Len(p) |-> number[p[k]]]
    BY <1>5, KeptIs
  <2> HIDE DEF p
  <2>2. QED
    BY <1>5, <2>1, ChosenTypes
<1>9. Kept(number, early) = Digits(s)
  <2> DEFINE r == Places(s, Numbers(s))
  <2> HIDE DEF p, early, r
  <2>1. r = [k \in 1..Len(p) |-> p[k]]
    BY <1>7, <1>8 DEF r
  <2>2. Len(r) = Len(p) /\ \A k \in 1..Len(p) : r[k] = p[k]
    BY <1>8, <2>1
  <2>3. Digits(s) = [k \in 1..Len(p) |-> s[r[k]]]
    BY <2>2 DEF Digits, r
  <2>4. \A k \in 1..Len(p) : s[r[k]] = number[p[k]]
    BY <1>5, <1>8, <2>2
  <2>5. QED
    BY <1>8, <2>3, <2>4
<1>10. Phone(s) = LET digits == Kept(number, early) IN
                  IF IsGroupChatID(s) \/ Len(digits) \notin MinDigits..MaxDigits \/ digits[1] = "0" THEN <<>> ELSE digits
  BY Zenon DEF Phone, number, first, at
<1> HIDE DEF early
<1>11. QED
  BY <1>9, <1>10, Zenon DEF NoNumber

\* What the digits of a text are.
LEMMA DigitsAre ==
  ASSUME NEW s, Text(s)
  PROVE  /\ Len(Digits(s)) \in Nat /\ DOMAIN Digits(s) = 1..Len(Digits(s))
         /\ Digits(s) = [k \in 1..Len(Digits(s)) |-> Digits(s)[k]]
         /\ \A k \in 1..Len(Digits(s)) : Digit(Digits(s)[k])
<1> DEFINE p == Places(s, Numbers(s))
<1>1. Len(s) \in Nat
  BY DEF Text
<1>2. Chosen(p, Len(s), Numbers(s))
  BY <1>1, PlacesAre
<1> HIDE DEF p
<1>3. Len(p) \in Nat /\ \A k \in 1..Len(p) : p[k] \in Numbers(s)
  BY <1>1, <1>2, ChosenTypes
<1>4. Digits(s) = [k \in 1..Len(p) |-> s[p[k]]]
  BY DEF Digits, p
<1>5. Len(Digits(s)) = Len(p) /\ DOMAIN Digits(s) = 1..Len(p)
  BY <1>3, <1>4
<1>6. \A k \in 1..Len(p) : Digit(s[p[k]])
  BY <1>3 DEF Numbers
<1>7. QED
  BY <1>3, <1>4, <1>5, <1>6

\* Signs between the digits do not count.
LEMMA SignsDoNotCount ==
  ASSUME NEW W, NEW s \in Seq(W), ~IsGroupChatID(s), NEW at \in 1..(Len(s) + 1),
         NEW c, ~Digit(c), ~Address(c)
  PROVE  Phone(InsertAt(s, at, c)) = Phone(s)
<1> DEFINE t == InsertAt(s, at, c)
           V == W \cup {c}
           g == Shifted(s, at)
           p == Places(s, Numbers(s))
<1>1. Len(s) \in Nat /\ DOMAIN s = 1..Len(s) /\ s \in Seq(V) /\ c \in V /\ Text(s)
  BY DEF Text
<1>2. /\ Text(t) /\ Len(t) = Len(s) + 1 /\ t[at] = c /\ DOMAIN t = 1..Len(t)
      /\ \A i \in 1..Len(s) : i < at => t[i] = s[i]
      /\ \A i \in 1..Len(s) : i >= at => t[i + 1] = s[i]
  <2> HIDE DEF t
  <2>1. /\ Text(t) /\ Len(t) = Len(s) + 1 /\ t[at] = c
        /\ \A i \in 1..Len(s) : i < at => t[i] = s[i]
        /\ \A i \in 1..Len(s) : i >= at => t[i + 1] = s[i]
    BY InsertedIs DEF t
  <2>2. QED
    BY <2>1 DEF Text
<1>3. t \in Seq(V)
  <2> HIDE DEF V
  <2>1. SubSeq(s, 1, at - 1) \in Seq(V) /\ SubSeq(s, at, Len(s)) \in Seq(V) /\ <<c>> \in Seq(V)
    BY <1>1
  <2>2. QED
    BY <2>1 DEF InsertAt
<1> HIDE DEF t, V
<1>4. \A i \in 1..Len(s) : /\ i < at => g[i] = i
                           /\ i >= at => g[i] = i + 1
  BY DEF Shifted
<1> HIDE DEF g
<1>5. ASSUME NEW i \in 1..Len(s)
      PROVE  g[i] \in 1..Len(t) /\ t[g[i]] = s[i] /\ g[i] # at
  <2>1. CASE i < at
    BY <1>1, <1>2, <1>4, <2>1
  <2>2. CASE i >= at
    BY <1>1, <1>2, <1>4, <2>2
  <2>3. QED
    BY <1>1, <2>1, <2>2
<1>6. ASSUME NEW i \in 1..Len(s), NEW j \in 1..Len(s)
      PROVE  g[i] <= g[j] <=> i <= j
  <2>1. /\ (i < at /\ g[i] = i) \/ (i >= at /\ g[i] = i + 1)
        /\ (j < at /\ g[j] = j) \/ (j >= at /\ g[j] = j + 1)
    BY <1>1, <1>4
  <2>2. QED
    BY <1>1, <2>1
<1>7. ASSUME NEW x \in 1..Len(t), x # at
      PROVE  \E i \in 1..Len(s) : g[i] = x
  <2>1. CASE x < at
    BY <1>1, <1>2, <1>4, <2>1
  <2>2. CASE x > at
    <3>1. x - 1 \in 1..Len(s) /\ x - 1 >= at /\ (x - 1) + 1 = x
      BY <1>1, <1>2, <2>2
    <3>2. QED
      BY <1>4, <3>1
  <2>3. QED
    BY <1>1, <1>2, <1>7, <2>1, <2>2
<1>8. ASSUME NEW i \in 1..Len(s)
      PROVE  g[i] \in Numbers(t) <=> i \in Numbers(s)
  <2>1. (\A x \in 1..g[i] : ~Address(t[x])) <=> \A j \in 1..i : ~Address(s[j])
    <3>1. ASSUME NEW j \in 1..i
          PROVE  g[j] \in 1..g[i] /\ t[g[j]] = s[j]
      <4>1. j \in 1..Len(s) /\ j <= i
        BY <1>1
      <4>2. g[j] <= g[i] /\ g[j] \in 1..Len(t) /\ g[i] \in 1..Len(t)
        BY <1>5, <1>6, <4>1
      <4>3. QED
        BY <1>1, <1>2, <1>5, <4>1, <4>2
    <3>2. ASSUME NEW x \in 1..g[i], Address(t[x])
          PROVE  \E j \in 1..i : Address(s[j])
      <4>1. x \in 1..Len(t) /\ x <= g[i]
        BY <1>1, <1>2, <1>5
      <4>2. x # at
        BY <1>2, <3>2
      <4>3. PICK j \in 1..Len(s) : g[j] = x
        BY <1>7, <4>1, <4>2
      <4>4. j \in 1..i
        BY <1>1, <1>6, <4>1, <4>3
      <4>5. QED
        BY <1>5, <3>2, <4>3, <4>4
    <3>3. QED
      BY <3>1, <3>2
  <2>2. QED
    BY <1>1, <1>2, <1>5, <2>1 DEF Numbers
<1>9. Moves(g, Len(s), Numbers(s), Len(t), Numbers(t))
  <2>1. \A i, j \in 1..Len(s) : i < j => g[i] < g[j]
    <3>1. SUFFICES ASSUME NEW i \in 1..Len(s), NEW j \in 1..Len(s), i < j
                   PROVE  g[i] < g[j]
      OBVIOUS
    <3>2. ~(j <= i)
      BY <1>1, <3>1
    <3>3. ~(g[j] <= g[i]) /\ g[i] \in Int /\ g[j] \in Int
      BY <1>5, <1>6, <3>2
    <3>4. QED
      BY <3>3
  <2>2. ASSUME NEW x \in 1..Len(t), x \in Numbers(t)
        PROVE  \E i \in 1..Len(s) : i \in Numbers(s) /\ g[i] = x
    <3>1. x # at
      BY <1>2, <2>2 DEF Numbers
    <3>2. PICK i \in 1..Len(s) : g[i] = x
      BY <1>7, <3>1
    <3>3. QED
      BY <1>8, <2>2, <3>2
  <2>3. QED
    BY <1>5, <1>8, <2>1, <2>2 DEF Moves
<1>10. Len(p) \in Nat /\ \A k \in 1..Len(p) : p[k] \in 1..Len(s)
  <2>1. Chosen(p, Len(s), Numbers(s))
    BY <1>1, PlacesAre
  <2> HIDE DEF p
  <2>2. QED
    BY <1>1, <2>1, ChosenTypes
<1>11. Digits(t) = Digits(s)
  <2> DEFINE r == Places(t, Numbers(t))
  <2>1. r = [k \in 1..Len(p) |-> g[p[k]]]
    BY ONLY <1>1, <1>2, <1>9, PlacesMove
  <2> HIDE DEF r, p
  <2>2. Len(r) = Len(p) /\ \A k \in 1..Len(p) : r[k] = g[p[k]]
    BY <1>10, <2>1
  <2>3. Digits(t) = [k \in 1..Len(p) |-> t[r[k]]]
    BY <2>2 DEF Digits, r
  <2>4. Digits(s) = [k \in 1..Len(p) |-> s[p[k]]]
    BY DEF Digits, p
  <2>5. \A k \in 1..Len(p) : t[r[k]] = s[p[k]]
    BY <1>5, <1>10, <2>2
  <2>6. QED
    BY <2>3, <2>4, <2>5
<1>12. ~IsGroupChatID(t)
  <2>1. CASE at = Len(s) + 1
    <3>1. t[Len(t)] = c
      BY <1>2, <2>1
    <3>2. c # "@g.us"
      BY DEF Address
    <3>3. QED
      BY <3>1, <3>2 DEF IsGroupChatID, Last
  <2>2. CASE at # Len(s) + 1
    <3>1. Len(s) \in 1..Len(s) /\ Len(s) >= at
      BY <1>1, <2>2
    <3>2. t[Len(t)] = s[Len(s)] /\ s # <<>>
      BY <1>2, <3>1
    <3>3. QED
      BY <3>2 DEF IsGroupChatID, Last
  <2>3. QED
    BY <2>1, <2>2
<1>13. Phone(t) = Phone(s)
  <2>1. Phone(t) = IF NoNumber(t, Digits(t)) THEN <<>> ELSE Digits(t)
    BY <1>3, PhoneIs
  <2>2. Phone(s) = IF NoNumber(s, Digits(s)) THEN <<>> ELSE Digits(s)
    BY PhoneIs
  <2>3. NoNumber(t, Digits(t)) <=> NoNumber(s, Digits(s))
    BY <1>11, <1>12 DEF NoNumber
  <2>4. QED
    BY <1>11, <2>1, <2>2, <2>3
<1>14. QED
  BY <1>13 DEF t

\* A chat's number is its contact's.
LEMMA ChatKeepsNumber ==
  ASSUME NEW W, NEW s \in Seq(W)
  PROVE  Phone(ChatID(s)) = Phone(s)
<1> DEFINE d == Phone(s)
           t == Append(d, "@c.us")
           n == Len(d)
<1>1. Text(s)
  BY DEF Text
<1>2. d = IF NoNumber(s, Digits(s)) THEN <<>> ELSE Digits(s)
  BY PhoneIs
<1>3. CASE d = <<>>
  <2>1. ChatID(s) = <<>>
    BY <1>3 DEF ChatID
  <2>2. Phone(<<>>) = IF NoNumber(<<>>, Digits(<<>>)) THEN <<>> ELSE Digits(<<>>)
    <3>1. <<>> \in Seq(W)
      OBVIOUS
    <3>2. QED
      BY <3>1, PhoneIs
  <2>3. Digits(<<>>) = <<>>
    <3>1. Text(<<>>)
      BY DEF Text
    <3>2. Chosen(Places(<<>>, Numbers(<<>>)), 0, Numbers(<<>>))
      <4>1. Len(<<>>) = 0
        OBVIOUS
      <4>2. QED
        BY <4>1, PlacesAre
    <3>3. Len(Places(<<>>, Numbers(<<>>))) = 0
      <4> DEFINE p == Places(<<>>, Numbers(<<>>))
      <4> HIDE DEF p
      <4>1. Len(p) \in Nat /\ \A k \in 1..Len(p) : p[k] \in 1..0
        BY <3>2, ChosenTypes DEF p
      <4>2. Len(p) > 0 => 1 \in 1..Len(p)
        BY <4>1
      <4>3. Len(p) = 0
        BY <4>1, <4>2
      <4>4. QED
        BY <4>3 DEF p
    <3>4. QED
      BY <3>3 DEF Digits
  <2>4. NoNumber(<<>>, <<>>)
    <3>1. 0 \notin MinDigits..MaxDigits
      BY WordingAssumption
    <3>2. QED
      BY <3>1 DEF NoNumber
  <2>5. QED
    BY <1>3, <2>1, <2>2, <2>3, <2>4
<1>4. CASE d # <<>>
  <2>1. ~NoNumber(s, Digits(s)) /\ d = Digits(s)
    BY <1>2, <1>4
  <2>2. n \in Nat /\ DOMAIN d = 1..n /\ d = [k \in 1..n |-> d[k]] /\ \A k \in 1..n : Digit(d[k])
    BY <1>1, <2>1, DigitsAre
  <2>3. n \in MinDigits..MaxDigits /\ d[1] # "0"
    BY <2>1 DEF NoNumber
  <2>4. ChatID(s) = t
    BY <1>4 DEF ChatID
  <2> DEFINE V == {d[k] : k \in 1..n} \cup {"@c.us"}
  <2>5. d \in Seq(V) /\ "@c.us" \in V
    <3>1. \A k \in 1..n : d[k] \in V
      OBVIOUS
    <3>2. "@c.us" \in V
      OBVIOUS
    <3> HIDE DEF d, V
    <3>3. QED
      BY <2>2, <3>1, <3>2
  <2> HIDE DEF d, V
  <2>6. t \in Seq(V) /\ Len(t) = n + 1 /\ DOMAIN t = 1..(n + 1) /\ t[n + 1] = "@c.us" /\ \A k \in 1..n : t[k] = d[k]
    BY <2>2, <2>5
  <2> HIDE DEF t
  <2>7. /\ ~Digit("@c.us") /\ "@c.us" # "@g.us"
        /\ \A c : Digit(c) => ~Address(c)
    <3>1. ~Digit("@c.us") /\ ~Digit("@g.us") /\ "@c.us" # "@g.us"
      BY Zenon DEF Digit
    <3>2. QED
      BY <3>1, Zenon DEF Address
  <2> DEFINE all == 1..n
             g == [i \in 1..n |-> i]
  <2>8. \A i \in 1..n : i \in Numbers(t)
    <3>1. SUFFICES ASSUME NEW i \in 1..n
                   PROVE  i \in Numbers(t)
      OBVIOUS
    <3>2. i \in DOMAIN t /\ Digit(t[i])
      BY <2>2, <2>6
    <3>3. \A j \in 1..i : j \in 1..n
      BY <2>2
    <3>4. \A j \in 1..i : ~Address(t[j])
      BY <2>2, <2>6, <2>7, <3>3
    <3>5. QED
      BY <3>2, <3>4 DEF Numbers
  <2>9. n + 1 \notin Numbers(t)
    BY <2>6, <2>7 DEF Numbers
  <2>10. Moves(g, n, all, Len(t), Numbers(t))
    <3>1. \A i \in 1..n : g[i] = i /\ i \in all /\ i \in 1..(n + 1)
      BY <2>2
    <3>2. \A x \in 1..(n + 1) : x \in Numbers(t) => x \in 1..n
      BY <2>2, <2>9
    <3> HIDE DEF g, all
    <3>3. QED
      BY <2>6, <2>8, <3>1, <3>2 DEF Moves
  <2>11. Places(d, all) = [k \in 1..n |-> k]
    <3>1. \A i \in 1..n : i \in all
      OBVIOUS
    <3> HIDE DEF all
    <3>2. QED
      BY <2>2, <3>1, AllPlaces
  <2>12. Places(t, Numbers(t)) = [k \in 1..n |-> k]
    <3> DEFINE p == Places(d, all)
               r == Places(t, Numbers(t))
    <3>1. Len(t) \in Nat
      BY <2>2, <2>6
    <3>2. r = [k \in 1..Len(p) |-> g[p[k]]]
      <4> HIDE DEF g, all
      <4>1. QED
        BY ONLY <2>2, <2>10, <3>1, PlacesMove
    <3>3. Len(p) = n /\ \A k \in 1..n : p[k] = k
      BY <2>2, <2>11
    <3>4. \A k \in 1..n : g[p[k]] = k
      BY <3>3
    <3> HIDE DEF g, p, r
    <3>5. r = [k \in 1..n |-> k]
      BY <3>2, <3>3, <3>4
    <3>6. QED
      BY <3>5 DEF r
  <2>13. Digits(t) = d
    <3> DEFINE r == [k \in 1..n |-> k]
    <3>1. Len(r) = n /\ \A k \in 1..n : r[k] = k
      BY <2>2
    <3>2. Digits(t) = [k \in 1..Len(r) |-> t[r[k]]]
      BY <2>12 DEF Digits
    <3> HIDE DEF r
    <3>3. Digits(t) = [k \in 1..n |-> d[k]]
      BY <2>6, <3>1, <3>2
    <3>4. QED
      BY <2>2, <3>3
  <2>14. ~NoNumber(t, d)
    <3>1. ~IsGroupChatID(t)
      BY <2>6, <2>7 DEF IsGroupChatID, Last
    <3>2. QED
      BY <2>3, <3>1 DEF NoNumber
  <2>15. Phone(t) = d
    BY <2>6, <2>13, <2>14, PhoneIs
  <2>16. QED
    BY <2>4, <2>15 DEF d
<1>5. QED
  BY <1>3, <1>4

\* A message that is normalised alike leads to the same.
LEMMA SameWay ==
  ASSUME NEW triggers, NEW s, NEW t, Normalize(t) = Normalize(s)
  PROVE  Route(triggers, t) = Route(triggers, s)
<1>1. \A words : IsUnsubscribe(words, t) <=> IsUnsubscribe(words, s)
  BY Zenon DEF IsUnsubscribe
<1> DEFINE hits(text) == {tr \in triggers : Matches(text, tr.normalized, tr.mode)}
           way(text) == IF hits(text) = {} THEN 0
                        ELSE (CHOOSE tr \in hits(text) : \A u \in hits(text) \ {tr} : Before(tr, u)).campaign
<1>2. MatchTrigger(triggers, t) = MatchTrigger(triggers, s)
  <2>1. MatchTrigger(triggers, t) = way(Normalize(t)) /\ MatchTrigger(triggers, s) = way(Normalize(s))
    BY DEF MatchTrigger
  <2> HIDE DEF way
  <2>2. QED
    BY <2>1, Zenon
<1>3. QED
  BY <1>1, <1>2, Zenon DEF Route

\* Capitals, blanks, look-alikes and invisible characters do not change where a
\* message leads, to a campaign or out of it, for any message in which no invisible
\* character stands between a letter and its mark; nor do the signs in a telephone
\* number change whose it is, and it is its chat's, for whatever is no group's id
\* (Normalize, MatchTrigger, IsUnsubscribe, phone).
THEOREM SpellingDoesNotMatterAlways ==
  ASSUME NEW W, ask.text \in Seq(W),
         On("number") => ~IsGroupChatID(ask.text),
         On("route") => \A i \in DOMAIN ask.text : i > 1 /\ ask.text[i] = ":" => ~Ignorable(ask.text[i - 1])
  PROVE  SpellingDoesNotMatter
<1> DEFINE s == ask.text
           route(t) == Route(ask.triggers, t)
<1>1. Len(s) \in Nat /\ DOMAIN s = 1..Len(s) /\ Text(s)
  BY DEF Text
<1>2. ASSUME On("number")
      PROVE  /\ Phone(ChatID(s)) = Phone(s)
             /\ \A i \in 1..(Len(s) + 1) : Phone(InsertAt(s, i, "-")) = Phone(s)
  <2>1. ~Digit("-") /\ ~Address("-")
    BY Zenon DEF Digit, Address
  <2>2. QED
    BY <1>2, <2>1, ChatKeepsNumber, SignsDoNotCount
<1>3. ASSUME On("route")
      PROVE  /\ Normalize(Normalize(s)) = Normalize(s)
             /\ route([i \in DOMAIN s |-> FoldLookalike(FoldCase(s[i]))]) = route(s)
             /\ route(<<" ">> \o s \o <<"tab">>) = route(s)
             /\ \A i \in DOMAIN s : /\ s[i] # ":" => route(InsertAt(s, i, "zwj")) = route(s)
                                    /\ Blank(s[i]) => route(InsertAt(s, i, "tab")) = route(s)
  <2>1. /\ Blank(" ") /\ Blank("tab") /\ " " \notin {"a", "A"} /\ "tab" # ":" /\ "tab" # "a" /\ "tab" # "A"
        /\ Ignorable("zwj") /\ "zwj" # ":" /\ "zwj" # "a" /\ "zwj" # "A"
    BY Zenon DEF Blank, Ignorable
  <2>2. Normalize(Normalize(s)) = Normalize(s)
    BY <1>1, <1>3, NormalizedStays
  <2>3. route([i \in DOMAIN s |-> FoldLookalike(FoldCase(s[i]))]) = route(s)
    BY <1>1, CapitalsDoNotCount, SameWay, Zenon
  <2>4. route(<<" ">> \o s \o <<"tab">>) = route(s)
    <3>1. Normalize(<<" ">> \o s \o <<"tab">>) = Normalize(s)
      BY <2>1, EndsDoNotCount, Zenon
    <3>2. QED
      BY <3>1, SameWay, Zenon
  <2>5. ASSUME NEW i \in DOMAIN s, s[i] # ":"
        PROVE  route(InsertAt(s, i, "zwj")) = route(s)
    <3>1. Normalize(InsertAt(s, i, "zwj")) = Normalize(s)
      BY <2>1, <2>5, InvisibleDoesNotCount, Zenon
    <3>2. QED
      BY <3>1, SameWay, Zenon
  <2>6. ASSUME NEW i \in DOMAIN s, Blank(s[i])
        PROVE  route(InsertAt(s, i, "tab")) = route(s)
    <3>1. Normalize(InsertAt(s, i, "tab")) = Normalize(s)
      BY <2>1, <2>6, BlanksDoNotCount, Zenon
    <3>2. QED
      BY <3>1, SameWay, Zenon
  <2>7. QED
    BY <2>2, <2>3, <2>4, <2>5, <2>6
<1> HIDE DEF route
<1>4. QED
  BY <1>2, <1>3, Zenon DEF SpellingDoesNotMatter, route

-----------------------------------------------------------------------------
(***************************************************************************)
(* What a template becomes: the loop that replaces placeholders is a chain of *)
(* parts that open nothing and ends in a rest that is bare; the two passes   *)
(* over its result bring no two braces together that were apart.             *)
(***************************************************************************)
\* Each part but the last ones names one further on.
Onward(N, stop, next) == \A n \in 1..N : n \notin stop => next[n] \in (n + 1)..N

\* Texts that are each a part followed by the text of the part it names.
Chained(f, N, stop, last, left, next) ==
  f = [n \in 1..N |-> IF n \in stop THEN last[n] ELSE left[n] \o f[next[n]]]

LEMMA ChainExists ==
  ASSUME NEW N \in Nat, NEW stop, NEW last, NEW left, NEW next, Onward(N, stop, next)
  PROVE  \E f : Chained(f, N, stop, last, left, next)
<1> DEFINE P(k) == \E f : f = [n \in k..N |-> IF n \in stop THEN last[n] ELSE left[n] \o f[next[n]]]
           K == {k \in 1..(N + 1) : ~P(k)}
<1>1. SUFFICES K = {}
  <2>1. 1 \in 1..(N + 1)
    OBVIOUS
  <2>2. QED
    BY <2>1 DEF Chained
<1>2. SUFFICES ASSUME K # {}
               PROVE  FALSE
  OBVIOUS
<1>3. PICK m \in K : \A k \in K : k <= m
  <2>1. K \in SUBSET Int /\ K \subseteq 1..(N + 1) /\ 1 \in Int /\ N + 1 \in Int
    <3> HIDE DEF P
    <3>1. QED
      OBVIOUS
  <2> HIDE DEF K
  <2>2. QED
    BY <1>2, <2>1, GreatestOf, Zenon
<1>4. m \in 1..(N + 1) /\ ~P(m)
  <2> HIDE DEF P
  <2>1. QED
    BY <1>3
<1>5. m # N + 1
  <2> DEFINE none == (N + 1)..N
             f == [n \in none |-> 0]
  <2>1. none = {}
    OBVIOUS
  <2> HIDE DEF none
  <2>2. f = [n \in none |-> IF n \in stop THEN last[n] ELSE left[n] \o f[next[n]]]
    <3> HIDE DEF f
    <3>1. f = [n \in none |-> 0]
      BY DEF f
    <3>2. QED
      BY <2>1, <3>1, Zenon
  <2>3. P(N + 1)
    <3> HIDE DEF f
    <3>1. QED
      BY <2>2, Zenon DEF none
  <2> HIDE DEF P
  <2>4. QED
    BY <1>4, <2>3, Zenon
<1>6. m \in 1..N /\ m + 1 \in 1..(N + 1) /\ ~(m + 1 <= m)
  BY <1>4, <1>5
<1>7. P(m + 1)
  <2> HIDE DEF P
  <2>1. m + 1 \notin K
    <3> HIDE DEF K
    <3>1. QED
      BY <1>3, <1>6, Zenon
  <2>2. QED
    BY <1>6, <2>1, Zenon
<1>8. PICK f : f = [n \in (m + 1)..N |-> IF n \in stop THEN last[n] ELSE left[n] \o f[next[n]]]
  BY <1>7, Zenon
<1> DEFINE g == [n \in m..N |-> IF n = m THEN (IF m \in stop THEN last[m] ELSE left[m] \o f[next[m]]) ELSE f[n]]
<1>9. ASSUME NEW n \in m..N, n \notin stop
      PROVE  g[next[n]] = f[next[n]]
  <2>1. n \in 1..N
    BY <1>6
  <2>2. next[n] \in (n + 1)..N
    BY <1>9, <2>1 DEF Onward
  <2>3. next[n] \in m..N /\ next[n] # m
    BY <1>6, <2>2
  <2>4. QED
    BY <2>3, Zenon
<1>10. ASSUME NEW n \in m..N
       PROVE  g[n] = IF n \in stop THEN last[n] ELSE left[n] \o g[next[n]]
  <2>1. CASE n = m
    <3>1. g[n] = IF n \in stop THEN last[n] ELSE left[n] \o f[next[n]]
      BY <2>1, Zenon
    <3> HIDE DEF g
    <3>2. QED
      BY <1>9, <3>1, Zenon
  <2>2. CASE n # m
    <3>1. n \in (m + 1)..N
      BY <1>6, <2>2
    <3>2. g[n] = f[n]
      BY <2>2, Zenon
    <3>3. f[n] = IF n \in stop THEN last[n] ELSE left[n] \o f[next[n]]
      BY <1>8, <3>1, Zenon
    <3> HIDE DEF g
    <3>4. QED
      BY <1>9, <3>2, <3>3, Zenon
  <2>3. QED
    BY <2>1, <2>2
<1>11. g = [n \in m..N |-> IF n \in stop THEN last[n] ELSE left[n] \o g[next[n]]]
  <2>1. g = [n \in m..N |-> g[n]]
    OBVIOUS
  <2> HIDE DEF g
  <2>2. QED
    BY <1>10, <2>1, Zenon
<1>12. P(m)
  <2> HIDE DEF g
  <2>1. QED
    BY <1>11, Zenon
<1>13. QED
  BY <1>4, <1>12

\* Two of the first open a placeholder, two of the second close it.
Open == "{"
Close == "}"

\* No placeholder is opened in a text, nor by what comes after it.
Shut(s) == \A i \in 1..Len(s) : s[i] = Open => i < Len(s) /\ s[i + 1] # Open

\* None is opened that is closed.
Bare(s) == ~\E i, j \in DOMAIN s : i < j /\ At(s, i, Open) /\ At(s, j, Close)

LEMMA JoinedIs ==
  ASSUME NEW V, NEW a \in Seq(V), NEW b \in Seq(V)
  PROVE  /\ a \o b \in Seq(V) /\ Len(a) \in Nat /\ Len(b) \in Nat /\ Len(a \o b) = Len(a) + Len(b)
         /\ \A i \in 1..Len(a) : (a \o b)[i] = a[i]
         /\ \A i \in 1..Len(b) : (a \o b)[Len(a) + i] = b[i]
OBVIOUS

LEMMA ShutJoined ==
  ASSUME NEW V, NEW a \in Seq(V), NEW b \in Seq(V), Shut(a), Shut(b)
  PROVE  Shut(a \o b)
<1> DEFINE t == a \o b
<1>1. /\ Len(a) \in Nat /\ Len(b) \in Nat /\ Len(t) = Len(a) + Len(b)
      /\ \A i \in 1..Len(a) : t[i] = a[i]
      /\ \A i \in 1..Len(b) : t[Len(a) + i] = b[i]
  BY JoinedIs
<1> HIDE DEF t
<1>2. ASSUME NEW i \in 1..Len(t), t[i] = Open
      PROVE  i < Len(t) /\ t[i + 1] # Open
  <2>1. CASE i \in 1..Len(a)
    <3>1. a[i] = Open
      BY <1>1, <1>2, <2>1
    <3>2. i < Len(a) /\ a[i + 1] # Open
      BY <2>1, <3>1 DEF Shut
    <3>3. i + 1 \in 1..Len(a) /\ i < Len(t)
      BY <1>1, <2>1, <3>2
    <3>4. QED
      BY <1>1, <3>2, <3>3
  <2>2. CASE i \notin 1..Len(a)
    <3> DEFINE k == i - Len(a)
    <3>1. k \in 1..Len(b) /\ Len(a) + k = i
      BY <1>1, <2>2
    <3> HIDE DEF k
    <3>2. b[k] = Open
      BY <1>1, <1>2, <3>1
    <3>3. k < Len(b) /\ b[k + 1] # Open
      BY <3>1, <3>2 DEF Shut
    <3>4. k < Len(b)
      BY <3>3
    <3>5. k + 1 \in 1..Len(b) /\ Len(a) + (k + 1) = i + 1 /\ i < Len(t)
      <4>1. Len(a) \in Nat /\ Len(b) \in Nat /\ Len(t) = Len(a) + Len(b) /\ k \in 1..Len(b) /\ Len(a) + k = i
        BY <1>1, <3>1
      <4>2. QED
        BY ONLY <3>4, <4>1
    <3>6. t[i + 1] = b[k + 1]
      BY <1>1, <3>5
    <3>7. QED
      BY <3>3, <3>5, <3>6
  <2>3. QED
    BY <2>1, <2>2
<1>3. QED
  BY <1>2 DEF Shut, t

LEMMA BareJoined ==
  ASSUME NEW V, NEW a \in Seq(V), NEW b \in Seq(V), Shut(a), Bare(b)
  PROVE  Bare(a \o b)
<1> DEFINE t == a \o b
<1>1. /\ Len(a) \in Nat /\ Len(b) \in Nat /\ Len(t) = Len(a) + Len(b) /\ DOMAIN t = 1..Len(t) /\ DOMAIN b = 1..Len(b)
      /\ \A i \in 1..Len(a) : t[i] = a[i]
      /\ \A i \in 1..Len(b) : t[Len(a) + i] = b[i]
  BY JoinedIs
<1> HIDE DEF t
<1>2. ASSUME NEW i \in 1..Len(t), NEW c, At(t, i, c), i > Len(a)
      PROVE  i - Len(a) \in 1..Len(b) /\ At(b, i - Len(a), c)
  <2> DEFINE k == i - Len(a)
  <2>1. i + 1 <= Len(t) /\ t[i] = c /\ t[i + 1] = c
    BY <1>2 DEF At
  <2>2. k \in 1..Len(b) /\ Len(a) + k = i /\ k + 1 \in 1..Len(b) /\ Len(a) + (k + 1) = i + 1 /\ k + 1 <= Len(b)
    BY <1>1, <1>2, <2>1
  <2> HIDE DEF k
  <2>3. b[k] = c /\ b[k + 1] = c
    BY <1>1, <2>1, <2>2
  <2>4. QED
    BY <2>2, <2>3 DEF At, k
<1>3. SUFFICES ASSUME NEW i \in 1..Len(t), NEW j \in 1..Len(t), i < j, At(t, i, Open), At(t, j, Close)
               PROVE  FALSE
  BY <1>1 DEF Bare, t
<1>4. i > Len(a)
  <2>1. SUFFICES ASSUME i \in 1..Len(a)
                 PROVE  FALSE
    BY <1>1
  <2>2. t[i] = Open /\ t[i + 1] = Open
    BY <1>3 DEF At
  <2>3. i < Len(a) /\ a[i + 1] # Open
    BY <1>1, <2>1, <2>2 DEF Shut
  <2>4. i + 1 \in 1..Len(a)
    BY <1>1, <2>1, <2>3
  <2>5. QED
    BY <1>1, <2>2, <2>3, <2>4
<1>5. j > Len(a)
  BY <1>1, <1>3, <1>4
<1> DEFINE k == i - Len(a)
           l == j - Len(a)
<1>6. k \in DOMAIN b /\ l \in DOMAIN b /\ At(b, k, Open) /\ At(b, l, Close)
  BY <1>1, <1>2, <1>3, <1>4, <1>5
<1>7. k < l
  BY <1>1, <1>3
<1> HIDE DEF k, l
<1>8. QED
  BY <1>6, <1>7 DEF Bare

\* What stands before the first opening braces opens nothing.
LEMMA BeforeOpening ==
  ASSUME NEW W, NEW s \in Seq(W), NEW n \in 1..Len(s), NEW o \in n..Len(s), At(s, o, Open),
         \A i \in n..Len(s) : At(s, i, Open) => o <= i
  PROVE  SubSeq(s, n, o - 1) \in Seq(W) /\ Shut(SubSeq(s, n, o - 1))
<1> DEFINE p == SubSeq(s, n, o - 1)
<1>1. Len(s) \in Nat /\ n \in Nat /\ o \in Nat
  OBVIOUS
<1>2. p \in Seq(W) /\ Len(p) = o - n /\ \A i \in 1..(o - n) : p[i] = s[n + i - 1]
  BY <1>1
<1> HIDE DEF p
<1>3. ASSUME NEW i \in 1..(o - n), p[i] = Open
      PROVE  i < o - n /\ p[i + 1] # Open
  <2> DEFINE k == n + i - 1
  <2>1. k \in n..(o - 1) /\ k \in n..Len(s) /\ k + 1 = n + (i + 1) - 1 /\ k + 1 <= Len(s) /\ ~(o <= k)
    BY <1>1
  <2>2. i < o - n => i + 1 \in 1..(o - n)
    BY <1>1
  <2>3. ~(i < o - n) => k + 1 = o
    BY <1>1
  <2>4. s[k] = Open
    BY <1>2, <1>3
  <2> HIDE DEF k
  <2>5. s[k + 1] # Open
    BY <2>1, <2>4 DEF At
  <2>6. s[o] = Open
    BY DEF At
  <2>7. i < o - n
    BY <2>3, <2>5, <2>6
  <2>8. p[i + 1] = s[k + 1]
    BY <1>2, <2>1, <2>2, <2>7
  <2>9. QED
    BY <2>5, <2>7, <2>8
<1>4. Shut(p)
  BY <1>2, <1>3 DEF Shut
<1>5. QED
  BY <1>2, <1>4 DEF p

\* A rest in which nothing is opened, or what is opened is not closed.
LEMMA RestIsBare ==
  ASSUME NEW W, NEW s \in Seq(W), NEW n \in 1..(Len(s) + 2),
         \A i, j \in n..Len(s) : ~(At(s, i, Open) /\ At(s, j, Close) /\ i + 2 <= j)
  PROVE  SubSeq(s, n, Len(s)) \in Seq(W) /\ Bare(SubSeq(s, n, Len(s)))
<1> DEFINE N == Len(s)
           p == SubSeq(s, n, N)
<1>1. N \in Nat /\ n \in Nat
  OBVIOUS
<1>2. CASE n > N
  <2>1. p \in Seq(W) /\ DOMAIN p = {}
    BY <1>1, <1>2
  <2>2. QED
    BY <2>1 DEF Bare
<1>3. CASE n <= N
  <2>1. p \in Seq(W) /\ Len(p) = N - n + 1 /\ DOMAIN p = 1..(N - n + 1) /\ \A i \in 1..(N - n + 1) : p[i] = s[n + i - 1]
    BY <1>1, <1>3
  <2> HIDE DEF p
  <2>2. ASSUME NEW i \in 1..(N - n + 1), NEW c, At(p, i, c)
        PROVE  n + i - 1 \in n..N /\ At(s, n + i - 1, c)
    <3> DEFINE k == n + i - 1
    <3>1. i + 1 <= N - n + 1 /\ p[i] = c /\ p[i + 1] = c
      BY <2>1, <2>2 DEF At
    <3>2. k \in n..N /\ k + 1 <= N /\ k + 1 = n + (i + 1) - 1 /\ i + 1 \in 1..(N - n + 1)
      BY <1>1, <3>1
    <3>3. s[k] = c /\ s[k + 1] = c
      BY <2>1, <3>1, <3>2
    <3> HIDE DEF k
    <3>4. QED
      BY <3>2, <3>3 DEF At, k
  <2>3. ASSUME NEW i \in 1..(N - n + 1), NEW j \in 1..(N - n + 1), i < j, At(p, i, Open), At(p, j, Close)
        PROVE  FALSE
    <3>1. i + 1 # j
      <4>1. p[i + 1] = Open /\ p[j] = Close
        BY <2>3 DEF At
      <4>2. Open # Close
        BY Zenon DEF Open, Close
      <4>3. QED
        BY <4>1, <4>2, Zenon
    <3> DEFINE k == n + i - 1
               l == n + j - 1
    <3>2. k + 2 <= l
      BY <1>1, <2>3, <3>1
    <3>3. k \in n..N /\ l \in n..N /\ At(s, k, Open) /\ At(s, l, Close)
      BY <2>2, <2>3
    <3> HIDE DEF k, l
    <3>4. QED
      BY <3>2, <3>3
  <2>4. Bare(p)
    BY <2>1, <2>3 DEF Bare
  <2>5. QED
    BY <2>1, <2>4 DEF p
<1>4. QED
  BY <1>1, <1>2, <1>3

LEMMA FirstIs ==
  ASSUME NEW S \in SUBSET Int, NEW low \in Int, NEW high \in Int, S \subseteq low..high, S # {}
  PROVE  First(S) \in S /\ \A i \in S : First(S) <= i
<1>1. \E m \in S : \A i \in S : m <= i
  BY LeastOf
<1>2. QED
  BY <1>1, Zenon DEF First

\* The last parts are bare, and the others open nothing.
Parts(N, stop, last, left, V) ==
  /\ \A n \in 1..N : n \in stop => last[n] \in Seq(V) /\ Bare(last[n])
  /\ \A n \in 1..N : n \notin stop => left[n] \in Seq(V) /\ Shut(left[n])

\* Whatever is chained from parts that open nothing to a last one that is bare is bare.
LEMMA ChainIsBare ==
  ASSUME NEW N \in Nat, NEW stop, NEW last, NEW left, NEW next, NEW V, NEW f,
         Chained(f, N, stop, last, left, next), Onward(N, stop, next), Parts(N, stop, last, left, V)
  PROVE  \A n \in 1..N : f[n] \in Seq(V) /\ Bare(f[n])
<1> DEFINE K == {n \in 1..N : ~(f[n] \in Seq(V) /\ Bare(f[n]))}
<1>1. SUFFICES ASSUME K # {}
               PROVE  FALSE
  OBVIOUS
<1>2. PICK m \in K : \A k \in K : k <= m
  <2>1. K \in SUBSET Int /\ K \subseteq 1..N /\ 1 \in Int /\ N \in Int
    OBVIOUS
  <2> HIDE DEF K
  <2>2. QED
    BY <1>1, <2>1, GreatestOf, Zenon
<1>3. m \in 1..N /\ ~(f[m] \in Seq(V) /\ Bare(f[m]))
  BY <1>2, Zenon
<1>4. f[m] = IF m \in stop THEN last[m] ELSE left[m] \o f[next[m]]
  BY <1>3, Zenon DEF Chained
<1>5. CASE m \in stop
  BY <1>3, <1>4, <1>5, Zenon DEF Parts
<1>6. CASE m \notin stop
  <2>1. next[m] \in (m + 1)..N /\ left[m] \in Seq(V) /\ Shut(left[m])
    BY <1>3, <1>6, Zenon DEF Onward, Parts
  <2>2. next[m] \in 1..N /\ ~(next[m] <= m)
    BY <1>3, <2>1
  <2>3. f[next[m]] \in Seq(V) /\ Bare(f[next[m]])
    BY <1>2, <2>2, Zenon
  <2> DEFINE a == left[m]
             b == f[next[m]]
  <2>4. f[m] = a \o b
    BY <1>4, <1>6, Zenon
  <2>5. a \in Seq(V) /\ b \in Seq(V) /\ Shut(a) /\ Bare(b)
    BY <2>1, <2>3
  <2> HIDE DEF a, b
  <2>6. a \o b \in Seq(V) /\ Bare(a \o b)
    BY <2>5, JoinedIs, BareJoined
  <2>7. QED
    BY <1>3, <2>4, <2>6, Zenon
<1>7. QED
  BY <1>5, <1>6

\* From place n on: where a placeholder opens, and where the first one that opens closes.
Opens(s, n) == {i \in n..Len(s) : At(s, i, Open)}
Closes(s, n) == {i \in (First(Opens(s, n)) + 2)..Len(s) : At(s, i, Close)}

\* The chain that the loop of Render goes along.
Ends(s) == {n \in 1..(Len(s) + 2) : Opens(s, n) = {} \/ Closes(s, n) = {}}
Rests(s) == [n \in 1..(Len(s) + 2) |-> SubSeq(s, n, Len(s))]
Ahead(s, n) == SubSeq(s, n, First(Opens(s, n)) - 1)
KeyAt(s, n) == SubSeq(s, First(Opens(s, n)) + 2, First(Closes(s, n)) - 1)
Pieces(s, context) == [n \in 1..(Len(s) + 2) |-> Ahead(s, n) \o Lookup(KeyAt(s, n), context)]
Goes(s) == [n \in 1..(Len(s) + 2) |-> First(Closes(s, n)) + 2]

LEMMA OpeningIs ==
  ASSUME NEW W, NEW s \in Seq(W), NEW n \in 1..(Len(s) + 2), Opens(s, n) # {}
  PROVE  /\ First(Opens(s, n)) \in n..Len(s) /\ At(s, First(Opens(s, n)), Open)
         /\ \A i \in n..Len(s) : At(s, i, Open) => First(Opens(s, n)) <= i
<1> DEFINE S == Opens(s, n)
           o == First(S)
<1>1. S \in SUBSET Int /\ n \in Int /\ Len(s) \in Int /\ S \subseteq n..Len(s) /\ S # {}
  BY DEF Opens
<1> HIDE DEF S
<1>2. o \in S /\ \A i \in S : o <= i
  BY <1>1, FirstIs
<1> HIDE DEF o
<1>3. QED
  BY <1>2 DEF S, o, Opens

LEMMA ClosingIs ==
  ASSUME NEW W, NEW s \in Seq(W), NEW n \in 1..(Len(s) + 2), n \notin Ends(s)
  PROVE  /\ Opens(s, n) # {}
         /\ First(Closes(s, n)) \in (First(Opens(s, n)) + 2)..Len(s) /\ At(s, First(Closes(s, n)), Close)
<1> DEFINE o == First(Opens(s, n))
           S == Closes(s, n)
<1>1. Opens(s, n) # {} /\ S # {}
  BY Zenon DEF Ends
<1>2. o \in n..Len(s)
  BY <1>1, OpeningIs
<1>3. S = {i \in (o + 2)..Len(s) : At(s, i, Close)}
  BY Zenon DEF Closes
<1> HIDE DEF o, S
<1>4. S \in SUBSET Int /\ o + 2 \in Int /\ Len(s) \in Int /\ S \subseteq (o + 2)..Len(s)
  BY <1>2, <1>3
<1>5. First(S) \in S
  BY <1>1, <1>4, FirstIs
<1>6. First(S) \in (o + 2)..Len(s) /\ At(s, First(S), Close)
  BY <1>3, <1>5, Zenon
<1>7. QED
  BY <1>1, <1>6, Zenon DEF o, S

LEMMA GoesOn ==
  ASSUME NEW W, NEW s \in Seq(W)
  PROVE  Len(s) + 2 \in Nat /\ Onward(Len(s) + 2, Ends(s), Goes(s))
<1>1. Len(s) \in Nat
  OBVIOUS
<1>2. ASSUME NEW n \in 1..(Len(s) + 2), n \notin Ends(s)
      PROVE  Goes(s)[n] \in (n + 1)..(Len(s) + 2)
  <2> DEFINE o == First(Opens(s, n))
             c == First(Closes(s, n))
  <2>1. Opens(s, n) # {} /\ c \in (o + 2)..Len(s)
    BY <1>2, ClosingIs, Zenon
  <2>2. o \in n..Len(s)
    BY <2>1, OpeningIs
  <2>3. Goes(s)[n] = c + 2
    BY Zenon DEF Goes
  <2> HIDE DEF o, c
  <2>4. QED
    BY <1>1, <2>1, <2>2, <2>3
<1>3. QED
  BY <1>1, <1>2 DEF Onward

\* The text that the loop of Render writes.
LEMMA LoopIs ==
  ASSUME NEW W, NEW s \in Seq(W), NEW context
  PROVE  \E f : /\ Chained(f, Len(s) + 2, Ends(s), Rests(s), Pieces(s, context), Goes(s))
                /\ Replaced(s, context) = f[1]
<1> DEFINE D == 1..(Len(s) + 2)
           loop(f) == [n \in D |->
             IF Opens(s, n) = {} \/ Closes(s, n) = {} THEN SubSeq(s, n, Len(s))
             ELSE SubSeq(s, n, First(Opens(s, n)) - 1)
                  \o Lookup(SubSeq(s, First(Opens(s, n)) + 2, First(Closes(s, n)) - 1), context)
                  \o f[First(Closes(s, n)) + 2]]
           chain(f) == [n \in D |-> IF n \in Ends(s) THEN Rests(s)[n] ELSE Pieces(s, context)[n] \o f[Goes(s)[n]]]
<1>1. Replaced(s, context) = (CHOOSE f : f = loop(f))[1]
  BY Zenon DEF Replaced, Open, Close, Opens, Closes
<1>2. ASSUME NEW f
      PROVE  loop(f) = chain(f)
  <2> DEFINE x(n) == IF Opens(s, n) = {} \/ Closes(s, n) = {} THEN SubSeq(s, n, Len(s))
                     ELSE Ahead(s, n) \o Lookup(KeyAt(s, n), context) \o f[First(Closes(s, n)) + 2]
             y(n) == IF n \in Ends(s) THEN Rests(s)[n] ELSE Pieces(s, context)[n] \o f[Goes(s)[n]]
  <2>1. ASSUME NEW n \in D
        PROVE  x(n) = y(n)
    <3>1. /\ n \in Ends(s) <=> Opens(s, n) = {} \/ Closes(s, n) = {}
          /\ Rests(s)[n] = SubSeq(s, n, Len(s)) /\ Pieces(s, context)[n] = Ahead(s, n) \o Lookup(KeyAt(s, n), context)
          /\ Goes(s)[n] = First(Closes(s, n)) + 2
      BY Zenon DEF Ends, Rests, Pieces, Goes
    <3>2. QED
      BY <3>1, Zenon
  <2>2. loop(f) = [n \in D |-> x(n)]
    BY Zenon DEF Ahead, KeyAt
  <2> HIDE DEF x, y, D, loop
  <2>3. [n \in D |-> x(n)] = [n \in D |-> y(n)]
    BY <2>1, Zenon
  <2>4. QED
    BY <2>2, <2>3, Zenon DEF y
<1>3. \E f : f = chain(f)
  <2>1. \E f : Chained(f, Len(s) + 2, Ends(s), Rests(s), Pieces(s, context), Goes(s))
    BY GoesOn, ChainExists
  <2>2. QED
    BY <2>1, Zenon DEF Chained
<1> DEFINE g == CHOOSE f : f = loop(f)
<1> HIDE DEF loop, chain
<1>4. g = loop(g)
  BY <1>2, <1>3, Zenon
<1>5. Replaced(s, context) = g[1]
  BY <1>1, Zenon
<1> HIDE DEF g
<1>6. g = chain(g)
  BY <1>2, <1>4, Zenon
<1>7. QED
  BY <1>5, <1>6, Zenon DEF Chained, chain

\* The loop of Render leaves no placeholder, if no value brings a brace.
LEMMA ReplacedIsBare ==
  ASSUME NEW W, NEW s \in Seq(W), NEW B, Open \notin B, NEW context, \A key : Lookup(key, context) \in Seq(B)
  PROVE  Replaced(s, context) \in Seq(W \cup B) /\ Bare(Replaced(s, context))
<1> DEFINE V == W \cup B
           N == Len(s)
           M == N + 2
<1>1. N \in Nat /\ s \in Seq(V) /\ 1 \in 1..M
  OBVIOUS
<1>2. PICK f : /\ Chained(f, M, Ends(s), Rests(s), Pieces(s, context), Goes(s))
               /\ Replaced(s, context) = f[1]
  BY LoopIs
<1>3. M \in Nat /\ Onward(M, Ends(s), Goes(s))
  BY GoesOn
<1>4. ASSUME NEW n \in 1..M, n \in Ends(s)
      PROVE  Rests(s)[n] \in Seq(V) /\ Bare(Rests(s)[n])
  <2>1. ASSUME NEW i \in n..N, NEW j \in n..N, At(s, i, Open), At(s, j, Close), i + 2 <= j
        PROVE  FALSE
    <3>1. Opens(s, n) # {}
      BY <2>1 DEF Opens
    <3> DEFINE o == First(Opens(s, n))
    <3>2. o \in n..N /\ o <= i
      BY <2>1, <3>1, OpeningIs
    <3> HIDE DEF o
    <3>3. j \in (o + 2)..N
      BY <1>1, <2>1, <3>2
    <3>4. j \in Closes(s, n)
      BY <2>1, <3>3 DEF o, Closes
    <3>5. QED
      BY <1>4, <3>1, <3>4, Zenon DEF Ends
  <2>2. SubSeq(s, n, N) \in Seq(V) /\ Bare(SubSeq(s, n, N))
    <3> HIDE DEF V
    <3>1. QED
      BY <1>1, <2>1, RestIsBare
  <2>3. Rests(s)[n] = SubSeq(s, n, N)
    BY Zenon DEF Rests
  <2>4. QED
    BY <2>2, <2>3, Zenon
<1>5. ASSUME NEW n \in 1..M, n \notin Ends(s)
      PROVE  Pieces(s, context)[n] \in Seq(V) /\ Shut(Pieces(s, context)[n])
  <2> DEFINE o == First(Opens(s, n))
             a == SubSeq(s, n, o - 1)
             b == Lookup(KeyAt(s, n), context)
  <2>1. Pieces(s, context)[n] = a \o b
    BY Zenon DEF Pieces, Ahead
  <2>2. o \in n..N /\ At(s, o, Open) /\ \A i \in n..N : At(s, i, Open) => o <= i
    BY <1>5, ClosingIs, OpeningIs, Zenon
  <2>3. b \in Seq(B)
    BY Zenon
  <2> HIDE DEF o, b
  <2>4. n \in 1..N
    BY <1>1, <2>2
  <2>5. a \in Seq(V) /\ Shut(a)
    <3> HIDE DEF V
    <3>1. QED
      BY <1>1, <2>2, <2>4, BeforeOpening
  <2> HIDE DEF a
  <2>6. b \in Seq(V) /\ Shut(b)
    <3>1. b \in Seq(V)
      BY <2>3
    <3>2. \A i \in 1..Len(b) : b[i] \in B
      BY <2>3
    <3>3. QED
      BY <3>1, <3>2 DEF Shut
  <2> HIDE DEF V
  <2>7. a \o b \in Seq(V) /\ Shut(a \o b)
    BY <2>5, <2>6, JoinedIs, ShutJoined
  <2>8. QED
    BY <2>1, <2>7, Zenon
<1> HIDE DEF V, M
<1>6. Parts(M, Ends(s), Rests(s), Pieces(s, context), V)
  BY <1>4, <1>5 DEF Parts
<1>7. \A n \in 1..M : f[n] \in Seq(V) /\ Bare(f[n])
  BY <1>2, <1>3, <1>6, ChainIsBare, Zenon
<1>8. QED
  BY <1>1, <1>2, <1>7 DEF V

\* The blanks and the line ends that tidy keeps.
Space == " "
Tight(s) == {i \in DOMAIN s : s[i] = Space => i < Len(s) /\ s[i + 1] \notin {Space, "newline"}}
Lines(s) ==
  {i \in DOMAIN s :
     \/ s[i] # "newline"
     \/ /\ \E j \in (i + 1)..Len(s) : s[j] # "newline"
        /\ ~(i > 1 /\ s[i - 1] = "newline" /\ (i = 2 \/ s[i - 2] = "newline"))}

LEMMA TidiedIs ==
  ASSUME NEW s
  PROVE  Tidied(s) = Kept(Kept(s, Tight(s)), Lines(Kept(s, Tight(s))))
BY Zenon DEF Tidied, Tight, Lines, Space

LEMMA SpaceIs == Space \notin {"newline", Open, Close} /\ Open # "newline" /\ Close # "newline" /\ Open # "b"
BY Zenon DEF Space, Open, Close

\* Neighbours of what is kept had nothing between them that is kept.
LEMMA KeptNeighbours ==
  ASSUME NEW s, Text(s), NEW kept
  PROVE  LET u == Kept(s, kept)  q == Places(s, kept) IN
         /\ Text(u) /\ Len(u) = Len(q)
         /\ \A i \in 1..Len(u) : q[i] \in 1..Len(s) /\ q[i] \in kept /\ u[i] = s[q[i]]
         /\ \A i, j \in 1..Len(u) : q[i] < q[j] <=> i < j
         /\ \A x \in 1..Len(s) : x \in kept => \E i \in 1..Len(u) : q[i] = x
         /\ \A i \in 1..Len(u) : i + 1 \in 1..Len(u) =>
              q[i] < q[i + 1] /\ \A x \in (q[i] + 1)..(q[i + 1] - 1) : x \in 1..Len(s) /\ x \notin kept
<1> DEFINE u == Kept(s, kept)
           q == Places(s, kept)
           n == Len(s)
           m == Len(u)
<1>1. n \in Nat
  BY DEF Text
<1>2. /\ Chosen(q, n, kept) /\ Len(q) \in Nat /\ u = [k \in 1..Len(q) |-> s[q[k]]] /\ m = Len(q) /\ DOMAIN u = 1..Len(q)
  BY <1>1, KeptIs
<1> HIDE DEF u, q, n, m
<1>3. \A i \in 1..m : q[i] \in 1..n /\ q[i] \in kept
  BY <1>1, <1>2, ChosenTypes
<1>4. \A i \in 1..m : u[i] = s[q[i]]
  BY <1>2
<1>5. \A i, j \in 1..m : q[i] < q[j] <=> i < j
  BY <1>1, <1>2, ChosenRuns
<1>6. \A x \in 1..n : x \in kept => \E i \in 1..m : q[i] = x
  BY <1>2 DEF Chosen
<1>7. ASSUME NEW i \in 1..m, i + 1 \in 1..m
      PROVE  q[i] < q[i + 1] /\ \A x \in (q[i] + 1)..(q[i + 1] - 1) : x \in 1..n /\ x \notin kept
  <2>1. q[i] \in 1..n /\ q[i + 1] \in 1..n
    BY <1>3, <1>7
  <2>2. i < i + 1
    BY <1>2
  <2>3. q[i] < q[i + 1]
    BY <1>5, <1>7, <2>2
  <2>4. ASSUME NEW x \in (q[i] + 1)..(q[i + 1] - 1)
        PROVE  x \in 1..n /\ x \notin kept
    <3>1. x \in 1..n /\ q[i] < x /\ x < q[i + 1]
      BY <1>1, <2>1
    <3>2. x \notin kept
      <4>1. SUFFICES ASSUME x \in kept
                     PROVE  FALSE
        OBVIOUS
      <4>2. PICK j \in 1..m : q[j] = x
        BY <1>6, <3>1, <4>1
      <4>3. i < j /\ j < i + 1
        BY <1>5, <1>7, <3>1, <4>2
      <4>4. QED
        BY <1>2, <4>3
    <3>3. QED
      BY <3>1, <3>2
  <2>5. QED
    BY <2>3, <2>4
<1>8. Text(u)
  BY <1>2 DEF Text
<1>9. QED
  BY <1>2, <1>3, <1>4, <1>5, <1>6, <1>7, <1>8 DEF u, q, n, m

\* A text stays bare if what is left out of it stood between no two equal braces.
LEMMA KeptIsBare ==
  ASSUME NEW s, Text(s), Bare(s), NEW kept,
         \A c \in {Open, Close} : \A x, y \in 1..Len(s) :
            x < y /\ s[x] = c /\ s[y] = c /\ (\A z \in (x + 1)..(y - 1) : z \notin kept) => y = x + 1
  PROVE  Bare(Kept(s, kept))
<1> DEFINE u == Kept(s, kept)
           q == Places(s, kept)
<1>1. /\ Text(u)
      /\ \A i \in 1..Len(u) : q[i] \in 1..Len(s) /\ u[i] = s[q[i]]
      /\ \A i, j \in 1..Len(u) : q[i] < q[j] <=> i < j
      /\ \A i \in 1..Len(u) : i + 1 \in 1..Len(u) =>
              q[i] < q[i + 1] /\ \A x \in (q[i] + 1)..(q[i + 1] - 1) : x \in 1..Len(s) /\ x \notin kept
  BY KeptNeighbours
<1> HIDE DEF u, q
<1>2. Len(u) \in Nat /\ DOMAIN u = 1..Len(u) /\ Len(s) \in Nat /\ DOMAIN s = 1..Len(s)
  BY <1>1 DEF Text
<1>3. ASSUME NEW c \in {Open, Close}, NEW i \in 1..Len(u), At(u, i, c)
      PROVE  At(s, q[i], c)
  <2>1. i + 1 \in 1..Len(u) /\ u[i] = c /\ u[i + 1] = c
    BY <1>2, <1>3 DEF At
  <2> DEFINE x == q[i]
             y == q[i + 1]
  <2>2. x \in 1..Len(s) /\ y \in 1..Len(s) /\ s[x] = c /\ s[y] = c /\ x < y /\ \A z \in (x + 1)..(y - 1) : z \notin kept
    BY <1>1, <2>1
  <2> HIDE DEF x, y
  <2>3. y = x + 1
    BY <2>2
  <2>4. QED
    BY <2>2, <2>3 DEF At, x
<1>4. SUFFICES ASSUME NEW i \in 1..Len(u), NEW j \in 1..Len(u), i < j, At(u, i, Open), At(u, j, Close)
               PROVE  FALSE
  BY <1>2 DEF Bare, u
<1>5. q[i] \in DOMAIN s /\ q[j] \in DOMAIN s /\ q[i] < q[j] /\ At(s, q[i], Open) /\ At(s, q[j], Close)
  BY <1>1, <1>2, <1>3, <1>4
<1>6. QED
  BY <1>5 DEF Bare

\* A blank is followed by neither a blank nor the end of its line.
Trim(s) == \A i \in 1..Len(s) : s[i] = Space => i < Len(s) /\ s[i + 1] \notin {Space, "newline"}

LEMMA TightIsTrim ==
  ASSUME NEW s, Text(s)
  PROVE  Trim(Kept(s, Tight(s)))
<1> DEFINE kept == Tight(s)
           u == Kept(s, kept)
           q == Places(s, kept)
<1>1. /\ Text(u)
      /\ \A i \in 1..Len(u) : q[i] \in 1..Len(s) /\ q[i] \in kept /\ u[i] = s[q[i]]
      /\ \A i, j \in 1..Len(u) : q[i] < q[j] <=> i < j
      /\ \A x \in 1..Len(s) : x \in kept => \E i \in 1..Len(u) : q[i] = x
      /\ \A i \in 1..Len(u) : i + 1 \in 1..Len(u) =>
              q[i] < q[i + 1] /\ \A x \in (q[i] + 1)..(q[i + 1] - 1) : x \in 1..Len(s) /\ x \notin kept
  BY KeptNeighbours
<1> HIDE DEF u, q
<1>2. Len(u) \in Nat /\ Len(s) \in Nat /\ DOMAIN s = 1..Len(s)
  BY <1>1 DEF Text
<1>3. ASSUME NEW i \in 1..Len(u), u[i] = Space
      PROVE  i < Len(u) /\ u[i + 1] \notin {Space, "newline"}
  <2> DEFINE x == q[i]
  <2>1. x \in 1..Len(s) /\ x \in kept /\ s[x] = Space
    BY <1>1, <1>3
  <2>2. x < Len(s) /\ s[x + 1] \notin {Space, "newline"}
    BY <2>1, Zenon DEF Tight
  <2>3. x + 1 \in 1..Len(s)
    BY <1>2, <2>1, <2>2
  <2>4. x + 1 \in kept
    BY <1>2, <2>2, <2>3, Zenon DEF Tight
  <2> HIDE DEF kept
  <2>5. PICK j \in 1..Len(u) : q[j] = x + 1
    BY <1>1, <2>3, <2>4
  <2>6. i < j
    <3>1. q[i] < q[j]
      BY <2>1, <2>5 DEF x
    <3>2. QED
      BY <1>1, <3>1
  <2>7. i + 1 \in 1..Len(u)
    BY <1>2, <2>6
  <2>8. j = i + 1
    <3>1. SUFFICES ASSUME i + 1 < j
                   PROVE  FALSE
      BY <1>2, <2>6
    <3>2. q[i] < q[i + 1] /\ q[i + 1] < q[j] /\ q[i + 1] \in 1..Len(s)
      BY <1>1, <2>7, <3>1
    <3>3. QED
      BY <2>1, <2>5, <3>2 DEF x
  <2>9. u[i + 1] = s[x + 1]
    BY <1>1, <2>5, <2>7, <2>8
  <2>10. QED
    BY <1>2, <2>2, <2>7, <2>9
<1>4. QED
  BY <1>3 DEF Trim, u

LEMMA TightIsBare ==
  ASSUME NEW s, Text(s), Bare(s)
  PROVE  Bare(Kept(s, Tight(s)))
<1> DEFINE kept == Tight(s)
<1>1. Len(s) \in Nat /\ DOMAIN s = 1..Len(s)
  BY DEF Text
<1>2. ASSUME NEW c \in {Open, Close}, NEW x \in 1..Len(s), NEW y \in 1..Len(s),
             x < y, s[x] = c, s[y] = c, \A z \in (x + 1)..(y - 1) : z \notin kept
      PROVE  y = x + 1
  <2>1. SUFFICES ASSUME y # x + 1
                 PROVE  FALSE
    OBVIOUS
  <2> DEFINE z == y - 1
  <2>2. z \in (x + 1)..(y - 1) /\ z \in 1..Len(s) /\ z < Len(s) /\ z + 1 = y
    BY <1>1, <1>2, <2>1
  <2> HIDE DEF z
  <2>3. z \notin kept
    BY <1>2, <2>2
  <2>4. s[z + 1] \in {Space, "newline"}
    BY <1>1, <2>2, <2>3, Zenon DEF Tight
  <2>5. c \notin {Space, "newline"}
    BY SpaceIs
  <2>6. QED
    BY <1>2, <2>2, <2>4, <2>5, Zenon
<1> HIDE DEF kept
<1>3. Bare(Kept(s, kept))
  BY <1>2, KeptIsBare
<1>4. QED
  BY <1>3 DEF kept

\* Only line ends are left out: what stands before one that is left out, in the text,
\* is a line end too, unless nothing but line ends follows.
LEMMA LinesAre ==
  ASSUME NEW s, Text(s), NEW x \in 1..Len(s)
  PROVE  /\ s[x] # "newline" => x \in Lines(s)
         /\ x \notin Lines(s) /\ (\E j \in (x + 1)..Len(s) : s[j] # "newline") => x > 1 /\ s[x - 1] = "newline"
         /\ x \in Lines(s) /\ s[x] = "newline" /\ x > 2 => ~(s[x - 1] = "newline" /\ s[x - 2] = "newline")
         /\ x \in Lines(s) => \E j \in x..Len(s) : s[j] # "newline"
<1>1. Len(s) \in Nat /\ x \in DOMAIN s /\ x \in x..Len(s)
  BY DEF Text
<1>2. x > 2 => x > 1
  BY <1>1
<1>3. \A j \in (x + 1)..Len(s) : j \in x..Len(s)
  BY <1>1
<1>4. x \in Lines(s) <=>
     \/ s[x] # "newline"
     \/ /\ \E j \in (x + 1)..Len(s) : s[j] # "newline"
        /\ ~(x > 1 /\ s[x - 1] = "newline" /\ (x = 2 \/ s[x - 2] = "newline"))
  BY <1>1, Zenon DEF Lines
<1>5. QED
  BY <1>1, <1>2, <1>3, <1>4, Zenon

LEMMA LinesKeepBare ==
  ASSUME NEW s, Text(s), Bare(s)
  PROVE  Bare(Kept(s, Lines(s)))
<1> DEFINE kept == Lines(s)
<1>1. Len(s) \in Nat /\ DOMAIN s = 1..Len(s)
  BY DEF Text
<1>2. ASSUME NEW c \in {Open, Close}, NEW x \in 1..Len(s), NEW y \in 1..Len(s),
             x < y, s[x] = c, s[y] = c, \A z \in (x + 1)..(y - 1) : z \notin kept
      PROVE  y = x + 1
  <2>1. SUFFICES ASSUME y # x + 1
                 PROVE  FALSE
    OBVIOUS
  <2> DEFINE z == x + 1
  <2>2. z \in (x + 1)..(y - 1) /\ z \in 1..Len(s) /\ y \in (z + 1)..Len(s) /\ z - 1 = x
    BY <1>1, <1>2, <2>1
  <2> HIDE DEF z
  <2>3. c # "newline"
    BY SpaceIs
  <2>4. z \notin kept /\ s[y] # "newline" /\ s[x] # "newline"
    BY <1>2, <2>2, <2>3
  <2>5. s[z - 1] = "newline"
    BY <2>2, <2>4, LinesAre, Zenon
  <2>6. QED
    BY <2>2, <2>4, <2>5, Zenon
<1> HIDE DEF kept
<1>3. Bare(Kept(s, kept))
  BY <1>2, KeptIsBare
<1>4. QED
  BY <1>3 DEF kept

\* Of a trim text with its lines, no two blanks and no three line ends stay together.
LEMMA LinesAreClean ==
  ASSUME NEW s, Text(s), Trim(s)
  PROVE  LET u == Kept(s, Lines(s)) IN
         \A i \in DOMAIN u : ~(At(u, i, Space) \/ (At(u, i, "newline") /\ At(u, i + 1, "newline")))
<1> DEFINE kept == Lines(s)
           u == Kept(s, kept)
           q == Places(s, kept)
           n == Len(s)
<1>1. /\ Text(u)
      /\ \A i \in 1..Len(u) : q[i] \in 1..n /\ q[i] \in kept /\ u[i] = s[q[i]]
      /\ \A i \in 1..Len(u) : i + 1 \in 1..Len(u) =>
              q[i] < q[i + 1] /\ \A x \in (q[i] + 1)..(q[i + 1] - 1) : x \in 1..n /\ x \notin kept
  BY KeptNeighbours
<1> HIDE DEF u, q, n
<1>2. Len(u) \in Nat /\ DOMAIN u = 1..Len(u) /\ n \in Nat /\ DOMAIN s = 1..n
  BY <1>1 DEF Text, n
<1>3. \A x \in 1..n :
         /\ s[x] # "newline" => x \in kept
         /\ x \in kept /\ s[x] = "newline" /\ x > 2 => ~(s[x - 1] = "newline" /\ s[x - 2] = "newline")
  BY LinesAre DEF n
<1> HIDE DEF kept
<1>4. ASSUME NEW i \in 1..Len(u), i + 1 \in 1..Len(u)
      PROVE  /\ q[i] \in 1..n /\ q[i + 1] \in 1..n /\ q[i] < q[i + 1]
             /\ \A x \in (q[i] + 1)..(q[i + 1] - 1) : s[x] = "newline"
  BY <1>1, <1>3, <1>4
<1>5. ASSUME NEW i \in 1..Len(u), At(u, i, Space)
      PROVE  FALSE
  <2> DEFINE x == q[i]
             y == q[i + 1]
  <2>1. i + 1 \in 1..Len(u) /\ u[i] = Space /\ u[i + 1] = Space
    BY <1>2, <1>5 DEF At
  <2>2. x \in 1..n /\ y \in 1..n /\ x < y /\ s[x] = Space /\ s[y] = Space /\ \A z \in (x + 1)..(y - 1) : s[z] = "newline"
    BY <1>1, <1>4, <2>1
  <2> HIDE DEF x, y
  <2>3. s[x + 1] \notin {Space, "newline"}
    BY <2>2 DEF Trim, n
  <2>4. y # x + 1
    BY <2>2, <2>3
  <2>5. x + 1 \in (x + 1)..(y - 1)
    BY <1>2, <2>2, <2>4
  <2>6. QED
    BY <2>2, <2>3, <2>5
<1>6. ASSUME NEW i \in 1..Len(u), At(u, i, "newline"), At(u, i + 1, "newline")
      PROVE  FALSE
  <2> DEFINE x == q[i]
             y == q[i + 1]
             z == q[i + 2]
  <2>1. /\ i + 1 \in 1..Len(u) /\ (i + 1) + 1 \in 1..Len(u) /\ (i + 1) + 1 = i + 2
        /\ u[i] = "newline" /\ u[i + 1] = "newline" /\ u[i + 2] = "newline"
    <3>1. /\ i + 1 <= Len(u) /\ (i + 1) + 1 <= Len(u) /\ (i + 1) + 1 = i + 2
          /\ u[i] = "newline" /\ u[i + 1] = "newline" /\ u[(i + 1) + 1] = "newline"
      BY <1>2, <1>6 DEF At
    <3>2. QED
      BY <1>2, <3>1
  <2>2. /\ x \in 1..n /\ y \in 1..n /\ z \in 1..n /\ x < y /\ y < z
        /\ s[x] = "newline" /\ s[y] = "newline" /\ s[z] = "newline" /\ z \in kept
        /\ \A w \in (x + 1)..(y - 1) : s[w] = "newline"
        /\ \A w \in (y + 1)..(z - 1) : s[w] = "newline"
    BY <1>1, <1>4, <2>1
  <2> HIDE DEF x, y, z
  <2>3. z > 2 /\ z - 1 \in 1..n /\ z - 2 \in 1..n
    BY <1>2, <2>2
  <2>4. ASSUME NEW w \in {z - 1, z - 2}
        PROVE  s[w] = "newline"
    <3>1. w = x \/ w = y \/ w \in (x + 1)..(y - 1) \/ w \in (y + 1)..(z - 1)
      BY <2>2
    <3>2. QED
      BY <2>2, <3>1, Zenon
  <2>5. s[z - 1] = "newline" /\ s[z - 2] = "newline"
    BY <2>4
  <2>6. QED
    BY <1>3, <2>2, <2>3, <2>5
<1>7. QED
  BY <1>2, <1>5, <1>6 DEF u, kept

LEMMA TidiedIsNeat ==
  ASSUME NEW s, Text(s)
  PROVE  LET u == Tidied(s) IN
         \A i \in DOMAIN u : ~(At(u, i, Space) \/ (At(u, i, "newline") /\ At(u, i + 1, "newline")))
<1> DEFINE t == Kept(s, Tight(s))
<1>1. Text(t) /\ Trim(t)
  BY KeptIsText, TightIsTrim
<1> HIDE DEF t
<1>2. \A i \in DOMAIN Kept(t, Lines(t)) :
         ~(At(Kept(t, Lines(t)), i, Space) \/ (At(Kept(t, Lines(t)), i, "newline") /\ At(Kept(t, Lines(t)), i + 1, "newline")))
  BY <1>1, LinesAreClean
<1>3. Tidied(s) = Kept(t, Lines(t))
  BY TidiedIs DEF t
<1>4. QED
  BY <1>2, <1>3, Zenon

LEMMA TidiedIsClean ==
  ASSUME NEW s, Text(s), Bare(s)
  PROVE  Bare(Tidied(s))
<1> DEFINE t == Kept(s, Tight(s))
<1>1. Text(t) /\ Bare(t)
  BY KeptIsText, TightIsBare
<1> HIDE DEF t
<1>2. Bare(Kept(t, Lines(t)))
  BY <1>1, LinesKeepBare
<1>3. Tidied(s) = Kept(t, Lines(t))
  BY TidiedIs DEF t
<1>4. QED
  BY <1>2, <1>3, Zenon

-----------------------------------------------------------------------------
(***************************************************************************)
(* A value is written and not read: the template with a slot for the value    *)
(* goes along the same chain, and the value then is put into the slot. *)
(***************************************************************************)
LEMMA WrittenIs ==
  ASSUME NEW V, NEW s \in Seq(V), NEW value \in Seq(V)
  PROVE  \E f : /\ f[1] = Written(s, value) /\ f[Len(s) + 1] = <<>>
                /\ \A n \in 1..Len(s) : f[n] = Piece(s[n], value) \o f[n + 1]
                /\ \A n \in 1..(Len(s) + 1) : f[n] \in Seq(V)
<1> DEFINE N == Len(s)
           M == N + 1
           D == 1..M
           stop == {M}
           last == [n \in D |-> <<>>]
           left == [n \in D |-> Piece(s[n], value)]
           next == [n \in D |-> n + 1]
           loop(f) == [n \in D |-> IF n = M THEN <<>> ELSE Piece(s[n], value) \o f[n + 1]]
           chain(f) == [n \in D |-> IF n \in stop THEN last[n] ELSE left[n] \o f[next[n]]]
<1>1. N \in Nat /\ M \in Nat /\ 1 \in D /\ M \in D
  OBVIOUS
<1>2. Written(s, value) = (CHOOSE f : f = loop(f))[1]
  BY Zenon DEF Written, Piece
<1>3. ASSUME NEW f
      PROVE  loop(f) = chain(f)
  <2> DEFINE x(n) == IF n = M THEN <<>> ELSE Piece(s[n], value) \o f[n + 1]
             y(n) == IF n \in stop THEN last[n] ELSE left[n] \o f[next[n]]
  <2>1. ASSUME NEW n \in D
        PROVE  x(n) = y(n)
    <3>1. (n \in stop <=> n = M) /\ last[n] = <<>> /\ left[n] = Piece(s[n], value) /\ next[n] = n + 1
      <4> HIDE DEF D, M
      <4>1. QED
        BY Zenon
    <3> HIDE DEF stop, last, left, next, M
    <3>2. QED
      BY <3>1, Zenon
  <2> HIDE DEF x, y, D
  <2>2. [n \in D |-> x(n)] = [n \in D |-> y(n)]
    BY <2>1, Zenon
  <2>3. QED
    BY <2>2, Zenon DEF x, y
<1>4. Onward(M, stop, next)
  <2>1. ASSUME NEW n \in D, n \notin stop
        PROVE  next[n] \in (n + 1)..M
    <3>1. next[n] = n + 1
      BY Zenon
    <3>2. n # M
      BY <2>1
    <3> HIDE DEF next, stop
    <3>3. QED
      BY <1>1, <3>1, <3>2
  <2> HIDE DEF next, stop
  <2>2. QED
    BY <2>1 DEF Onward
<1> DEFINE g == CHOOSE f : f = loop(f)
<1>5. \E f : f = chain(f)
  <2> HIDE DEF stop, last, left, next
  <2>1. \E f : Chained(f, M, stop, last, left, next)
    BY <1>1, <1>4, ChainExists
  <2>2. QED
    BY <2>1, Zenon DEF Chained
<1>6. g = loop(g)
  <2> HIDE DEF loop, chain
  <2>1. QED
    BY <1>3, <1>5, Zenon
<1> HIDE DEF g
<1>7. ASSUME NEW n \in D
      PROVE  g[n] = IF n = M THEN <<>> ELSE Piece(s[n], value) \o g[n + 1]
  <2> HIDE DEF M
  <2>1. QED
    BY <1>6, Zenon
<1>8. ASSUME NEW n \in 1..N
      PROVE  n \in D /\ n # M /\ n + 1 \in D /\ ~(n + 1 <= n) /\ g[n] = Piece(s[n], value) \o g[n + 1]
  <2>1. n \in D /\ n # M /\ n + 1 \in D /\ ~(n + 1 <= n)
    BY <1>1
  <2>2. QED
    BY <1>7, <2>1, Zenon
<1>9. g[M] = <<>>
  BY <1>1, <1>7, Zenon
<1> DEFINE K == {n \in D : g[n] \notin Seq(V)}
<1>10. K = {}
  <2>1. SUFFICES ASSUME K # {}
                 PROVE  FALSE
    OBVIOUS
  <2>2. PICK m \in K : \A k \in K : k <= m
    <3>1. K \in SUBSET Int /\ K \subseteq 1..M /\ 1 \in Int /\ M \in Int
      OBVIOUS
    <3> HIDE DEF K, M
    <3>2. QED
      BY <2>1, <3>1, GreatestOf, Zenon
  <2>3. m \in D /\ g[m] \notin Seq(V)
    BY <2>2, Zenon
  <2>4. m # M
    <3>1. <<>> \in Seq(V)
      OBVIOUS
    <3>2. QED
      BY <1>9, <2>3, <3>1, Zenon
  <2>5. m \in 1..N
    BY <1>1, <2>3, <2>4
  <2>6. m + 1 \notin K
    BY <1>8, <2>2, <2>5, Zenon
  <2>7. g[m + 1] \in Seq(V)
    BY <1>8, <2>5, <2>6, Zenon
  <2>8. Piece(s[m], value) \in Seq(V)
    BY <2>5 DEF Piece
  <2> DEFINE a == Piece(s[m], value)
             b == g[m + 1]
  <2>9. g[m] = a \o b
    BY <1>8, <2>5, Zenon
  <2> HIDE DEF a, b
  <2>10. a \o b \in Seq(V)
    <3>1. a \in Seq(V) /\ b \in Seq(V)
      BY <2>7, <2>8, Zenon DEF a, b
    <3>2. QED
      BY <3>1
  <2>11. QED
    BY <2>3, <2>9, <2>10, Zenon
<1>11. g[1] = Written(s, value)
  BY <1>2, Zenon DEF g
<1>12. \A n \in D : g[n] \in Seq(V)
  BY <1>10, Zenon
<1> HIDE DEF K
<1>13. QED
  BY <1>8, <1>9, <1>11, <1>12, Zenon

Regroups(x, y, w) == x \o (y \o w) = (x \o y) \o w
Associates(V) == \A x, y, w \in Seq(V) : Regroups(x, y, w)

LEMMA JoinedTwice ==
  ASSUME NEW V
  PROVE  Associates(V)
<1> SUFFICES ASSUME NEW x \in Seq(V), NEW y \in Seq(V), NEW w \in Seq(V)
             PROVE  x \o (y \o w) = (x \o y) \o w
  BY Zenon DEF Associates, Regroups
<1> DEFINE l == x \o (y \o w)
           r == (x \o y) \o w
<1>1. /\ l \in Seq(V) /\ r \in Seq(V) /\ Len(x) \in Nat /\ Len(y) \in Nat /\ Len(w) \in Nat
      /\ Len(l) = Len(x) + Len(y) + Len(w) /\ Len(r) = Len(x) + Len(y) + Len(w)
  OBVIOUS
<1>2. ASSUME NEW i \in 1..(Len(x) + Len(y) + Len(w))
      PROVE  l[i] = r[i]
  <2>1. CASE i \in 1..Len(x)
    BY <1>1, <2>1
  <2>2. CASE i \in (Len(x) + 1)..(Len(x) + Len(y))
    BY <1>1, <2>2
  <2>3. CASE i \in (Len(x) + Len(y) + 1)..(Len(x) + Len(y) + Len(w))
    BY <1>1, <2>3
  <2>4. QED
    BY <1>1, <1>2, <2>1, <2>2, <2>3
<1> HIDE DEF l, r
<1>3. l = r
  BY <1>1, <1>2
<1>4. QED
  BY <1>3 DEF l, r

\* One text after the other is written as both are.
Joins(V, value) == \A a, b \in Seq(V) : Written(a \o b, value) = Written(a, value) \o Written(b, value)

LEMMA WrittenJoined ==
  ASSUME NEW V, NEW value \in Seq(V)
  PROVE  Joins(V, value)
<1> SUFFICES ASSUME NEW a \in Seq(V), NEW b \in Seq(V)
             PROVE  Written(a \o b, value) = Written(a, value) \o Written(b, value)
  BY DEF Joins
<1> DEFINE t == a \o b
           A == Len(a)
           N == Len(b)
<1>1. /\ t \in Seq(V) /\ A \in Nat /\ N \in Nat /\ Len(t) = A + N
      /\ \A i \in 1..A : t[i] = a[i]
      /\ \A i \in 1..N : t[A + i] = b[i]
  BY JoinedIs
<1> HIDE DEF t, A, N
<1>2. PICK f : /\ f[1] = Written(a, value) /\ f[A + 1] = <<>>
               /\ \A n \in 1..A : f[n] = Piece(a[n], value) \o f[n + 1]
               /\ \A n \in 1..(A + 1) : f[n] \in Seq(V)
  BY WrittenIs DEF A
<1>3. PICK g : /\ g[1] = Written(b, value) /\ g[N + 1] = <<>>
               /\ \A n \in 1..N : g[n] = Piece(b[n], value) \o g[n + 1]
               /\ \A n \in 1..(N + 1) : g[n] \in Seq(V)
  BY WrittenIs DEF N
<1> DEFINE T == Len(t)
<1> HIDE DEF T
<1>0. PICK h : /\ h[1] = Written(t, value) /\ h[T + 1] = <<>>
               /\ \A n \in 1..T : h[n] = Piece(t[n], value) \o h[n + 1]
               /\ \A n \in 1..(T + 1) : h[n] \in Seq(V)
  <2>1. t \in Seq(V)
    BY <1>1
  <2>2. QED
    BY ONLY <2>1, value \in Seq(V), WrittenIs, Zenon DEF T
<1>4. /\ h[1] = Written(t, value) /\ h[A + N + 1] = <<>>
      /\ \A n \in 1..(A + N) : h[n] = Piece(t[n], value) \o h[n + 1]
      /\ \A n \in 1..(A + N + 1) : h[n] \in Seq(V)
  <2>1. T = A + N /\ T + 1 = A + N + 1
    BY <1>1 DEF T
  <2>2. QED
    BY <1>0, <2>1, Zenon
<1>5. \A n \in 1..(N + 1) : h[A + n] = g[n]
  <2> DEFINE K == {n \in 1..(N + 1) : h[A + n] # g[n]}
  <2>1. SUFFICES ASSUME K # {}
                 PROVE  FALSE
    OBVIOUS
  <2>2. PICK m \in K : \A k \in K : k <= m
    <3>1. K \in SUBSET Int /\ K \subseteq 1..(N + 1) /\ 1 \in Int /\ N + 1 \in Int
      BY <1>1
    <3> HIDE DEF K
    <3>2. QED
      BY <2>1, <3>1, GreatestOf, Zenon
  <2>3. m \in 1..(N + 1) /\ h[A + m] # g[m]
    BY <2>2, Zenon
  <2>4. m # N + 1
    <3>1. A + (N + 1) = A + N + 1
      BY <1>1
    <3>2. QED
      BY <1>3, <1>4, <2>3, <3>1, Zenon
  <2>5. m \in 1..N /\ m + 1 \in 1..(N + 1) /\ ~(m + 1 <= m) /\ A + m \in 1..(A + N) /\ (A + m) + 1 = A + (m + 1)
    BY <1>1, <2>3, <2>4
  <2>6. h[A + (m + 1)] = g[m + 1]
    BY <2>2, <2>5, Zenon
  <2>7. t[A + m] = b[m]
    BY <1>1, <2>5, Zenon
  <2>8. h[A + m] = Piece(t[A + m], value) \o h[A + (m + 1)]
    BY <1>4, <2>5, Zenon
  <2>9. g[m] = Piece(b[m], value) \o g[m + 1]
    BY <1>3, <2>5, Zenon
  <2>10. QED
    BY <2>3, <2>6, <2>7, <2>8, <2>9, Zenon
<1> DEFINE w == g[1]
<1>6. w \in Seq(V) /\ h[A + 1] = w
  <2>1. 1 \in 1..(N + 1)
    BY <1>1
  <2>2. QED
    BY <1>3, <1>5, <2>1, Zenon
<1> HIDE DEF w
<1>7. \A n \in 1..(A + 1) : h[n] = f[n] \o w
  <2> DEFINE K == {n \in 1..(A + 1) : h[n] # f[n] \o w}
  <2>1. SUFFICES ASSUME K # {}
                 PROVE  FALSE
    OBVIOUS
  <2>2. PICK m \in K : \A k \in K : k <= m
    <3>1. K \in SUBSET Int /\ K \subseteq 1..(A + 1) /\ 1 \in Int /\ A + 1 \in Int
      BY <1>1
    <3> HIDE DEF K
    <3>2. QED
      BY <2>1, <3>1, GreatestOf, Zenon
  <2>3. m \in 1..(A + 1) /\ h[m] # f[m] \o w
    BY <2>2, Zenon
  <2>4. m # A + 1
    <3>1. <<>> \o w = w
      BY <1>6
    <3>2. QED
      BY <1>2, <1>6, <2>3, <3>1, Zenon
  <2>5. m \in 1..A /\ m + 1 \in 1..(A + 1) /\ ~(m + 1 <= m) /\ m \in 1..(A + N)
    BY <1>1, <2>3, <2>4
  <2> DEFINE x == Piece(a[m], value)
             y == f[m + 1]
  <2>6. h[m + 1] = y \o w
    BY <2>2, <2>5, Zenon
  <2>7. h[m] = x \o (y \o w)
    BY <1>1, <1>4, <2>5, <2>6, Zenon
  <2>8. f[m] = x \o y
    BY <1>2, <2>5, Zenon
  <2>9. x \in Seq(V) /\ y \in Seq(V)
    <3>1. x \in Seq(V)
      BY <1>1, <2>5 DEF Piece, A
    <3>2. QED
      BY <1>2, <2>5, <3>1, Zenon
  <2> HIDE DEF x, y
  <2>10. Regroups(x, y, w)
    BY <1>6, <2>9, JoinedTwice, Zenon DEF Associates
  <2>11. x \o (y \o w) = (x \o y) \o w
    BY <2>10 DEF Regroups
  <2>12. QED
    BY <2>3, <2>7, <2>8, <2>11, Zenon
<1>8. h[1] = f[1] \o w
  <2>1. 1 \in 1..(A + 1)
    BY <1>1
  <2>2. QED
    BY <1>7, <2>1, Zenon
<1>9. QED
  BY <1>2, <1>3, <1>4, <1>8, Zenon DEF w, t

\* A text without a slot is written as it is.
LEMMA WrittenPlain ==
  ASSUME NEW V, NEW s \in Seq(V), NEW value \in Seq(V), \A i \in 1..Len(s) : s[i] # Slot
  PROVE  Written(s, value) = s
<1> DEFINE N == Len(s)
           Same(u, n) == Len(u) = N - n + 1 /\ \A i \in 1..(N - n + 1) : u[i] = s[n + i - 1]
<1>1. N \in Nat /\ 1 \in 1..(N + 1) /\ N + 1 \in 1..(N + 1)
  OBVIOUS
<1>2. PICK f : /\ f[1] = Written(s, value) /\ f[N + 1] = <<>>
               /\ \A n \in 1..N : f[n] = Piece(s[n], value) \o f[n + 1]
               /\ \A n \in 1..(N + 1) : f[n] \in Seq(V)
  BY WrittenIs
<1> DEFINE K == {n \in 1..(N + 1) : ~Same(f[n], n)}
<1>3. K = {}
  <2>1. SUFFICES ASSUME K # {}
                 PROVE  FALSE
    OBVIOUS
  <2>2. PICK m \in K : \A k \in K : k <= m
    <3>1. K \in SUBSET Int /\ K \subseteq 1..(N + 1) /\ 1 \in Int /\ N + 1 \in Int
      BY <1>1
    <3> HIDE DEF K
    <3>2. QED
      BY <2>1, <3>1, GreatestOf, Zenon
  <2>3. m \in 1..(N + 1) /\ ~Same(f[m], m)
    BY <2>2, Zenon
  <2>4. m # N + 1
    <3>1. SUFFICES ASSUME m = N + 1
                   PROVE  FALSE
      OBVIOUS
    <3>2. N - m + 1 = 0
      BY <1>1, <3>1
    <3>3. f[m] = <<>> /\ Len(f[m]) = 0
      BY <1>2, <3>1
    <3>4. Same(f[m], m)
      BY <3>2, <3>3
    <3>5. QED
      BY <2>3, <3>4, Zenon
  <2>5. m \in 1..N /\ m + 1 \in 1..(N + 1) /\ ~(m + 1 <= m)
    BY <1>1, <2>3, <2>4
  <2> DEFINE u == f[m + 1]
  <2>6. u \in Seq(V) /\ Same(u, m + 1)
    <3>1. m + 1 \notin K
      BY <2>2, <2>5, Zenon
    <3> HIDE DEF Same
    <3>2. QED
      BY <1>2, <2>5, <3>1, Zenon
  <2>7. f[m] = <<s[m]>> \o u
    <3>1. Piece(s[m], value) = <<s[m]>>
      BY <2>5, Zenon DEF Piece
    <3>2. QED
      BY <1>2, <2>5, <3>1, Zenon
  <2> HIDE DEF u
  <2> DEFINE v == <<s[m]>> \o u
  <2>8. s[m] \in V
    BY <2>5
  <2>9. Len(v) = 1 + Len(u) /\ v[1] = s[m] /\ \A i \in 1..Len(u) : v[1 + i] = u[i]
    <3> DEFINE e == <<s[m]>>
    <3>1. e \in Seq(V) /\ Len(e) = 1 /\ e[1] = s[m] /\ 1 \in 1..Len(e)
      BY <2>8
    <3> HIDE DEF e
    <3>2. /\ Len(e \o u) = Len(e) + Len(u)
          /\ \A i \in 1..Len(e) : (e \o u)[i] = e[i]
          /\ \A i \in 1..Len(u) : (e \o u)[Len(e) + i] = u[i]
      <4>1. e \in Seq(V) /\ u \in Seq(V)
        BY <2>6, <3>1, Zenon
      <4>2. QED
        BY ONLY <4>1, JoinedIs, SMT
    <3>3. v = e \o u
      BY Zenon DEF e
    <3> HIDE DEF v
    <3>4. QED
      BY <3>1, <3>2, <3>3, Zenon
  <2> HIDE DEF v
  <2>10. Len(u) = N - m
    BY <1>1, <2>5, <2>6
  <2>11. ASSUME NEW i \in 1..(N - m + 1)
         PROVE  v[i] = s[m + i - 1]
    <3>1. CASE i = 1
      BY <1>1, <2>5, <2>9, <3>1
    <3>2. CASE i # 1
      <4> DEFINE k == i - 1
      <4>1. k \in 1..Len(u) /\ 1 + k = i /\ k \in 1..(N - (m + 1) + 1) /\ (m + 1) + k - 1 = m + i - 1
        BY <1>1, <2>5, <2>10, <3>2
      <4> HIDE DEF k
      <4>2. v[1 + k] = u[k] /\ u[k] = s[(m + 1) + k - 1]
        BY <2>6, <2>9, <4>1
      <4>3. QED
        BY <4>1, <4>2, Zenon
    <3>3. QED
      BY <3>1, <3>2
  <2>12. Same(v, m)
    <3>1. Len(v) = N - m + 1
      BY <1>1, <2>5, <2>9, <2>10
    <3>2. QED
      BY <2>11, <3>1, Zenon
  <2>13. QED
    BY <2>3, <2>7, <2>12, Zenon DEF v
<1>4. f[1] \in Seq(V) /\ Same(f[1], 1)
  <2> HIDE DEF Same
  <2>1. QED
    BY <1>1, <1>2, <1>3, Zenon
<1> DEFINE w == f[1]
<1>5. w \in Seq(V) /\ Len(w) = N /\ \A i \in 1..N : w[i] = s[i]
  <2>1. w \in Seq(V) /\ Len(w) = N - 1 + 1 /\ \A i \in 1..(N - 1 + 1) : w[i] = s[1 + i - 1]
    BY <1>4
  <2>2. N - 1 + 1 = N /\ \A i \in 1..N : 1 + i - 1 = i
    BY <1>1
  <2> HIDE DEF w
  <2>3. QED
    BY <2>1, <2>2
<1> HIDE DEF w
<1>6. w = s
  BY <1>5
<1>7. QED
  BY <1>2, <1>6, Zenon DEF w

\* The key that a placeholder names, and what it finds.
KeyOf(key) == [i \in DOMAIN Trimmed(key) |-> FoldCase(Trimmed(key)[i])]

LEMMA FoundIs ==
  ASSUME NEW name, NEW key
  PROVE  Lookup(key, Contact(name)) =
           IF KeyOf(key) = <<"a">> /\ Trimmed(name) # <<>> THEN name
           ELSE IF KeyOf(key) \in {<<"a">>, <<"a", "a">>} THEN <<"b">>
           ELSE <<>>
<1> DEFINE c == Contact(name)
<1>1. DOMAIN c.values = {<<"a">>} /\ DOMAIN c.fallback = {<<"a">>, <<"a", "a">>}
  BY Zenon DEF Contact
<1>2. \A k \in DOMAIN c.values : c.values[k] = name
  BY Zenon DEF Contact
<1>3. \A k \in DOMAIN c.fallback : c.fallback[k] = <<"b">>
  BY Zenon DEF Contact
<1> HIDE DEF c
<1>4. Lookup(key, c) =
        IF KeyOf(key) \in DOMAIN c.values /\ Trimmed(c.values[KeyOf(key)]) # <<>> THEN c.values[KeyOf(key)]
        ELSE IF KeyOf(key) \in DOMAIN c.fallback THEN c.fallback[KeyOf(key)]
        ELSE <<>>
  BY Zenon DEF Lookup, KeyOf
<1>5. QED
  BY <1>1, <1>2, <1>3, <1>4, Zenon DEF c

LEMMA TrimmedOne ==
  ASSUME NEW c, ~Blank(c)
  PROVE  Trimmed(<<c>>) = <<c>>
<1> DEFINE t == <<c>>
           seen == {i \in DOMAIN t : ~Blank(t[i])}
<1>1. DOMAIN t = {1} /\ t[1] = c
  OBVIOUS
<1>2. seen = {1}
  <2> HIDE DEF t
  <2>1. QED
    BY <1>1
<1> HIDE DEF seen
<1>3. (CHOOSE i \in seen : \A j \in seen : i >= j) = 1
  BY <1>2
<1>4. First(seen) = 1
  BY <1>2 DEF First
<1>5. SubSeq(t, 1, 1) = t
  <2>1. t \in Seq({c}) /\ Len(t) = 1
    OBVIOUS
  <2> HIDE DEF t
  <2>2. QED
    BY <2>1
<1>6. Trimmed(t) = IF seen = {} THEN <<>> ELSE SubSeq(t, First(seen), CHOOSE i \in seen : \A j \in seen : i >= j)
  BY Zenon DEF Trimmed, seen
<1>7. seen # {}
  BY <1>2
<1>8. QED
  BY <1>3, <1>4, <1>5, <1>6, <1>7, Zenon

LEMMA SlotIs == Slot # "b" /\ Slot # Open /\ ~Blank(Slot) /\ ~Blank("a") /\ Open # "b"
BY Zenon DEF Slot, Blank, Open

\* The name is found where the slot is, and elsewhere both find the same.
LEMMA SlotFound ==
  ASSUME NEW name, NEW key
  PROVE  LET found == Lookup(key, Contact(name))
             slot == Lookup(key, Contact(<<Slot>>))
         IN \/ slot = <<Slot>> /\ found = Lookup(<<"a">>, Contact(name))
            \/ slot \in {<<"b">>, <<>>} /\ found = slot
<1>1. Trimmed(<<Slot>>) # <<>>
  <2>1. Trimmed(<<Slot>>) = <<Slot>>
    BY SlotIs, TrimmedOne
  <2>2. Len(<<Slot>>) = 1 /\ Len(<<>>) = 0
    OBVIOUS
  <2>3. QED
    BY <2>1, <2>2
<1>2. KeyOf(<<"a">>) = <<"a">>
  <2> DEFINE t == <<"a">>
  <2>1. Trimmed(t) = t
    BY SlotIs, TrimmedOne
  <2>2. DOMAIN t = {1} /\ t[1] = "a" /\ t = [i \in {1} |-> "a"]
    OBVIOUS
  <2>3. FoldCase("a") = "a"
    BY Zenon DEF FoldCase
  <2>4. KeyOf(t) = [i \in DOMAIN t |-> FoldCase(t[i])]
    BY <2>1, Zenon DEF KeyOf
  <2> HIDE DEF t
  <2>5. QED
    BY <2>2, <2>3, <2>4 DEF t
<1>3. QED
  BY <1>1, <1>2, FoundIs, Zenon

\* The loop of Render does to a name only what it does to a slot.
LEMMA ReplacedIsWritten ==
  ASSUME NEW V, NEW s \in Seq(V), NEW name \in Seq(V), {Slot, "b"} \subseteq V,
         \A i \in 1..Len(s) : s[i] # Slot
  PROVE  /\ Replaced(s, Contact(name)) \in Seq(V)
         /\ Replaced(s, Contact(name)) =
              Written(Replaced(s, Contact(<<Slot>>)), Lookup(<<"a">>, Contact(name)))
<1> DEFINE N == Len(s)
           M == N + 2
           c == Contact(name)
           k == Contact(<<Slot>>)
           v == Lookup(<<"a">>, c)
<1>1. N \in Nat /\ M \in Nat /\ 1 \in 1..M
  OBVIOUS
<1>2. <<Slot>> \in Seq(V) /\ <<"b">> \in Seq(V) /\ <<>> \in Seq(V)
  OBVIOUS
<1>3. v \in Seq(V)
  BY <1>2, FoundIs, Zenon
<1>4. Onward(M, Ends(s), Goes(s))
  BY GoesOn
<1>5. PICK f : Chained(f, M, Ends(s), Rests(s), Pieces(s, c), Goes(s)) /\ Replaced(s, c) = f[1]
  BY LoopIs
<1>6. PICK g : Chained(g, M, Ends(s), Rests(s), Pieces(s, k), Goes(s)) /\ Replaced(s, k) = g[1]
  BY LoopIs
<1> HIDE DEF c, k, v
<1> DEFINE Good(n) == f[n] \in Seq(V) /\ g[n] \in Seq(V) /\ f[n] = Written(g[n], v)
           K == {n \in 1..M : ~Good(n)}
\* What is neither an opening nor a value is written as it is.
<1>7. ASSUME NEW i \in 1..M, NEW j \in 0..N
      PROVE  SubSeq(s, i, j) \in Seq(V) /\ Written(SubSeq(s, i, j), v) = SubSeq(s, i, j)
  <2> DEFINE p == SubSeq(s, i, j)
  <2>1. p \in Seq(V) /\ \A x \in 1..Len(p) : p[x] = s[i + x - 1] /\ i + x - 1 \in 1..N
    <3>1. CASE i > j
      <4>1. p = <<>>
        BY <1>1, <3>1
      <4>2. QED
        BY <1>2, <4>1
    <3>2. CASE i <= j
      <4>1. p \in Seq(V) /\ Len(p) = j - i + 1 /\ \A x \in 1..(j - i + 1) : p[x] = s[i + x - 1]
        BY <1>1, <3>2
      <4>2. \A x \in 1..(j - i + 1) : i + x - 1 \in 1..N
        BY <1>1, <3>2
      <4> HIDE DEF p
      <4>3. QED
        BY <4>1, <4>2
    <3>3. QED
      BY <1>1, <3>1, <3>2
  <2> HIDE DEF p
  <2>2. \A x \in 1..Len(p) : p[x] # Slot
    BY <2>1
  <2>3. Written(p, v) = p
    BY <1>3, <2>1, <2>2, WrittenPlain
  <2>4. QED
    BY <2>1, <2>3 DEF p
<1>8. ASSUME NEW key
      PROVE  /\ Lookup(key, c) \in Seq(V) /\ Lookup(key, k) \in Seq(V)
             /\ Written(Lookup(key, k), v) = Lookup(key, c)
  <2>1. CASE Lookup(key, k) = <<Slot>> /\ Lookup(key, c) = v
    <3>1. Written(<<Slot>>, v) = v
      <4> DEFINE t == <<Slot>>
      <4>1. t \in Seq(V) /\ Len(t) = 1 /\ t[1] = Slot /\ 1 \in 1..Len(t)
        BY <1>2
      <4> HIDE DEF t
      <4>2. PICK h : /\ h[1] = Written(t, v) /\ h[Len(t) + 1] = <<>>
                     /\ \A n \in 1..Len(t) : h[n] = Piece(t[n], v) \o h[n + 1]
                     /\ \A n \in 1..(Len(t) + 1) : h[n] \in Seq(V)
        BY <1>3, <4>1, WrittenIs
      <4>3. h[1] = v \o h[1 + 1] /\ h[1 + 1] = <<>>
        BY <4>1, <4>2, Zenon DEF Piece
      <4>4. v \o <<>> = v
        BY <1>3
      <4>5. QED
        BY <4>2, <4>3, <4>4, Zenon DEF t
    <3>2. QED
      BY <1>2, <1>3, <2>1, <3>1, Zenon
  <2>2. CASE Lookup(key, k) \in {<<"b">>, <<>>} /\ Lookup(key, c) = Lookup(key, k)
    <3> DEFINE t == Lookup(key, k)
    <3>1. t \in Seq(V)
      BY <1>2, <2>2, Zenon
    <3>2. \A i \in 1..Len(t) : t[i] # Slot
      <4>1. t = <<"b">> \/ t = <<>>
        BY <2>2, Zenon
      <4> HIDE DEF t
      <4>2. CASE t = <<>>
        BY <4>2
      <4>3. CASE t = <<"b">>
        <5>1. \A i \in 1..Len(t) : t[i] = "b"
          BY <4>3
        <5>2. QED
          BY <5>1, SlotIs, Zenon
      <4>4. QED
        BY <4>1, <4>2, <4>3
    <3> HIDE DEF t
    <3>3. Written(t, v) = t
      BY <1>3, <3>1, <3>2, WrittenPlain
    <3>4. QED
      BY <2>2, <3>1, <3>3, Zenon DEF t
  <2>3. QED
    BY <2>1, <2>2, SlotFound, Zenon DEF c, k, v
<1>12. \A a, b \in Seq(V) : Written(a \o b, v) = Written(a, v) \o Written(b, v)
  <2>1. Joins(V, v)
    BY ONLY <1>3, WrittenJoined, Zenon
  <2>2. QED
    BY <2>1, Zenon DEF Joins
<1>9. K = {}
  <2>1. SUFFICES ASSUME K # {}
                 PROVE  FALSE
    OBVIOUS
  <2>2. PICK m \in K : \A n \in K : n <= m
    <3>1. K \in SUBSET Int /\ K \subseteq 1..M /\ 1 \in Int /\ M \in Int
      BY <1>1
    <3> HIDE DEF K, M
    <3>2. QED
      BY <2>1, <3>1, GreatestOf, Zenon
  <2>3. m \in 1..M /\ ~Good(m)
    BY <2>2, Zenon
  <2>4. /\ f[m] = IF m \in Ends(s) THEN Rests(s)[m] ELSE Pieces(s, c)[m] \o f[Goes(s)[m]]
        /\ g[m] = IF m \in Ends(s) THEN Rests(s)[m] ELSE Pieces(s, k)[m] \o g[Goes(s)[m]]
    BY <1>5, <1>6, <2>3, Zenon DEF Chained
  <2>5. CASE m \in Ends(s)
    <3>1. f[m] = SubSeq(s, m, N) /\ g[m] = SubSeq(s, m, N)
      BY <2>3, <2>4, <2>5, Zenon DEF Rests
    <3>2. N \in 0..N
      BY <1>1
    <3>3. QED
      BY <1>7, <2>3, <3>1, <3>2, Zenon
  <2>6. CASE m \notin Ends(s)
    <3> DEFINE o == First(Opens(s, m))
               p == SubSeq(s, m, o - 1)
               key == KeyAt(s, m)
               x == Lookup(key, c)
               y == Lookup(key, k)
               z == Goes(s)[m]
    <3>1. z \in (m + 1)..M
      BY <1>4, <2>3, <2>6, Zenon DEF Onward
    <3>2. z \in 1..M /\ ~(z <= m)
      BY <1>1, <2>3, <3>1
    <3>3. Good(z)
      <4>1. z \notin K
        BY <2>2, <3>2, Zenon
      <4> HIDE DEF Good, z
      <4>2. QED
        BY <3>2, <4>1, Zenon
    <3>4. o \in m..N
      BY <2>3, <2>6, ClosingIs, OpeningIs, Zenon
    <3>5. o - 1 \in 0..N
      <4> HIDE DEF o
      <4>1. QED
        BY <1>1, <2>3, <3>4
    <3>6. p \in Seq(V) /\ Written(p, v) = p
      BY <1>7, <2>3, <3>5, Zenon
    <3>7. x \in Seq(V) /\ y \in Seq(V) /\ Written(y, v) = x
      BY <1>8, Zenon
    <3>8. Pieces(s, c)[m] = p \o x /\ Pieces(s, k)[m] = p \o y
      BY <2>3, Zenon DEF Pieces, Ahead
    <3>9. f[m] = (p \o x) \o f[z] /\ g[m] = (p \o y) \o g[z]
      BY <2>4, <2>6, <3>8, Zenon
    <3> DEFINE fz == f[z]
               gz == g[z]
    <3>10. fz \in Seq(V) /\ gz \in Seq(V) /\ fz = Written(gz, v)
      BY <3>3, Zenon
    <3>11. f[m] = (p \o x) \o fz /\ g[m] = (p \o y) \o gz
      BY <3>9, Zenon
    <3> HIDE DEF p, x, y, z, fz, gz
    <3>12. p \o x \in Seq(V) /\ p \o y \in Seq(V) /\ (p \o x) \o fz \in Seq(V) /\ (p \o y) \o gz \in Seq(V)
      BY <3>6, <3>7, <3>10
    <3>13. Written((p \o y) \o gz, v) = Written(p \o y, v) \o Written(gz, v)
      BY <1>12, <3>10, <3>12, Zenon
    <3>14. Written(p \o y, v) = p \o x
      <4>1. Written(p \o y, v) = Written(p, v) \o Written(y, v)
        BY <1>12, <3>6, <3>7, Zenon
      <4>2. QED
        BY <3>6, <3>7, <4>1, Zenon
    <3>15. QED
      BY <2>3, <3>10, <3>11, <3>12, <3>13, <3>14, Zenon
  <2>7. QED
    BY <2>5, <2>6
<1>10. Good(1)
  <2> HIDE DEF Good, M
  <2>1. QED
    BY <1>1, <1>9, Zenon
<1>11. QED
  BY <1>5, <1>6, <1>10, Zenon DEF c, k, v

\* No placeholder of a template reaches a customer, nor anything of the gap an empty
\* value leaves, and a value is written as it is: in a template of any length, with
\* a name of any length, whatever stands in both (but the slot in the template)
\* (Render, tidy).
THEOREM RenderIsCleanAlways ==
  ASSUME NEW W, ask \in [text : Seq(W), name : Seq(W)], \A i \in 1..Len(ask.text) : ask.text[i] # Slot
  PROVE  RenderIsClean
<1> DEFINE s == ask.text
           name == ask.name
           c == Contact(name)
           out == Render(s, c)
           r == Replaced(s, c)
           V == W \cup {Slot, "b"}
           plain == \A i \in DOMAIN name : name[i] # Open
           neat(u) == \A i \in DOMAIN u : ~(At(u, i, Space) \/ (At(u, i, "newline") /\ At(u, i + 1, "newline")))
<1>1. s \in Seq(W) /\ name \in Seq(W)
  OBVIOUS
<1> HIDE DEF s, name
<1>2. s \in Seq(V) /\ name \in Seq(V) /\ {Slot, "b"} \subseteq V /\ \A i \in 1..Len(s) : s[i] # Slot
  BY <1>1 DEF s
<1>3. /\ r \in Seq(V)
      /\ r = Written(Replaced(s, Contact(<<Slot>>)), Lookup(<<"a">>, c))
  <2> HIDE DEF V
  <2>1. QED
    BY <1>2, ReplacedIsWritten
<1>4. ASSUME plain
      PROVE  Bare(r)
  <2> DEFINE B == (W \ {Open}) \cup {"b"}
  <2>1. Open \notin B
    BY SlotIs
  <2>2. name \in Seq(B)
    <3>1. \A i \in 1..Len(name) : name[i] \in B
      BY <1>1, <1>4
    <3> HIDE DEF B
    <3>2. Len(name) \in Nat /\ name \in [1..Len(name) -> B]
      BY <1>1, <3>1
    <3>3. QED
      BY <3>2
  <2>3. <<"b">> \in Seq(B) /\ <<>> \in Seq(B)
    OBVIOUS
  <2> HIDE DEF B
  <2>4. \A key : Lookup(key, c) \in Seq(B)
    BY <2>2, <2>3, FoundIs, Zenon
  <2>5. QED
    BY <1>1, <2>1, <2>4, ReplacedIsBare
<1>5. /\ plain => Bare(out)
      /\ out # s => neat(out)
  <2>1. CASE \E i \in DOMAIN s : At(s, i, Open)
    <3>1. out = Tidied(r)
      BY <2>1, Zenon DEF Render, r, Open
    <3> HIDE DEF r, plain
    <3>2. Text(r)
      BY <1>3 DEF Text
    <3>3. neat(Tidied(r))
      BY <3>2, TidiedIsNeat
    <3>4. plain => Bare(Tidied(r))
      BY <1>4, <3>2, TidiedIsClean
    <3> HIDE DEF neat, out
    <3>5. QED
      BY <3>1, <3>3, <3>4, Zenon
  <2>2. CASE ~\E i \in DOMAIN s : At(s, i, Open)
    <3>1. out = s
      BY <2>2, Zenon DEF Render, Open
    <3>2. Bare(s)
      BY <2>2, Zenon DEF Bare
    <3>3. QED
      BY <3>1, <3>2, Zenon
  <2>3. QED
    BY <2>1, <2>2
<1>6. ~Holds(name, Open) => plain
  BY Zenon DEF Holds
<1> HIDE DEF plain
<1>7. /\ ~Holds(name, Open) => Bare(out)
      /\ r = Written(Replaced(s, Contact(<<Slot>>)), Lookup(<<"a">>, c))
      /\ out # s => neat(out)
  BY <1>3, <1>5, <1>6
<1>8. QED
  BY <1>7, Zenon DEF RenderIsClean, Bare, Space, Open, Close, s, name
=============================================================================
