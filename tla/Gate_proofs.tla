----------------------------- MODULE Gate_proofs -----------------------------
(***************************************************************************)
(* Theorems about Gate, for any number of accounts, callers, slots and        *)
(* delays, whatever callers are held up or cancelled.                         *)
(***************************************************************************)
EXTENDS Gate, FiniteSetTheorems, TLAPS

-----------------------------------------------------------------------------
(***************************************************************************)
(* Numbers.                                                                  *)
(***************************************************************************)
LEMMA TimesGrows ==
  ASSUME NEW m \in Nat, NEW x \in Int, NEW y \in Int, x <= y
  PROVE  m * x \in Int /\ m * y \in Int /\ m * x <= m * y
<1>1. PICK k \in Nat : y = x + k
  <2>1. y - x \in Nat /\ y = x + (y - x) OBVIOUS
  <2>2. QED BY <2>1
<1>2. m * y = m * x + m * k
  BY <1>1
<1>3. m * k \in Nat
  OBVIOUS
<1>4. QED
  BY <1>2, <1>3

LEMMA TimesNext ==
  ASSUME NEW m \in Nat, NEW x \in Int
  PROVE  m * (x + 1) = m * x + m
OBVIOUS

-----------------------------------------------------------------------------
(***************************************************************************)
(* Type correctness.                                                         *)
(***************************************************************************)
LEMMA SettingsTypes ==
  ASSUME NEW a \in Accounts
  PROVE  /\ SlotsOf(a) \in Nat \ {0}
         /\ MinDelay(a) \in Nat /\ MaxDelay(a) \in Nat /\ MinDelay(a) <= MaxDelay(a)
         /\ Intervals(a) \subseteq Nat
BY GateAssumption DEF SlotsOf, MinDelay, MaxDelay, Intervals

LEMMA LaterType ==
  ASSUME NEW m \in Nat, NEW n \in Nat
  PROVE  Later(m, n) \in Nat /\ Later(m, n) >= m /\ Later(m, n) >= n /\ Later(m, n) \in {m, n}
BY DEF Later

\* No step takes a variable out of its type, and whoever is at a gate is at the
\* gate of an account that exists (Router.Send).
THEOREM TypeCorrect == Spec => []TypeOK
<1>1. Init => TypeOK
  <2> SUFFICES ASSUME Init PROVE TypeOK
    OBVIOUS
  <2>1. starts \in [Accounts -> Seq(Nat)]
    BY DEF Init
  <2>2. \A c \in Callers : phase[c] = "idle"
    BY DEF Init
  <2>3. /\ phase \in [Callers -> Phases] /\ account \in [Callers -> Accounts \cup {0}]
        /\ place \in [Callers -> Nat]
    BY DEF Init, Phases
  <2>4. nextFree \in [Accounts -> Nat] /\ lost \in [Accounts -> SUBSET Nat]
    BY DEF Init
  <2>5. clock \in Nat /\ calls \in Nat
    BY DEF Init
  <2>6. QED
    BY <2>1, <2>2, <2>3, <2>4, <2>5 DEF TypeOK
<1>2. TypeOK /\ [Next]_vars => TypeOK'
  <2> SUFFICES ASSUME TypeOK, [Next]_vars PROVE TypeOK'
    OBVIOUS
  <2>1. ASSUME NEW c \in Callers, NEW t \in Targets, Call(c, t) PROVE TypeOK'
    <3>1. CASE InstanceIDOrPrimary(t) \in Accounts
      <4> DEFINE a == InstanceIDOrPrimary(t)
      <4>1. /\ phase' = [phase EXCEPT ![c] = "waiting"]
            /\ account' = [account EXCEPT ![c] = a]
            /\ calls' = calls + 1
            /\ UNCHANGED <<clock, nextFree, place, starts, lost>>
        BY <2>1, <3>1 DEF Call, Goto
      <4> HIDE DEF a
      <4>2. phase' \in [Callers -> Phases] /\ account' \in [Callers -> Accounts \cup {0}]
        BY <3>1, <4>1 DEF TypeOK, Phases, a
      <4>3. \A d \in Callers : phase'[d] # "idle" => account'[d] \in Accounts
        BY <3>1, <4>1 DEF TypeOK, Phases, a
      <4>4. QED
        BY <4>1, <4>2, <4>3 DEF TypeOK
    <3>2. CASE InstanceIDOrPrimary(t) \notin Accounts
      BY <2>1, <3>2 DEF Call, TypeOK
    <3>3. QED BY <3>1, <3>2
  <2>2. ASSUME NEW c \in Callers, TakeSlot(c) PROVE TypeOK'
    BY <2>2 DEF TakeSlot, Goto, TypeOK, Phases
  <2>3. ASSUME NEW c \in Callers, ReadClock(c) PROVE TypeOK'
    BY <2>3 DEF ReadClock, Goto, TypeOK, Phases
  <2>4. ASSUME NEW c \in Callers, Reserve(c) PROVE TypeOK'
    <3> DEFINE a == account[c]  at == Later(place[c], nextFree[a])
    <3>1. a \in Accounts
      BY <2>4 DEF Reserve, TypeOK
    <3>2. at \in Nat
      BY <3>1, LaterType DEF TypeOK
    <3>3. PICK d \in Intervals(a) : nextFree' = [nextFree EXCEPT ![a] = at + d]
      BY <2>4 DEF Reserve
    <3>4. at + d \in Nat
      BY <3>1, <3>2, SettingsTypes
    <3> HIDE DEF at
    <3>5. nextFree' \in [Accounts -> Nat]
      BY <3>3, <3>4 DEF TypeOK
    <3>6. place' = [place EXCEPT ![c] = at]
      BY <2>4 DEF Reserve, at
    <3>7. QED
      BY <2>4, <3>2, <3>5, <3>6 DEF Reserve, Goto, TypeOK, Phases
  <2>5. ASSUME NEW c \in Callers, Start(c) PROVE TypeOK'
    <3>1. account[c] \in Accounts /\ starts[account[c]] \in Seq(Nat)
      BY <2>5 DEF Start, TypeOK
    <3>2. Append(starts[account[c]], clock) \in Seq(Nat)
      BY <3>1 DEF TypeOK
    <3>3. QED
      BY <2>5, <3>2 DEF Start, Goto, TypeOK, Phases
  <2>6. ASSUME NEW c \in Callers, Return(c) PROVE TypeOK'
    BY <2>6 DEF Return, Leave, Goto, TypeOK, Phases
  <2>7. ASSUME NEW c \in Callers, Cancel(c) PROVE TypeOK'
    <3>1. Leave(c) /\ UNCHANGED <<clock, nextFree, calls, starts>>
      BY <2>7 DEF Cancel
    <3>2. lost' \in [Accounts -> SUBSET Nat]
      <4>1. CASE UNCHANGED lost
        BY <4>1 DEF TypeOK
      <4>2. CASE lost' = [lost EXCEPT ![account[c]] = @ \cup {place[c]}]
        BY <4>2 DEF TypeOK
      <4>3. QED BY <2>7, <4>1, <4>2 DEF Cancel
    <3>3. QED
      BY <3>1, <3>2 DEF Leave, Goto, TypeOK, Phases
  <2>8. ASSUME Tick PROVE TypeOK'
    BY <2>8 DEF Tick, TypeOK
  <2>9. CASE UNCHANGED vars
    BY <2>9 DEF vars, TypeOK
  <2>10. QED
    BY <2>1, <2>2, <2>3, <2>4, <2>5, <2>6, <2>7, <2>8, <2>9 DEF Next
<1>3. QED
  BY <1>1, <1>2, PTL DEF Spec

-----------------------------------------------------------------------------
(***************************************************************************)
(* The backlog.  The places that count are those of the callers who wait and *)
(* those that were lost.  Seen from any moment t not yet past, a place x lies *)
(* no further ahead than the places between t and x reach, one interval each, *)
(* and one interval more.                                                     *)
(***************************************************************************)
Between(P, t, x) == {y \in P : t < y /\ y < x}

Reached(P, t, x, m) == x <= t + m * (1 + Cardinality(Between(P, t, x)))

Compact(P, next, now, m) ==
  \A x \in P \cup {next} : \A t \in Nat : t >= now => Reached(P, t, x, m)

LEMMA BetweenFinite ==
  ASSUME NEW P, IsFiniteSet(P), NEW t, NEW x
  PROVE  IsFiniteSet(Between(P, t, x)) /\ Cardinality(Between(P, t, x)) \in Nat
<1>1. Between(P, t, x) \subseteq P
  BY DEF Between
<1>2. QED
  BY <1>1, FS_Subset, FS_CardinalityType

\* Places that are past may be forgotten.
LEMMA CompactForgets ==
  ASSUME NEW P \in SUBSET Nat, NEW Q \in SUBSET P, NEW next \in Nat, NEW m \in Nat,
         NEW now \in Nat, NEW now2 \in Nat, now <= now2,
         \A y \in P : y <= now2 \/ y \in Q,
         Compact(P, next, now, m)
  PROVE  Compact(Q, next, now2, m)
<1> SUFFICES ASSUME NEW x \in Q \cup {next}, NEW t \in Nat, t >= now2
             PROVE  Reached(Q, t, x, m)
  BY DEF Compact
<1>1. Between(Q, t, x) = Between(P, t, x)
  <2>1. \A y \in P : t < y => y \in Q
    <3> SUFFICES ASSUME NEW y \in P, t < y PROVE y \in Q
      OBVIOUS
    <3>1. y \in Nat /\ ~(y <= now2)
      OBVIOUS
    <3>2. QED BY <3>1
  <2>2. QED BY <2>1 DEF Between
<1>2. Reached(P, t, x, m)
  BY DEF Compact
<1>3. QED
  BY <1>1, <1>2 DEF Reached

\* A place that is reserved: the first free one, or now if that is past.
LEMMA CompactReserves ==
  ASSUME NEW P \in SUBSET Nat, IsFiniteSet(P), NEW next \in Nat, NEW m \in Nat,
         NEW now \in Nat, NEW at \in Nat, NEW d \in 0..m,
         at >= next, at = next \/ at <= now,
         Compact(P, next, now, m)
  PROVE  Compact(P \cup {at}, at + d, now, m)
<1> DEFINE Q == P \cup {at}
<1>0. IsFiniteSet(Q)
  BY FS_AddElement
<1> SUFFICES ASSUME NEW x \in Q \cup {at + d}, NEW t \in Nat, t >= now
             PROVE  Reached(Q, t, x, m)
  BY DEF Compact
<1>1. \A y \in Nat : Between(P, t, y) \subseteq Between(Q, t, y)
  BY DEF Between
<1>2. ASSUME NEW y \in P \cup {next} PROVE Reached(Q, t, y, m)
  <2>1. Cardinality(Between(P, t, y)) <= Cardinality(Between(Q, t, y))
    BY <1>0, <1>1, FS_Subset, BetweenFinite
  <2>2. Reached(P, t, y, m)
    BY DEF Compact
  <2> DEFINE u == 1 + Cardinality(Between(P, t, y))
             v == 1 + Cardinality(Between(Q, t, y))
  <2>3. u \in Int /\ v \in Int /\ u <= v
    BY <1>0, <2>1, BetweenFinite
  <2>4. m * u \in Int /\ m * v \in Int /\ m * u <= m * v
    BY <2>3, TimesGrows
  <2>5. y <= t + m * u
    BY <2>2 DEF Reached
  <2> HIDE DEF u, v
  <2>6. y <= t + m * v
    BY <2>4, <2>5
  <2>7. QED
    BY <2>6 DEF Reached, v
<1>3. ASSUME NEW y \in Nat, y <= t PROVE Reached(Q, t, y, m)
  <2> DEFINE v == 1 + Cardinality(Between(Q, t, y))
  <2>1. v \in Nat
    BY <1>0, BetweenFinite
  <2>2. m * v \in Nat
    BY <2>1
  <2> HIDE DEF v
  <2>3. y <= t + m * v
    BY <1>3, <2>2
  <2>4. QED
    BY <2>3 DEF Reached, v
<1>4. Reached(Q, t, at, m)
  BY <1>2, <1>3
<1>5. Reached(Q, t, at + d, m)
  <2>1. CASE d = 0
    BY <1>4, <2>1
  <2>2. CASE at <= t
    <3> DEFINE v == Cardinality(Between(Q, t, at + d))
    <3>1. v \in Nat
      BY <1>0, BetweenFinite
    <3>2. m * v \in Nat /\ m * (v + 1) = m * v + m
      BY <3>1, TimesNext
    <3> HIDE DEF v
    <3>3. at + d <= t + m * (1 + v)
      BY <2>2, <3>1, <3>2
    <3>4. QED
      BY <3>3 DEF Reached, v
  <2>3. CASE d > 0 /\ at > t
    <3> DEFINE B == Between(Q, t, at)
               C == Between(Q, t, at + d)
    <3>0. at < at + d /\ \A y \in Q : y < at => y < at + d
      <4>1. Q \subseteq Nat OBVIOUS
      <4> HIDE DEF Q
      <4>2. QED BY <2>3, <4>1
    <3>1. B \cup {at} \subseteq C /\ at \notin B
      <4>1. at \in Q /\ ~(at < at)
        OBVIOUS
      <4> HIDE DEF Q
      <4>2. QED BY <2>3, <3>0, <4>1 DEF Between
    <3>2. IsFiniteSet(B) /\ Cardinality(B) \in Nat /\ IsFiniteSet(C) /\ Cardinality(C) \in Nat
      BY <1>0, BetweenFinite
    <3> HIDE DEF B, C
    <3>3. Cardinality(B) + 1 <= Cardinality(C)
      <4>1. Cardinality(B \cup {at}) = Cardinality(B) + 1 /\ IsFiniteSet(B \cup {at})
        BY <3>1, <3>2, FS_AddElement
      <4>2. Cardinality(B \cup {at}) <= Cardinality(C)
        BY <3>1, <3>2, FS_Subset
      <4>3. QED BY <4>1, <4>2
    <3> DEFINE u == 1 + Cardinality(B)
               v == 1 + Cardinality(C)
    <3>4. u + 1 \in Int /\ u \in Int /\ v \in Int /\ u + 1 <= v
      BY <3>2, <3>3
    <3> HIDE DEF u, v
    <3>5. m * (u + 1) \in Int /\ m * v \in Int /\ m * (u + 1) <= m * v
      BY <3>4, TimesGrows
    <3>6. m * (u + 1) = m * u + m /\ m * u \in Int
      BY <3>4, TimesNext
    <3>7. at <= t + m * u
      BY <1>4 DEF Reached, B, u
    <3>8. at + d <= t + m * v
      BY <3>5, <3>6, <3>7
    <3>9. QED
      BY <3>8 DEF Reached, C, v
  <2>4. QED
    BY <2>1, <2>2, <2>3
<1>6. QED
  BY <1>2, <1>4, <1>5

Paced(a) == {c \in Callers : account[c] = a /\ phase[c] = "paced"}
Held(a) == {place[c] : c \in Paced(a)}
Places(a) == Held(a) \cup lost[a]

LineInv ==
  /\ \A c \in Callers : phase[c] = "read" => place[c] <= clock
  /\ \A a \in Accounts : /\ IsFiniteSet(lost[a])
                         /\ Compact(Places(a), nextFree[a], clock, MaxDelay(a))

\* Callers hold no more places than they are.
LEMMA PlacesHeld ==
  ASSUME TypeOK, NEW S \in SUBSET Callers
  PROVE  /\ IsFiniteSet(S) /\ IsFiniteSet({place[c] : c \in S})
         /\ Cardinality({place[c] : c \in S}) <= Cardinality(S)
<1>1. IsFiniteSet(S)
  BY GateAssumption, FS_Subset
<1> DEFINE T == {place[c] : c \in S}
           f == [c \in S |-> place[c]]
<1>2. f \in Surjection(S, T)
  BY DEF Surjection
<1> HIDE DEF f, T
<1>3. IsFiniteSet(T) /\ Cardinality(T) <= Cardinality(S)
  BY <1>1, <1>2, FS_Surjection
<1>4. QED
  BY <1>1, <1>3 DEF T

LEMMA PlacesTypes ==
  ASSUME TypeOK, LineInv, NEW a \in Accounts
  PROVE  Places(a) \in SUBSET Nat /\ IsFiniteSet(Places(a))
<1>1. Paced(a) \in SUBSET Callers
  BY DEF Paced
<1>2. IsFiniteSet(Held(a)) /\ Held(a) \subseteq Nat
  BY <1>1, PlacesHeld DEF Held, TypeOK
<1>3. IsFiniteSet(lost[a]) /\ lost[a] \subseteq Nat
  BY DEF LineInv, TypeOK
<1>4. QED
  BY <1>2, <1>3, FS_Union DEF Places

\* A step that reserves nothing on a's timeline.
LEMMA QuietTimeline ==
  ASSUME TypeOK, TypeOK', LineInv, NEW a \in Accounts,
         clock <= clock', nextFree'[a] = nextFree[a],
         IsFiniteSet(lost'[a]),
         Places(a)' \subseteq Places(a),
         \A y \in Places(a) : y <= clock' \/ y \in Places(a)'
  PROVE  Compact(Places(a)', nextFree'[a], clock', MaxDelay(a))
<1>1. Compact(Places(a), nextFree[a], clock, MaxDelay(a))
  BY DEF LineInv
<1>2. /\ Places(a) \in SUBSET Nat /\ nextFree[a] \in Nat /\ MaxDelay(a) \in Nat
      /\ clock \in Nat /\ clock' \in Nat
  BY PlacesTypes, SettingsTypes DEF TypeOK
<1> DEFINE P == Places(a)  Q == Places(a)'  n == nextFree[a]  now == clock  now2 == clock'
           m == MaxDelay(a)
<1>3. /\ P \in SUBSET Nat /\ Q \in SUBSET P /\ n \in Nat /\ m \in Nat /\ now \in Nat /\ now2 \in Nat
      /\ now <= now2 /\ \A y \in P : y <= now2 \/ y \in Q
      /\ Compact(P, n, now, m)
  BY <1>1, <1>2
<1> HIDE DEF P, Q, n, now, now2, m
<1>4. Compact(Q, n, now2, m)
  BY <1>3, CompactForgets
<1>5. QED
  BY <1>4 DEF Q, n, now2, m

LEMMA LineInit == Init => LineInv
<1> SUFFICES ASSUME Init PROVE LineInv
  OBVIOUS
<1>1. \A c \in Callers : phase[c] = "idle"
  BY DEF Init
<1>2. SUFFICES ASSUME NEW a \in Accounts
               PROVE  IsFiniteSet(lost[a]) /\ Compact(Places(a), nextFree[a], clock, MaxDelay(a))
  BY <1>1 DEF LineInv
<1>3. lost[a] = {} /\ nextFree[a] = 0 /\ clock = 0
  BY DEF Init
<1>4. Places(a) = {}
  BY <1>1, <1>3 DEF Places, Held, Paced
<1>5. ASSUME NEW t \in Nat PROVE Reached({}, t, 0, MaxDelay(a))
  <2>1. Between({}, t, 0) = {}
    BY DEF Between
  <2>2. Cardinality(Between({}, t, 0)) = 0
    BY <2>1, FS_EmptySet
  <2>3. QED
    BY <2>2, SettingsTypes DEF Reached
<1>6. Compact({}, 0, 0, MaxDelay(a))
  BY <1>5 DEF Compact
<1>7. QED
  BY <1>3, <1>4, <1>6, FS_EmptySet

LEMMA LineNext ==
  ASSUME TypeOK, TypeOK', LineInv, [Next]_vars
  PROVE  LineInv'
<1>0. clock \in Nat /\ clock <= clock /\ nextFree \in [Accounts -> Nat]
  BY DEF TypeOK
<1>1. \A c \in Callers : phase'[c] = "read" => place'[c] <= clock'
  <2> SUFFICES ASSUME NEW d \in Callers, phase'[d] = "read" PROVE place'[d] <= clock'
    OBVIOUS
  <2>0. /\ clock \in Nat /\ place[d] \in Nat /\ phase \in [Callers -> Phases]
        /\ place \in [Callers -> Nat] /\ (phase[d] = "read" => place[d] <= clock)
    BY DEF TypeOK, LineInv
  <2>1. ASSUME NEW c \in Callers, ReadClock(c) PROVE place'[d] <= clock'
    BY <2>0, <2>1 DEF ReadClock, Goto
  <2>2. ASSUME NEW c \in Callers, Reserve(c) PROVE place'[d] <= clock'
    BY <2>0, <2>2 DEF Reserve, Goto
  <2>3. ASSUME NEW c \in Callers,
               TakeSlot(c) \/ Start(c) \/ \E t \in Targets : Call(c, t)
        PROVE  place'[d] <= clock'
    BY <2>0, <2>3 DEF TakeSlot, Start, Call, Goto
  <2>4. ASSUME NEW c \in Callers, Return(c) \/ Cancel(c) PROVE place'[d] <= clock'
    BY <2>0, <2>4 DEF Return, Cancel, Leave, Goto
  <2>5. CASE Tick \/ UNCHANGED vars
    BY <2>0, <2>5 DEF Tick, vars
  <2>6. QED
    BY <2>1, <2>2, <2>3, <2>4, <2>5 DEF Next
<1>2. SUFFICES ASSUME NEW a \in Accounts
               PROVE  IsFiniteSet(lost'[a]) /\ Compact(Places(a)', nextFree'[a], clock', MaxDelay(a))
  BY <1>1 DEF LineInv
<1> DEFINE Goal == IsFiniteSet(lost'[a]) /\ Compact(Places(a)', nextFree'[a], clock', MaxDelay(a))
<1>3. IsFiniteSet(lost[a])
  BY DEF LineInv
<1>4. ASSUME clock' = clock, nextFree' = nextFree, lost' = lost, Paced(a)' = Paced(a),
             \A c \in Paced(a) : place'[c] = place[c]
      PROVE  Goal
  <2>1. Places(a)' = Places(a)
    BY <1>4 DEF Places, Held
  <2>2. QED
    BY <1>3, <1>4, <2>1, <1>0, QuietTimeline
<1>5. ASSUME NEW c \in Callers,
             TakeSlot(c) \/ ReadClock(c) \/ Return(c) \/ \E t \in Targets : Call(c, t)
      PROVE  Goal
  <2>1. phase[c] # "paced" /\ phase'[c] # "paced" /\ phase \in [Callers -> Phases]
    BY <1>5 DEF TakeSlot, ReadClock, Return, Call, Leave, Goto, TypeOK
  <2>2. \A d \in Callers \ {c} : phase'[d] = phase[d] /\ account'[d] = account[d] /\ place'[d] = place[d]
    BY <1>5 DEF TakeSlot, ReadClock, Return, Call, Leave, Goto, TypeOK
  <2>3. clock' = clock /\ nextFree' = nextFree /\ lost' = lost
    BY <1>5 DEF TakeSlot, ReadClock, Return, Call, Leave, Goto
  <2>4. Paced(a)' = Paced(a) /\ \A d \in Paced(a) : place'[d] = place[d]
    BY <2>1, <2>2 DEF Paced
  <2>5. QED
    BY <1>4, <2>3, <2>4
<1>6. ASSUME NEW c \in Callers, Reserve(c) PROVE Goal
  <2>1. /\ phase[c] = "read" /\ account' = account /\ clock' = clock /\ lost' = lost
        /\ phase' = [phase EXCEPT ![c] = "paced"]
        /\ phase \in [Callers -> Phases] /\ place \in [Callers -> Nat]
    BY <1>6 DEF Reserve, Goto, TypeOK
  <2> DEFINE b == account[c]  at == Later(place[c], nextFree[b])
  <2>2. b \in Accounts /\ place' = [place EXCEPT ![c] = at]
    BY <1>6 DEF Reserve, TypeOK
  <2>3. PICK d \in Intervals(b) : nextFree' = [nextFree EXCEPT ![b] = at + d]
    BY <1>6 DEF Reserve
  <2>4. /\ at \in Nat /\ at >= nextFree[b] /\ (at = nextFree[b] \/ at <= clock)
        /\ d \in 0..MaxDelay(b) /\ nextFree \in [Accounts -> Nat]
    <3>1. d \in 0..MaxDelay(b)
      BY <2>2, SettingsTypes DEF Intervals
    <3>2. place[c] \in Nat /\ nextFree[b] \in Nat /\ place[c] <= clock
      BY <2>1, <2>2 DEF TypeOK, LineInv
    <3>3. QED
      BY <3>1, <3>2, LaterType DEF TypeOK
  <2> HIDE DEF at
  <2>5. CASE a = b
    <3>1. Paced(a)' = Paced(a) \cup {c} /\ c \notin Paced(a)
      BY <2>1, <2>5 DEF Paced
    <3>2. Held(a)' = Held(a) \cup {at}
      BY <2>1, <2>2, <3>1 DEF Held, Paced
    <3>3. Places(a)' = Places(a) \cup {at}
      BY <2>1, <3>2 DEF Places
    <3>4. nextFree'[a] = at + d
      BY <2>2, <2>3, <2>4, <2>5
    <3>5. Compact(Places(a), nextFree[a], clock, MaxDelay(a))
      BY DEF LineInv
    <3>6. /\ Places(a) \in SUBSET Nat /\ IsFiniteSet(Places(a)) /\ nextFree[a] \in Nat
          /\ MaxDelay(a) \in Nat /\ clock \in Nat
      BY PlacesTypes, SettingsTypes DEF TypeOK
    <3>7. Compact(Places(a) \cup {at}, at + d, clock, MaxDelay(a))
      <4> DEFINE P == Places(a)  n == nextFree[a]  now == clock  m == MaxDelay(a)
      <4>1. /\ P \in SUBSET Nat /\ IsFiniteSet(P) /\ n \in Nat /\ m \in Nat /\ now \in Nat
            /\ at \in Nat /\ d \in 0..m /\ at >= n /\ (at = n \/ at <= now)
            /\ Compact(P, n, now, m)
        BY <2>4, <2>5, <3>5, <3>6
      <4> HIDE DEF P, n, now, m
      <4>2. Compact(P \cup {at}, at + d, now, m)
        BY <4>1, CompactReserves
      <4>3. QED BY <4>2 DEF P, n, now, m
    <3>8. QED
      BY <1>3, <2>1, <3>3, <3>4, <3>7
  <2>6. CASE a # b
    <3>1. Paced(a)' = Paced(a) /\ c \notin Paced(a)
      BY <2>1, <2>6 DEF Paced
    <3>2. Places(a)' = Places(a)
      BY <2>1, <2>2, <3>1 DEF Places, Held, Paced
    <3>3. nextFree'[a] = nextFree[a]
      BY <2>3, <2>4, <2>6
    <3>4. QED
      BY <1>3, <2>1, <3>2, <3>3, <1>0, QuietTimeline
  <2>7. QED
    BY <2>5, <2>6
<1>7. ASSUME NEW c \in Callers, Start(c) PROVE Goal
  <2>1. /\ phase[c] = "paced" /\ place[c] <= clock /\ phase' = [phase EXCEPT ![c] = "sending"]
        /\ UNCHANGED <<clock, nextFree, account, place, lost>> /\ phase \in [Callers -> Phases]
    BY <1>7 DEF Start, Goto, TypeOK
  <2>2. Paced(a)' = Paced(a) \ {c}
    BY <2>1 DEF Paced
  <2>3. Places(a)' \subseteq Places(a)
    BY <2>1, <2>2 DEF Places, Held
  <2>4. \A y \in Places(a) : y <= clock' \/ y \in Places(a)'
    BY <2>1, <2>2 DEF Places, Held
  <2>5. QED
    BY <1>3, <2>1, <2>3, <2>4, <1>0, QuietTimeline
<1>8. ASSUME NEW c \in Callers, Cancel(c) PROVE Goal
  <2>1. /\ phase' = [phase EXCEPT ![c] = "idle"] /\ account' = [account EXCEPT ![c] = 0]
        /\ place' = [place EXCEPT ![c] = 0] /\ UNCHANGED <<clock, nextFree>>
        /\ phase \in [Callers -> Phases] /\ account \in [Callers -> Accounts \cup {0}]
        /\ place \in [Callers -> Nat] /\ lost \in [Accounts -> SUBSET Nat]
    BY <1>8 DEF Cancel, Leave, Goto, TypeOK
  <2>2. Paced(a)' = Paced(a) \ {c}
    BY <2>1 DEF Paced
  <2>3. \A d \in Paced(a)' : place'[d] = place[d]
    BY <2>1, <2>2 DEF Paced
  <2>4. CASE phase[c] = "waiting" /\ UNCHANGED lost
    <3>1. c \notin Paced(a)
      BY <2>4 DEF Paced
    <3>2. QED
      BY <1>4, <2>1, <2>2, <2>3, <2>4, <3>1
  <2>5. CASE /\ phase[c] = "paced" /\ place[c] > clock
             /\ lost' = [lost EXCEPT ![account[c]] = @ \cup {place[c]}]
    <3>1. CASE account[c] = a
      <4>1. lost'[a] = lost[a] \cup {place[c]} /\ c \in Paced(a)
        BY <2>1, <2>5, <3>1 DEF Paced
      <4>2. Places(a)' = Places(a)
        BY <2>2, <2>3, <4>1 DEF Places, Held
      <4>3. IsFiniteSet(lost'[a])
        BY <1>3, <4>1, FS_AddElement
      <4>4. QED
        BY <2>1, <4>2, <4>3, <1>0, QuietTimeline
    <3>2. CASE account[c] # a
      <4>1. lost'[a] = lost[a] /\ c \notin Paced(a)
        BY <2>1, <2>5, <3>2 DEF Paced
      <4>2. Places(a)' = Places(a)
        BY <2>2, <2>3, <4>1 DEF Places, Held
      <4>3. QED
        BY <1>3, <2>1, <4>1, <4>2, <1>0, QuietTimeline
    <3>3. QED
      BY <3>1, <3>2
  <2>6. QED
    BY <1>8, <2>4, <2>5 DEF Cancel
<1>9. CASE Tick
  <2>1. clock' = clock + 1 /\ UNCHANGED <<nextFree, phase, account, place, lost>>
    BY <1>9 DEF Tick
  <2>2. Places(a)' = Places(a)
    BY <2>1 DEF Places, Held, Paced
  <2>3. clock <= clock'
    BY <2>1 DEF TypeOK
  <2>4. QED
    BY <1>3, <2>1, <2>2, <2>3, QuietTimeline
<1>10. CASE UNCHANGED vars
  <2>1. Paced(a)' = Paced(a)
    BY <1>10 DEF Paced, vars
  <2>2. QED
    BY <1>4, <1>10, <2>1 DEF vars
<1>11. QED
  BY <1>5, <1>6, <1>7, <1>8, <1>9, <1>10 DEF Next

\* The timeline of an account runs ahead of the clock by the places that are still
\* ahead and one interval more, whatever was cancelled (gate.go, pace).
THEOREM BacklogHolds == Spec => []BacklogBounded
<1>1. TypeOK /\ LineInv => BacklogBounded
  <2> SUFFICES ASSUME TypeOK, LineInv, NEW a \in Accounts
               PROVE  nextFree[a] <= clock + MaxDelay(a) * (1 + Cardinality(Waiting(a)) + Cardinality(Ahead(a)))
    BY DEF BacklogBounded
  <2> DEFINE B == Between(Places(a), clock, nextFree[a])
             W == {place[c] : c \in Waiting(a)}
             m == MaxDelay(a)
  <2>1. nextFree[a] <= clock + m * (1 + Cardinality(B))
    <3>1. clock \in Nat /\ clock >= clock
      BY DEF TypeOK
    <3>2. Reached(Places(a), clock, nextFree[a], m)
      BY <3>1 DEF LineInv, Compact
    <3>3. QED BY <3>2 DEF Reached
  <2>2. B \subseteq W \cup Ahead(a)
    BY DEF Between, Places, Held, Paced, Waiting, Ahead, TypeOK
  <2>3. /\ IsFiniteSet(W) /\ Cardinality(W) <= Cardinality(Waiting(a))
        /\ Cardinality(Waiting(a)) \in Nat /\ Cardinality(W) \in Nat
    <3>1. Waiting(a) \in SUBSET Callers
      BY DEF Waiting
    <3>2. QED
      BY <3>1, PlacesHeld, FS_CardinalityType
  <2>4. IsFiniteSet(Ahead(a)) /\ Cardinality(Ahead(a)) \in Nat
    <3>1. Ahead(a) \subseteq lost[a] /\ IsFiniteSet(lost[a])
      BY DEF Ahead, LineInv
    <3>2. QED
      BY <3>1, FS_Subset, FS_CardinalityType
  <2>5. /\ IsFiniteSet(W \cup Ahead(a))
        /\ Cardinality(W \cup Ahead(a)) <= Cardinality(W) + Cardinality(Ahead(a))
        /\ Cardinality(W \cup Ahead(a)) \in Nat
    <3> HIDE DEF W
    <3>1. IsFiniteSet(W \cap Ahead(a)) /\ Cardinality(W \cap Ahead(a)) \in Nat
      BY <2>3, FS_Intersection, FS_CardinalityType
    <3> DEFINE V == Ahead(a)
    <3>2. IsFiniteSet(W) /\ IsFiniteSet(V)
      BY <2>3, <2>4
    <3> HIDE DEF V
    <3>3. /\ IsFiniteSet(W \cup V)
          /\ Cardinality(W \cup V) = Cardinality(W) + Cardinality(V) - Cardinality(W \cap V)
      BY <3>2, FS_Union
    <3>4. Cardinality(W \cup V) \in Nat
      BY <3>3, FS_CardinalityType
    <3>5. QED
      BY <2>3, <2>4, <3>1, <3>3, <3>4 DEF V
  <2>6. IsFiniteSet(B) /\ Cardinality(B) \in Nat /\ Cardinality(B) <= Cardinality(W \cup Ahead(a))
    BY <2>2, <2>5, FS_Subset, FS_CardinalityType
  <2> DEFINE x == 1 + Cardinality(B)
             y == 1 + Cardinality(Waiting(a)) + Cardinality(Ahead(a))
  <2>7. x \in Int /\ y \in Int /\ x <= y
    BY <2>3, <2>4, <2>5, <2>6
  <2>8. m \in Nat
    BY SettingsTypes
  <2> HIDE DEF x, y, m
  <2>9. m * x <= m * y /\ m * x \in Int /\ m * y \in Int
    BY <2>7, <2>8, TimesGrows
  <2>10. nextFree[a] <= clock + m * x
    BY <2>1 DEF x
  <2>11. nextFree[a] <= clock + m * y
    BY <2>9, <2>10 DEF TypeOK
  <2>12. QED
    BY <2>11 DEF y, m
<1>2. TypeOK /\ TypeOK' /\ LineInv /\ [Next]_vars => LineInv'
  BY LineNext
<1>3. QED
  BY <1>1, <1>2, LineInit, TypeCorrect, PTL DEF Spec

-----------------------------------------------------------------------------
(***************************************************************************)
(* The pace.  Fix a start at time s.  Callers who had read the clock before   *)
(* are old: they held a slot then, and so were fewer than the slots.  Every   *)
(* other caller reads a time of s or later, so the places these book lie one  *)
(* interval apart from s on.  g of them have started; Q are those who wait.   *)
(***************************************************************************)
Early(Q, at, v) == {c \in Q : at[c] <= v}

Booked(Q, g, s, next, m) ==
  g + Cardinality(Q) = 0 \/ next >= s + m * (g + Cardinality(Q))

Spread(Q, g, s, at, now, m) ==
  \A v \in Nat : v >= now => m * (g + Cardinality(Early(Q, at, v)) - 1) <= v - s

LEMMA EarlyFinite ==
  ASSUME NEW Q, IsFiniteSet(Q), NEW at, NEW v
  PROVE  IsFiniteSet(Early(Q, at, v)) /\ Cardinality(Early(Q, at, v)) \in Nat
<1>1. Early(Q, at, v) \subseteq Q
  BY DEF Early
<1>2. QED
  BY <1>1, FS_Subset, FS_CardinalityType

\* Callers who leave, time that passes, a timeline that is booked further.
LEMMA PaceFewer ==
  ASSUME NEW Q, IsFiniteSet(Q), NEW Q2 \in SUBSET Q, NEW g \in Nat, NEW s \in Nat,
         NEW at, NEW at2, \A c \in Q2 : at2[c] = at[c],
         NEW next \in Nat, NEW next2 \in Nat, next <= next2,
         NEW now \in Nat, NEW now2 \in Nat, now <= now2, NEW m \in Nat,
         Booked(Q, g, s, next, m), Spread(Q, g, s, at, now, m)
  PROVE  Booked(Q2, g, s, next2, m) /\ Spread(Q2, g, s, at2, now2, m)
<1>1. /\ IsFiniteSet(Q2) /\ Cardinality(Q2) \in Nat /\ Cardinality(Q) \in Nat
      /\ Cardinality(Q2) <= Cardinality(Q)
  BY FS_Subset, FS_CardinalityType
<1>2. Booked(Q2, g, s, next2, m)
  <2> DEFINE x == g + Cardinality(Q2)  y == g + Cardinality(Q)
  <2>1. x \in Int /\ y \in Int /\ x <= y /\ x >= 0
    BY <1>1
  <2> HIDE DEF x, y
  <2>2. m * x <= m * y /\ m * x \in Int /\ m * y \in Int
    BY <2>1, TimesGrows
  <2>3. y = 0 \/ next >= s + m * y
    BY DEF Booked, y
  <2>4. x = 0 \/ next2 >= s + m * x
    BY <2>1, <2>2, <2>3
  <2>5. QED
    BY <2>4 DEF Booked, x
<1>3. ASSUME NEW v \in Nat, v >= now2
      PROVE  m * (g + Cardinality(Early(Q2, at2, v)) - 1) <= v - s
  <2> DEFINE x == g + Cardinality(Early(Q2, at2, v)) - 1
             y == g + Cardinality(Early(Q, at, v)) - 1
  <2>1. Early(Q2, at2, v) \subseteq Early(Q, at, v)
    BY DEF Early
  <2>2. Cardinality(Early(Q2, at2, v)) <= Cardinality(Early(Q, at, v))
    BY <2>1, EarlyFinite, FS_Subset
  <2>3. x \in Int /\ y \in Int /\ x <= y
    BY <1>1, <2>2, EarlyFinite
  <2>4. v >= now
    BY <1>3
  <2>5. m * y <= v - s
    BY <2>4 DEF Spread
  <2> HIDE DEF x, y
  <2>6. m * x <= m * y /\ m * x \in Int /\ m * y \in Int
    BY <2>3, TimesGrows
  <2>7. m * x <= v - s
    BY <2>5, <2>6
  <2>8. QED
    BY <2>7 DEF x
<1>4. QED
  BY <1>2, <1>3 DEF Spread

\* A caller who is not old books a place.
LEMMA PaceBooks ==
  ASSUME NEW Q, IsFiniteSet(Q), NEW c, c \notin Q, NEW g \in Nat, NEW s \in Nat,
         NEW at, NEW at2, \A d \in Q : at2[d] = at[d],
         NEW next \in Nat, NEW next2 \in Nat, NEW now \in Nat, NEW m \in Nat,
         at2[c] \in Nat, at2[c] >= next, at2[c] >= s, next2 >= at2[c] + m,
         s <= now,
         Booked(Q, g, s, next, m), Spread(Q, g, s, at, now, m)
  PROVE  Booked(Q \cup {c}, g, s, next2, m) /\ Spread(Q \cup {c}, g, s, at2, now, m)
<1>1. /\ IsFiniteSet(Q \cup {c}) /\ Cardinality(Q) \in Nat
      /\ Cardinality(Q \cup {c}) = Cardinality(Q) + 1
  BY FS_AddElement, FS_CardinalityType
<1> DEFINE n == g + Cardinality(Q)
<1>2. n \in Nat /\ m * n \in Nat /\ m * (n + 1) = m * n + m
  BY <1>1, TimesNext
<1>3. n = 0 \/ next >= s + m * n
  BY DEF Booked
<1>4. at2[c] >= s + m * n
  <2>1. CASE n = 0
    <3>1. m * n = 0
      BY <2>1
    <3> HIDE DEF n
    <3>2. QED BY <3>1
  <2>2. CASE next >= s + m * n
    <3> HIDE DEF n
    <3>1. QED BY <1>2, <2>2
  <2>3. QED BY <1>3, <2>1, <2>2
<1>5. Booked(Q \cup {c}, g, s, next2, m)
  <2>1. g + Cardinality(Q \cup {c}) = n + 1
    BY <1>1
  <2> HIDE DEF n
  <2>2. next2 >= s + m * (n + 1)
    BY <1>2, <1>4
  <2>3. QED
    BY <2>1, <2>2 DEF Booked
<1>6. ASSUME NEW v \in Nat, v >= now
      PROVE  m * (g + Cardinality(Early(Q \cup {c}, at2, v)) - 1) <= v - s
  <2>1. CASE at2[c] <= v
    <3>1. Cardinality(Early(Q \cup {c}, at2, v)) <= Cardinality(Q) + 1
      <4>1. Early(Q \cup {c}, at2, v) \subseteq Q \cup {c}
        BY DEF Early
      <4>2. Cardinality(Early(Q \cup {c}, at2, v)) <= Cardinality(Q \cup {c})
        BY <1>1, <4>1, FS_Subset
      <4>3. QED
        BY <1>1, <4>2
    <3> DEFINE x == g + Cardinality(Early(Q \cup {c}, at2, v)) - 1
    <3>2. x \in Int /\ x <= n
      BY <1>1, <3>1, EarlyFinite
    <3> HIDE DEF x, n
    <3>3. m * x <= m * n /\ m * x \in Int
      BY <1>2, <3>2, TimesGrows
    <3>4. m * x <= v - s
      BY <1>2, <1>4, <2>1, <3>3
    <3>5. QED
      BY <3>4 DEF x
  <2>2. CASE ~(at2[c] <= v)
    <3>1. Early(Q \cup {c}, at2, v) = Early(Q, at, v)
      BY <2>2 DEF Early
    <3>2. QED
      BY <1>6, <3>1 DEF Spread
  <2>3. QED
    BY <2>1, <2>2
<1>7. QED
  BY <1>5, <1>6 DEF Spread

\* A caller who is not old starts.
LEMMA PaceStarts ==
  ASSUME NEW Q, IsFiniteSet(Q), NEW c \in Q, NEW g \in Nat, NEW s \in Nat,
         NEW at, NEW next \in Nat, NEW now \in Nat, NEW m \in Nat,
         at[c] \in Nat, at[c] <= now,
         Booked(Q, g, s, next, m), Spread(Q, g, s, at, now, m)
  PROVE  Booked(Q \ {c}, g + 1, s, next, m) /\ Spread(Q \ {c}, g + 1, s, at, now, m)
<1>1. Cardinality(Q \ {c}) = Cardinality(Q) - 1 /\ Cardinality(Q) \in Nat
  BY FS_RemoveElement, FS_CardinalityType
<1>2. g + 1 + Cardinality(Q \ {c}) = g + Cardinality(Q)
  BY <1>1
<1>3. Booked(Q \ {c}, g + 1, s, next, m)
  BY <1>2 DEF Booked
<1>4. ASSUME NEW v \in Nat, v >= now
      PROVE  m * (g + 1 + Cardinality(Early(Q \ {c}, at, v)) - 1) <= v - s
  <2>1. Early(Q \ {c}, at, v) = Early(Q, at, v) \ {c} /\ c \in Early(Q, at, v)
    BY <1>4 DEF Early
  <2>2. /\ Cardinality(Early(Q \ {c}, at, v)) = Cardinality(Early(Q, at, v)) - 1
        /\ Cardinality(Early(Q, at, v)) \in Nat
    <3>1. IsFiniteSet(Early(Q, at, v)) /\ Cardinality(Early(Q, at, v)) \in Nat
      BY EarlyFinite
    <3>2. Cardinality(Early(Q, at, v) \ {c}) = Cardinality(Early(Q, at, v)) - 1
      BY <2>1, <3>1, FS_RemoveElement, Zenon
    <3>3. QED
      BY <2>1, <3>1, <3>2
  <2>3. g + 1 + Cardinality(Early(Q \ {c}, at, v)) - 1 = g + Cardinality(Early(Q, at, v)) - 1
    BY <2>2
  <2>4. QED
    BY <1>4, <2>3 DEF Spread
<1>5. QED
  BY <1>3, <1>4 DEF Spread

\* What the property says of the start that happens now.
LEMMA PaceFollows ==
  ASSUME NEW Q, IsFiniteSet(Q), NEW at, NEW s \in Nat, NEW now \in Nat, NEW m \in Nat,
         NEW k \in Nat, NEW g \in Nat, NEW o \in Nat, NEW slots \in Nat,
         k - g + o <= slots - 1,
         Spread(Q, g, s, at, now, m)
  PROVE  now - s >= (k - slots) * m
<1> DEFINE x == k - slots
           y == g + Cardinality(Early(Q, at, now)) - 1
<1>1. x \in Int /\ y \in Int /\ x <= y
  BY EarlyFinite
<1>2. m * y <= now - s
  BY DEF Spread
<1> HIDE DEF y
<1>3. m * x <= m * y /\ m * x \in Int /\ m * y \in Int
  <2> HIDE DEF x
  <2>1. QED BY <1>1, TimesGrows
<1>4. x * m = m * x
  BY <1>1
<1>5. QED
  BY <1>2, <1>3, <1>4

-----------------------------------------------------------------------------
Readers(a) == {c \in Callers : account[c] = a /\ phase[c] = "read"}

\* The i-th start of a, told with the callers Old who had read the clock before and
\* are still there, and g others who have started since.
Story(a, i, Old, g) ==
  /\ Old \subseteq Readers(a) \cup Paced(a)
  /\ g <= Len(starts[a]) - i
  /\ Len(starts[a]) - i - g + Cardinality(Old) <= SlotsOf(a) - 1
  /\ \A c \in Readers(a) \ Old : place[c] >= starts[a][i]
  /\ Booked(Paced(a) \ Old, g, starts[a][i], nextFree[a], MinDelay(a))
  /\ Spread(Paced(a) \ Old, g, starts[a][i], place, clock, MinDelay(a))

SlotsKept == \A a \in Accounts : Cardinality(Holding(a)) <= SlotsOf(a)

StoriesTold ==
  \A a \in Accounts : \A i \in DOMAIN starts[a] :
     /\ starts[a][i] <= clock
     /\ \E Old \in SUBSET Callers, g \in Nat : Story(a, i, Old, g)

LEMMA CallersFinite ==
  ASSUME NEW S \in SUBSET Callers
  PROVE  IsFiniteSet(S) /\ Cardinality(S) \in Nat
BY GateAssumption, FS_Subset, FS_CardinalityType

LEMMA StoryTypes ==
  ASSUME TypeOK, NEW a \in Accounts, NEW i \in DOMAIN starts[a]
  PROVE  /\ starts[a] \in Seq(Nat) /\ starts[a][i] \in Nat /\ i \in Nat \ {0}
         /\ Len(starts[a]) \in Nat /\ i <= Len(starts[a]) /\ DOMAIN starts[a] = 1..Len(starts[a])
         /\ nextFree[a] \in Nat /\ clock \in Nat /\ MinDelay(a) \in Nat /\ SlotsOf(a) \in Nat \ {0}
<1>1. starts[a] \in Seq(Nat)
  BY DEF TypeOK
<1>2. QED
  BY <1>1, SettingsTypes DEF TypeOK

\* The slots: a caller holds one from taking it until it returns or is cancelled.
LEMMA SlotsNext ==
  ASSUME TypeOK, SlotsKept, [Next]_vars
  PROVE  SlotsKept'
<1> SUFFICES ASSUME NEW a \in Accounts PROVE Cardinality(Holding(a))' <= SlotsOf(a)
  BY DEF SlotsKept
<1>0. /\ Holding(a) \in SUBSET Callers /\ Holding(a)' \in SUBSET Callers
      /\ Cardinality(Holding(a)) <= SlotsOf(a) /\ SlotsOf(a) \in Nat
  BY SettingsTypes DEF Holding, SlotsKept
<1>1. ASSUME Holding(a)' \subseteq Holding(a) PROVE Cardinality(Holding(a))' <= SlotsOf(a)
  <2>1. Cardinality(Holding(a)') <= Cardinality(Holding(a))
    BY <1>0, <1>1, CallersFinite, FS_Subset
  <2>2. QED
    BY <1>0, <2>1, CallersFinite
<1>2. ASSUME NEW c \in Callers, TakeSlot(c) PROVE Cardinality(Holding(a))' <= SlotsOf(a)
  <2>1. CASE account[c] = a
    <3>1. Holding(a)' = Holding(a) \cup {c} /\ Cardinality(Holding(a)) < SlotsOf(a)
      BY <1>2, <2>1 DEF TakeSlot, Goto, Holding, TypeOK
    <3>2. Cardinality(Holding(a) \cup {c}) <= Cardinality(Holding(a)) + 1
      BY <1>0, CallersFinite, FS_AddElement
    <3>3. Cardinality(Holding(a) \cup {c}) \in Nat /\ Cardinality(Holding(a)) \in Nat
      BY <1>0, <3>1, CallersFinite
    <3>4. QED
      BY <1>0, <3>1, <3>2, <3>3
  <2>2. CASE account[c] # a
    BY <1>1, <1>2, <2>2 DEF TakeSlot, Goto, Holding, TypeOK
  <2>3. QED BY <2>1, <2>2
<1>3. ASSUME NEW c \in Callers, NEW t \in Targets, Call(c, t)
      PROVE  Cardinality(Holding(a))' <= SlotsOf(a)
  BY <1>1, <1>3 DEF Call, Goto, Holding, TypeOK
<1>4. ASSUME NEW c \in Callers, ReadClock(c) \/ Reserve(c) \/ Start(c)
      PROVE  Cardinality(Holding(a))' <= SlotsOf(a)
  BY <1>1, <1>4 DEF ReadClock, Reserve, Start, Goto, Holding, TypeOK
<1>5. ASSUME NEW c \in Callers, Return(c) \/ Cancel(c)
      PROVE  Cardinality(Holding(a))' <= SlotsOf(a)
  BY <1>1, <1>5 DEF Return, Cancel, Leave, Goto, Holding, TypeOK
<1>6. CASE Tick \/ UNCHANGED vars
  BY <1>1, <1>6 DEF Tick, vars, Holding
<1>7. QED
  BY <1>2, <1>3, <1>4, <1>5, <1>6 DEF Next

\* A step that books nothing, starts nothing and reads no clock at a.
LEMMA StoryQuiet ==
  ASSUME TypeOK, TypeOK', NEW a \in Accounts, NEW i \in DOMAIN starts[a],
         NEW Old \in SUBSET Callers, NEW g \in Nat, Story(a, i, Old, g),
         starts'[a] = starts[a], nextFree'[a] = nextFree[a], clock <= clock',
         Readers(a)' \subseteq Readers(a), Paced(a)' \subseteq Paced(a),
         \A c \in Readers(a)' \cup Paced(a)' : place'[c] = place[c]
  PROVE  \E Old2 \in SUBSET Callers, g2 \in Nat : Story(a, i, Old2, g2)'
<1>a. PICK Old2 \in SUBSET Callers : Old2 = Old \cap (Readers(a)' \cup Paced(a)')
  OBVIOUS
<1> DEFINE Q == Paced(a) \ Old
           Q2 == Paced(a)' \ Old2
<1>0. Q \in SUBSET Callers
  BY DEF Paced
<1>1. Q2 \in SUBSET Q /\ IsFiniteSet(Q) /\ \A c \in Q2 : place'[c] = place[c]
  BY <1>a, <1>0, CallersFinite
<1>2. Old2 \in SUBSET Callers /\ Cardinality(Old2) <= Cardinality(Old)
      /\ Cardinality(Old2) \in Nat /\ Cardinality(Old) \in Nat
  BY <1>a, CallersFinite, FS_Subset
<1> DEFINE s == starts[a][i]  m == MinDelay(a)
<1>3. s \in Nat /\ m \in Nat /\ nextFree[a] \in Nat /\ clock \in Nat /\ clock' \in Nat
  BY StoryTypes DEF TypeOK
<1>4. Booked(Q, g, s, nextFree[a], m) /\ Spread(Q, g, s, place, clock, m)
  BY DEF Story
<1> HIDE DEF Q, Q2, s, m
<1>5. Booked(Q2, g, s, nextFree[a], m) /\ Spread(Q2, g, s, place', clock', m)
  <2> DEFINE at == place  at2 == place'  next == nextFree[a]  now == clock  now2 == clock'
  <2>1. /\ IsFiniteSet(Q) /\ Q2 \in SUBSET Q /\ g \in Nat /\ s \in Nat
        /\ \A c \in Q2 : at2[c] = at[c]
        /\ next \in Nat /\ next <= next /\ now \in Nat /\ now2 \in Nat /\ now <= now2 /\ m \in Nat
        /\ Booked(Q, g, s, next, m) /\ Spread(Q, g, s, at, now, m)
    BY <1>1, <1>3, <1>4
  <2> HIDE DEF at, at2, next, now, now2
  <2>2. Booked(Q2, g, s, next, m) /\ Spread(Q2, g, s, at2, now2, m)
    BY <2>1, PaceFewer
  <2>3. QED
    BY <2>2 DEF at2, next, now2
<1>6. Story(a, i, Old2, g)'
  <2>1. Old2 \subseteq Readers(a)' \cup Paced(a)'
    BY <1>a
  <2>2. g <= Len(starts'[a]) - i /\ Len(starts'[a]) - i - g + Cardinality(Old2) <= SlotsOf(a) - 1
    <3>1. g <= Len(starts[a]) - i /\ Len(starts[a]) - i - g + Cardinality(Old) <= SlotsOf(a) - 1
      BY DEF Story
    <3>2. Len(starts[a]) \in Nat /\ i \in Nat /\ SlotsOf(a) \in Nat
      BY StoryTypes
    <3>3. QED
      BY <1>2, <3>1, <3>2
  <2>3. \A c \in Readers(a)' \ Old2 : place'[c] >= starts'[a][i]
    <3>1. \A c \in Readers(a) \ Old : place[c] >= starts[a][i]
      BY DEF Story
    <3>2. QED
      BY <1>a, <3>1
  <2>4. /\ Booked(Paced(a)' \ Old2, g, starts'[a][i], nextFree'[a], MinDelay(a))
        /\ Spread(Paced(a)' \ Old2, g, starts'[a][i], place', clock', MinDelay(a))
    BY <1>5 DEF Q2, s, m
  <2>5. QED
    BY <2>1, <2>2, <2>3, <2>4 DEF Story
<1>7. QED
  BY <1>2, <1>6

\* A caller who reads the clock now is not old.
LEMMA StoryReads ==
  ASSUME TypeOK, TypeOK', NEW a \in Accounts, NEW i \in DOMAIN starts[a],
         NEW Old \in SUBSET Callers, NEW g \in Nat, Story(a, i, Old, g),
         starts[a][i] <= clock,
         NEW c \in Callers, ReadClock(c), account[c] = a
  PROVE  Story(a, i, Old, g)'
<1>1. /\ phase[c] = "slot" /\ phase' = [phase EXCEPT ![c] = "read"]
      /\ place' = [place EXCEPT ![c] = clock]
      /\ UNCHANGED <<clock, nextFree, account, starts>>
      /\ phase \in [Callers -> Phases] /\ place \in [Callers -> Nat]
  BY DEF ReadClock, Goto, TypeOK
<1>2. Readers(a)' = Readers(a) \cup {c} /\ Paced(a)' = Paced(a)
      /\ c \notin Readers(a) /\ c \notin Paced(a)
  BY <1>1 DEF Readers, Paced
<1>3. Old \subseteq Readers(a)' \cup Paced(a)'
  BY <1>2 DEF Story
<1>4. \A d \in Readers(a)' \ Old : place'[d] >= starts'[a][i]
  <2>1. \A d \in Readers(a) \ Old : place[d] >= starts[a][i]
    BY DEF Story
  <2>2. starts[a][i] \in Nat /\ clock \in Nat /\ clock >= starts[a][i]
    BY StoryTypes
  <2>3. \A d \in Readers(a) : place'[d] = place[d]
    BY <1>1, <1>2
  <2>4. place'[c] = clock
    BY <1>1
  <2>5. QED
    BY <1>1, <1>2, <2>1, <2>2, <2>3, <2>4
<1> DEFINE Q == Paced(a) \ Old  s == starts[a][i]  m == MinDelay(a)
<1>5. Booked(Q, g, s, nextFree[a], m) /\ Spread(Q, g, s, place, clock, m)
  BY DEF Story
<1>6. Booked(Q, g, s, nextFree[a], m) /\ Spread(Q, g, s, place', clock, m)
  <2>1. Q \in SUBSET Callers
    BY DEF Paced
  <2>2. \A d \in Q : place'[d] = place[d]
    BY <1>1, <1>2
  <2> DEFINE at == place  at2 == place'  next == nextFree[a]  now == clock
  <2>3. /\ IsFiniteSet(Q) /\ Q \in SUBSET Q /\ g \in Nat /\ s \in Nat
        /\ \A d \in Q : at2[d] = at[d]
        /\ next \in Nat /\ next <= next /\ now \in Nat /\ now <= now /\ m \in Nat
        /\ Booked(Q, g, s, next, m) /\ Spread(Q, g, s, at, now, m)
    <3>1. IsFiniteSet(Q)
      BY <2>1, CallersFinite
    <3>2. s \in Nat /\ next \in Nat /\ now \in Nat /\ m \in Nat
      BY StoryTypes
    <3>3. QED
      BY <1>5, <2>2, <3>1, <3>2
  <2> HIDE DEF at, at2, next, now, Q, s, m
  <2>4. Booked(Q, g, s, next, m) /\ Spread(Q, g, s, at2, now, m)
    BY <2>3, PaceFewer
  <2>5. QED
    BY <2>4 DEF at2, next, now
<1>7. /\ Booked(Paced(a)' \ Old, g, starts'[a][i], nextFree'[a], MinDelay(a))
      /\ Spread(Paced(a)' \ Old, g, starts'[a][i], place', clock', MinDelay(a))
  BY <1>1, <1>2, <1>6
<1>8. g <= Len(starts'[a]) - i /\ Len(starts'[a]) - i - g + Cardinality(Old) <= SlotsOf(a) - 1
  BY <1>1 DEF Story
<1>9. QED
  BY <1>3, <1>4, <1>7, <1>8 DEF Story

\* A caller books its place, old or not.
LEMMA StoryReserves ==
  ASSUME TypeOK, TypeOK', NEW a \in Accounts, NEW i \in DOMAIN starts[a],
         NEW Old \in SUBSET Callers, NEW g \in Nat, Story(a, i, Old, g),
         starts[a][i] <= clock,
         NEW c \in Callers, Reserve(c), account[c] = a
  PROVE  Story(a, i, Old, g)'
<1>1. /\ phase[c] = "read" /\ phase' = [phase EXCEPT ![c] = "paced"]
      /\ UNCHANGED <<clock, account, starts>>
      /\ phase \in [Callers -> Phases] /\ place \in [Callers -> Nat]
      /\ nextFree \in [Accounts -> Nat]
  BY DEF Reserve, Goto, TypeOK
<1> DEFINE x == Later(place[c], nextFree[a])
<1>2. place' = [place EXCEPT ![c] = x]
  BY DEF Reserve
<1>3. x \in Nat /\ x >= nextFree[a] /\ x >= place[c] /\ place[c] \in Nat
  BY <1>1, LaterType
<1>4. nextFree'[a] \in Nat /\ nextFree'[a] >= x + MinDelay(a)
  <2>1. PICK d \in Intervals(a) : nextFree' = [nextFree EXCEPT ![a] = x + d]
    BY DEF Reserve
  <2>2. nextFree'[a] = x + d
    BY <1>1, <2>1
  <2>3. d \in Nat /\ d >= MinDelay(a) /\ MinDelay(a) \in Nat
    BY SettingsTypes DEF Intervals
  <2> HIDE DEF x
  <2>4. QED
    BY <1>3, <2>2, <2>3
<1> HIDE DEF x
<1>5. /\ Readers(a)' = Readers(a) \ {c} /\ Paced(a)' = Paced(a) \cup {c}
      /\ c \in Readers(a) /\ c \notin Paced(a)
  BY <1>1 DEF Readers, Paced
<1>6. Old \subseteq Readers(a)' \cup Paced(a)'
  BY <1>5 DEF Story
<1>7. \A d \in Readers(a)' \ Old : place'[d] >= starts'[a][i]
  <2>1. \A d \in Readers(a) \ Old : place[d] >= starts[a][i]
    BY DEF Story
  <2>2. \A d \in Readers(a)' : place'[d] = place[d]
    BY <1>1, <1>2, <1>5
  <2>3. QED
    BY <1>1, <1>5, <2>1, <2>2
<1> DEFINE Q == Paced(a) \ Old  s == starts[a][i]  m == MinDelay(a)
           at == place  at2 == place'  next == nextFree[a]  next2 == nextFree'[a]  now == clock
<1>8. /\ IsFiniteSet(Q) /\ s \in Nat /\ m \in Nat /\ next \in Nat /\ next2 \in Nat /\ now \in Nat
      /\ next <= next2 /\ s <= now
      /\ Booked(Q, g, s, next, m) /\ Spread(Q, g, s, at, now, m)
  <2>1. Q \in SUBSET Callers
    BY DEF Paced
  <2>2. s \in Nat /\ m \in Nat /\ next \in Nat /\ now \in Nat
    BY StoryTypes
  <2>3. Booked(Q, g, s, next, m) /\ Spread(Q, g, s, at, now, m)
    BY DEF Story
  <2>4. next2 \in Nat /\ next2 >= x + m
    BY <1>4
  <2>5. next <= x
    BY <1>3
  <2>6. IsFiniteSet(Q)
    BY <2>1, CallersFinite
  <2> HIDE DEF Q, m, next, next2, now, at
  <2>7. next <= next2
    BY <1>3, <2>2, <2>4, <2>5
  <2>8. QED
    BY <2>2, <2>3, <2>4, <2>6, <2>7 DEF s, now
<1>9. \A d \in Q : at2[d] = at[d]
  BY <1>1, <1>2, <1>5
<1>10. at2[c] = x
  BY <1>1, <1>2
<1>11. /\ Booked(Paced(a)' \ Old, g, s, next2, m)
       /\ Spread(Paced(a)' \ Old, g, s, at2, now, m)
  <2>1. CASE c \in Old
    <3>1. Paced(a)' \ Old = Q /\ Q \in SUBSET Q
      BY <1>5, <2>1
    <3> HIDE DEF Q, s, m, at, at2, next, next2, now
    <3>2. now <= now
      BY <1>8
    <3>3. Booked(Q, g, s, next2, m) /\ Spread(Q, g, s, at2, now, m)
      BY <1>8, <1>9, <3>1, <3>2, PaceFewer
    <3>4. QED
      BY <3>1, <3>3
  <2>2. CASE c \notin Old
    <3>1. Paced(a)' \ Old = Q \cup {c} /\ c \notin Q
      BY <1>5, <2>2
    <3>2. x >= s
      <4>1. place[c] >= s
        BY <1>5, <2>2 DEF Story
      <4>2. s \in Nat
        BY <1>8
      <4> HIDE DEF s
      <4>3. QED BY <1>3, <4>1, <4>2
    <3>3. x >= next /\ next2 >= x + m
      BY <1>3, <1>4
    <3> HIDE DEF Q, s, m, at, at2, next, next2, now
    <3>4. at2[c] \in Nat /\ at2[c] >= next /\ at2[c] >= s /\ next2 >= at2[c] + m
      BY <1>3, <1>10, <3>2, <3>3
    <3>5. Booked(Q \cup {c}, g, s, next2, m) /\ Spread(Q \cup {c}, g, s, at2, now, m)
      BY <1>8, <1>9, <3>1, <3>4, PaceBooks
    <3>6. QED
      BY <3>1, <3>5
  <2>3. QED
    BY <2>1, <2>2
<1>12. /\ Booked(Paced(a)' \ Old, g, starts'[a][i], nextFree'[a], MinDelay(a))
       /\ Spread(Paced(a)' \ Old, g, starts'[a][i], place', clock', MinDelay(a))
  BY <1>1, <1>11
<1>13. g <= Len(starts'[a]) - i /\ Len(starts'[a]) - i - g + Cardinality(Old) <= SlotsOf(a) - 1
  BY <1>1 DEF Story
<1>14. QED
  BY <1>6, <1>7, <1>12, <1>13 DEF Story

\* What a start changes at its account.
LEMMA StartFacts ==
  ASSUME TypeOK, NEW c \in Callers, Start(c), NEW a \in Accounts, account[c] = a
  PROVE  /\ UNCHANGED <<clock, nextFree, account, place>>
         /\ place[c] \in Nat /\ place[c] <= clock
         /\ c \in Paced(a) /\ c \notin Readers(a)
         /\ Readers(a)' = Readers(a) /\ Paced(a)' = Paced(a) \ {c}
         /\ Len(starts'[a]) = Len(starts[a]) + 1 /\ Len(starts[a]) \in Nat
         /\ DOMAIN starts[a] = 1..Len(starts[a])
         /\ DOMAIN starts'[a] = 1..(Len(starts[a]) + 1)
         /\ starts'[a][Len(starts[a]) + 1] = clock
         /\ \A i \in DOMAIN starts[a] : starts'[a][i] = starts[a][i]
<1>1. /\ phase[c] = "paced" /\ place[c] <= clock /\ phase' = [phase EXCEPT ![c] = "sending"]
      /\ UNCHANGED <<clock, nextFree, account, place>> /\ phase \in [Callers -> Phases]
      /\ place[c] \in Nat /\ clock \in Nat
  BY DEF Start, Goto, TypeOK
<1>2. starts[a] \in Seq(Nat) /\ starts'[a] = Append(starts[a], clock)
  BY DEF Start, TypeOK
<1>3. /\ c \in Paced(a) /\ c \notin Readers(a)
      /\ Readers(a)' = Readers(a) /\ Paced(a)' = Paced(a) \ {c}
  BY <1>1 DEF Readers, Paced
<1>4. QED
  BY <1>1, <1>2, <1>3

LEMMA StoryStarts ==
  ASSUME TypeOK, TypeOK', NEW a \in Accounts, NEW i \in DOMAIN starts[a],
         NEW Old \in SUBSET Callers, NEW g \in Nat, Story(a, i, Old, g),
         NEW c \in Callers, Start(c), account[c] = a
  PROVE  \E Old2 \in SUBSET Callers, g2 \in Nat : Story(a, i, Old2, g2)'
<1> DEFINE Q == Paced(a) \ Old  s == starts[a][i]  m == MinDelay(a)
           at == place  next == nextFree[a]  now == clock
<1>0. PICK k \in Nat : k = Len(starts[a]) - i
  BY StoryTypes
<1>1. /\ s \in Nat /\ m \in Nat /\ next \in Nat /\ now \in Nat /\ SlotsOf(a) \in Nat
      /\ i \in Nat /\ Len(starts[a]) \in Nat
  BY StoryTypes
<1>2. /\ g <= k /\ k - g + Cardinality(Old) <= SlotsOf(a) - 1
      /\ Booked(Q, g, s, next, m) /\ Spread(Q, g, s, at, now, m)
      /\ Old \subseteq Readers(a) \cup Paced(a)
      /\ \A d \in Readers(a) \ Old : place[d] >= s
  BY <1>0 DEF Story
<1>3. /\ starts'[a][i] = s /\ nextFree'[a] = next /\ place' = at /\ clock' = now
      /\ Len(starts'[a]) - i = k + 1
      /\ Readers(a)' = Readers(a) /\ Paced(a)' = Paced(a) \ {c}
      /\ c \in Paced(a) /\ c \notin Readers(a) /\ at[c] \in Nat /\ at[c] <= now
  <2>1. /\ starts'[a][i] = starts[a][i] /\ UNCHANGED <<clock, nextFree, account, place>>
        /\ Len(starts'[a]) = Len(starts[a]) + 1
        /\ Readers(a)' = Readers(a) /\ Paced(a)' = Paced(a) \ {c}
        /\ c \in Paced(a) /\ c \notin Readers(a) /\ place[c] \in Nat /\ place[c] <= clock
    BY StartFacts
  <2>2. Len(starts'[a]) - i = k + 1
    BY <1>0, <1>1, <2>1
  <2>3. QED
    BY <2>1, <2>2
<1>4. ASSUME NEW Old2 \in SUBSET Callers, NEW g2 \in Nat,
             Old2 \subseteq Readers(a)' \cup Paced(a)',
             g2 <= k + 1, k + 1 - g2 + Cardinality(Old2) <= SlotsOf(a) - 1,
             Readers(a) \ Old2 = Readers(a) \ Old,
             Booked(Paced(a)' \ Old2, g2, s, next, m),
             Spread(Paced(a)' \ Old2, g2, s, at, now, m)
      PROVE  Story(a, i, Old2, g2)'
  <2>1. /\ g2 <= Len(starts'[a]) - i
        /\ Len(starts'[a]) - i - g2 + Cardinality(Old2) <= SlotsOf(a) - 1
    <3>1. Len(starts'[a]) - i = k + 1
      BY <1>3
    <3>2. g2 <= k + 1 /\ k + 1 - g2 + Cardinality(Old2) <= SlotsOf(a) - 1
      BY <1>4
    <3>3. QED
      BY <3>1, <3>2
  <2>2. \A d \in Readers(a)' \ Old2 : place'[d] >= starts'[a][i]
    BY <1>2, <1>3, <1>4
  <2>3. /\ Booked(Paced(a)' \ Old2, g2, starts'[a][i], nextFree'[a], MinDelay(a))
        /\ Spread(Paced(a)' \ Old2, g2, starts'[a][i], place', clock', MinDelay(a))
    BY <1>3, <1>4
  <2>4. QED
    BY <1>4, <2>1, <2>2, <2>3 DEF Story
<1>5. Cardinality(Old) \in Nat /\ IsFiniteSet(Old) /\ IsFiniteSet(Q)
  <2>1. Q \in SUBSET Callers
    BY DEF Paced
  <2>2. QED
    BY <2>1, CallersFinite
<1>6. CASE c \in Old
  <2>1. PICK Old2 \in SUBSET Callers : Old2 = Old \ {c}
    OBVIOUS
  <2>2. Cardinality(Old2) = Cardinality(Old) - 1
    BY <1>5, <1>6, <2>1, FS_RemoveElement
  <2>3. Paced(a)' \ Old2 = Q /\ Readers(a) \ Old2 = Readers(a) \ Old
    BY <1>3, <1>6, <2>1
  <2>4. Old2 \subseteq Readers(a)' \cup Paced(a)'
    BY <1>2, <1>3, <2>1
  <2> HIDE DEF Q, s, m, at, next, now
  <2>5. g <= k + 1 /\ k + 1 - g + Cardinality(Old2) <= SlotsOf(a) - 1
    <3> DEFINE o == Cardinality(Old)  o2 == Cardinality(Old2)  n == SlotsOf(a)
    <3>1. o \in Nat /\ n \in Nat /\ o2 = o - 1 /\ g <= k /\ k - g + o <= n - 1
      BY <1>1, <1>2, <1>5, <2>2, Zenon
    <3> HIDE DEF o, o2, n
    <3>2. g <= k + 1 /\ k + 1 - g + o2 <= n - 1
      BY <3>1
    <3>3. QED
      BY <3>2, Zenon DEF o2, n
  <2>6. Story(a, i, Old2, g)'
    BY <1>2, <1>4, <2>3, <2>4, <2>5
  <2>7. QED
    BY <2>6
<1>7. CASE c \notin Old
  <2>1. c \in Q /\ Paced(a)' \ Old = Q \ {c}
    BY <1>3, <1>7
  <2>2. Old \subseteq Readers(a)' \cup Paced(a)'
    BY <1>2, <1>3, <1>7
  <2> HIDE DEF Q, s, m, at, next, now
  <2>3. Booked(Q \ {c}, g + 1, s, next, m) /\ Spread(Q \ {c}, g + 1, s, at, now, m)
    BY <1>1, <1>2, <1>3, <1>5, <2>1, PaceStarts
  <2>4. g + 1 \in Nat /\ g + 1 <= k + 1 /\ k + 1 - (g + 1) + Cardinality(Old) <= SlotsOf(a) - 1
    <3> DEFINE o == Cardinality(Old)  n == SlotsOf(a)
    <3>1. o \in Nat /\ n \in Nat /\ g <= k /\ k - g + o <= n - 1
      BY <1>1, <1>2, <1>5, Zenon
    <3> HIDE DEF o, n
    <3>2. g + 1 \in Nat /\ g + 1 <= k + 1 /\ k + 1 - (g + 1) + o <= n - 1
      BY <3>1
    <3>3. QED
      BY <3>2, Zenon DEF o, n
  <2>5. Story(a, i, Old, g + 1)'
    BY <1>4, <2>1, <2>2, <2>3, <2>4
  <2>6. QED
    BY <2>4, <2>5
<1>8. QED
  BY <1>6, <1>7

\* The start itself: the old callers are the others who hold a slot.
LEMMA StoryBegins ==
  ASSUME TypeOK, TypeOK', SlotsKept, NEW a \in Accounts,
         NEW c \in Callers, Start(c), account[c] = a,
         NEW j, j = Len(starts[a]) + 1
  PROVE  \E Old \in SUBSET Callers, g \in Nat : Story(a, j, Old, g)'
<1>1. PICK Old \in SUBSET Callers : Old = Readers(a)' \cup Paced(a)'
  BY DEF Readers, Paced
<1>2. /\ starts'[a][j] = clock /\ clock' = clock /\ Len(starts'[a]) = j /\ j \in Nat
      /\ Readers(a)' = Readers(a) /\ Paced(a)' = Paced(a) \ {c}
      /\ c \in Paced(a) /\ c \notin Readers(a) /\ clock \in Nat
  BY StartFacts DEF TypeOK
<1>3. Cardinality(Old) <= SlotsOf(a) - 1 /\ Cardinality(Old) \in Nat
  <2>1. Old \cup {c} \subseteq Holding(a) /\ c \notin Old
    BY <1>1, <1>2 DEF Holding, Readers, Paced
  <2>2. Holding(a) \in SUBSET Callers
    BY DEF Holding
  <2>3. Cardinality(Old \cup {c}) = Cardinality(Old) + 1
    BY <2>1, CallersFinite, FS_AddElement
  <2>4. Cardinality(Old \cup {c}) <= Cardinality(Holding(a))
    BY <2>1, <2>2, CallersFinite, FS_Subset
  <2>5. Cardinality(Holding(a)) <= SlotsOf(a) /\ SlotsOf(a) \in Nat
    BY SettingsTypes DEF SlotsKept
  <2>6. Cardinality(Holding(a)) \in Nat /\ Cardinality(Old) \in Nat
    BY <2>2, CallersFinite
  <2>7. QED
    BY <2>3, <2>4, <2>5, <2>6
<1>4. Paced(a)' \ Old = {} /\ Readers(a)' \ Old = {}
  BY <1>1
<1>5. Booked({}, 0, clock, nextFree'[a], MinDelay(a))
  BY FS_EmptySet DEF Booked
<1>6. Spread({}, 0, clock, place', clock, MinDelay(a))
  <2> DEFINE m == MinDelay(a)
  <2>1. m \in Nat
    BY SettingsTypes
  <2> SUFFICES ASSUME NEW v \in Nat, v >= clock
               PROVE  m * (0 + Cardinality(Early({}, place', v)) - 1) <= v - clock
    BY DEF Spread
  <2>2. Early({}, place', v) = {}
    BY DEF Early
  <2>3. Cardinality(Early({}, place', v)) = 0
    BY <2>2, FS_EmptySet
  <2> HIDE DEF m
  <2>4. m * (0 + 0 - 1) <= 0 /\ m * (0 + 0 - 1) \in Int
    BY <2>1
  <2>5. QED
    BY <1>2, <2>3, <2>4
<1>7. Story(a, j, Old, 0)'
  <2>1. 0 <= Len(starts'[a]) - j /\ Len(starts'[a]) - j - 0 + Cardinality(Old) <= SlotsOf(a) - 1
    BY <1>2, <1>3
  <2>2. /\ Booked(Paced(a)' \ Old, 0, starts'[a][j], nextFree'[a], MinDelay(a))
        /\ Spread(Paced(a)' \ Old, 0, starts'[a][j], place', clock', MinDelay(a))
    BY <1>2, <1>4, <1>5, <1>6
  <2>3. QED
    BY <1>1, <1>4, <2>1, <2>2 DEF Story
<1>8. QED
  BY <1>7

\* The stories go on, and every start begins one.
LEMMA StoriesNext ==
  ASSUME TypeOK, TypeOK', SlotsKept, StoriesTold, [Next]_vars
  PROVE  StoriesTold'
<1> SUFFICES ASSUME NEW a \in Accounts, NEW i \in DOMAIN starts'[a]
             PROVE  /\ starts'[a][i] <= clock'
                    /\ \E Old \in SUBSET Callers, g \in Nat : Story(a, i, Old, g)'
  BY DEF StoriesTold
<1> DEFINE Told == /\ starts'[a][i] <= clock'
                   /\ \E Old \in SUBSET Callers, g \in Nat : Story(a, i, Old, g)'
<1>0. clock \in Nat /\ clock <= clock /\ starts \in [Accounts -> Seq(Nat)]
      /\ nextFree \in [Accounts -> Nat] /\ phase \in [Callers -> Phases]
      /\ account \in [Callers -> Accounts \cup {0}] /\ place \in [Callers -> Nat]
  BY DEF TypeOK
<1>1. ASSUME i \in DOMAIN starts[a]
      PROVE  /\ starts[a][i] <= clock /\ starts[a][i] \in Nat
             /\ \E Old \in SUBSET Callers, g \in Nat : Story(a, i, Old, g)
  BY <1>1, StoryTypes DEF StoriesTold
<1>2. ASSUME starts'[a] = starts[a], nextFree'[a] = nextFree[a], clock <= clock',
             Readers(a)' \subseteq Readers(a), Paced(a)' \subseteq Paced(a),
             \A c \in Readers(a)' \cup Paced(a)' : place'[c] = place[c]
      PROVE  Told
  <2>1. i \in DOMAIN starts[a]
    BY <1>2
  <2>2. PICK Old \in SUBSET Callers, g \in Nat : Story(a, i, Old, g)
    BY <1>1, <2>1
  <2>3. \E Old2 \in SUBSET Callers, g2 \in Nat : Story(a, i, Old2, g2)'
    BY <1>2, <2>1, <2>2, StoryQuiet
  <2>4. starts'[a][i] <= clock'
    <3>1. clock' \in Nat
      BY DEF TypeOK
    <3>2. QED
      BY <1>0, <1>1, <1>2, <2>1, <3>1
  <2>5. QED
    BY <2>3, <2>4
<1>3. ASSUME NEW c \in Callers, TakeSlot(c) \/ Return(c) \/ \E t \in Targets : Call(c, t)
      PROVE  Told
  <2>1. /\ phase[c] \notin {"read", "paced"} /\ phase'[c] \notin {"read", "paced"}
        /\ clock' = clock /\ nextFree' = nextFree /\ starts' = starts
    BY <1>0, <1>3 DEF TakeSlot, Return, Call, Leave, Goto
  <2>2. \A d \in Callers \ {c} : phase'[d] = phase[d] /\ account'[d] = account[d] /\ place'[d] = place[d]
    BY <1>0, <1>3 DEF TakeSlot, Return, Call, Leave, Goto
  <2>3. /\ Readers(a)' = Readers(a) /\ Paced(a)' = Paced(a)
        /\ \A d \in Readers(a)' \cup Paced(a)' : place'[d] = place[d]
    BY <2>1, <2>2 DEF Readers, Paced
  <2>4. QED
    BY <1>0, <1>2, <2>1, <2>3
<1>4. ASSUME NEW c \in Callers, Cancel(c) PROVE Told
  <2>1. /\ phase'[c] \notin {"read", "paced"}
        /\ clock' = clock /\ nextFree' = nextFree /\ starts' = starts
    BY <1>0, <1>4 DEF Cancel, Leave, Goto
  <2>2. \A d \in Callers \ {c} : phase'[d] = phase[d] /\ account'[d] = account[d] /\ place'[d] = place[d]
    BY <1>0, <1>4 DEF Cancel, Leave, Goto
  <2>3. /\ Readers(a)' \subseteq Readers(a) /\ Paced(a)' \subseteq Paced(a)
        /\ \A d \in Readers(a)' \cup Paced(a)' : place'[d] = place[d]
    BY <2>1, <2>2 DEF Readers, Paced
  <2>4. QED
    BY <1>0, <1>2, <2>1, <2>3
<1>5. ASSUME NEW c \in Callers, account[c] # a, ReadClock(c) \/ Reserve(c) \/ Start(c)
      PROVE  Told
  <2>1. /\ account[c] \in Accounts /\ account' = account /\ clock' = clock
        /\ nextFree'[a] = nextFree[a] /\ starts'[a] = starts[a]
    <3>1. account[c] \in Accounts
      BY <1>5 DEF ReadClock, Reserve, Start, TypeOK
    <3>2. CASE ReadClock(c)
      BY <3>1, <3>2 DEF ReadClock
    <3>3. CASE Reserve(c)
      BY <1>0, <1>5, <3>1, <3>3 DEF Reserve
    <3>4. CASE Start(c)
      BY <1>0, <1>5, <3>1, <3>4 DEF Start
    <3>5. QED
      BY <1>5, <3>2, <3>3, <3>4
  <2>2. \A d \in Callers \ {c} : phase'[d] = phase[d] /\ place'[d] = place[d]
    BY <1>0, <1>5 DEF ReadClock, Reserve, Start, Goto
  <2>3. /\ Readers(a)' = Readers(a) /\ Paced(a)' = Paced(a)
        /\ \A d \in Readers(a)' \cup Paced(a)' : place'[d] = place[d]
    BY <1>5, <2>1, <2>2 DEF Readers, Paced
  <2>4. QED
    BY <1>0, <1>2, <2>1, <2>3
<1>6. ASSUME NEW c \in Callers, account[c] = a, ReadClock(c) PROVE Told
  <2>1. starts' = starts /\ clock' = clock
    BY <1>6 DEF ReadClock
  <2>2. i \in DOMAIN starts[a]
    BY <2>1
  <2>3. PICK Old \in SUBSET Callers, g \in Nat : Story(a, i, Old, g)
    BY <1>1, <2>2
  <2>4. starts[a][i] <= clock
    BY <1>1, <2>2
  <2>5. Story(a, i, Old, g)'
    BY <1>6, <2>2, <2>3, <2>4, StoryReads
  <2>6. QED
    BY <2>1, <2>4, <2>5
<1>7. ASSUME NEW c \in Callers, account[c] = a, Reserve(c) PROVE Told
  <2>1. starts' = starts /\ clock' = clock
    BY <1>7 DEF Reserve
  <2>2. i \in DOMAIN starts[a]
    BY <2>1
  <2>3. PICK Old \in SUBSET Callers, g \in Nat : Story(a, i, Old, g)
    BY <1>1, <2>2
  <2>4. starts[a][i] <= clock
    BY <1>1, <2>2
  <2>5. Story(a, i, Old, g)'
    BY <1>7, <2>2, <2>3, <2>4, StoryReserves
  <2>6. QED
    BY <2>1, <2>4, <2>5
<1>8. ASSUME NEW c \in Callers, account[c] = a, Start(c) PROVE Told
  <2>1. /\ DOMAIN starts[a] = 1..Len(starts[a]) /\ Len(starts[a]) \in Nat
        /\ DOMAIN starts'[a] = 1..(Len(starts[a]) + 1)
        /\ starts'[a][Len(starts[a]) + 1] = clock /\ clock' = clock
        /\ \A k \in DOMAIN starts[a] : starts'[a][k] = starts[a][k]
    BY <1>8, StartFacts
  <2>2. CASE i \in DOMAIN starts[a]
    <3>1. PICK Old \in SUBSET Callers, g \in Nat : Story(a, i, Old, g)
      BY <1>1, <2>2
    <3>2. \E Old2 \in SUBSET Callers, g2 \in Nat : Story(a, i, Old2, g2)'
      BY <1>8, <2>2, <3>1, StoryStarts
    <3>3. starts'[a][i] <= clock'
      BY <1>1, <2>1, <2>2
    <3>4. QED
      BY <3>2, <3>3
  <2>3. CASE i = Len(starts[a]) + 1
    <3>1. \E Old \in SUBSET Callers, g \in Nat : Story(a, i, Old, g)'
      BY <1>8, <2>3, StoryBegins
    <3>2. starts'[a][i] <= clock'
      BY <1>0, <2>1, <2>3
    <3>3. QED
      BY <3>1, <3>2
  <2>4. QED
    BY <2>1, <2>2, <2>3
<1>9. CASE Tick
  <2>1. clock' = clock + 1 /\ UNCHANGED <<nextFree, phase, account, place, starts>>
    BY <1>9 DEF Tick
  <2>2. Readers(a)' = Readers(a) /\ Paced(a)' = Paced(a)
    BY <2>1 DEF Readers, Paced
  <2>3. clock <= clock'
    BY <1>0, <2>1
  <2>4. QED
    BY <1>2, <2>1, <2>2, <2>3
<1>10. CASE UNCHANGED vars
  <2>1. UNCHANGED <<clock, nextFree, phase, account, place, starts>>
    BY <1>10 DEF vars
  <2>2. Readers(a)' = Readers(a) /\ Paced(a)' = Paced(a)
    BY <2>1 DEF Readers, Paced
  <2>3. QED
    BY <1>0, <1>2, <2>1, <2>2
<1>11. QED
  BY <1>3, <1>4, <1>5, <1>6, <1>7, <1>8, <1>9, <1>10 DEF Next

\* What a story says of the last start, if that is now.
LEMMA StoryEnds ==
  ASSUME TypeOK, StoriesTold, NEW a \in Accounts, NEW i \in DOMAIN starts[a],
         starts[a][Len(starts[a])] = clock
  PROVE  starts[a][Len(starts[a])] - starts[a][i]
            >= (Len(starts[a]) - i - SlotsOf(a)) * MinDelay(a)
<1>1. PICK Old \in SUBSET Callers, g \in Nat : Story(a, i, Old, g)
  BY DEF StoriesTold
<1> DEFINE Q == Paced(a) \ Old  s == starts[a][i]  m == MinDelay(a)
           o == Cardinality(Old)  slots == SlotsOf(a)
<1>2. PICK k \in Nat : k = Len(starts[a]) - i
  BY StoryTypes
<1>3. /\ s \in Nat /\ m \in Nat /\ clock \in Nat /\ slots \in Nat /\ o \in Nat
  BY StoryTypes, CallersFinite
<1>4. IsFiniteSet(Q)
  <2>1. Q \in SUBSET Callers
    BY DEF Paced
  <2>2. QED
    BY <2>1, CallersFinite
<1>5. k - g + o <= slots - 1 /\ Spread(Q, g, s, place, clock, m)
  BY <1>1, <1>2 DEF Story
<1> HIDE DEF Q, s, m, o, slots
<1>6. clock - s >= (k - slots) * m
  BY <1>3, <1>4, <1>5, PaceFollows
<1>7. QED
  BY <1>2, <1>6 DEF s, m, slots

LastInPace ==
  \A a \in Accounts : \A i \in DOMAIN starts[a] :
     starts[a][Len(starts[a])] = clock
       => starts[a][Len(starts[a])] - starts[a][i]
            >= (Len(starts[a]) - i - SlotsOf(a)) * MinDelay(a)

LEMMA LastIsInPace == TypeOK /\ StoriesTold => LastInPace
BY StoryEnds DEF LastInPace

LEMMA LastIsInPaceNext == TypeOK' /\ StoriesTold' => LastInPace'
BY LastIsInPace, PTL

\* However callers are held up, cancelled or woken late, the sends of an account
\* keep its pace over every stretch, but for as many as it has slots (gate.go).
THEOREM PaceKept == Spec => []PaceHolds
<1> DEFINE Inv == SlotsKept /\ StoriesTold /\ PaceHolds
<1>1. Init => Inv
  <2> SUFFICES ASSUME Init PROVE Inv
    OBVIOUS
  <2>1. ASSUME NEW a \in Accounts PROVE Cardinality(Holding(a)) <= SlotsOf(a)
    <3>1. Holding(a) = {}
      BY DEF Init, Holding
    <3>2. Cardinality(Holding(a)) = 0
      BY <3>1, FS_EmptySet
    <3>3. QED
      BY <3>2, SettingsTypes
  <2>2. \A a \in Accounts : DOMAIN starts[a] = {}
    BY DEF Init
  <2>3. QED
    BY <2>1, <2>2 DEF SlotsKept, StoriesTold, PaceHolds
<1>2. TypeOK /\ TypeOK' /\ Inv /\ [Next]_vars => Inv'
  <2> SUFFICES ASSUME TypeOK, TypeOK', Inv, [Next]_vars PROVE Inv'
    OBVIOUS
  <2>1. SlotsKept' /\ StoriesTold'
    BY SlotsNext, StoriesNext
  <2>2. ASSUME NEW a \in Accounts, NEW j \in DOMAIN starts'[a], NEW i \in 1..(j - 1)
        PROVE  starts'[a][j] - starts'[a][i] >= (j - i - SlotsOf(a)) * MinDelay(a)
    <3>0. starts'[a] \in Seq(Nat) /\ starts[a] \in Seq(Nat)
      BY DEF TypeOK
    <3>1. CASE starts'[a] = starts[a]
      <4>1. j \in DOMAIN starts[a]
        BY <3>1
      <4>2. starts[a][j] - starts[a][i] >= (j - i - SlotsOf(a)) * MinDelay(a)
        BY <4>1 DEF PaceHolds
      <4>3. QED
        BY <3>1, <4>2
    <3>2. ASSUME NEW c \in Callers, Start(c), account[c] = a
          PROVE  starts'[a][j] - starts'[a][i] >= (j - i - SlotsOf(a)) * MinDelay(a)
      <4>1. /\ DOMAIN starts[a] = 1..Len(starts[a]) /\ Len(starts[a]) \in Nat
            /\ DOMAIN starts'[a] = 1..(Len(starts[a]) + 1)
            /\ Len(starts'[a]) = Len(starts[a]) + 1
            /\ starts'[a][Len(starts[a]) + 1] = clock /\ clock' = clock
            /\ \A k \in DOMAIN starts[a] : starts'[a][k] = starts[a][k]
        BY <3>2, StartFacts
      <4>2. CASE j \in DOMAIN starts[a]
        <5>1. i \in DOMAIN starts[a]
          BY <4>1, <4>2
        <5>2. starts[a][j] - starts[a][i] >= (j - i - SlotsOf(a)) * MinDelay(a)
          BY <4>2 DEF PaceHolds
        <5>3. QED
          BY <4>1, <4>2, <5>1, <5>2
      <4>3. CASE j = Len(starts'[a])
        <5>1. i \in DOMAIN starts'[a] /\ starts'[a][Len(starts'[a])] = clock'
          BY <4>1, <4>3
        <5>2. LastInPace'
          BY <2>1, LastIsInPaceNext
        <5>3. QED
          BY <4>1, <4>3, <5>1, <5>2 DEF LastInPace
      <4>4. QED
        BY <4>1, <4>2, <4>3
    <3>3. starts'[a] = starts[a] \/ \E c \in Callers : Start(c) /\ account[c] = a
      <4>1. ASSUME NEW c \in Callers, Start(c), account[c] # a PROVE starts'[a] = starts[a]
        BY <4>1 DEF Start, TypeOK
      <4>2. QED
        BY <4>1 DEF Next, Call, TakeSlot, ReadClock, Reserve, Return, Cancel, Tick, vars
    <3>4. QED
      BY <3>1, <3>2, <3>3
  <2>3. QED
    BY <2>1, <2>2 DEF PaceHolds
<1>3. QED
  BY <1>1, <1>2, TypeCorrect, PTL DEF Spec
=============================================================================
