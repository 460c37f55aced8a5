-------------------------------- MODULE Gate --------------------------------
(***************************************************************************)
(* The outbound gates (src/internal/outbound/gate.go) and the router before  *)
(* them (router.go): one gate per WhatsApp account, with its slots and its    *)
(* pacing timeline.  A caller of Router.Send takes a slot, reads the clock,   *)
(* reserves the next place on the timeline under the lock, waits for it       *)
(* outside the lock, and then sends.  Its context may be cancelled while it   *)
(* waits.                                                                     *)
(*                                                                          *)
(* A timer may fire late and a caller may be held up between any two steps.   *)
(***************************************************************************)
EXTENDS Integers, Sequences, FiniteSets

CONSTANTS
  Callers,     \* goroutines that send: workers, processors, the panel
  Settings,    \* Settings[a]: the pacing settings of account a, as configured
  Targets,     \* the account ids that messages may name
  Healthy,     \* the accounts whose provider answers every request
  MaxCalls,    \* bound: the calls
  Horizon      \* bound: the clock, unless somebody waits for a place

Accounts == DOMAIN Settings

ASSUME GateAssumption ==
  /\ IsFiniteSet(Callers)
  /\ Accounts \subseteq Nat \ {0} /\ Targets \subseteq Nat
  /\ \A a \in Accounts : Settings[a] \in [workers : Int, min : Int, max : Int]
  /\ MaxCalls \in Nat /\ Horizon \in Nat

VARIABLES
  clock,      \* time.Now, in ticks
  nextFree,   \* nextFree[a]: the first place of a's timeline not yet reserved
  phase,      \* phase[c]: where c is in Router.Send
  account,    \* account[c]: the gate c is at
  place,      \* place[c]: the time c has read, and then the place it holds
  calls,      \* the calls made
  starts,     \* history: starts[a]: when the sends of a started
  lost        \* history: lost[a]: the places whose wait was cancelled

vars == <<clock, nextFree, phase, account, place, calls, starts, lost>>

-----------------------------------------------------------------------------
\* New: settings out of range are repaired, not refused.
SlotsOf(a) == IF Settings[a].workers < 1 THEN 1 ELSE Settings[a].workers
MinDelay(a) == IF Settings[a].min < 0 THEN 0 ELSE Settings[a].min
MaxDelay(a) == IF Settings[a].max < MinDelay(a) THEN MinDelay(a) ELSE Settings[a].max

Intervals(a) == MinDelay(a)..MaxDelay(a)

Primary == 1
InstanceIDOrPrimary(t) == IF t = 0 THEN Primary ELSE t

Holding(a) == {c \in Callers : account[c] = a /\ phase[c] \in {"slot", "read", "paced", "sending"}}

Phases == {"idle", "waiting", "slot", "read", "paced", "sending"}

TypeOK ==
  /\ clock \in Nat
  /\ nextFree \in [Accounts -> Nat]
  /\ phase \in [Callers -> Phases]
  /\ account \in [Callers -> Accounts \cup {0}]
  /\ \A c \in Callers : phase[c] # "idle" => account[c] \in Accounts
  /\ place \in [Callers -> Nat]
  /\ calls \in Nat
  /\ starts \in [Accounts -> Seq(Nat)]
  /\ lost \in [Accounts -> SUBSET Nat]

Init ==
  /\ clock = 0
  /\ nextFree = [a \in Accounts |-> 0]
  /\ phase = [c \in Callers |-> "idle"]
  /\ account = [c \in Callers |-> 0]
  /\ place = [c \in Callers |-> 0]
  /\ calls = 0
  /\ starts = [a \in Accounts |-> <<>>]
  /\ lost = [a \in Accounts |-> {}]

Goto(c, p) == phase' = [phase EXCEPT ![c] = p]

-----------------------------------------------------------------------------
\* Router.Send returns, and forgets.
Leave(c) ==
  /\ Goto(c, "idle")
  /\ account' = [account EXCEPT ![c] = 0]
  /\ place' = [place EXCEPT ![c] = 0]

\* Mutant: the account is not looked up.
CallAnywhere(c, t) ==
  /\ phase[c] = "idle"
  /\ calls < MaxCalls
  /\ calls' = calls + 1
  /\ Goto(c, "waiting") /\ account' = [account EXCEPT ![c] = InstanceIDOrPrimary(t)]
  /\ UNCHANGED <<clock, nextFree, place, starts, lost>>

\* Router.Send: an account without a gate is an error, never another gate.
Call(c, t) ==
  LET a == InstanceIDOrPrimary(t) IN
  /\ phase[c] = "idle"
  /\ calls < MaxCalls
  /\ calls' = calls + 1
  /\ IF a \in Accounts
     THEN Goto(c, "waiting") /\ account' = [account EXCEPT ![c] = a]
     ELSE UNCHANGED <<phase, account>>
  /\ UNCHANGED <<clock, nextFree, place, starts, lost>>

\* Mutant: a caller counts as in the gate only once it has its place.
TakeSlotLate(c) ==
  /\ phase[c] = "waiting"
  /\ Cardinality({d \in Holding(account[c]) : phase[d] \in {"paced", "sending"}}) < SlotsOf(account[c])
  /\ Goto(c, "slot")
  /\ UNCHANGED <<clock, nextFree, account, place, calls, starts, lost>>

\* Mutant: the accounts share their slots.
TakeSlotShared(c) ==
  /\ phase[c] = "waiting"
  /\ Cardinality({d \in Callers : phase[d] \notin {"idle", "waiting"}}) < SlotsOf(account[c])
  /\ Goto(c, "slot")
  /\ UNCHANGED <<clock, nextFree, account, place, calls, starts, lost>>

TakeSlot(c) ==
  /\ phase[c] = "waiting"
  /\ Cardinality(Holding(account[c])) < SlotsOf(account[c])
  /\ Goto(c, "slot")
  /\ UNCHANGED <<clock, nextFree, account, place, calls, starts, lost>>

\* pace reads the clock before it takes the lock.
ReadClock(c) ==
  /\ phase[c] = "slot"
  /\ place' = [place EXCEPT ![c] = clock]
  /\ Goto(c, "read")
  /\ UNCHANGED <<clock, nextFree, account, calls, starts, lost>>

Later(m, n) == IF m < n THEN n ELSE m

\* Mutant: the place is an interval after the first free one, and so is the next.
ReserveTwice(c) ==
  LET a == account[c]  at == Later(place[c], nextFree[a]) IN
  /\ phase[c] = "read"
  /\ \E d \in Intervals(a) :
        /\ place' = [place EXCEPT ![c] = at + d]
        /\ nextFree' = [nextFree EXCEPT ![a] = at + 2 * d]
  /\ Goto(c, "paced")
  /\ UNCHANGED <<clock, account, calls, starts, lost>>

Reserve(c) ==
  LET a == account[c]  at == Later(place[c], nextFree[a]) IN
  /\ phase[c] = "read"
  /\ place' = [place EXCEPT ![c] = at]
  /\ \E d \in Intervals(a) : nextFree' = [nextFree EXCEPT ![a] = at + d]
  /\ Goto(c, "paced")
  /\ UNCHANGED <<clock, account, calls, starts, lost>>

\* The wait is over, at its place or later: sender.Send begins.
Start(c) ==
  LET a == account[c] IN
  /\ phase[c] = "paced" /\ place[c] <= clock
  /\ starts' = [starts EXCEPT ![a] = Append(@, clock)]
  /\ Goto(c, "sending")
  /\ UNCHANGED <<clock, nextFree, account, place, calls, lost>>

\* sender.Send returns, and the deferred function gives the slot back.
Return(c) ==
  /\ phase[c] = "sending"
  /\ Leave(c)
  /\ UNCHANGED <<clock, nextFree, calls, starts, lost>>

\* The context ends while its caller waits for a slot or for its place: it leaves
\* the gate, but its place stays taken.
Cancel(c) ==
  /\ \/ phase[c] = "waiting" /\ UNCHANGED lost
     \/ /\ phase[c] = "paced" /\ place[c] > clock
        /\ lost' = [lost EXCEPT ![account[c]] = @ \cup {place[c]}]
  /\ Leave(c)
  /\ UNCHANGED <<clock, nextFree, calls, starts>>

Tick ==
  /\ clock < Horizon \/ \E c \in Callers : phase[c] = "paced" /\ place[c] > clock
  /\ clock' = clock + 1
  /\ UNCHANGED <<nextFree, phase, account, place, calls, starts, lost>>

Next ==
  \/ \E c \in Callers :
        \/ \E t \in Targets : Call(c, t)
        \/ TakeSlot(c) \/ ReadClock(c) \/ Reserve(c) \/ Start(c) \/ Return(c) \/ Cancel(c)
  \/ Tick

Spec == Init /\ [][Next]_vars

\* Time passes and goroutines run; a channel serves those who wait on it in turn,
\* hence SF for the slot.  Only a healthy account's requests return.
Fairness ==
  /\ WF_vars(Tick)
  /\ \A c \in Callers :
        /\ SF_vars(TakeSlot(c))
        /\ WF_vars(ReadClock(c)) /\ WF_vars(Reserve(c)) /\ WF_vars(Start(c))
        /\ WF_vars(account[c] \in Healthy /\ Return(c))

FairSpec == Spec /\ Fairness

-----------------------------------------------------------------------------
(***************************************************************************)
(* Properties.                                                               *)
(***************************************************************************)
\* The pace holds over every stretch of an account's sends, whatever callers are
\* held up between reading the clock, reserving and waking: k intervals' worth of
\* sends take at least k - slots minimum delays.  A late timer may bring two sends
\* together, but what it delayed is never made up for (gate.go, pace).
PaceHolds ==
  \A a \in Accounts : \A j \in DOMAIN starts[a] : \A i \in 1..(j - 1) :
     starts[a][j] - starts[a][i] >= (j - i - SlotsOf(a)) * MinDelay(a)

\* The timeline runs ahead of the clock by no more than the places on it that are
\* still ahead, held by a caller or lost by a cancelled wait, and one more: a
\* cancelled wait costs the account one interval and no more.
Ahead(a) == {t \in lost[a] : t > clock}
Waiting(a) == {c \in Callers : account[c] = a /\ phase[c] = "paced" /\ place[c] > clock}

BacklogBounded ==
  \A a \in Accounts :
     nextFree[a] <= clock + MaxDelay(a) * (1 + Cardinality(Waiting(a)) + Cardinality(Ahead(a)))

\* A message for a healthy account leaves, or its context is cancelled, though the
\* other accounts' requests may never return and callers of theirs wait for ever
\* (router.go: neither can slow the other down).
HealthyAccountsFlow ==
  \A c \in Callers :
     account[c] \in Healthy ~> phase[c] = "idle"
=============================================================================
