------------------------------ MODULE Readiness -----------------------------
(***************************************************************************)
(* The checklist of a campaign before it goes live (src/internal/campaigns/   *)
(* validate.go).  A problem is where it is and whether it blocks activation;   *)
(* step 0 stands for the campaign.                                            *)
(***************************************************************************)
EXTENDS Integers, Sequences, FiniteSets, Calendar

Problem(field, step, blocking) == [field |-> field, step |-> step, blocking |-> blocking]
IfSo(condition, problem) == IF condition THEN {problem} ELSE {}

Enabled(c) == {i \in DOMAIN c.steps : c.steps[i].enabled}
Timed(c) == {i \in Enabled(c) : c.steps[i].kind # "ON_TRIGGER"}

\* A step's template may be missing, without its media file, or archived.
StepProblems(c) ==
  UNION {LET step == c.steps[i] IN
           {Problem(fault, i, TRUE) : fault \in step.faults}
           \cup IfSo(step.kind = "ON_TRIGGER" /\ step.offset < 0, Problem("offset", i, TRUE))
         : i \in Enabled(c)}

\* sort.SliceStable: equal steps keep the order of the list.
Precedes(key, i, j) == key[i] < key[j] \/ (key[i] = key[j] /\ i < j)

\* Mutant: neighbours in the list, not in the order of sending.
FollowsInList(c, key, i, j) == i \in Timed(c) /\ j = i + 1 /\ j \in Timed(c)

Follows(c, key, i, j) ==
  /\ i \in Timed(c) /\ j \in Timed(c) /\ Precedes(key, i, j)
  /\ ~\E k \in Timed(c) : Precedes(key, i, k) /\ Precedes(key, k, j)

\* Where neighbours contradict the order, or come at one moment.
ScheduleConflicts(c, now) ==
  LET anchor == PreviewAnchor(c, now)
      runAt == [i \in DOMAIN c.steps |-> anchor + c.steps[i].offset]
      index == [i \in DOMAIN c.steps |-> c.steps[i].order]
  IN IF anchor = NoTime THEN {}
     ELSE {Problem("order", j, FALSE) : j \in {j \in Timed(c) :
             \E i \in Timed(c) : Follows(c, index, i, j) /\ runAt[j] < runAt[i]}}
          \cup {Problem("moment", j, FALSE) : j \in {j \in Timed(c) :
             \E i \in Timed(c) : Follows(c, runAt, i, j) /\ runAt[j] = runAt[i]}}

Validate(c, now) ==
  StepProblems(c)
  \cup IfSo(~c.zone.known, Problem("timezone", 0, TRUE))
  \cup IfSo(c.triggers = 0, Problem("triggers", 0, TRUE))
  \cup IfSo(Enabled(c) = {}, Problem("steps", 0, TRUE))
  \cup IfSo(Timed(c) # {} /\ c.event = NoTime, Problem("event", 0, TRUE))
  \cup ScheduleConflicts(c, now)
  \cup IfSo(c.behavior = "SPECIAL_MESSAGE" /\ c.special = "none", Problem("special", 0, TRUE))
  \cup IfSo(~c.daily /\ c.event # NoTime /\ c.event < now, Problem("past", 0, FALSE))
  \cup IfSo(c.link = "used but empty", Problem("link", 0, FALSE))

Blocking(problems) == {p \in problems : p.blocking}
=============================================================================
