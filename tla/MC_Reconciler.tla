--------------------------- MODULE MC_Reconciler ---------------------------
(***************************************************************************)
(* Small instances of Reconciler for TLC: step 1 is the greeting, steps 2   *)
(* and 3 belong to the webinar.                                             *)
(***************************************************************************)
EXTENDS Reconciler, TLC

OpenToAll == [s \in Steps |-> -1]

\* Who wrote before 0 is too early for the audience, though processed after it.
OpenFromStart == [s \in Steps |-> 0]

NoOffset == [s \in Steps |-> 0]

Webinar(steps, event, offset) ==
  [status |-> "ACTIVE", event |-> event, recurring |-> FALSE,
   steps |-> steps, enabled |-> steps, offset |-> offset]

\* The webinar is at 0; a reminder at its start, and a greeting.
TwoSteps == Webinar({1, 2}, 0, NoOffset)
OneOffset == [s \in Steps |-> {0}]
=============================================================================
