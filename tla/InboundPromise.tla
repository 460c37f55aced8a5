--------------------------- MODULE InboundPromise ---------------------------
(***************************************************************************)
(* What the inbound path promises about trigger messages, with no queue,    *)
(* lease, processor or crash in sight:                                       *)
(*                                                                          *)
(*   - a message is decided on once, and only a decision to enrol or to      *)
(*     restart opens a new run of the funnel;                                *)
(*   - a courtesy reply goes only to a message decided so, and a second copy *)
(*     only if the acknowledgement of an earlier one was lost.               *)
(*                                                                          *)
(* HandleTriggerEvent (src/internal/campaigns/service.go:151-156) states the *)
(* first, Sender.Send the second.                                            *)
(***************************************************************************)
EXTENDS Naturals

CONSTANTS Messages, Undecided, Decisions

VARIABLES
  decision,  \* decision[m]: what was done about message m
  run,       \* the runs of the funnel opened so far
  copies,    \* copies[m]: the courtesy replies to m that reached the customer
  lost       \* the messages with a reply whose acknowledgement was lost

promiseVars == <<decision, run, copies, lost>>

PromiseInit ==
  /\ decision = [m \in Messages |-> Undecided]
  /\ run \in Nat
  /\ copies = [m \in Messages |-> {}]
  /\ lost = {}

Opens(d) == d.action \in {"ENROLLED", "RESTARTED"}

Decide(m, d) ==
  /\ decision[m] = Undecided
  /\ decision' = [decision EXCEPT ![m] = d]
  /\ run' = IF Opens(d) THEN run + 1 ELSE run
  /\ UNCHANGED <<copies, lost>>

\* One crash may catch several replies on the wire: hence all of them in a step.
Reply ==
  /\ \A m \in Messages : copies'[m] # copies[m] =>
        /\ copies[m] \subseteq copies'[m]
        /\ copies[m] = {} \/ m \in lost
        /\ decision[m].action = "SPECIAL"
        /\ \A x, y \in copies'[m] \ copies[m] : x = y
  /\ lost \subseteq lost'
  /\ UNCHANGED <<decision, run>>

PromiseNext == Reply \/ \E m \in Messages, d \in Decisions : Decide(m, d)

PromiseSpec == PromiseInit /\ [][PromiseNext]_promiseVars
=============================================================================
