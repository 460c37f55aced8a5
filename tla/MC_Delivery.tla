---------------------------- MODULE MC_Delivery ----------------------------
(***************************************************************************)
(* Small instances of Delivery for TLC.                                     *)
(***************************************************************************)
EXTENDS Delivery, TLC

Budget(list) == [k \in Kinds |-> IF k \in DOMAIN list THEN list[k] ELSE 0]

OneContact == [j \in Jobs |-> CHOOSE c \in Contacts : TRUE]

\* The odd jobs are one contact's, the even jobs the other's.
TwoContacts == CHOOSE f \in [Jobs -> Contacts] :
                 \A i, j \in Jobs : f[i] = f[j] <=> i % 2 = j % 2

AllDueAtOnce == [j \in Jobs |-> 0]

\* The environment fails and the contact may leave; nobody interferes.
CoreLimit ==
  Budget([db |-> 1, lostack |-> 1, outage |-> 2, refusal |-> 1, crash |-> 1, stop |-> 1])

\* Leases lapse under a working process, and an operator presses buttons.
InterferenceLimit == Budget([stall |-> 1, operator |-> 2, stop |-> 1])

\* What the cap's count may miss.
CapLimit == Budget([db |-> 1, crash |-> 1])

\* One kind of disturbance alone.
OperatorAndOutage == Budget([outage |-> 1, operator |-> 1])

WorkerSymmetry == Permutations(Workers)
=============================================================================
