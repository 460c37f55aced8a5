---------------------------- MODULE MC_Authoring ----------------------------
(***************************************************************************)
(* An installation with one template, one campaign of one step and its      *)
(* word, all by legal requests; a second of each can still be added.        *)
(***************************************************************************)
EXTENDS Authoring, TLC

CONSTANTS m1, m2, m3, t1, t2, c1, c2, s1, s2, k1, k2, w1, a1, q1, q2

OneAccount == [c \in Campaigns |-> a1]
OneCampaign ==
  [media |-> {m1},
   tpl |-> (t1 :> [content |-> m1, version |-> 1, archived |-> FALSE]) @@ (t2 :> NoRow),
   campaign |-> (c1 :> Draft(TRUE)) @@ (c2 :> NoRow),
   step |-> (s1 :> [of |-> c1, tpl |-> t1, enabled |-> TRUE, order |-> 1]) @@ (s2 :> NoRow),
   trigger |-> (k1 :> [of |-> c1, account |-> a1, word |-> w1, active |-> TRUE])
                 @@ (k2 :> NoRow)]
\* Requests are alike, and so are the files not yet uploaded.
Symmetry == Permutations(Requests) \cup Permutations({m2, m3})
=============================================================================
