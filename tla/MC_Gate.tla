------------------------------- MODULE MC_Gate ------------------------------
(***************************************************************************)
(* A small instance of Gate for TLC: account 1 asks for no worker and gets    *)
(* one slot, at a pace of one or two ticks; account 2 has two slots, and a   *)
(* maximum below its minimum, which makes its pace one tick.                 *)
(***************************************************************************)
EXTENDS Gate, TLC

TwoAccounts ==
  1 :> [workers |-> 0, min |-> 1, max |-> 2] @@ 2 :> [workers |-> 2, min |-> 1, max |-> 0]
=============================================================================
