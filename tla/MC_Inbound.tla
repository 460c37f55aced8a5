----------------------------- MODULE MC_Inbound -----------------------------
(***************************************************************************)
(* Small instances of Inbound for TLC.                                      *)
(***************************************************************************)
EXTENDS Inbound, TLC

EveryFault ==
  {"phone", "journal", "delete", "lostack", "outage", "refusal", "db", "stall",
   "crash", "pause", "recovery"}
ProcessorSymmetry == Permutations(Processors)
=============================================================================
