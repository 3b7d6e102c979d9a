---------------------------- MODULE MCRecallCycle ----------------------------
(***************************************************************************)
(* Instances of RecallCycle for TLC; the .cfg files give the bounds.       *)
(***************************************************************************)
EXTENDS RecallCycle
===============================================================================
