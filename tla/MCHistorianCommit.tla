-------------------------- MODULE MCHistorianCommit --------------------------
(***************************************************************************)
(* Instances of HistorianCommit for TLC.  The .cfg files give the bounds;  *)
(* the hard cap equals the number of positions, so admission is closed by  *)
(* the cap itself and not only by the bound.                               *)
(***************************************************************************)
EXTENDS HistorianCommit
===============================================================================
