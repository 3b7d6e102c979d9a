--------------------------- MODULE MCBindingLedger ---------------------------
(***************************************************************************)
(* Instances of BindingLedger for TLC.                                     *)
(***************************************************************************)
EXTENDS BindingLedger

CONSTANTS s1, s2, s3, s4, l1, l2
===============================================================================
