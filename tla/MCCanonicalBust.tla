--------------------------- MODULE MCCanonicalBust ---------------------------
(***************************************************************************)
(* Instances of CanonicalBust for TLC; the .cfg files give the bounds.     *)
(***************************************************************************)
EXTENDS CanonicalBust
===============================================================================
