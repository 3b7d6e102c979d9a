--------------------------- MODULE MCHotRowReclaim ---------------------------
(* The instance of HotRowReclaim for TLC: the actors are interchangeable.    *)
EXTENDS HotRowReclaim, TLC

CONSTANTS bust, memory

Interchangeable == Permutations(Actors)
===============================================================================
