------------------------------ MODULE MCOutbox ------------------------------
(* An instance of Outbox for TLC: a process that may be started with or      *)
(* without a Memory client.                                                  *)
EXTENDS Outbox

BothClients == BOOLEAN
=============================================================================
