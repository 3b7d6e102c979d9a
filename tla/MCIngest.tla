------------------------------ MODULE MCIngest ------------------------------
(* The events from which the runs of Ingest draw: a user message, another    *)
(* with its own marker, a note that gets no unit, a true and a false         *)
(* companion of the first message, one that names it but is sent as a user   *)
(* event, and the first message sent again under a new id with the same      *)
(* idempotency key.                                                          *)
EXTENDS Ingest

Event(kind, key, meta, companionOf, proves) ==
    [kind |-> kind, key |-> key, meta |-> meta,
     companionOf |-> companionOf, proves |-> proves]

MCInput == [e \in EventIds |->
    CASE e = "said"   -> Event("user", "k1", FALSE, None, None)
      [] e = "resent" -> Event("user", "k1", FALSE, None, None)
      [] e = "marked" -> Event("user", "k2", FALSE, None, "marked")
      [] e = "note"   -> Event("operational", "k3", FALSE, None, None)
      [] e = "true"   -> Event("operational", "k4", TRUE, "said", "said")
      [] e = "false"  -> Event("operational", "k5", TRUE, "said", None)
      [] e = "asUser" -> Event("user", "k6", TRUE, "said", "said")]
=============================================================================
