------------------------------ MODULE HistoryLog ------------------------------
(***************************************************************************)
(* What the Historian promises to the rest of the system about one         *)
(* lineage: the context sequence is consumed strictly from left to right,  *)
(* every step consumes one window that starts right after the previous     *)
(* one, a window is either published (one entry of an append-only log) or  *)
(* passed over, and a published entry may later be confirmed by Context.   *)
(* Nothing is ever published twice, withdrawn, reordered or unconfirmed.   *)
(* Crashes, retries, stale jobs and replays are not visible here.          *)
(***************************************************************************)
EXTENDS Naturals, Sequences

VARIABLES
  processed,   \* every contextSeq up to this one has been consumed
  entries,     \* the published windows, in publication order
  confirmed    \* the indices of entries that Context has acknowledged

logVars == <<processed, entries, confirmed>>

LogInit ==
  /\ processed = 0
  /\ entries = << >>
  /\ confirmed = {}

(* The consumed prefix grows by at least one position.                     *)
Advance == processed' \in Nat /\ processed' > processed

(* Consume the window that starts right after processed and publish it.    *)
Publish ==
  /\ Advance
  /\ entries' = Append(entries, [from |-> processed + 1, through |-> processed'])
  /\ UNCHANGED confirmed

(* Consume a window that holds nothing worth publishing.                   *)
PassOver ==
  /\ Advance
  /\ UNCHANGED <<entries, confirmed>>

(* Context acknowledges one published entry; acknowledging twice is the    *)
(* same as acknowledging once.                                             *)
Confirm ==
  \E i \in DOMAIN entries :
    /\ confirmed' = confirmed \cup {i}
    /\ UNCHANGED <<processed, entries>>

LogNext == Publish \/ PassOver \/ Confirm

LogSpec == LogInit /\ [][LogNext]_logVars
===============================================================================
