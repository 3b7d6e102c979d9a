------------------------ MODULE HistorianCommit_proofs ------------------------
(***************************************************************************)
(* Proofs about HistorianCommit, for every value of its constants.         *)
(***************************************************************************)
EXTENDS HistorianCommit, TLAPS

(***************************************************************************)
(* Types.                                                                  *)
(***************************************************************************)
(* The arithmetic facts about the bounds that the proofs use.              *)
LEMMA ConstantFacts ==
  /\ MaxSeq \in Nat /\ LegacyHead \in Nat /\ MaxFaults \in Nat
  /\ MaxUnits \in Nat /\ MaxAttempts \in Nat /\ MaxAttempts # 0
  /\ Seqs \subseteq Nat
  /\ \A s \in Seqs : 1 <= s /\ s <= MaxSeq
BY CommitAssumption DEF CommitAssumption, Seqs

(* A job's window is a window, and its end a possible cursor value.        *)
LEMMA JobWindow ==
  ASSUME NEW j \in Jobs
  PROVE  WindowOf(j) \in Windows /\ j.through \in 0..MaxSeq
BY ConstantFacts DEF Jobs, Windows, WindowOf, Seqs

(* Writing a column of the session row keeps it a session row.             *)
LEMMA SessionFlags ==
  ASSUME session \in Sessions, NEW b \in BOOLEAN
  PROVE  /\ [session EXCEPT !.row = b] \in Sessions
         /\ [session EXCEPT !.exhausted = b] \in Sessions
BY Zenon DEF Sessions

LEMMA SessionAttempts ==
  ASSUME session \in Sessions, NEW a \in 0 .. MaxAttempts - 1, NEW b \in BOOLEAN
  PROVE  /\ [session EXCEPT !.attempts = a] \in Sessions
         /\ [session EXCEPT !.exhausted = b, !.attempts = a] \in Sessions
BY Zenon DEF Sessions

(* The result of a handler is a truth value.                               *)
LEMMA SettleType ==
  ASSUME NEW result \in BOOLEAN, Settle(result)
  PROVE  ok' \in BOOLEAN /\ proc' = "settle"
BY DEF Settle

(* Freezing and enqueueing keeps the queue's entries jobs.                 *)
LEMMA EnqueueType ==
  ASSUME TypeOK, FreezeAndEnqueue
  PROVE  pending' \subseteq Jobs
<1>1. PICK t \in Seqs : Freezable(t) /\ Enqueue(t)
  BY DEF FreezeAndEnqueue
<1>2. cursor + 1 \in Seqs
  BY <1>1, ConstantFacts DEF Freezable, TypeOK, Seqs
<1>3. CASE pending' = {Retargeted(j, t) : j \in pending}
  BY <1>2, <1>3 DEF Retargeted, TypeOK, Jobs
<1>4. CASE pending' = pending
  BY <1>4 DEF TypeOK
<1>5. CASE pending' = {[from |-> cursor + 1, through |-> t, attempt |-> 0]}
  BY <1>2, <1>5, ConstantFacts DEF Jobs
<1> QED BY <1>1, <1>3, <1>4, <1>5 DEF Enqueue

(* Every step keeps the types.                                             *)
LEMMA TypeStep == TypeOK /\ [Next]_vars => TypeOK'
<1> SUFFICES ASSUME TypeOK, [Next]_vars PROVE TypeOK'
  OBVIOUS
<1> USE ConstantFacts
<1>1. CASE TriggerIncremental
  BY <1>1, EnqueueType DEF TriggerIncremental, TypeOK, context, historian, batchRows, process
<1>2. CASE Take
  BY <1>2 DEF Take, TypeOK, context, historian, batchRows
<1>3. CASE RunInvalid
  BY <1>3 DEF RunInvalid, Settle, TypeOK, context, historian, batchRows, queue
<1>4. CASE RunSkip
  <2>1. PICK j \in running : skipped' = skipped \cup {WindowOf(j)} /\ AdvanceCursor(j)
    BY <1>4 DEF RunSkip
  <2>2. j \in Jobs
    BY DEF TypeOK
  <2>3. cursor' \in 0..MaxSeq /\ skipped' \subseteq Windows
    BY <2>1, <2>2, JobWindow DEF AdvanceCursor, TypeOK
  <2>4. session' \in Sessions
    BY <2>1, SessionFlags DEF AdvanceCursor, TypeOK
  <2>5. ok' \in BOOLEAN /\ proc' = "settle"
    BY <1>4, SettleType DEF RunSkip
  <2> QED BY <1>4, <2>3, <2>4, <2>5 DEF RunSkip, TypeOK, context, queue
<1>5. CASE RunCommit
  <2>1. PICK j \in running : CommitBatch(j) /\ AdvanceCursor(j)
                             /\ committed' = committed \cup {WindowOf(j)}
    BY <1>5 DEF RunCommit
  <2>2. j \in Jobs /\ WindowOf(j) \in Windows
    BY DEF TypeOK, Jobs, Windows, WindowOf
  <2>3. Analysis(j) \subseteq Seqs
    BY <2>2 DEF Analysis, Jobs, Seqs
  <2>4. publications' \in Seq(Publications)
    BY <2>1, <2>2, <2>3 DEF CommitBatch, PublicationOf, Publications, Jobs, TypeOK
  <2>5. cursor' \in 0..MaxSeq
    BY <2>1, <2>2, JobWindow DEF AdvanceCursor
  <2>6. session' \in Sessions
    BY <2>1, SessionFlags DEF AdvanceCursor, TypeOK
  <2> QED BY <1>5, <2>1, <2>2, <2>4, <2>5, <2>6 DEF RunCommit, TypeOK, context, queue
<1>6. CASE AckContext
  BY <1>6 DEF AckContext, Acknowledge, Rows, TypeOK, historian, batchRows, queue
<1>7. CASE MarkBatchAcked
  BY <1>7 DEF MarkBatchAcked, WindowOf, Jobs, Windows, TypeOK, context, queue
<1>8. CASE MarkReleaseAcked
  <2>1. releaseAcked' \subseteq Nat
    <3>1. PICK i \in DOMAIN publications : releaseAcked' = releaseAcked \cup {i}
      BY <1>8 DEF MarkReleaseAcked
    <3>2. i \in Nat
      BY <3>1 DEF TypeOK
    <3> QED BY <3>1, <3>2 DEF TypeOK
  <2>2. ok' \in BOOLEAN /\ proc' = "settle"
    BY <1>8, SettleType DEF MarkReleaseAcked
  <2> QED BY <1>8, <2>1, <2>2 DEF MarkReleaseAcked, TypeOK, context, batchRows, queue
<1>9. CASE JobError
  <2>1. faults' \in 0..MaxFaults
    BY <1>9 DEF JobError, TypeOK
  <2>2. ok' \in BOOLEAN /\ proc' = "settle"
    BY <1>9, SettleType DEF JobError
  <2> QED BY <1>9, <2>1, <2>2 DEF JobError, TypeOK, context, historian, batchRows, queue
<1>10. CASE Finish
  BY <1>10 DEF Finish, TypeOK, context, historian, batchRows
<1>11. CASE Requeue
  <2>1. PICK j \in running :
          /\ ~ BudgetSpent(j)
          /\ pending' = pending \cup {[j EXCEPT !.attempt = j.attempt + 1]}
          /\ session' = IF session.row
                        THEN [session EXCEPT !.attempts = j.attempt + 1]
                        ELSE session
    BY <1>11 DEF Requeue
  <2>2. j \in Jobs /\ j.attempt + 1 \in 0 .. MaxAttempts - 1
    BY <2>1 DEF BudgetSpent, Jobs, TypeOK
  <2>3. pending' \subseteq Jobs
    BY <2>1, <2>2 DEF Jobs, TypeOK
  <2>4. session' \in Sessions
    BY <2>1, <2>2, SessionAttempts DEF TypeOK
  <2> QED BY <1>11, <2>3, <2>4 DEF Requeue, TypeOK, context, historian, batchRows
<1>12. CASE Exhaust
  <2>1. session' \in Sessions
    BY <1>12, SessionFlags DEF Exhaust, TypeOK
  <2> QED BY <1>12, <2>1 DEF Exhaust, TypeOK, context, historian, batchRows
<1>13. CASE ReactivateExhaustedSession
  <2>1. 0 \in 0 .. MaxAttempts - 1
    OBVIOUS
  <2>2. session' \in Sessions
    BY <1>13, <2>1, SessionAttempts DEF ReactivateExhaustedSession, TypeOK
  <2> QED BY <1>13, <2>2 DEF ReactivateExhaustedSession, TypeOK, context, historian,
               batchRows, queue, process
<1>14. CASE Crash
  BY <1>14 DEF Crash, TypeOK, context, historian, batchRows
<1>15. CASE Restart
  BY <1>15 DEF Restart, TypeOK, context, historian, batchRows, queue
<1>16. CASE HostRecover
  BY <1>16 DEF HostRecover, Free, TypeOK, context, historian, batchRows, queue
<1>17. CASE RecoverAck
  BY <1>17 DEF RecoverAck, Acknowledge, Rows, TypeOK, historian, batchRows, queue
<1>18. CASE RecoverMark
  BY <1>18 DEF RecoverMark, NeedsAck, TypeOK, context, queue
<1>19. CASE RecoverDone
  BY <1>19, EnqueueType DEF RecoverDone, TypeOK, context, historian, batchRows
<1>20. CASE RecoverError
  BY <1>20 DEF RecoverError, TypeOK, context, historian, batchRows, queue
<1>23. CASE SettleError
  BY <1>23 DEF SettleError, TypeOK, context, historian, batchRows, queue
<1>21. CASE AdmitUnit
  BY <1>21 DEF AdmitUnit, Kinds, Seqs, TypeOK, historian, batchRows, queue, process
<1>22. CASE UNCHANGED vars
  BY <1>22 DEF vars, context, historian, batchRows, queue, process, TypeOK
<1> QED
  BY <1>1, <1>2, <1>3, <1>4, <1>5, <1>6, <1>7, <1>8, <1>9, <1>10, <1>11, <1>12,
     <1>13, <1>14, <1>15, <1>16, <1>17, <1>18, <1>19, <1>20, <1>21, <1>22, <1>23
  DEF Next, RunJob, SettleJob, Recover, Faults, Host

(* The initial database and queue have the declared types.                 *)
LEMMA TypeInit == Init => TypeOK
BY ConstantFacts DEF Init, TypeOK, Sessions

(* Type correctness of the pipeline.                                       *)
THEOREM TypeCorrect == Spec => []TypeOK
BY TypeInit, TypeStep, PTL DEF Spec

(***************************************************************************)
(* Frames: which actions touch which part of the durable state.            *)
(***************************************************************************)
(* Batches, cursor and publications change in the two transactions only.   *)
LEMMA BatchFrame ==
  [Next]_vars => RunSkip \/ RunCommit
                 \/ UNCHANGED <<cursor, committed, skipped, publications>>
BY DEF Next, RunJob, SettleJob, Recover, Faults, Host, TriggerIncremental, Take,
       RunInvalid, AckContext, MarkBatchAcked, MarkReleaseAcked, Finish, Requeue,
       Exhaust, Restart, RecoverAck, RecoverMark, RecoverDone, JobError, SettleError, Crash,
       RecoverError, AdmitUnit, HostRecover, ReactivateExhaustedSession, vars,
       historian, batchRows

(* Rows are added by admission only.                                       *)
LEMMA UnitFrame == [Next]_vars => AdmitUnit \/ unit' = unit
BY DEF Next, RunJob, SettleJob, Recover, Faults, Host, TriggerIncremental, Take,
       RunInvalid, RunSkip, RunCommit, AckContext, MarkBatchAcked, MarkReleaseAcked,
       Finish, Requeue, Exhaust, Restart, RecoverAck, RecoverMark, RecoverDone,
       JobError, SettleError, Crash, RecoverError, HostRecover, ReactivateExhaustedSession, vars,
       context

(* A window that ends at a row keeps its rows when a unit is admitted.     *)
LEMMA AdmissionIsOutside ==
  ASSUME TypeOK, AdmitUnit, NEW w \in Windows, w.through \in Rows
  PROVE  /\ \A s \in w.from .. w.through : unit'[s] = unit[s]
         /\ Analysis(w)' = Analysis(w)
         /\ Rows' \cap (w.from .. w.through) = Rows \cap (w.from .. w.through)
<1>1. PICK h \in 0 .. MaxSeq - 1 :
        /\ IsHead(h)
        /\ unit' = [unit EXCEPT ![h + 1] =
                      IF Cardinality(Rows) >= SoftCap THEN "exclude" ELSE "include"]
  BY DEF AdmitUnit
<1>2. w.from \in Nat /\ w.through \in Nat /\ w.through <= h
  BY <1>1, ConstantFacts DEF IsHead, Windows
<1>3. \A s \in w.from .. w.through : s # h + 1
  BY <1>1, <1>2
<1>4. \A s \in w.from .. w.through : s \in Seqs
  BY ConstantFacts DEF Windows, Seqs
<1>5. \A s \in w.from .. w.through : unit'[s] = unit[s]
  BY <1>1, <1>3, <1>4 DEF TypeOK
<1> QED BY <1>4, <1>5 DEF Analysis, Rows

(***************************************************************************)
(* Windows and phases.                                                     *)
(***************************************************************************)
(* Rows and units only grow.                                               *)
LEMMA RowsGrow ==
  ASSUME TypeOK, [Next]_vars
  PROVE  Rows \subseteq Rows' /\ Units \subseteq Units'
<1>1. CASE unit' = unit
  BY <1>1 DEF Rows, Units
<1>2. CASE AdmitUnit
  <2>1. PICK h \in 0 .. MaxSeq - 1 :
          /\ IsHead(h)
          /\ unit' = [unit EXCEPT ![h + 1] =
                        IF Cardinality(Rows) >= SoftCap THEN "exclude" ELSE "include"]
    BY <1>2 DEF AdmitUnit
  <2>2. h + 1 \notin Rows /\ h + 1 \notin Units
    BY <2>1 DEF IsHead, Rows, Units
  <2>3. \A s \in Seqs : s # h + 1 => unit'[s] = unit[s]
    BY <2>1 DEF TypeOK
  <2> QED BY <2>2, <2>3 DEF Rows, Units
<1> QED BY <1>1, <1>2, UnitFrame

LEMMA EnqueueWindows ==
  ASSUME TypeOK, FreezeAndEnqueue,
         \A j \in pending : j.from <= j.through /\ j.through \in Units
  PROVE  \A j \in pending' : j.from <= j.through /\ j.through \in Units
<1>1. PICK t \in Seqs : Freezable(t) /\ Enqueue(t)
  BY DEF FreezeAndEnqueue
<1>2. cursor + 1 <= t /\ t \in Units
  BY <1>1, ConstantFacts DEF Freezable, TypeOK, Seqs
<1>3. CASE pending' = {Retargeted(j, t) : j \in pending}
  BY <1>2, <1>3 DEF Retargeted, TypeOK, Jobs
<1>4. CASE pending' = pending
  BY <1>4
<1>5. CASE pending' = {[from |-> cursor + 1, through |-> t, attempt |-> 0]}
  BY <1>2, <1>5
<1> QED BY <1>1, <1>3, <1>4, <1>5 DEF Enqueue

(* The jobs after a step: those there were, or freshly frozen ones.        *)
LEMMA JobFrame ==
  ASSUME TypeOK, [Next]_vars
  PROVE  \/ FreezeAndEnqueue /\ running' = running
         \/ \A j \in pending' \cup running' : \E k \in pending \cup running :
              WindowOf(j) = WindowOf(k) /\ j.from = k.from /\ j.through = k.through
<1>1. CASE TriggerIncremental
  BY <1>1 DEF TriggerIncremental
<1>2. CASE RecoverDone
  BY <1>2 DEF RecoverDone
<1>3. CASE Requeue
  BY <1>3 DEF Requeue, WindowOf, TypeOK, Jobs
<1>4. CASE Take
  BY <1>4 DEF Take
<1>5. CASE pending' \subseteq pending /\ running' \subseteq running
  BY <1>5
<1> QED
  BY <1>1, <1>2, <1>3, <1>4, <1>5
  DEF Next, RunJob, SettleJob, Recover, Faults, Host, RunInvalid, RunSkip, RunCommit,
      AckContext, MarkBatchAcked, MarkReleaseAcked, Finish, Exhaust, Restart,
      RecoverAck, RecoverMark, JobError, SettleError, Crash, RecoverError, AdmitUnit, HostRecover,
      ReactivateExhaustedSession, vars, queue

LEMMA WindowsStep == IInv /\ [Next]_vars => WindowsEndAtRows'
<1> SUFFICES ASSUME IInv, [Next]_vars PROVE WindowsEndAtRows'
  OBVIOUS
<1>1. Rows \subseteq Rows' /\ Units \subseteq Units'
  BY RowsGrow DEF IInv
<1>2. \A j \in pending' \cup running' : j.from <= j.through /\ j.through \in Units
  BY JobFrame, EnqueueWindows DEF IInv, WindowsEndAtRows
<1>3. \A b \in committed' \cup skipped' : b.through \in Rows
  <2>1. CASE RunSkip
    BY <2>1 DEF RunSkip, WindowOf, IInv, WindowsEndAtRows, Units, Rows
  <2>2. CASE RunCommit
    BY <2>2 DEF RunCommit, WindowOf, IInv, WindowsEndAtRows, Units, Rows
  <2>3. CASE UNCHANGED <<cursor, committed, skipped, publications>>
    BY <2>3 DEF IInv, WindowsEndAtRows
  <2> QED BY <2>1, <2>2, <2>3, BatchFrame
<1> QED BY <1>1, <1>2, <1>3 DEF WindowsEndAtRows

(***************************************************************************)
(* The batches tile the processed prefix.                                  *)
(***************************************************************************)
(* Adding the anchored window of a job and moving the cursor to its end    *)
(* keeps the tiling.                                                       *)
LEMMA TileExtends ==
  ASSUME TypeOK, BatchesTileProcessedPrefix,
         NEW j \in Jobs, Anchored(j), j.from <= j.through, cursor' = j.through,
         \/ committed' = committed \cup {WindowOf(j)} /\ skipped' = skipped
         \/ committed' = committed /\ skipped' = skipped \cup {WindowOf(j)}
  PROVE  BatchesTileProcessedPrefix'
<1> DEFINE w == WindowOf(j)
<1>1. w.from = cursor + 1 /\ w.through = cursor' /\ cursor < cursor'
      /\ cursor \in Nat /\ cursor' \in Nat
  BY ConstantFacts DEF Anchored, WindowOf, TypeOK, Jobs
<1>2. committed' \cup skipped' = (committed \cup skipped) \cup {w}
  OBVIOUS
<1>3. \A b \in committed \cup skipped :
        b.from \in Nat /\ b.through \in Nat /\ b.from <= b.through /\ b.through <= cursor
  BY ConstantFacts DEF BatchesTileProcessedPrefix, TypeOK, Windows
<1>4. w \notin committed \cup skipped
  BY <1>1, <1>3
<1>5. committed' \cap skipped' = {}
  BY <1>4 DEF BatchesTileProcessedPrefix
<1> HIDE DEF w
<1>6. \A b \in committed' \cup skipped' : b.from <= b.through /\ b.through <= cursor'
  BY <1>1, <1>2, <1>3
<1>7. \A b, c \in committed' \cup skipped' :
        b # c => b.through < c.from \/ c.through < b.from
  <2>1. \A b \in committed \cup skipped : b.through < w.from
    BY <1>1, <1>3
  <2> QED BY <1>2, <2>1 DEF BatchesTileProcessedPrefix
<1>8. \A s \in 1..cursor' : \E b \in committed' \cup skipped' :
        b.from <= s /\ s <= b.through
  <2> SUFFICES ASSUME NEW s \in 1..cursor'
               PROVE  \E b \in committed' \cup skipped' : b.from <= s /\ s <= b.through
    OBVIOUS
  <2>1. CASE s <= cursor
    BY <1>1, <1>2, <2>1 DEF BatchesTileProcessedPrefix
  <2>2. CASE cursor < s
    BY <1>1, <1>2, <2>2
  <2> QED BY <1>1, <2>1, <2>2
<1> QED BY <1>5, <1>6, <1>7, <1>8 DEF BatchesTileProcessedPrefix

LEMMA TileStep == IInv /\ [Next]_vars => BatchesTileProcessedPrefix'
<1> SUFFICES ASSUME IInv, [Next]_vars PROVE BatchesTileProcessedPrefix'
  OBVIOUS
<1>1. \A j \in running : j \in Jobs /\ j.from <= j.through
  BY DEF IInv, TypeOK, WindowsEndAtRows
<1>2. CASE RunSkip
  BY <1>1, <1>2, TileExtends DEF RunSkip, AdvanceCursor, IInv
<1>3. CASE RunCommit
  BY <1>1, <1>3, TileExtends DEF RunCommit, AdvanceCursor, IInv
<1>4. CASE UNCHANGED <<cursor, committed, skipped, publications>>
  BY <1>4 DEF IInv, BatchesTileProcessedPrefix
<1> QED BY <1>2, <1>3, <1>4, BatchFrame

(* A window that is not anchored behind the cursor is not yet a batch.     *)
LEMMA AnchoredIsNew ==
  ASSUME TypeOK, BatchesTileProcessedPrefix, NEW j \in Jobs, Anchored(j),
         j.from <= j.through
  PROVE  WindowOf(j) \notin committed \cup skipped
<1>1. \A b \in committed \cup skipped : b.through \in Nat /\ b.through <= cursor
  BY ConstantFacts DEF BatchesTileProcessedPrefix, TypeOK, Windows
<1>2. cursor \in Nat /\ j.through \in Nat /\ cursor < j.through
  <2>1. cursor \in Nat
    BY DEF TypeOK
  <2>2. j.from \in Nat /\ j.through \in Nat
    BY ConstantFacts DEF Jobs
  <2> QED BY <2>1, <2>2 DEF Anchored
<1>3. WindowOf(j).through = j.through
  BY DEF WindowOf
<1> QED BY <1>1, <1>2, <1>3

(***************************************************************************)
(* Publications.                                                           *)
(***************************************************************************)
LEMMA SkippedStep == IInv /\ [Next]_vars => SkippedHoldNothing'
<1> SUFFICES ASSUME IInv, [Next]_vars PROVE SkippedHoldNothing'
  OBVIOUS
<1>1. CASE RunSkip
  BY <1>1 DEF RunSkip, NothingToAnalyse, Analysis, WindowOf, context, IInv,
              SkippedHoldNothing
<1>2. CASE AdmitUnit
  <2>1. \A b \in skipped : b \in Windows /\ b.through \in Rows
    BY DEF IInv, TypeOK, WindowsEndAtRows
  <2>2. skipped' = skipped
    BY <1>2 DEF AdmitUnit, historian, batchRows
  <2> QED BY <1>2, <2>1, <2>2, AdmissionIsOutside DEF IInv, SkippedHoldNothing
<1>3. CASE unit' = unit /\ skipped' = skipped
  BY <1>3 DEF IInv, SkippedHoldNothing, Analysis
<1>4. CASE RunCommit
  BY <1>4 DEF RunCommit, context, IInv, SkippedHoldNothing, Analysis
<1> QED BY <1>1, <1>2, <1>3, <1>4, BatchFrame, UnitFrame

(* What one publication row says about the batch and units it stands for.  *)
Describes(p) ==
  /\ WindowOf(p) \in committed
  /\ {p.start, p.end} \subseteq Analysis(p)
  /\ \A s \in Analysis(p) : p.start <= s /\ s <= p.end

LEMMA PublicationsStep == IInv /\ [Next]_vars => PublicationsMatchCommitted'
<1> SUFFICES ASSUME IInv, [Next]_vars PROVE PublicationsMatchCommitted'
  OBVIOUS
<1>1. CASE RunCommit
  <2>1. PICK j \in running : /\ Anchored(j) /\ CommitBatch(j)
                             /\ committed' = committed \cup {WindowOf(j)}
    BY <1>1 DEF RunCommit
  <2>2. PICK first, last \in Analysis(j) :
          /\ \A s \in Analysis(j) : first <= s /\ s <= last
          /\ publications' = Append(publications, PublicationOf(j, first, last))
    BY <2>1 DEF CommitBatch
  <2> DEFINE n == Len(publications)
             q == PublicationOf(j, first, last)
  <2>3. /\ n \in Nat /\ DOMAIN publications = 1..n /\ DOMAIN publications' = 1..(n + 1)
        /\ \A i \in 1..n : publications'[i] = publications[i]
        /\ publications'[n + 1] = q
    BY <2>2 DEF TypeOK, IInv
  <2>4. unit' = unit
    BY <1>1 DEF RunCommit, context
  <2>5. j \in Jobs /\ WindowOf(q) = WindowOf(j) /\ Analysis(q) = Analysis(j)
    BY <2>1 DEF PublicationOf, WindowOf, Analysis, IInv, TypeOK
  <2>6. Describes(q)'
    BY <2>1, <2>2, <2>4, <2>5 DEF Describes, PublicationOf, Analysis, WindowOf
  <2>7. \A i \in 1..n : Describes(publications[i])'
    BY <2>1, <2>3, <2>4 DEF Describes, IInv, PublicationsMatchCommitted, Analysis
  <2>8. \A i \in 1..n : publications[i].through < q.from
    <3> SUFFICES ASSUME NEW i \in 1..n PROVE publications[i].through < q.from
      OBVIOUS
    <3>1. WindowOf(publications[i]) \in committed
      BY <2>3 DEF IInv, PublicationsMatchCommitted
    <3>2. \A b \in committed : b.through \in Nat /\ b.through <= cursor
      BY ConstantFacts DEF IInv, TypeOK, BatchesTileProcessedPrefix, Windows
    <3>3. q.from = cursor + 1 /\ cursor \in Nat
      BY <2>1 DEF Anchored, PublicationOf, IInv, TypeOK
    <3>4. WindowOf(publications[i]).through = publications[i].through
      BY DEF WindowOf
    <3> QED BY <3>1, <3>2, <3>3, <3>4
  <2> HIDE DEF n, q
  <2>9. \A i \in DOMAIN publications' : Describes(publications[i])'
    BY <2>3, <2>6, <2>7 DEF Describes
  <2>10. \A b \in committed' : \E i \in DOMAIN publications' : WindowOf(publications'[i]) = b
    BY <2>1, <2>3, <2>5 DEF IInv, PublicationsMatchCommitted
  <2>11. \A i, k \in DOMAIN publications' :
           i < k => publications'[i].through < publications'[k].from
    BY <2>3, <2>8 DEF IInv, PublicationsMatchCommitted
  <2> QED BY <2>9, <2>10, <2>11 DEF Describes, PublicationsMatchCommitted
<1>2. CASE RunSkip
  BY <1>2 DEF RunSkip, context, IInv, PublicationsMatchCommitted, Analysis
<1>3. CASE AdmitUnit
  <2>1. UNCHANGED <<committed, publications>>
    BY <1>3 DEF AdmitUnit, historian, batchRows
  <2>2. \A i \in DOMAIN publications : Analysis(publications[i])' = Analysis(publications[i])
    <3> SUFFICES ASSUME NEW i \in DOMAIN publications
                 PROVE  Analysis(publications[i])' = Analysis(publications[i])
      OBVIOUS
    <3>1. PICK w \in Windows : w = WindowOf(publications[i]) /\ w.through \in Rows
      BY DEF IInv, PublicationsMatchCommitted, WindowsEndAtRows, TypeOK
    <3>2. \A s \in w.from .. w.through : unit'[s] = unit[s]
      BY <1>3, <3>1, AdmissionIsOutside DEF IInv
    <3>3. publications'[i] = publications[i]
      BY <2>1
    <3> QED BY <3>1, <3>2, <3>3 DEF Analysis, WindowOf
  <2> QED BY <2>1, <2>2 DEF IInv, PublicationsMatchCommitted
<1>4. CASE unit' = unit /\ UNCHANGED <<committed, publications>>
  BY <1>4 DEF IInv, PublicationsMatchCommitted, Analysis
<1> QED BY <1>1, <1>2, <1>3, <1>4, BatchFrame, UnitFrame

(***************************************************************************)
(* Single flight and the anchoring of jobs.                                *)
(***************************************************************************)
LEMMA EnqueueSingle ==
  ASSUME SingleFlight, FreezeAndEnqueue
  PROVE  /\ \A j, k \in pending' \cup running : j = k
         /\ pending' = {} \/ running = {}
         /\ \A j \in pending' : Anchored(j) \/ j \in pending
<1>1. PICK t \in Seqs : Enqueue(t)
  BY DEF FreezeAndEnqueue
<1>2. CASE pending # {} /\ pending' = {Retargeted(j, t) : j \in pending}
  <2>1. running = {} /\ \A j, k \in pending : j = k
    BY <1>2 DEF SingleFlight
  <2>2. \A j \in pending : Retargeted(j, t).from = cursor + 1 \/ Retargeted(j, t) = j
    BY DEF Retargeted
  <2>3. \A j, k \in pending' : j = k
    BY <1>2, <2>1
  <2>4. \A j \in pending' : Anchored(j) \/ j \in pending
    BY <1>2, <2>2 DEF Anchored
  <2> QED BY <2>1, <2>3, <2>4
<1>3. CASE pending' = pending
  BY <1>3 DEF SingleFlight
<1>4. CASE /\ pending = {} /\ running = {}
           /\ pending' = {[from |-> cursor + 1, through |-> t, attempt |-> 0]}
  BY <1>4 DEF Anchored
<1> QED BY <1>1, <1>2, <1>3, <1>4 DEF Enqueue, LineageRunning

(* The steps that neither freeze, nor take, nor requeue keep or shrink the *)
(* queue.                                                                  *)
LEMMA QueueFrame ==
  [Next]_vars =>
    \/ TriggerIncremental \/ RecoverDone \/ Take \/ Requeue
    \/ pending' \subseteq pending /\ running' \subseteq running
BY DEF Next, RunJob, SettleJob, Recover, Faults, Host, RunInvalid, RunSkip, RunCommit,
       AckContext, MarkBatchAcked, MarkReleaseAcked, Finish, Exhaust, Restart,
       RecoverAck, RecoverMark, JobError, SettleError, Crash, RecoverError, AdmitUnit, HostRecover,
       ReactivateExhaustedSession, vars, queue

LEMMA SingleFlightStep == IInv /\ [Next]_vars => SingleFlight'
<1> SUFFICES ASSUME IInv, [Next]_vars PROVE SingleFlight'
  OBVIOUS
<1> USE DEF IInv
<1>1. CASE TriggerIncremental
  BY <1>1, EnqueueSingle DEF TriggerIncremental, SingleFlight
<1>2. CASE RecoverDone
  BY <1>2, EnqueueSingle DEF RecoverDone, SingleFlight
<1>3. CASE Take
  BY <1>3 DEF Take, SingleFlight
<1>4. CASE Requeue
  BY <1>4 DEF Requeue, SingleFlight
<1>5. CASE pending' \subseteq pending /\ running' \subseteq running
  BY <1>5 DEF SingleFlight
<1> QED BY <1>1, <1>2, <1>3, <1>4, <1>5, QueueFrame

(* A job that is not anchored and was not skipped is a committed window.   *)
LEMMA JobsStep == IInv /\ [Next]_vars => JobsAnchoredOrDone'
<1> SUFFICES ASSUME IInv, [Next]_vars PROVE JobsAnchoredOrDone'
  OBVIOUS
<1> USE DEF IInv
<1>1. CASE TriggerIncremental
  BY <1>1, EnqueueSingle
  DEF TriggerIncremental, JobsAnchoredOrDone, Anchored, historian, batchRows, process
<1>2. CASE RecoverDone
  BY <1>2, EnqueueSingle
  DEF RecoverDone, JobsAnchoredOrDone, Anchored, historian, batchRows
<1>3. CASE Take
  BY <1>3 DEF Take, JobsAnchoredOrDone, SingleFlight, Anchored, historian, batchRows
<1>4. CASE Requeue
  <2>1. PICK j \in running : pending' = pending \cup {[j EXCEPT !.attempt = j.attempt + 1]}
    BY <1>4 DEF Requeue
  <2>2. pending = {} /\ running' = {} /\ UNCHANGED <<cursor, committed, skipped>> /\ ~ ok
    BY <1>4, <2>1 DEF Requeue, SingleFlight, historian, batchRows
  <2>3. j.from = cursor + 1 \/ WindowOf(j) \in committed
    BY <2>2 DEF JobsAnchoredOrDone, Anchored
  <2>4. \A k \in pending' : k.from = j.from /\ WindowOf(k) = WindowOf(j)
    BY <2>1, <2>2 DEF WindowOf, TypeOK, Jobs
  <2> QED BY <2>2, <2>3, <2>4 DEF JobsAnchoredOrDone, Anchored
<1>5. CASE RunSkip
  BY <1>5 DEF RunSkip, Settle, JobsAnchoredOrDone, SingleFlight, queue
<1>6. CASE RunCommit
  BY <1>6 DEF RunCommit, JobsAnchoredOrDone, SingleFlight, queue
<1>7. CASE RunInvalid \/ JobError \/ SettleError
  BY <1>7 DEF RunInvalid, JobError, SettleError, JobsAnchoredOrDone, SingleFlight, PhaseOK, Anchored,
              Settle, historian, batchRows, queue
<1>8. CASE Crash
  BY <1>8 DEF Crash, JobsAnchoredOrDone
<1>9. CASE Finish \/ Exhaust
  BY <1>9 DEF Finish, Exhaust, JobsAnchoredOrDone, SingleFlight, Anchored, historian,
              batchRows
<1>10. CASE MarkReleaseAcked
  BY <1>10 DEF MarkReleaseAcked, JobsAnchoredOrDone, SingleFlight, Anchored, PhaseOK,
               batchRows, queue
<1>11. CASE AckContext \/ MarkBatchAcked
  BY <1>11 DEF AckContext, MarkBatchAcked, JobsAnchoredOrDone, SingleFlight, Anchored,
               historian, batchRows, queue
<1>12. CASE Restart \/ RecoverAck \/ RecoverMark \/ RecoverError \/ HostRecover
  BY <1>12 DEF Restart, RecoverAck, RecoverMark, RecoverError, HostRecover,
               JobsAnchoredOrDone, Anchored, historian, batchRows, queue
<1>13. CASE AdmitUnit \/ ReactivateExhaustedSession \/ UNCHANGED vars
  BY <1>13 DEF AdmitUnit, ReactivateExhaustedSession, vars, process,
               JobsAnchoredOrDone, Anchored, historian, batchRows, queue
<1> QED
  BY <1>1, <1>2, <1>3, <1>4, <1>5, <1>6, <1>7, <1>8, <1>9, <1>10, <1>11, <1>12, <1>13
  DEF Next, RunJob, SettleJob, Recover, Faults, Host

(***************************************************************************)
(* Acknowledgement.                                                        *)
(***************************************************************************)
LEMMA AckFrame ==
  [Next]_vars =>
    \/ RunCommit \/ AckContext \/ MarkBatchAcked \/ MarkReleaseAcked \/ RecoverAck
    \/ RecoverMark \/ AdmitUnit
    \/ UNCHANGED <<unit, compartmentalized, committed, acked, publications, releaseAcked>>
BY DEF Next, RunJob, SettleJob, Recover, Faults, Host, TriggerIncremental, Take,
       RunInvalid, RunSkip, Finish, Requeue, Exhaust, Restart, RecoverDone, JobError, SettleError,
       Crash, RecoverError, HostRecover, ReactivateExhaustedSession, vars, context,
       historian, batchRows

LEMMA AckStep == IInv /\ [Next]_vars => AckFollowsCommit'
<1> SUFFICES ASSUME IInv, [Next]_vars PROVE AckFollowsCommit'
  OBVIOUS
<1> USE DEF IInv
<1>1. CASE RunCommit
  <2>1. PICK j \in running : CommitBatch(j) /\ committed' = committed \cup {WindowOf(j)}
    BY <1>1 DEF RunCommit
  <2>2. \A i \in DOMAIN publications :
          i \in DOMAIN publications' /\ publications'[i] = publications[i]
    BY <2>1 DEF CommitBatch, TypeOK
  <2> QED BY <1>1, <2>1, <2>2 DEF RunCommit, AckFollowsCommit, Rows, context
<1>2. CASE AckContext
  <2>1. PICK j \in running : Acknowledge(j)
    BY <1>2 DEF AckContext
  <2>2. WindowOf(j) \in committed
    BY <1>2 DEF AckContext, PhaseOK
  <2>3. \A s \in compartmentalized' : s \in compartmentalized \/
          (WindowOf(j).from <= s /\ s <= WindowOf(j).through)
    BY <2>1 DEF Acknowledge, WindowOf, Rows, Seqs
  <2>4. compartmentalized \subseteq compartmentalized'
    BY <2>1 DEF Acknowledge
  <2> QED BY <1>2, <2>2, <2>3, <2>4
          DEF AckContext, AckFollowsCommit, Rows, historian, batchRows
<1>3. CASE RecoverAck
  <2>1. PICK b \in NeedsAck : Acknowledge(b)
    BY <1>3 DEF RecoverAck
  <2>2. b \in committed
    BY DEF NeedsAck
  <2>3. \A s \in compartmentalized' : s \in compartmentalized \/
          (b.from <= s /\ s <= b.through)
    BY <2>1, <2>2 DEF Acknowledge, Rows, Seqs, TypeOK, Windows
  <2>4. compartmentalized \subseteq compartmentalized'
    BY <2>1 DEF Acknowledge
  <2> QED BY <1>3, <2>2, <2>3, <2>4
          DEF RecoverAck, AckFollowsCommit, Rows, historian, batchRows
<1>4. CASE MarkBatchAcked
  <2>1. PICK j \in running : acked' = acked \cup {WindowOf(j)}
    BY <1>4 DEF MarkBatchAcked
  <2>2. WindowOf(j) \in committed /\ Marked(WindowOf(j))
    BY <1>4 DEF MarkBatchAcked, PhaseOK, Marked, WindowOf
  <2> QED BY <1>4, <2>1, <2>2 DEF MarkBatchAcked, AckFollowsCommit, Marked, Rows, context
<1>5. CASE RecoverMark
  <2>1. PICK b \in NeedsAck : NextReplay(b) /\ acked' = acked \cup {b}
    BY <1>5 DEF RecoverMark
  <2>2. b \in committed /\ Marked(b)
    BY <1>5, <2>1 DEF RecoverMark, PhaseOK, NeedsAck
  <2> QED BY <1>5, <2>1, <2>2 DEF RecoverMark, AckFollowsCommit, Marked, Rows, context
<1>6. CASE MarkReleaseAcked
  <2>1. PICK j \in running, i \in DOMAIN publications :
          /\ WindowOf(publications[i]) = WindowOf(j)
          /\ releaseAcked' = releaseAcked \cup {i}
    BY <1>6 DEF MarkReleaseAcked
  <2>2. WindowOf(j) \in acked
    BY <1>6 DEF MarkReleaseAcked, PhaseOK
  <2> QED BY <1>6, <2>1, <2>2
          DEF MarkReleaseAcked, AckFollowsCommit, Rows, context, batchRows
<1>7. CASE AdmitUnit
  <2>1. UNCHANGED <<compartmentalized, committed, acked, publications, releaseAcked>>
    BY <1>7 DEF AdmitUnit, historian, batchRows
  <2>2. \A b \in acked : Rows' \cap (b.from .. b.through) = Rows \cap (b.from .. b.through)
    <3>1. \A b \in acked : b \in Windows /\ b.through \in Rows
      BY DEF AckFollowsCommit, WindowsEndAtRows, TypeOK
    <3> QED BY <1>7, <3>1, AdmissionIsOutside
  <2> QED BY <2>1, <2>2 DEF AckFollowsCommit
<1>8. CASE UNCHANGED <<unit, compartmentalized, committed, acked, publications, releaseAcked>>
  BY <1>8 DEF AckFollowsCommit, Rows
<1> QED BY <1>1, <1>2, <1>3, <1>4, <1>5, <1>6, <1>7, <1>8, AckFrame

(***************************************************************************)
(* What each phase has established.                                        *)
(***************************************************************************)
(* Outside a job's run and a receipt's replay the phase says nothing.      *)
LEMMA PhaseOutside ==
  ASSUME proc' \in {"idle", "settle", "recover", "down"}
  PROVE  PhaseOK'
BY DEF PhaseOK

(* The receipt that recovery replays is determined by the batch rows.      *)
LEMMA ReplayIsUnique ==
  ASSUME TypeOK, BatchesTileProcessedPrefix,
         NEW b, NEW c, NextReplay(b), NextReplay(c)
  PROVE  b = c
<1>1. b \in committed /\ c \in committed /\ b.from <= c.from /\ c.from <= b.from
  BY DEF NextReplay, NeedsAck
<1>2. b.from \in Nat /\ c.from \in Nat /\ b.through \in Nat /\ c.through \in Nat
  BY <1>1, ConstantFacts DEF TypeOK, Windows
<1>3. b.from <= b.through /\ c.from <= c.through
  BY <1>1 DEF BatchesTileProcessedPrefix
<1>4. b # c => b.through < c.from \/ c.through < b.from
  BY <1>1 DEF BatchesTileProcessedPrefix
<1> QED BY <1>1, <1>2, <1>3, <1>4

LEMMA PhaseStep == IInv /\ [Next]_vars => PhaseOK'
<1> SUFFICES ASSUME IInv, [Next]_vars PROVE PhaseOK'
  OBVIOUS
<1> USE DEF IInv
<1>1. CASE Take
  <2>1. running' \subseteq pending /\ proc' = "run" /\ UNCHANGED <<cursor, committed, skipped>>
    BY <1>1 DEF Take, historian, batchRows
  <2>2. running = {}
    BY <1>1 DEF Take, SingleFlight
  <2>3. \A j \in running' : Anchored(j) \/ WindowOf(j) \in committed
    BY <2>1, <2>2 DEF JobsAnchoredOrDone, TypeOK, SingleFlight
  <2> QED BY <2>1, <2>3 DEF PhaseOK, Anchored
<1>2. CASE RunCommit
  <2>1. PICK j \in running : committed' = committed \cup {WindowOf(j)}
    BY <1>2 DEF RunCommit
  <2>2. \A k \in running' : WindowOf(k) \in committed'
    BY <1>2, <2>1 DEF RunCommit, SingleFlight, queue
  <2> QED BY <1>2, <2>2 DEF RunCommit, PhaseOK
<1>3. CASE AckContext
  <2>1. PICK j \in running : Acknowledge(j)
    BY <1>3 DEF AckContext
  <2>2. UNCHANGED <<unit, committed, running, acked>> /\ proc = "ack" /\ proc' = "mark"
    BY <1>3 DEF AckContext, historian, batchRows, queue
  <2>3. \A k \in running' : WindowOf(k) \in committed'
    BY <2>2 DEF PhaseOK
  <2>4. \A k \in running : k = j
    BY DEF SingleFlight
  <2>5. Marked(j)'
    BY <2>1, <2>2 DEF Acknowledge, Marked, Rows
  <2>6. \A k \in running' : Marked(k)'
    BY <2>2, <2>4, <2>5
  <2> QED BY <2>2, <2>3, <2>6 DEF PhaseOK
<1>4. CASE MarkBatchAcked
  <2>1. PICK j \in running : acked' = acked \cup {WindowOf(j)}
    BY <1>4 DEF MarkBatchAcked
  <2>2. /\ UNCHANGED <<unit, compartmentalized, committed, running>>
        /\ proc = "mark" /\ proc' = "release"
    BY <1>4 DEF MarkBatchAcked, context, queue
  <2>3. \A k \in running' : WindowOf(k) \in committed' /\ Marked(k)'
    BY <2>2 DEF PhaseOK, Marked, Rows
  <2>4. \A k \in running' : WindowOf(k) \in acked'
    BY <2>1, <2>2 DEF SingleFlight
  <2> QED BY <2>2, <2>3, <2>4 DEF PhaseOK
<1>5. CASE RecoverAck
  <2>1. PICK b \in NeedsAck : NextReplay(b) /\ Acknowledge(b)
    BY <1>5 DEF RecoverAck
  <2>2. UNCHANGED <<unit, committed, acked>> /\ proc' = "recoverMark"
    BY <1>5 DEF RecoverAck, historian, batchRows
  <2>3. Marked(b)'
    BY <2>1, <2>2 DEF Acknowledge, Marked, Rows
  <2>4. \A c : NextReplay(c) => c = b
    BY <2>1, ReplayIsUnique
  <2>5. \A c : NextReplay(c)' => NextReplay(c)
    BY <2>2 DEF NextReplay, NeedsAck
  <2>6. \A c \in NeedsAck' : NextReplay(c)' => Marked(c)'
    BY <2>3, <2>4, <2>5
  <2> QED BY <2>2, <2>6 DEF PhaseOK
<1>6. CASE AdmitUnit
  <2>1. proc' \in {"idle", "settle"}
    BY <1>6 DEF AdmitUnit, Free, process
  <2> QED BY <2>1, PhaseOutside
<1>7. CASE TriggerIncremental \/ ReactivateExhaustedSession
  <2>1. proc' \in {"idle", "settle"}
    BY <1>7 DEF TriggerIncremental, ReactivateExhaustedSession, Free, process
  <2> QED BY <2>1, PhaseOutside
<1>8. CASE UNCHANGED vars
  BY <1>8 DEF vars, context, historian, batchRows, queue, process, PhaseOK, Anchored,
              Marked, NextReplay, NeedsAck, Rows
<1>9. CASE RunInvalid \/ RunSkip \/ MarkReleaseAcked \/ JobError
  <2>1. proc' = "settle"
    BY <1>9 DEF RunInvalid, RunSkip, MarkReleaseAcked, JobError, Settle
  <2> QED BY <2>1, PhaseOutside
<1>10. CASE SettleJob \/ SettleError \/ Crash \/ Restart \/ HostRecover \/ RecoverMark
  <2>1. proc' \in {"idle", "settle", "recover", "down"}
    BY <1>10 DEF SettleJob, SettleError, Finish, Requeue, Exhaust, Crash, Restart, HostRecover,
                 RecoverMark
  <2> QED BY <2>1, PhaseOutside
<1>11. CASE RecoverDone \/ RecoverError
  <2>1. proc' \in {"idle", "settle", "recover", "down"}
    BY <1>11 DEF RecoverDone, RecoverError, TypeOK
  <2> QED BY <2>1, PhaseOutside
<1> QED
  BY <1>1, <1>2, <1>3, <1>4, <1>5, <1>6, <1>7, <1>8, <1>9, <1>10, <1>11
  DEF Next, RunJob, Recover, Faults, Host

(***************************************************************************)
(* The inductive invariant.                                                *)
(***************************************************************************)
LEMMA InvInit == Init => IInv
<1> SUFFICES ASSUME Init PROVE IInv
  OBVIOUS
<1>1. TypeOK
  BY TypeInit
<1>2. WindowsEndAtRows /\ SkippedHoldNothing /\ JobsAnchoredOrDone /\ SingleFlight
  BY DEF Init, WindowsEndAtRows, SkippedHoldNothing, JobsAnchoredOrDone, SingleFlight
<1>3. PhaseOK
  BY DEF Init, PhaseOK
<1>4. BatchesTileProcessedPrefix
  BY DEF Init, BatchesTileProcessedPrefix
<1>5. PublicationsMatchCommitted
  BY DEF Init, PublicationsMatchCommitted
<1>6. AckFollowsCommit
  BY DEF Init, AckFollowsCommit
<1> QED BY <1>1, <1>2, <1>3, <1>4, <1>5, <1>6 DEF IInv

LEMMA InvStep == IInv /\ [Next]_vars => IInv'
BY TypeStep, WindowsStep, PhaseStep, TileStep, PublicationsStep, SkippedStep, AckStep,
   JobsStep, SingleFlightStep DEF IInv

(* The strengthened invariant holds in every reachable state.              *)
THEOREM Invariance == Spec => []IInv
BY InvInit, InvStep, PTL DEF Spec

(* Every position of the processed prefix is handled once: the tiling.     *)
THEOREM TilingHolds == Spec => []BatchesTileProcessedPrefix
BY Invariance, PTL DEF IInv

(* Publications and committed batches correspond one to one, in order.     *)
THEOREM PublicationsHold == Spec => []PublicationsMatchCommitted
BY Invariance, PTL DEF IInv

(* The acknowledgement never runs ahead of the commit.                     *)
THEOREM AckHolds == Spec => []AckFollowsCommit
BY Invariance, PTL DEF IInv

(* Every queued or running job is anchored at the cursor or already done.  *)
THEOREM JobsHold == Spec => []JobsAnchoredOrDone
BY Invariance, PTL DEF IInv

(* A lineage never has two jobs in flight.                                 *)
THEOREM SingleFlightHolds == Spec => []SingleFlight
BY Invariance, PTL DEF IInv

(***************************************************************************)
(* Nothing is lost and nothing is published twice.                         *)
(***************************************************************************)
LEMMA IncludedFollows == IInv => IncludedPublishedOnce
<1> SUFFICES ASSUME IInv, NEW s \in 1..cursor, unit[s] = "include"
             PROVE  \E i \in DOMAIN publications :
                      \A k \in DOMAIN publications :
                        (publications[k].start <= s /\ s <= publications[k].end) <=> k = i
  BY DEF IncludedPublishedOnce
<1>1. s \in Nat
  OBVIOUS
<1>2. PICK b \in committed \cup skipped : b.from <= s /\ s <= b.through
  BY DEF IInv, BatchesTileProcessedPrefix
<1>3. b.from \in Nat /\ b.through \in Nat
  BY ConstantFacts DEF IInv, TypeOK, Windows
<1>4. s \in Analysis(b)
  BY <1>1, <1>2, <1>3 DEF Analysis
<1>5. b \in committed
  BY <1>2, <1>4 DEF IInv, SkippedHoldNothing
<1>6. PICK i \in DOMAIN publications : WindowOf(publications[i]) = b
  BY <1>5 DEF IInv, PublicationsMatchCommitted
<1>7. s \in Analysis(publications[i])
  BY <1>4, <1>6 DEF Analysis, WindowOf
<1>8. publications[i].start <= s /\ s <= publications[i].end
  BY <1>7 DEF IInv, PublicationsMatchCommitted
<1>9. ASSUME NEW k \in DOMAIN publications,
             publications[k].start <= s /\ s <= publications[k].end
      PROVE  k = i
  <2> DEFINE p == publications[i]
             q == publications[k]
  <2>1. p \in Publications /\ q \in Publications /\ i \in Nat /\ k \in Nat
    BY DEF IInv, TypeOK
  <2>2. {q.start, q.end} \subseteq q.from .. q.through
    BY DEF IInv, PublicationsMatchCommitted, Analysis
  <2>3. q.from <= s /\ s <= q.through
    <3>1. {q.from, q.through, q.start, q.end} \subseteq Nat
      BY <2>1, ConstantFacts DEF Publications
    <3>2. q.start <= s /\ s <= q.end
      BY <1>9
    <3> HIDE DEF q
    <3> QED BY <1>1, <2>2, <3>1, <3>2
  <2>4. p.from <= s /\ s <= p.through
    BY <1>1, <1>7, <2>1, ConstantFacts DEF Analysis, Publications
  <2>5. (i < k => p.through < q.from) /\ (k < i => q.through < p.from)
    BY DEF IInv, PublicationsMatchCommitted
  <2>6. {p.from, p.through, q.from, q.through} \subseteq Nat
    BY <2>1, ConstantFacts DEF Publications
  <2> HIDE DEF p, q
  <2> QED BY <1>1, <2>1, <2>3, <2>4, <2>5, <2>6
<1> QED BY <1>8, <1>9

(* Every included unit at or below the cursor is published exactly once.   *)
THEOREM IncludedOnce == Spec => []IncludedPublishedOnce
BY Invariance, IncludedFollows, PTL

(***************************************************************************)
(* The pipeline implements the append-only log.                            *)
(***************************************************************************)
LEMMA LogInitMaps == Init => Log!LogInit
BY DEF Init, Log!LogInit, Entries, Confirmed

(* A commit publishes exactly its job's window.                            *)
LEMMA CommitMaps ==
  ASSUME IInv, RunCommit
  PROVE  Log!Publish
<1> USE DEF IInv
<1>1. PICK j \in running : Anchored(j) /\ CommitBatch(j) /\ AdvanceCursor(j)
  BY DEF RunCommit
<1>2. j \in Jobs /\ j.from = cursor + 1 /\ j.from <= j.through /\ cursor' = j.through
  BY <1>1 DEF TypeOK, Anchored, AdvanceCursor, WindowsEndAtRows
<1>3. Log!Advance
  BY <1>2, ConstantFacts DEF Log!Advance, Jobs, TypeOK
<1>4. PICK q \in Publications :
        /\ publications' = Append(publications, q)
        /\ q.from = j.from /\ q.through = j.through
  <2>1. PICK first, last \in Analysis(j) :
          publications' = Append(publications, PublicationOf(j, first, last))
    BY <1>1 DEF CommitBatch
  <2>2. first \in Seqs /\ last \in Seqs
    <3>1. j.from \in Seqs /\ j.through \in Seqs
      BY <1>2 DEF Jobs
    <3>2. j.from .. j.through \subseteq Seqs
      BY <3>1, ConstantFacts DEF Seqs
    <3>3. first \in j.from .. j.through /\ last \in j.from .. j.through
      BY <2>1 DEF Analysis
    <3> QED BY <3>2, <3>3
  <2> QED BY <1>2, <2>1, <2>2 DEF PublicationOf, Publications, Jobs
<1> DEFINE n == Len(publications)
<1>5. /\ n \in Nat /\ Len(publications') = n + 1
      /\ \A i \in 1..n : publications'[i] = publications[i]
      /\ publications'[n + 1] = q
  BY <1>4 DEF TypeOK
<1>6. Entries' = Append(Entries, [from |-> cursor + 1, through |-> cursor'])
  <2>1. Entries' = [i \in 1 .. n + 1 |-> WindowOf(publications'[i])]
    BY <1>5 DEF Entries
  <2>2. WindowOf(q) = [from |-> cursor + 1, through |-> cursor']
    BY <1>2, <1>4 DEF WindowOf
  <2> HIDE DEF n
  <2>3. Entries = [i \in 1..n |-> WindowOf(publications[i])] /\ n \in Nat
    BY <1>5 DEF Entries, n
  <2>4. Append(Entries, WindowOf(q)) =
          [i \in 1 .. n + 1 |-> IF i = n + 1 THEN WindowOf(q) ELSE WindowOf(publications[i])]
    BY <2>3
  <2>5. \A i \in 1 .. n + 1 :
          WindowOf(publications'[i]) =
            IF i = n + 1 THEN WindowOf(q) ELSE WindowOf(publications[i])
    BY <1>5, <2>3
  <2> QED BY <2>1, <2>2, <2>4, <2>5
<1>7. WindowOf(q) \notin acked
  <2>1. \A b \in acked : b.through \in Nat /\ b.through <= cursor
    BY ConstantFacts DEF AckFollowsCommit, BatchesTileProcessedPrefix, TypeOK, Windows
  <2>2. WindowOf(q).through = cursor' /\ cursor' > cursor /\ cursor \in Nat
    BY <1>2, <1>3, <1>4 DEF WindowOf, Log!Advance, TypeOK
  <2> QED BY <1>3, <2>1, <2>2 DEF Log!Advance
<1>8. acked' = acked
  BY DEF RunCommit
<1>9. Confirmed' = Confirmed
  <2>1. Confirmed' = {i \in 1 .. n + 1 : WindowOf(publications'[i]) \in acked}
    BY <1>5, <1>8 DEF Confirmed
  <2>2. Confirmed = {i \in 1 .. n : WindowOf(publications[i]) \in acked}
    BY DEF Confirmed
  <2> HIDE DEF n
  <2> QED BY <1>5, <1>7, <2>1, <2>2
<1> QED BY <1>3, <1>6, <1>9 DEF Log!Publish

(* Recording the acknowledgement of a committed batch confirms one entry.  *)
LEMMA MarkMaps ==
  ASSUME IInv, NEW b \in committed, acked' = acked \cup {b},
         UNCHANGED <<cursor, publications>>
  PROVE  Log!Confirm
<1>1. PICK i \in DOMAIN publications : WindowOf(publications[i]) = b
  BY DEF IInv, PublicationsMatchCommitted
<1>2. DOMAIN publications = 1 .. Len(publications)
  BY DEF IInv, TypeOK
<1>3. \A k \in DOMAIN publications : WindowOf(publications[k]) = b => k = i
  <2> SUFFICES ASSUME NEW k \in DOMAIN publications, WindowOf(publications[k]) = b
               PROVE  k = i
    OBVIOUS
  <2>1. publications[k].from = b.from /\ publications[k].through = b.through
        /\ publications[i].from = b.from /\ publications[i].through = b.through
    BY <1>1 DEF WindowOf
  <2>2. b.from \in Nat /\ b.through \in Nat /\ b.from <= b.through
    BY ConstantFacts DEF IInv, TypeOK, Windows, BatchesTileProcessedPrefix
  <2>3. ~ (i < k) /\ ~ (k < i)
    BY <2>1, <2>2 DEF IInv, PublicationsMatchCommitted
  <2> QED BY <1>2, <2>3
<1>4. Confirmed' = Confirmed \cup {i}
  BY <1>1, <1>2, <1>3 DEF Confirmed
<1>5. Entries' = Entries /\ i \in DOMAIN Entries
  BY <1>2 DEF Entries
<1> QED BY <1>4, <1>5 DEF Log!Confirm

LEMMA LogStep == IInv /\ [Next]_vars => [Log!LogNext]_(Log!logVars)
<1> SUFFICES ASSUME IInv, [Next]_vars PROVE [Log!LogNext]_(Log!logVars)
  OBVIOUS
<1>1. CASE RunCommit
  BY <1>1, CommitMaps DEF Log!LogNext
<1>2. CASE RunSkip
  <2>1. PICK j \in running : Anchored(j) /\ AdvanceCursor(j)
    BY <1>2 DEF RunSkip
  <2>2. j \in Jobs /\ j.from = cursor + 1 /\ j.from <= j.through /\ cursor' = j.through
    BY <2>1 DEF IInv, TypeOK, Anchored, AdvanceCursor, WindowsEndAtRows
  <2>3. Log!Advance
    BY <2>2, ConstantFacts DEF Log!Advance, Jobs, IInv, TypeOK
  <2>4. Entries' = Entries /\ Confirmed' = Confirmed
    BY <1>2 DEF RunSkip, Entries, Confirmed
  <2> QED BY <2>3, <2>4 DEF Log!PassOver, Log!LogNext
<1>3. CASE MarkBatchAcked
  <2>1. PICK j \in running : acked' = acked \cup {WindowOf(j)}
    BY <1>3 DEF MarkBatchAcked
  <2>2. WindowOf(j) \in committed
    BY <1>3 DEF MarkBatchAcked, IInv, PhaseOK
  <2>3. UNCHANGED <<cursor, publications>>
    BY <1>3 DEF MarkBatchAcked
  <2> QED BY <2>1, <2>2, <2>3, MarkMaps DEF Log!LogNext
<1>4. CASE RecoverMark
  <2>1. PICK b \in NeedsAck : acked' = acked \cup {b}
    BY <1>4 DEF RecoverMark
  <2>2. b \in committed /\ UNCHANGED <<cursor, publications>>
    BY <1>4 DEF RecoverMark, NeedsAck
  <2> QED BY <2>1, <2>2, MarkMaps DEF Log!LogNext
<1>5. CASE UNCHANGED <<cursor, publications, acked>>
  BY <1>5 DEF Entries, Confirmed, Log!logVars
<1> QED
  BY <1>1, <1>2, <1>3, <1>4, <1>5
  DEF Next, RunJob, SettleJob, Recover, Faults, Host, TriggerIncremental, Take,
      RunInvalid, AckContext, MarkReleaseAcked, Finish, Requeue, Exhaust, Restart,
      RecoverAck, RecoverDone, JobError, SettleError, Crash, RecoverError, AdmitUnit, HostRecover,
      ReactivateExhaustedSession, vars, historian, batchRows

(* The commit pipeline implements the append-only log: through crashes,    *)
(* errors, stale jobs and replays nobody sees an entry withdrawn, doubled, *)
(* reordered, or confirmed before it was published.                        *)
THEOREM Refinement == Spec => ImplementsHistoryLog
BY Invariance, LogInitMaps, LogStep, PTL DEF Spec, ImplementsHistoryLog, Log!LogSpec
===============================================================================
