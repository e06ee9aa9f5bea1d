-------------------------- MODULE JobSystem_proofs ---------------------------
(***************************************************************************)
(* The types of the whole system and the consistency of its rows, for any  *)
(* number of jobs, slots and processes and wherever slots may stall.       *)
(*                                                                         *)
(* The first part is about the table alone: what each operation of         *)
(* JobQueue preserves, whoever calls it.  The invariant of the system adds *)
(* the types of the workers and the fact that a slot has a job exactly     *)
(* while it is at work.  The third part bounds the attempts wherever slots *)
(* stall.  The fourth needs that no slot outlives its lease: a job then    *)
(* has one executor at a time, which knows the truth about it; retries are *)
(* bounded and terminal states final.                                      *)
(*                                                                         *)
(* The fifth part, under the same condition: the system implements the     *)
(* life cycle of JobLifecycle.  Beside ownership that needs to know what a *)
(* slot's locals say of the documents table: ProgressHonest.  The last one *)
(* is how a job ends: what the history shows, what the webhook said and    *)
(* what is left on the disk.  What the history shows is inherited: it is   *)
(* proved of JobLifecycle.  The other two need an invariant each.          *)
(***************************************************************************)
EXTENDS JobSystem, FiniteSetTheorems, TLAPS

-----------------------------------------------------------------------------
(* The table.                                                              *)

\* The row of j alone: what its status says about its owner, lease and due.
RowAgrees(r) ==
  /\ r.status = "running" <=> r.lease # "none"
  /\ r.status = "running" => r.lockedBy # Nobody
  /\ r.status \notin {"running", "succeeded"} => r.lockedBy = Nobody
  /\ r.due => r.status = "queued"

\* The order of the queue: only due jobs are in it, and it has no cycle of two.
OrderAgrees ==
  \A j \in Jobs : \A i \in ahead[j] : Ready(i) /\ Ready(j) /\ j \notin ahead[i]

QueueConsistent == (\A j \in Jobs : RowAgrees(row[j])) /\ OrderAgrees

QueueOK == QueueTypeOK /\ QueueConsistent

-----------------------------------------------------------------------------
\* Jobs of S that become due go behind the others and keep the order sound.
LEMMA OrderJoins ==
  ASSUME QueueTypeOK, OrderAgrees, NEW S \in SUBSET Jobs, Joins(S),
         \A k \in S : Ready(k)', \A k \in Jobs \ S : Ready(k) => Ready(k)'
  PROVE  OrderAgrees'
<1> SUFFICES ASSUME NEW j \in Jobs, NEW i \in ahead'[j]
             PROVE  Ready(i)' /\ Ready(j)' /\ j \notin ahead'[i]
  BY DEF OrderAgrees
<1>1. i \in Jobs /\ ahead'[i] = IF i \in S THEN {k \in Jobs \ S : Ready(k)} ELSE ahead[i] \ S
  BY DEF Joins, QueueTypeOK
<1>2. CASE j \in S
  BY <1>1, <1>2 DEF Joins
<1>3. CASE j \notin S
  BY <1>1, <1>3 DEF Joins, OrderAgrees
<1> QED
  BY <1>2, <1>3

\* Jobs of S that stop being due leave the order.
LEMMA OrderLeaves ==
  ASSUME QueueTypeOK, OrderAgrees, NEW S \in SUBSET Jobs, Leaves(S),
         \A k \in Jobs \ S : Ready(k) => Ready(k)'
  PROVE  OrderAgrees'
  BY DEF Leaves, QueueTypeOK, OrderAgrees

\* An operation that takes no due job out of the queue may leave ahead alone.
LEMMA OrderSame ==
  ASSUME QueueTypeOK, OrderAgrees, UNCHANGED ahead,
         \A k \in Jobs : Ready(k) => Ready(k)'
  PROVE  OrderAgrees'
  BY DEF QueueTypeOK, OrderAgrees

\* The empty table is consistent.
LEMMA InitOK == QueueInit => QueueOK
  BY QueueAssumption DEF QueueInit, QueueOK, QueueTypeOK, Row, NoRow,
     JobStatus, Terminal, QueueConsistent, RowAgrees, OrderAgrees

\* enqueue
LEMMA EnqueueOK ==
  ASSUME QueueOK, NEW j \in Jobs, Enqueue(j)
  PROVE  QueueOK'
<1> DEFINE T == {j}
<1>1. QueueTypeOK'
  BY QueueAssumption DEF Enqueue, Write, Joins, QueueOK, QueueTypeOK, Row, JobStatus, Terminal
<1>2. ASSUME NEW k \in Jobs PROVE RowAgrees(row'[k])
  BY QueueAssumption DEF Enqueue, Write, QueueOK, QueueTypeOK, Row, QueueConsistent, RowAgrees
<1>3. T \in SUBSET Jobs /\ Joins(T)
  BY DEF Enqueue
<1>4. ASSUME NEW k \in Jobs \ T PROVE Ready(k) => Ready(k)'
  BY QueueAssumption DEF Enqueue, Write, Ready, QueueOK, QueueTypeOK, Row, QueueConsistent, RowAgrees
<1>5. ASSUME NEW k \in T PROVE Ready(k)'
  BY DEF Enqueue, Write, Ready, QueueOK, QueueTypeOK, Row, QueueConsistent, RowAgrees
<1> HIDE DEF T
<1>6. OrderAgrees'
  BY <1>3, <1>4, <1>5, OrderJoins DEF QueueOK, QueueConsistent
<1> QED
  BY <1>1, <1>2, <1>6 DEF QueueOK, QueueConsistent

\* claim_job
LEMMA ClaimOK ==
  ASSUME QueueOK, NEW s \in Slots, NEW j \in Jobs, NEW held, ClaimJob(s, j, held)
  PROVE  QueueOK'
<1> DEFINE T == {j}
<1>1. QueueTypeOK'
  <2>1. row[j] \in Row /\ row[j].attempts + 1 \in Nat
    BY DEF QueueOK, QueueTypeOK, Row
  <2>2. ASSUME NEW r \in Row, NEW n \in Nat
        PROVE  [r EXCEPT !.status = "running", !.lockedBy = s, !.lease = "live",
                         !.attempts = n, !.due = FALSE] \in Row
    BY DEF Row, JobStatus
  <2>3. [row[j] EXCEPT !.status = "running", !.lockedBy = s, !.lease = "live",
                       !.attempts = @ + 1, !.due = FALSE] \in Row
    BY <2>1, <2>2
  <2>4. row' \in [Jobs -> Row]
    BY <2>3 DEF ClaimJob, Write, QueueOK, QueueTypeOK
  <2> QED
    BY <2>4 DEF ClaimJob, Leaves, QueueOK, QueueTypeOK
<1>2. ASSUME NEW k \in Jobs PROVE RowAgrees(row'[k])
  BY QueueAssumption DEF ClaimJob, Write, QueueOK, QueueTypeOK, Row, QueueConsistent, RowAgrees
<1>3. T \in SUBSET Jobs /\ Leaves(T)
  BY DEF ClaimJob
<1>4. ASSUME NEW k \in Jobs \ T PROVE Ready(k) => Ready(k)'
  BY QueueAssumption DEF ClaimJob, Write, Ready, QueueOK, QueueTypeOK, Row, QueueConsistent, RowAgrees
<1> HIDE DEF T
<1>6. OrderAgrees'
  BY <1>3, <1>4, OrderLeaves DEF QueueOK, QueueConsistent
<1> QED
  BY <1>1, <1>2, <1>6 DEF QueueOK, QueueConsistent

\* heartbeat
LEMMA HeartbeatOK ==
  ASSUME QueueOK, NEW s \in Slots, NEW j \in Jobs, Heartbeat(s, j), UNCHANGED ahead
  PROVE  QueueOK'
<1>1. QueueTypeOK'
  <2>1. [row[j] EXCEPT !.lease = "live"] \in Row
    BY DEF QueueOK, QueueTypeOK, Row
  <2>2. row' \in [Jobs -> Row]
    BY <2>1 DEF Heartbeat, Write, QueueOK, QueueTypeOK
  <2> QED
    BY <2>2 DEF QueueOK, QueueTypeOK
<1>2. ASSUME NEW k \in Jobs PROVE RowAgrees(row'[k])
  BY QueueAssumption DEF Heartbeat, Alive, Write, QueueOK, QueueTypeOK, Row, QueueConsistent, RowAgrees
<1>3. ASSUME NEW k \in Jobs PROVE Ready(k) => Ready(k)'
  BY QueueAssumption DEF Heartbeat, Alive, Write, Ready, QueueOK, QueueTypeOK, Row, QueueConsistent, RowAgrees
<1>4. OrderAgrees'
  BY <1>3, OrderSame DEF Heartbeat, Alive, Write, QueueOK, QueueConsistent
<1> QED
  BY <1>1, <1>2, <1>4 DEF QueueOK, QueueConsistent

\* complete_job
LEMMA CompleteOK ==
  ASSUME QueueOK, NEW s \in Slots, NEW j \in Jobs, CompleteJob(s, j), UNCHANGED ahead
  PROVE  QueueOK'
<1>1. QueueTypeOK'
  <2>1. [row[j] EXCEPT !.status = "succeeded", !.lease = "none"] \in Row
    BY DEF QueueOK, QueueTypeOK, Row, JobStatus, Terminal
  <2>2. row' \in [Jobs -> Row]
    BY <2>1 DEF CompleteJob, Write, QueueOK, QueueTypeOK
  <2> QED
    BY <2>2 DEF QueueOK, QueueTypeOK
<1>2. ASSUME NEW k \in Jobs PROVE RowAgrees(row'[k])
  <2> row[k] \in Row /\ RowAgrees(row[k])
    BY DEF QueueOK, QueueTypeOK, QueueConsistent
  <2>1. CASE k = j /\ row[j].lockedBy = s
    <3>1. row'[k] = [row[k] EXCEPT !.status = "succeeded", !.lease = "none"]
      BY <2>1 DEF CompleteJob, Write, QueueOK, QueueTypeOK
    <3>2. row[k].status \in {"running", "succeeded"} /\ ~row[k].due
      BY <2>1, QueueAssumption DEF RowAgrees, Row
    <3> QED
      BY <2>1, <3>1, <3>2, QueueAssumption DEF RowAgrees, Row
  <2>2. CASE ~(k = j /\ row[j].lockedBy = s)
    BY <2>2 DEF CompleteJob, Write, QueueOK, QueueTypeOK
  <2> QED
    BY <2>1, <2>2
<1>3. ASSUME NEW k \in Jobs PROVE Ready(k) => Ready(k)'
  BY QueueAssumption DEF CompleteJob, Write, Ready, QueueOK, QueueTypeOK, Row, QueueConsistent, RowAgrees
<1>4. OrderAgrees'
  BY <1>3, OrderSame DEF CompleteJob, Write, QueueOK, QueueConsistent
<1> QED
  BY <1>1, <1>2, <1>4 DEF QueueOK, QueueConsistent

\* fail_job, whatever the row was when the flush overwrote it
LEMMA FailOK ==
  ASSUME QueueOK, NEW j \in Jobs, NEW retry \in BOOLEAN, FailJob(j, retry)
  PROVE  QueueOK'
<1> DEFINE T == {j}
<1>1. QueueTypeOK'
  <2>1. ASSUME NEW r \in Row
        PROVE  [r EXCEPT !.status = IF retry THEN "queued" ELSE "failed",
                         !.lockedBy = Nobody, !.lease = "none", !.due = FALSE] \in Row
    BY DEF Row, JobStatus, Terminal
  <2>2. row' \in [Jobs -> Row]
    BY <2>1 DEF FailJob, Write, QueueOK, QueueTypeOK
  <2> QED
    BY <2>2 DEF FailJob, Leaves, QueueOK, QueueTypeOK
<1>2. ASSUME NEW k \in Jobs PROVE RowAgrees(row'[k])
  BY QueueAssumption DEF FailJob, Write, QueueOK, QueueTypeOK, Row, QueueConsistent, RowAgrees
<1>3. T \in SUBSET Jobs /\ Leaves(T)
  BY DEF FailJob
<1>4. ASSUME NEW k \in Jobs \ T PROVE Ready(k) => Ready(k)'
  BY QueueAssumption DEF FailJob, Write, Ready, QueueOK, QueueTypeOK, Row, QueueConsistent, RowAgrees
<1> HIDE DEF T
<1>6. OrderAgrees'
  BY <1>3, <1>4, OrderLeaves DEF QueueOK, QueueConsistent
<1> QED
  BY <1>1, <1>2, <1>6 DEF QueueOK, QueueConsistent

\* reap_expired_leases
LEMMA ReapOK ==
  ASSUME QueueOK, NEW held, ReapExpiredLeases(held)
  PROVE  QueueOK'
<1> DEFINE T == {j \in Expired : row[j].attempts < MaxAttempts}
<1>1. QueueTypeOK'
  <2>1. ASSUME NEW r \in Row, NEW retry \in BOOLEAN
        PROVE  [r EXCEPT !.status = IF retry THEN "queued" ELSE "failed",
                         !.lockedBy = Nobody, !.lease = "none", !.due = retry] \in Row
    BY DEF Row, JobStatus, Terminal
  <2>2. ASSUME NEW k \in Jobs PROVE row'[k] \in Row
    <3>1. CASE k \in Expired
      <4> DEFINE retry == k \in T
      <4>1. row'[k] = [row[k] EXCEPT !.status = IF retry THEN "queued" ELSE "failed",
                                     !.lockedBy = Nobody, !.lease = "none", !.due = retry]
        BY <3>1 DEF ReapExpiredLeases
      <4>2. row[k] \in Row /\ retry \in BOOLEAN
        BY DEF QueueOK, QueueTypeOK
      <4> HIDE DEF retry
      <4> QED
        BY <2>1, <4>1, <4>2
    <3>2. CASE k \notin Expired
      BY <3>2 DEF ReapExpiredLeases, QueueOK, QueueTypeOK
    <3> QED
      BY <3>1, <3>2
  <2>3. row' \in [Jobs -> Row]
    BY <2>2 DEF ReapExpiredLeases
  <2> QED
    BY <2>3 DEF ReapExpiredLeases, Joins, Expired, QueueOK, QueueTypeOK
<1>2. ASSUME NEW k \in Jobs PROVE RowAgrees(row'[k])
  <2> row[k] \in Row /\ RowAgrees(row[k])
    BY DEF QueueOK, QueueTypeOK, QueueConsistent
  <2>1. CASE k \in T
    BY <2>1 DEF ReapExpiredLeases, RowAgrees, Row
  <2>2. CASE k \in Expired \ T
    BY <2>2 DEF ReapExpiredLeases, RowAgrees, Row
  <2>3. CASE k \notin Expired
    BY <2>3 DEF ReapExpiredLeases
  <2> QED
    BY <2>1, <2>2, <2>3
<1>3. T \in SUBSET Jobs /\ Joins(T)
  BY DEF ReapExpiredLeases, Expired
<1>4. ASSUME NEW k \in Jobs \ T PROVE Ready(k) => Ready(k)'
  BY QueueAssumption DEF ReapExpiredLeases, Expired, Ready, QueueOK, QueueTypeOK, Row, QueueConsistent, RowAgrees
<1>5. ASSUME NEW k \in T PROVE Ready(k)'
  BY DEF ReapExpiredLeases, Expired, Ready, QueueOK, QueueTypeOK, Row, QueueConsistent, RowAgrees
<1> HIDE DEF T
<1>6. OrderAgrees'
  BY <1>3, <1>4, <1>5, OrderJoins DEF QueueOK, QueueConsistent
<1> QED
  BY <1>1, <1>2, <1>6 DEF QueueOK, QueueConsistent

\* cancel_job
LEMMA CancelOK ==
  ASSUME QueueOK, NEW j \in Jobs, CancelJob(j)
  PROVE  QueueOK'
<1> DEFINE T == {j}
<1>1. QueueTypeOK'
  BY QueueAssumption DEF CancelJob, Write, Leaves, QueueOK, QueueTypeOK, Row, JobStatus, Terminal
<1>2. ASSUME NEW k \in Jobs PROVE RowAgrees(row'[k])
  BY QueueAssumption DEF CancelJob, Write, QueueOK, QueueTypeOK, Row, QueueConsistent, RowAgrees
<1>3. T \in SUBSET Jobs /\ Leaves(T)
  BY DEF CancelJob
<1>4. ASSUME NEW k \in Jobs \ T PROVE Ready(k) => Ready(k)'
  BY QueueAssumption DEF CancelJob, Write, Ready, QueueOK, QueueTypeOK, Row, QueueConsistent, RowAgrees
<1> HIDE DEF T
<1>6. OrderAgrees'
  BY <1>3, <1>4, OrderLeaves DEF QueueOK, QueueConsistent
<1> QED
  BY <1>1, <1>2, <1>6 DEF QueueOK, QueueConsistent

\* a history row is deleted, which changes no other column
LEMMA DeleteOK ==
  ASSUME QueueOK, NEW j \in Jobs, row' = [row EXCEPT ![j].deleted = TRUE], UNCHANGED ahead
  PROVE  QueueOK'
<1>1. QueueTypeOK'
  BY DEF QueueOK, QueueTypeOK, Row
<1>2. ASSUME NEW k \in Jobs PROVE RowAgrees(row'[k])
  BY DEF QueueOK, QueueTypeOK, Row, QueueConsistent, RowAgrees
<1>3. ASSUME NEW k \in Jobs PROVE Ready(k) => Ready(k)'
  BY DEF Ready, QueueOK, QueueTypeOK, Row
<1>4. OrderAgrees'
  BY <1>3, OrderSame DEF QueueOK, QueueConsistent
<1> QED
  BY <1>1, <1>2, <1>4 DEF QueueOK, QueueConsistent

\* the clock: a backoff runs out
LEMMA BecomeDueOK ==
  ASSUME QueueOK, NEW j \in Jobs, BecomeDue(j)
  PROVE  QueueOK'
<1> DEFINE T == {j}
<1>1. QueueTypeOK'
  BY QueueAssumption DEF BecomeDue, Write, Joins, QueueOK, QueueTypeOK, Row, JobStatus, Terminal
<1>2. ASSUME NEW k \in Jobs PROVE RowAgrees(row'[k])
  BY QueueAssumption DEF BecomeDue, Write, QueueOK, QueueTypeOK, Row, QueueConsistent, RowAgrees
<1>3. T \in SUBSET Jobs /\ Joins(T)
  BY DEF BecomeDue
<1>4. ASSUME NEW k \in Jobs \ T PROVE Ready(k) => Ready(k)'
  BY QueueAssumption DEF BecomeDue, Write, Ready, QueueOK, QueueTypeOK, Row, QueueConsistent, RowAgrees
<1>5. ASSUME NEW k \in T PROVE Ready(k)'
  BY DEF BecomeDue, Write, Ready, QueueOK, QueueTypeOK, Row, QueueConsistent, RowAgrees
<1> HIDE DEF T
<1>6. OrderAgrees'
  BY <1>3, <1>4, <1>5, OrderJoins DEF QueueOK, QueueConsistent
<1> QED
  BY <1>1, <1>2, <1>6 DEF QueueOK, QueueConsistent

\* the clock: a lease runs out
LEMMA LeaseExpiresOK ==
  ASSUME QueueOK, NEW j \in Jobs, LeaseExpires(j)
  PROVE  QueueOK'
<1>1. QueueTypeOK'
  BY QueueAssumption DEF LeaseExpires, Write, QueueOK, QueueTypeOK, Row, JobStatus, Terminal
<1>2. ASSUME NEW k \in Jobs PROVE RowAgrees(row'[k])
  BY QueueAssumption DEF LeaseExpires, Write, QueueOK, QueueTypeOK, Row, QueueConsistent, RowAgrees
<1>3. ASSUME NEW k \in Jobs PROVE Ready(k) => Ready(k)'
  BY QueueAssumption DEF LeaseExpires, Write, Ready, QueueOK, QueueTypeOK, Row, QueueConsistent, RowAgrees
<1>4. OrderAgrees'
  BY <1>3, OrderSame DEF LeaseExpires, Write, QueueOK, QueueConsistent
<1> QED
  BY <1>1, <1>2, <1>4 DEF QueueOK, QueueConsistent

\* a process is gone and its ids are nobody's any more
LEMMA OrphanOK ==
  ASSUME QueueOK, NEW S \in SUBSET Slots, Orphan(S), UNCHANGED ahead
  PROVE  QueueOK'
<1>1. QueueTypeOK'
  BY QueueAssumption DEF Orphan, QueueOK, QueueTypeOK, Row, JobStatus, Terminal
<1>2. ASSUME NEW k \in Jobs PROVE RowAgrees(row'[k])
  BY QueueAssumption DEF Orphan, QueueOK, QueueTypeOK, Row, QueueConsistent, RowAgrees
<1>3. ASSUME NEW k \in Jobs PROVE Ready(k) => Ready(k)'
  BY QueueAssumption DEF Orphan, Ready, QueueOK, QueueTypeOK, Row, QueueConsistent, RowAgrees
<1>4. OrderAgrees'
  BY <1>3, OrderSame DEF Orphan, QueueOK, QueueConsistent
<1> QED
  BY <1>1, <1>2, <1>4 DEF QueueOK, QueueConsistent

\* nothing happens to the table
LEMMA StutterOK ==
  ASSUME QueueOK, UNCHANGED queueVars
  PROVE  QueueOK'
  BY DEF queueVars, Ready, QueueOK, QueueTypeOK, QueueConsistent, RowAgrees,
     OrderAgrees

-----------------------------------------------------------------------------
(* The table and the workers.                                              *)

SlotShape == \A s \in Slots : pc[s] = "idle" <=> task[s] = NoJob

TypeInv == QueueOK /\ WorkerTypeOK /\ SlotShape

\* The initial state: an empty table and idle slots.
LEMMA TypeInit == Init => TypeInv
<1> SUFFICES ASSUME Init PROVE TypeInv
  OBVIOUS
<1>1. QueueOK
  BY InitOK DEF Init
<1>2. WorkerTypeOK
  BY WorkerAssumption DEF Init, WorkerInit, WorkerTypeOK, PC, NoSnapshot, Snapshot, NoWork, Work
<1>3. SlotShape
  BY DEF Init, WorkerInit, SlotShape
<1> QED
  BY <1>1, <1>2, <1>3 DEF TypeInv

-----------------------------------------------------------------------------
\* Four building blocks of the slot: it lets go of its job, ...
LEMMA ReleaseTypes ==
  ASSUME TypeInv, NEW s \in Slots, Release(s)
  PROVE  /\ pc' \in [Slots -> PC]
         /\ task' \in [Slots -> Jobs \cup {NoJob}]
         /\ snap' \in [Slots -> Snapshot]
         /\ work' \in [Slots -> Work]
         /\ SlotShape'
  BY DEF TypeInv, WorkerTypeOK, SlotShape, Release, Goto, PC, NoSnapshot, Snapshot, NoWork, Work

\* ... it moves on, ...
LEMMA GotoTypes ==
  ASSUME TypeInv, NEW s \in Slots, NEW label \in PC \ {"idle"}, pc[s] # "idle", Goto(s, label), UNCHANGED task
  PROVE  /\ pc' \in [Slots -> PC]
         /\ SlotShape'
  BY DEF TypeInv, WorkerTypeOK, SlotShape, Goto

\* ... process() ends, ...
LEMMA EndTypes ==
  ASSUME TypeInv, NEW s \in Slots, NEW result \in {"legacy", "error"}, pc[s] # "idle", End(s, result), UNCHANGED task
  PROVE  /\ pc' \in [Slots -> PC]
         /\ work' \in [Slots -> Work]
         /\ SlotShape'
  BY DEF TypeInv, WorkerTypeOK, SlotShape, End, Keep, Goto, PC, Work

\* ... the finally of _document_archive runs.
LEMMA CleanupTypes ==
  ASSUME TypeInv, NEW s \in Slots, Cleanup(s)
  PROVE  /\ zip' \in [Jobs -> BOOLEAN]
         /\ tree' \in [Jobs -> BOOLEAN]
  BY DEF TypeInv, WorkerTypeOK, Cleanup

\* The loop skips to a file, or to the end.
LEMMA SkipTypes ==
  ASSUME TypeInv, NEW s \in Slots, NEW f \in Nat, NEW result \in {"none", "done"}, SkipTo(s, f, result)
  PROVE  work' \in [Slots -> Work]
<1> DEFINE b == work[s].produced \/ work[s].next < f
<1>1. ASSUME NEW w \in Work, NEW p \in BOOLEAN
      PROVE  [w EXCEPT !.next = f, !.result = result, !.produced = p] \in Work
  BY DEF Work
<1>2. work[s] \in Work /\ b \in BOOLEAN
  BY DEF TypeInv, WorkerTypeOK
<1>3. work' = [work EXCEPT ![s] = [work[s] EXCEPT !.next = f, !.result = result, !.produced = b]]
  BY DEF SkipTo, Keep
<1> HIDE DEF b
<1> QED
  BY <1>1, <1>2, <1>3 DEF TypeInv, WorkerTypeOK

-----------------------------------------------------------------------------
\* routers/jobs.py and projects.py
LEMMA ApiTypes ==
  ASSUME TypeInv, NEW j \in Jobs, Api(j)
  PROVE  TypeInv'
<1>1. QueueOK'
  <2>1. CASE Submit(j)
    BY <2>1, EnqueueOK DEF Submit, TypeInv
  <2>2. CASE Cancel(j)
    BY <2>2, CancelOK, StutterOK DEF Cancel, TypeInv
  <2>3. CASE DeleteFromHistory(j)
    BY <2>3, DeleteOK, StutterOK DEF DeleteFromHistory, queueVars, TypeInv
  <2>4. CASE AbandonUpload(j) \/ DeleteProject(j)
    BY <2>4, StutterOK DEF AbandonUpload, DeleteProject, TypeInv
  <2> QED
    BY <2>1, <2>2, <2>3, <2>4 DEF Api
<1>2. /\ zip' \in [Jobs -> BOOLEAN]
      /\ docs' \in [Jobs -> SUBSET Nat]
      /\ project' \in [Jobs -> BOOLEAN]
      /\ UNCHANGED <<mode, slotVars, tree, notified>>
  BY DEF TypeInv, WorkerTypeOK, Api, Submit, AbandonUpload, Cancel, Unlink, DeleteFromHistory, DeleteProject
<1> QED
  BY <1>1, <1>2 DEF TypeInv, WorkerTypeOK, SlotShape, slotVars

\* the clock and the reaper
LEMMA ClockTypes ==
  ASSUME TypeInv, Reap \/ \E j \in Jobs : Clock(j)
  PROVE  TypeInv'
<1>1. QueueOK'
  BY LeaseExpiresOK, BecomeDueOK, ReapOK DEF Clock, Lapse, Due, Reap, TypeInv
<1>2. UNCHANGED <<mode, slotVars, storeVars, notified>>
  BY DEF Clock, Lapse, Due, Reap
<1> QED
  BY <1>1, <1>2 DEF TypeInv, WorkerTypeOK, SlotShape, slotVars, storeVars

\* a process stops, crashes or comes back
LEMMA ProcessTypes ==
  ASSUME TypeInv, NEW w \in Workers, Process(w)
  PROVE  TypeInv'
<1>1. CASE Drain(w) \/ Restart(w)
  BY <1>1, StutterOK DEF Drain, Restart, TypeInv, WorkerTypeOK, SlotShape, slotVars, storeVars
<1>2. CASE Gone(w)
  <2>1. QueueOK'
    BY <1>2, OrphanOK DEF Gone, SlotsOf, TypeInv
  <2>2. WorkerTypeOK'
    BY <1>2 DEF Gone, TypeInv, WorkerTypeOK, storeVars, PC, NoSnapshot, Snapshot, NoWork, Work
  <2>3. SlotShape'
    BY <1>2 DEF Gone, TypeInv, SlotShape
  <2> QED
    BY <2>1, <2>2, <2>3 DEF TypeInv
<1> QED
  BY <1>1, <1>2 DEF Process, Stop, Crash

-----------------------------------------------------------------------------
\* claim_job and _execute up to process()
LEMMA ClaimTypes ==
  ASSUME TypeInv, NEW s \in Slots, Claim(s)
  PROVE  TypeInv'
<1> PICK j \in Jobs : ClaimJob(s, j, Held) /\ task' = [task EXCEPT ![s] = j]
  BY DEF Claim
<1>1. QueueOK'
  BY ClaimOK DEF TypeInv
<1>2. WorkerTypeOK'
  BY DEF Claim, Goto, TypeInv, WorkerTypeOK, storeVars, PC
<1>3. SlotShape'
  BY WorkerAssumption DEF Claim, Goto, TypeInv, WorkerTypeOK, SlotShape
<1> QED
  BY <1>1, <1>2, <1>3 DEF TypeInv

\* The task of a slot that is at work is a job.
LEMMA TaskIsJob ==
  ASSUME TypeInv, NEW s \in Slots, pc[s] # "idle"
  PROVE  task[s] \in Jobs
  BY DEF TypeInv, WorkerTypeOK, SlotShape

\* _execute loads the job into its session.
LEMMA LoadTypes ==
  ASSUME TypeInv, NEW s \in Slots, Load(s)
  PROVE  TypeInv'
<1>1. QueueOK'
  BY StutterOK DEF Load, TypeInv
<1>2. task[s] \in Jobs
  BY TaskIsJob DEF Load
<1>3. snap' \in [Slots -> Snapshot]
  BY <1>2 DEF Load, TypeInv, WorkerTypeOK, Snapshot, QueueOK, QueueTypeOK, Row
<1>4. pc' \in [Slots -> PC] /\ SlotShape'
  BY GotoTypes DEF Load, PC
<1> QED
  BY <1>1, <1>3, <1>4 DEF Load, TypeInv, WorkerTypeOK, storeVars

\* An exception that leaves the row as it is.
LEMMA AbandonTypes ==
  ASSUME TypeInv, NEW s \in Slots, Abandon(s), docs' \in [Jobs -> SUBSET Nat],
         UNCHANGED <<mode, project, notified>>
  PROVE  TypeInv'
  BY ReleaseTypes, CleanupTypes, StutterOK DEF Abandon, TypeInv, WorkerTypeOK

\* process() up to the loop over the files
LEMMA PrepareTypes ==
  ASSUME TypeInv, NEW s \in Slots, Prepare(s)
  PROVE  TypeInv'
<1>1. task[s] \in Jobs /\ pc[s] # "idle"
  BY TaskIsJob DEF Prepare
<1>2. QueueOK'
  BY <1>1, HeartbeatOK, StutterOK DEF Prepare, queueVars, TypeInv
<1>3. pc' \in [Slots -> PC] /\ work' \in [Slots -> Work] /\ SlotShape'
  BY <1>1, GotoTypes, EndTypes DEF Prepare, PC, TypeInv, WorkerTypeOK
<1>4. tree' \in [Jobs -> BOOLEAN]
  BY DEF Prepare, TypeInv, WorkerTypeOK
<1> QED
  BY <1>2, <1>3, <1>4 DEF Prepare, TypeInv, WorkerTypeOK

\* safe_extract or clone.
LEMMA FetchTypes ==
  ASSUME TypeInv, NEW s \in Slots, Fetch(s)
  PROVE  TypeInv'
<1>1. task[s] \in Jobs /\ pc[s] # "idle"
  BY TaskIsJob DEF Fetch
<1>2. QueueOK'
  BY <1>1, HeartbeatOK, StutterOK DEF Fetch, queueVars, TypeInv
<1>3. pc' \in [Slots -> PC] /\ work' \in [Slots -> Work] /\ SlotShape'
  BY <1>1, GotoTypes, EndTypes DEF Fetch, PC, TypeInv, WorkerTypeOK
<1>4. zip' \in [Jobs -> BOOLEAN] /\ tree' \in [Jobs -> BOOLEAN]
  BY CleanupTypes DEF Fetch, TypeInv, WorkerTypeOK
<1> QED
  BY <1>2, <1>3, <1>4 DEF Fetch, TypeInv, WorkerTypeOK

\* The scan of the tree.
LEMMA ScanTypes ==
  ASSUME TypeInv, NEW s \in Slots, Scan(s)
  PROVE  TypeInv'
<1>1. pc' \in [Slots -> PC] /\ work' \in [Slots -> Work] /\ SlotShape'
  BY GotoTypes, EndTypes DEF Scan, PC, TypeInv, WorkerTypeOK
<1>2. zip' \in [Jobs -> BOOLEAN] /\ tree' \in [Jobs -> BOOLEAN]
  BY CleanupTypes DEF Scan, TypeInv, WorkerTypeOK
<1> QED
  BY <1>1, <1>2, StutterOK DEF Scan, TypeInv, WorkerTypeOK

\* The documents of earlier attempts are read.
LEMMA ListTypes ==
  ASSUME TypeInv, NEW s \in Slots, List(s)
  PROVE  TypeInv'
<1>1. pc' \in [Slots -> PC] /\ SlotShape'
  BY GotoTypes DEF List, PC
<1>2. task[s] \in Jobs
  BY TaskIsJob DEF List
<1>3. work' \in [Slots -> Work]
  BY <1>2 DEF List, Keep, TypeInv, WorkerTypeOK, Work
<1> QED
  BY <1>1, <1>3, StutterOK DEF List, TypeInv, WorkerTypeOK, storeVars

-----------------------------------------------------------------------------
\* the loop over the files
LEMMA LoopTypes ==
  ASSUME TypeInv, NEW s \in Slots, Loop(s)
  PROVE  TypeInv'
<1>1. task[s] \in Jobs /\ pc[s] # "idle"
  BY TaskIsJob DEF Loop
<1>2. QueueOK'
  BY <1>1, HeartbeatOK, StutterOK DEF Loop, queueVars, TypeInv
<1>3. pc' \in [Slots -> PC] /\ SlotShape'
  BY <1>1, GotoTypes DEF Loop, PC
<1>4. work' \in [Slots -> Work]
  <2>1. Files(task[s]) \subseteq Nat /\ Request[task[s]].files + 1 \in Nat
    BY <1>1, WorkerAssumption DEF Files
  <2> QED
    BY <2>1, SkipTypes DEF Loop
<1>5. zip' \in [Jobs -> BOOLEAN] /\ tree' \in [Jobs -> BOOLEAN]
  BY CleanupTypes DEF Loop, TypeInv, WorkerTypeOK
<1> QED
  BY <1>2, <1>3, <1>4, <1>5 DEF Loop, TypeInv, WorkerTypeOK

\* the locals after one file
LEMMA NextTypes ==
  ASSUME NEW w \in Work
  PROVE  /\ w.next \in Nat
         /\ [w EXCEPT !.next = @ + 1] \in Work
         /\ [w EXCEPT !.next = @ + 1, !.produced = TRUE] \in Work
<1>1. w.next + 1 \in Nat /\ w.next \in Nat
  BY DEF Work
<1>2. ASSUME NEW n \in Nat
      PROVE  [w EXCEPT !.next = n] \in Work /\ [w EXCEPT !.next = n, !.produced = TRUE] \in Work
  BY DEF Work
<1> QED
  BY <1>1, <1>2

\* One run of the pipeline.
LEMMA GenerateTypes ==
  ASSUME TypeInv, NEW s \in Slots, Generate(s)
  PROVE  TypeInv'
<1>1. pc' \in [Slots -> PC] /\ SlotShape'
  BY GotoTypes, EndTypes DEF Generate, PC
<1>2. [work[s] EXCEPT !.next = @ + 1] \in Work
  BY NextTypes DEF TypeInv, WorkerTypeOK
<1>3. work' \in [Slots -> Work]
  BY <1>2, EndTypes DEF Generate, Keep, TypeInv, WorkerTypeOK
<1>4. zip' \in [Jobs -> BOOLEAN] /\ tree' \in [Jobs -> BOOLEAN]
  BY CleanupTypes DEF Generate, TypeInv, WorkerTypeOK
<1> QED
  BY <1>1, <1>3, <1>4, StutterOK DEF Generate, TypeInv, WorkerTypeOK

\* The insert of the document, or the constraint that refuses it.
LEMMA PersistTypes ==
  ASSUME TypeInv, NEW s \in Slots, Persist(s)
  PROVE  TypeInv'
<1>1. CASE Abandon(s) /\ UNCHANGED docs
  BY <1>1, AbandonTypes DEF Persist, TypeInv, WorkerTypeOK
<1>2. CASE ~(Abandon(s) /\ UNCHANGED docs)
  <2>1. pc' \in [Slots -> PC] /\ SlotShape'
    BY <1>2, GotoTypes DEF Persist, PC
  <2>2. [work[s] EXCEPT !.next = @ + 1, !.produced = TRUE] \in Work /\ work[s].next \in Nat
    BY NextTypes DEF TypeInv, WorkerTypeOK
  <2>3. work' \in [Slots -> Work] /\ docs' \in [Jobs -> SUBSET Nat]
    BY <1>2, <2>2 DEF Persist, Keep, TypeInv, WorkerTypeOK
  <2> QED
    BY <1>2, <2>1, <2>3, StutterOK DEF Persist, TypeInv, WorkerTypeOK
<1> QED
  BY <1>1, <1>2

-----------------------------------------------------------------------------
\* _execute after process()
LEMMA OutcomeTypes ==
  ASSUME TypeInv, NEW s \in Slots, Requeue(s) \/ CommitFailure(s)
  PROVE  TypeInv'
<1>1. task[s] \in Jobs
  BY TaskIsJob DEF Requeue, CommitFailure
<1>2. QueueOK'
  BY <1>1, FailOK, StutterOK DEF Requeue, CommitFailure, TypeInv
<1> QED
  BY <1>2, ReleaseTypes DEF Requeue, CommitFailure, TypeInv, WorkerTypeOK, storeVars

\* The webhook.
LEMMA AnnounceTypes ==
  ASSUME TypeInv, NEW s \in Slots, NEW status \in {"succeeded", "failed"}, Notify(s, status)
  PROVE  notified' \in [Jobs -> SUBSET {"succeeded", "failed"}]
  BY DEF Notify, TypeInv, WorkerTypeOK

\* A failure: back to the queue, or announced and committed.
LEMMA FailTypes ==
  ASSUME TypeInv, NEW s \in Slots, Fail(s) \/ NotifyFailure(s)
  PROVE  TypeInv'
<1>1. pc' \in [Slots -> PC] /\ SlotShape'
  BY GotoTypes DEF Fail, NotifyFailure, PC
<1>2. notified' \in [Jobs -> SUBSET {"succeeded", "failed"}]
  BY AnnounceTypes DEF Fail, NotifyFailure, TypeInv, WorkerTypeOK
<1> QED
  BY <1>1, <1>2, StutterOK DEF Fail, NotifyFailure, TypeInv, WorkerTypeOK, storeVars

\* A success: committed, then announced.
LEMMA SuccessTypes ==
  ASSUME TypeInv, NEW s \in Slots, Complete(s) \/ NotifySuccess(s)
  PROVE  TypeInv'
<1>1. CASE Complete(s)
  <2>1. task[s] \in Jobs
    BY <1>1, TaskIsJob DEF Complete
  <2>2. QueueOK'
    BY <1>1, <2>1, CompleteOK DEF Complete, TypeInv
  <2>3. pc' \in [Slots -> PC] /\ SlotShape'
    BY <1>1, GotoTypes DEF Complete, PC
  <2> QED
    BY <1>1, <2>2, <2>3 DEF Complete, TypeInv, WorkerTypeOK, storeVars
<1>2. CASE NotifySuccess(s)
  BY <1>2, ReleaseTypes, AnnounceTypes, StutterOK DEF NotifySuccess, TypeInv, WorkerTypeOK, storeVars
<1> QED
  BY <1>1, <1>2

\* Every step of a slot.
LEMMA SlotTypes ==
  ASSUME TypeInv, NEW s \in Slots, Slot(s)
  PROVE  TypeInv'
<1>1. CASE Claim(s)
  BY <1>1, ClaimTypes
<1>2. CASE SlotStep(s)
  BY <1>2, LoadTypes, PrepareTypes, FetchTypes, ScanTypes, ListTypes, LoopTypes,
     GenerateTypes, PersistTypes, OutcomeTypes, FailTypes, SuccessTypes DEF SlotStep
<1>3. CASE SessionFails(s)
  BY <1>3, AbandonTypes DEF SessionFails, TypeInv, WorkerTypeOK
<1> QED
  BY <1>1, <1>2, <1>3 DEF Slot

\* TypeInv is inductive.
LEMMA TypeStep == TypeInv /\ [Next]_vars => TypeInv'
<1> SUFFICES ASSUME TypeInv, [Next]_vars PROVE TypeInv'
  OBVIOUS
<1>1. CASE Next
  BY <1>1, ApiTypes, ClockTypes, SlotTypes, ProcessTypes DEF Next
<1>2. CASE UNCHANGED vars
  BY <1>2, StutterOK DEF vars, slotVars, storeVars, TypeInv, WorkerTypeOK, SlotShape
<1> QED
  BY <1>1, <1>2

\* TypeInv holds in every reachable state.
LEMMA TypeInvariant == Spec => []TypeInv
  BY TypeInit, TypeStep, PTL DEF Spec

\* Every variable of the queue, the workers and the store keeps its type.
THEOREM TypeCorrect == Spec => []TypeOK
<1>1. TypeInv => TypeOK
  BY DEF TypeInv, TypeOK, QueueOK
<1> QED
  BY <1>1, TypeInvariant, PTL

\* The columns the statements of queue.py write together agree in every row, and
\* the order of the due jobs stays an order, whether or not leases are outlived.
THEOREM Consistent == Spec => []RowConsistent
<1>1. TypeInv => RowConsistent
  BY DEF TypeInv, RowConsistent, QueueOK, QueueConsistent, RowAgrees, OrderAgrees
<1> QED
  BY <1>1, TypeInvariant, PTL

-----------------------------------------------------------------------------
(* How often a job is executed when slots do outlive their leases.  A      *)
(* stale slot may send a job back to the queue although its attempts are   *)
(* used up, for fail_job decides on the snapshot the slot loaded.  It does *)
(* so once, and no two slots loaded the same count: every claim counts.    *)
(* The proof counts the snapshots that may still requeue the job.          *)

\* The attempt a slot was given: it has loaded it, or will when it loads.
Holds(s, j, n) ==
  /\ task[s] = j
  /\ \/ pc[s] = "claimed" /\ row[j].lockedBy = s /\ row[j].attempts = n
     \/ pc[s] # "claimed" /\ snap[s].owned /\ snap[s].attempts = n

\* An attempt is given to one slot, and it is not to come.
AttemptsApart ==
  \A j \in Jobs, s \in Slots, n \in Nat : Holds(s, j, n) =>
    /\ 1 <= n /\ n <= row[j].attempts
    /\ \A t \in Slots : Holds(t, j, n) => s = t

\* The attempts whose slots may still requeue the job.
MayReturn(j) == {n \in 1..MaxAttempts - 1 : \E s \in Slots : Holds(s, j, n)}

\* Beyond the last regular attempt every further one costs one of these.
Paid ==
  \A j \in Jobs : row[j].attempts >= MaxAttempts =>
    row[j].attempts + Cardinality(MayReturn(j)) <=
      IF row[j].status = "queued" THEN 2 * MaxAttempts - 2 ELSE 2 * MaxAttempts - 1

NoneBefore == \A j \in Jobs : row[j].status = "absent" => row[j].attempts = 0

StallInv == TypeInv /\ AttemptsApart /\ Paid /\ NoneBefore

-----------------------------------------------------------------------------
\* The types the proofs below need.
LEMMA StallTypes ==
  ASSUME TypeInv
  PROVE  /\ row \in [Jobs -> Row] /\ pc \in [Slots -> PC]
         /\ task \in [Slots -> Jobs \cup {NoJob}] /\ snap \in [Slots -> Snapshot]
         /\ MaxAttempts \in Nat \ {0}
  BY QueueAssumption DEF TypeInv, QueueOK, QueueTypeOK, WorkerTypeOK

\* What a step other than a claim does to a row: no attempt, no owner.
RowStays(j) ==
  /\ row'[j].attempts = row[j].attempts
  /\ row'[j].lockedBy \in Slots => row'[j].lockedBy = row[j].lockedBy
  /\ row'[j].status = "absent" => row[j].status = "absent"

\* What it does to a slot: the slot goes on with what it loaded, or lets go, or
\* loads what the row says.
SlotStays(s) ==
  \/ UNCHANGED <<pc[s], task[s], snap[s]>>
  \/ task'[s] = NoJob
  \/ pc[s] # "claimed" /\ pc'[s] # "claimed" /\ UNCHANGED <<task[s], snap[s]>>
  \/ /\ pc[s] = "claimed" /\ pc'[s] # "claimed" /\ UNCHANGED <<task[s], row>>
     /\ snap'[s].owned => row[task[s]].lockedBy = s
     /\ snap'[s].attempts = row[task[s]].attempts

\* Then no slot holds an attempt it did not hold.
LEMMA HoldsKept ==
  ASSUME NEW s \in Slots, NEW j \in Jobs, NEW n, RowStays(j), SlotStays(s), Holds(s, j, n)'
  PROVE  Holds(s, j, n)
  BY WorkerAssumption DEF RowStays, SlotStays, Holds

\* What may return is a finite set of attempts, none beyond the last.
LEMMA ReturnsFinite ==
  ASSUME StallInv, NEW j \in Jobs
  PROVE  /\ IsFiniteSet(MayReturn(j))
         /\ Cardinality(MayReturn(j)) \in Nat
         /\ Cardinality(MayReturn(j)) <= MaxAttempts - 1
<1>1. MaxAttempts \in Nat \ {0}
  BY StallTypes DEF StallInv
<1>2. IsFiniteSet(1..MaxAttempts - 1) /\ Cardinality(1..MaxAttempts - 1) = MaxAttempts - 1
  BY <1>1, FS_Interval
<1>3. MayReturn(j) \in SUBSET (1..MaxAttempts - 1)
  BY DEF MayReturn
<1> QED
  BY <1>2, <1>3, FS_Subset, FS_CardinalityType

-----------------------------------------------------------------------------
\* A step that gives no attempt keeps them apart.
LEMMA ApartKept ==
  ASSUME StallInv, \A j \in Jobs : RowStays(j), \A s \in Slots : SlotStays(s)
  PROVE  AttemptsApart' /\ NoneBefore' /\ \A j \in Jobs : MayReturn(j)' \subseteq MayReturn(j)
<1>1. AttemptsApart'
  BY HoldsKept DEF StallInv, AttemptsApart, RowStays
<1>2. NoneBefore'
  BY DEF StallInv, NoneBefore, RowStays
<1>3. \A j \in Jobs : MayReturn(j)' \subseteq MayReturn(j)
  BY HoldsKept DEF MayReturn
<1> QED
  BY <1>1, <1>2, <1>3

\* One that queues no job whose attempts are used up keeps the count.
LEMMA QuietKeeps ==
  ASSUME StallInv, TypeInv', \A j \in Jobs : RowStays(j), \A s \in Slots : SlotStays(s),
         \A j \in Jobs : row'[j].status = "queued" =>
           row[j].status = "queued" \/ row[j].attempts < MaxAttempts
  PROVE  StallInv'
<1>1. AttemptsApart' /\ NoneBefore' /\ \A j \in Jobs : MayReturn(j)' \subseteq MayReturn(j)
  BY ApartKept
<1>2. ASSUME NEW j \in Jobs, row'[j].attempts >= MaxAttempts
      PROVE  row'[j].attempts + Cardinality(MayReturn(j)') <=
               IF row'[j].status = "queued" THEN 2 * MaxAttempts - 2 ELSE 2 * MaxAttempts - 1
  <2>1. /\ Cardinality(MayReturn(j)') <= Cardinality(MayReturn(j))
        /\ Cardinality(MayReturn(j)') \in Nat /\ Cardinality(MayReturn(j)) \in Nat
    BY <1>1, ReturnsFinite, FS_Subset, FS_CardinalityType
  <2>2. row'[j].attempts = row[j].attempts /\ row[j].attempts \in Nat /\ MaxAttempts \in Nat
    BY StallTypes DEF StallInv, RowStays, Row
  <2>3. row'[j].status = "queued" => row[j].status = "queued"
    BY <1>2, <2>2
  <2>4. row[j].attempts + Cardinality(MayReturn(j)) <=
          IF row[j].status = "queued" THEN 2 * MaxAttempts - 2 ELSE 2 * MaxAttempts - 1
    BY <1>2, <2>2 DEF StallInv, Paid
  <2> QED
    BY <2>1, <2>2, <2>3, <2>4
<1> QED
  BY <1>1, <1>2 DEF StallInv, Paid

\* A requeue spends the attempt of its slot, which no other slot holds.
LEMMA RequeueKeeps ==
  ASSUME StallInv, TypeInv', NEW s \in Slots, Requeue(s),
         \A j \in Jobs : RowStays(j), \A t \in Slots : SlotStays(t)
  PROVE  StallInv'
<1>1. AttemptsApart' /\ NoneBefore' /\ \A j \in Jobs : MayReturn(j)' \subseteq MayReturn(j)
  BY ApartKept
<1>2. PICK i \in Jobs, n \in Nat :
        i = task[s] /\ Holds(s, i, n) /\ n < MaxAttempts /\ task'[s] = NoJob
  BY TaskIsJob, StallTypes DEF Requeue, MayRetry, StallInv, Holds, Snapshot, Release
<1>3. n \in MayReturn(i)
  BY <1>2, StallTypes DEF MayReturn, StallInv, AttemptsApart
<1>4. MayReturn(i)' \subseteq MayReturn(i) \ {n}
  <2>1. ASSUME NEW t \in Slots, Holds(t, i, n)' PROVE FALSE
    <3>1. Holds(t, i, n)
      BY <1>2, <2>1, HoldsKept
    <3>2. t = s
      BY <1>2, <3>1 DEF StallInv, AttemptsApart
    <3> QED
      BY <1>2, <2>1, <3>2, WorkerAssumption DEF Holds
  <2> QED
    BY <1>1, <1>2, <2>1 DEF MayReturn
<1>5. ASSUME NEW j \in Jobs, row'[j].attempts >= MaxAttempts
      PROVE  row'[j].attempts + Cardinality(MayReturn(j)') <=
               IF row'[j].status = "queued" THEN 2 * MaxAttempts - 2 ELSE 2 * MaxAttempts - 1
  <2>1. /\ Cardinality(MayReturn(j)') <= Cardinality(MayReturn(j))
        /\ Cardinality(MayReturn(j)') \in Nat /\ Cardinality(MayReturn(j)) \in Nat
    BY <1>1, ReturnsFinite, FS_Subset, FS_CardinalityType
  <2>2. row'[j].attempts = row[j].attempts /\ row[j].attempts \in Nat /\ MaxAttempts \in Nat
    BY StallTypes DEF StallInv, RowStays, Row
  <2>3. row[j].attempts + Cardinality(MayReturn(j)) <=
          IF row[j].status = "queued" THEN 2 * MaxAttempts - 2 ELSE 2 * MaxAttempts - 1
    BY <1>5, <2>2 DEF StallInv, Paid
  <2>4. CASE j = i
    <3>1. Cardinality(MayReturn(i)') <= Cardinality(MayReturn(i)) - 1
      <4>1. IsFiniteSet(MayReturn(i))
        BY <1>2, ReturnsFinite
      <4>2. /\ IsFiniteSet(MayReturn(i) \ {n})
            /\ Cardinality(MayReturn(i) \ {n}) = Cardinality(MayReturn(i)) - 1
        BY <1>3, <4>1, FS_RemoveElement
      <4>3. MayReturn(i)' \in SUBSET (MayReturn(i) \ {n})
        BY <1>4
      <4>4. Cardinality(MayReturn(i)') <= Cardinality(MayReturn(i) \ {n})
        BY <4>2, <4>3, FS_Subset
      <4> QED
        BY <4>2, <4>4
    <3> QED
      BY <2>1, <2>2, <2>3, <2>4, <3>1
  <2>5. CASE j # i
    <3>1. row'[j].status = row[j].status
      BY <1>2, <2>5, StallTypes DEF StallInv, Requeue, FailJob, Write
    <3> QED
      BY <2>1, <2>2, <2>3, <3>1
  <2> QED
    BY <2>4, <2>5
<1> QED
  BY <1>1, <1>5 DEF StallInv, Paid

\* A claim gives an attempt that nobody holds.
LEMMA ClaimKeeps ==
  ASSUME StallInv, TypeInv', NEW s \in Slots, Claim(s)
  PROVE  StallInv'
<1> PICK i \in Jobs : ClaimJob(s, i, Held) /\ task' = [task EXCEPT ![s] = i]
  BY DEF Claim
<1>1. /\ row \in [Jobs -> Row] /\ pc \in [Slots -> PC] /\ MaxAttempts \in Nat \ {0}
      /\ task \in [Slots -> Jobs \cup {NoJob}]
  BY StallTypes DEF StallInv
<1>2. /\ pc[s] = "idle" /\ pc'[s] = "claimed" /\ task'[s] = i /\ UNCHANGED snap
      /\ \A t \in Slots \ {s} : UNCHANGED <<pc[t], task[t]>>
  BY <1>1 DEF Claim, Goto
<1>3. /\ row[i].status = "queued" /\ row'[i].status = "running" /\ row'[i].lockedBy = s
      /\ row'[i].attempts = row[i].attempts + 1
      /\ \A j \in Jobs \ {i} : row'[j] = row[j]
  BY <1>1 DEF ClaimJob, IsNext, Ready, Write, Row
<1>4. \A j \in Jobs : row[j].attempts \in Nat
  BY <1>1 DEF Row
<1>5. ASSUME NEW t \in Slots, NEW j \in Jobs, NEW n \in Nat, Holds(t, j, n)'
      PROVE  \/ t = s /\ j = i /\ n = row[i].attempts + 1
             \/ t # s /\ Holds(t, j, n)
  BY <1>2, <1>3, <1>5 DEF Holds
<1>6. AttemptsApart'
  <2> SUFFICES ASSUME NEW t \in Slots, NEW j \in Jobs, NEW n \in Nat, Holds(t, j, n)'
               PROVE  /\ 1 <= n /\ n <= row'[j].attempts
                      /\ \A u \in Slots : Holds(u, j, n)' => t = u
    BY DEF AttemptsApart
  <2>1. \A u \in Slots : Holds(u, j, n) => n <= row[j].attempts /\ 1 <= n
    BY DEF StallInv, AttemptsApart
  <2>2. \A u \in Slots : Holds(u, j, n)' => (t = s <=> u = s)
    BY <1>4, <1>5, <2>1
  <2>3. \A u \in Slots : Holds(u, j, n)' => t = u
    BY <1>5, <2>2 DEF StallInv, AttemptsApart
  <2> QED
    BY <1>3, <1>4, <1>5, <2>1, <2>3
<1>7. NoneBefore'
  BY <1>3 DEF StallInv, NoneBefore
<1>8. ASSUME NEW j \in Jobs, row'[j].attempts >= MaxAttempts
      PROVE  row'[j].attempts + Cardinality(MayReturn(j)') <=
               IF row'[j].status = "queued" THEN 2 * MaxAttempts - 2 ELSE 2 * MaxAttempts - 1
  <2>1. /\ IsFiniteSet(MayReturn(j)) /\ Cardinality(MayReturn(j)) \in Nat
        /\ Cardinality(MayReturn(j)) <= MaxAttempts - 1
    BY ReturnsFinite
  <2>2. row[j].attempts >= MaxAttempts =>
          row[j].attempts + Cardinality(MayReturn(j)) <=
            IF row[j].status = "queued" THEN 2 * MaxAttempts - 2 ELSE 2 * MaxAttempts - 1
    BY DEF StallInv, Paid
  <2>3. CASE j # i \/ row[i].attempts >= MaxAttempts
    <3>1. MayReturn(j)' \in SUBSET MayReturn(j)
      BY <1>1, <1>4, <1>5, <2>3 DEF MayReturn
    <3>2. Cardinality(MayReturn(j)') <= Cardinality(MayReturn(j)) /\ Cardinality(MayReturn(j)') \in Nat
      BY <2>1, <3>1, FS_Subset, FS_CardinalityType
    <3> QED
      BY <1>1, <1>3, <1>4, <1>8, <2>1, <2>2, <2>3, <3>2
  <2>4. CASE j = i /\ row[i].attempts < MaxAttempts
    <3>1. row'[j].attempts = MaxAttempts /\ row'[j].status = "running"
      BY <1>1, <1>3, <1>4, <1>8, <2>4
    <3>2. IsFiniteSet(1..MaxAttempts - 1) /\ Cardinality(1..MaxAttempts - 1) = MaxAttempts - 1
      BY <1>1, FS_Interval
    <3>3. MayReturn(j)' \in SUBSET (1..MaxAttempts - 1)
      BY DEF MayReturn
    <3>4. Cardinality(MayReturn(j)') \in Nat /\ Cardinality(MayReturn(j)') <= MaxAttempts - 1
      BY <3>2, <3>3, FS_Subset, FS_CardinalityType
    <3> QED
      BY <1>1, <3>1, <3>4
  <2> QED
    BY <1>1, <1>4, <2>3, <2>4
<1> QED
  BY <1>6, <1>7, <1>8 DEF StallInv, Paid

-----------------------------------------------------------------------------
\* What a step other than a claim leaves of rows and slots.
Stays == (\A j \in Jobs : RowStays(j)) /\ \A s \in Slots : SlotStays(s)

\* That it queues no job whose attempts are used up.
QueuesFresh ==
  \A j \in Jobs : row'[j].status = "queued" =>
    row[j].status = "queued" \/ row[j].attempts < MaxAttempts

\* The actors that are no slots.
LEMMA EnvironmentStays ==
  ASSUME StallInv,
         \/ \E j \in Jobs : Api(j) \/ Clock(j)
         \/ \E w \in Workers : Process(w)
         \/ Reap
         \/ UNCHANGED vars
  PROVE  Stays /\ QueuesFresh
<1> /\ row \in [Jobs -> Row] /\ MaxAttempts \in Nat \ {0}
    /\ \A j \in Jobs : row[j].status = "absent" => row[j].attempts = 0
  BY StallTypes DEF StallInv, NoneBefore
<1>1. \A s \in Slots : SlotStays(s)
  <2>1. CASE UNCHANGED slotVars
    BY <2>1 DEF slotVars, SlotStays
  <2>2. ASSUME NEW w \in Workers, Gone(w) PROVE \A s \in Slots : SlotStays(s)
    BY <2>2 DEF Gone, SlotsOf, SlotStays
  <2> QED
    BY <2>1, <2>2 DEF Api, Submit, AbandonUpload, Cancel, DeleteFromHistory, DeleteProject, Clock,
       Lapse, Due, Process, Drain, Restart, Stop, Crash, Reap, vars
<1> DEFINE Good == (\A j \in Jobs : RowStays(j)) /\ QueuesFresh
<1>2. ASSUME UNCHANGED row PROVE Good
  BY <1>2 DEF RowStays, QueuesFresh
<1>3. ASSUME NEW i \in Jobs, Api(i) PROVE Good
  <2>1. CASE Submit(i)
    BY <2>1 DEF Submit, Enqueue, Write, RowStays, QueuesFresh, Row
  <2>2. CASE CancelJob(i)
    BY <2>2 DEF CancelJob, Write, RowStays, QueuesFresh, Row
  <2>3. CASE row' = [row EXCEPT ![i].deleted = TRUE]
    BY <2>3 DEF RowStays, QueuesFresh, Row
  <2> QED
    BY <1>2, <1>3, <2>1, <2>2, <2>3 DEF Api, AbandonUpload, Cancel, DeleteFromHistory,
       DeleteProject, queueVars
<1>4. ASSUME NEW i \in Jobs, Clock(i) PROVE Good
  BY <1>4 DEF Clock, Lapse, LeaseExpires, Due, BecomeDue, Write, RowStays, QueuesFresh, Row
<1>5. ASSUME Reap PROVE Good
  <2>1. ASSUME NEW j \in Jobs
        PROVE  /\ row'[j].attempts = row[j].attempts
               /\ row'[j].lockedBy = row[j].lockedBy \/ row'[j].lockedBy = Nobody
               /\ \/ row'[j].status = row[j].status
                  \/ row'[j].status = "failed"
                  \/ row'[j].status = "queued" /\ row[j].attempts < MaxAttempts
    <3>1. PICK S \in SUBSET Jobs : S = Expired
      BY DEF Expired
    <3> DEFINE requeued == {k \in S : row[k].attempts < MaxAttempts}
    <3>2. /\ row'[j].attempts = row[j].attempts
          /\ row'[j].lockedBy = row[j].lockedBy \/ row'[j].lockedBy = Nobody
          /\ row'[j].status = IF j \in requeued THEN "queued"
                              ELSE IF j \in S THEN "failed" ELSE row[j].status
      BY <1>5, <3>1 DEF Reap, ReapExpiredLeases, Row
    <3> QED
      BY <3>2
  <2> QED
    BY <2>1, QueueAssumption DEF RowStays, QueuesFresh
<1>6. ASSUME NEW w \in Workers, Process(w) PROVE Good
  <2>1. CASE Orphan(SlotsOf(w))
    <3>1. ASSUME NEW j \in Jobs
          PROVE  row'[j] = row[j] \/ row'[j] = [row[j] EXCEPT !.lockedBy = Ghost]
      BY <2>1 DEF Orphan
    <3>2. ASSUME NEW j \in Jobs
          PROVE  /\ row'[j].attempts = row[j].attempts /\ row'[j].status = row[j].status
                 /\ row'[j].lockedBy = row[j].lockedBy \/ row'[j].lockedBy = Ghost
      <4>1. row[j] \in Row
        OBVIOUS
      <4> QED
        BY <3>1, <4>1 DEF Row
    <3> QED
      BY <3>2, QueueAssumption DEF RowStays, QueuesFresh
  <2> QED
    BY <1>2, <1>6, <2>1 DEF Process, Drain, Stop, Crash, Restart, Gone, queueVars
<1> QED
  BY <1>1, <1>2, <1>3, <1>4, <1>5, <1>6 DEF Stays, vars, queueVars

\* A slot that stays with its job, or lets go of it.
LEMMA SlotFrameStays ==
  ASSUME StallInv, NEW s \in Slots,
         \/ /\ pc[s] # "idle" /\ pc[s] # "claimed"
            /\ \E label \in PC \ {"claimed"} : Goto(s, label)
            /\ UNCHANGED <<task, snap>>
         \/ Release(s)
         \/ Load(s)
  PROVE  \A t \in Slots : SlotStays(t)
<1> /\ pc \in [Slots -> PC] /\ task \in [Slots -> Jobs \cup {NoJob}] /\ snap \in [Slots -> Snapshot]
  BY StallTypes DEF StallInv
<1>1. CASE Release(s)
  BY <1>1 DEF Release, Goto, SlotStays
<1>2. CASE Load(s)
  <2>1. task[s] \in Jobs
    BY <1>2, TaskIsJob DEF Load, StallInv
  <2>2. snap'[s].owned = (row[task[s]].lockedBy = s) /\ snap'[s].attempts = row[task[s]].attempts
    BY <1>2 DEF Load
  <2> QED
    BY <1>2, <2>1, <2>2 DEF Load, Goto, SlotStays, queueVars
<1>3. ASSUME NEW label \in PC \ {"claimed"}, Goto(s, label), pc[s] # "claimed", UNCHANGED <<task, snap>>
      PROVE  \A t \in Slots : SlotStays(t)
  BY <1>3 DEF Goto, SlotStays
<1> QED
  BY <1>1, <1>2, <1>3

\* The steps of a slot after its claim.
LEMMA SlotStepStays ==
  ASSUME StallInv, NEW s \in Slots, SlotStep(s) \/ SessionFails(s)
  PROVE  Stays /\ (QueuesFresh \/ Requeue(s))
<1> row \in [Jobs -> Row]
  BY StallTypes DEF StallInv
<1>1. \A t \in Slots : SlotStays(t)
  <2>1. CASE Load(s) \/ Release(s)
    BY <2>1, SlotFrameStays
  <2>2. CASE /\ pc[s] # "idle" /\ pc[s] # "claimed" /\ UNCHANGED <<task, snap>>
             /\ \E label \in PC \ {"claimed"} : Goto(s, label)
    BY <2>2, SlotFrameStays
  <2> QED
    BY <2>1, <2>2 DEF SlotStep, Prepare, Fetch, Scan, List, Loop, Generate, Persist, Requeue, Fail,
       NotifyFailure, CommitFailure, Complete, NotifySuccess, SessionFails, Abandon, End, PC
<1> DEFINE Rows == \A j \in Jobs : RowStays(j)
<1>2. CASE UNCHANGED row
  BY <1>1, <1>2 DEF Stays, RowStays, QueuesFresh
<1>3. CASE Prepare(s) \/ Fetch(s) \/ Loop(s)
  <2>1. Rows /\ QueuesFresh
    BY <1>3 DEF Prepare, Fetch, Loop, Heartbeat, Write, RowStays, QueuesFresh, Row
  <2> QED
    BY <1>1, <2>1 DEF Stays
<1>4. ASSUME NEW i \in Jobs, NEW status \in {"queued", "failed"},
             row' = [row EXCEPT ![i] = [row[i] EXCEPT !.status = status, !.lockedBy = Nobody,
                                                      !.lease = "none", !.due = FALSE]]
      PROVE  Rows /\ (status = "failed" => QueuesFresh)
  BY <1>4, QueueAssumption DEF RowStays, QueuesFresh, Row
<1>5. CASE Requeue(s)
  <2>1. Rows
    <3>1. task[s] \in Jobs
      BY <1>5, TaskIsJob DEF Requeue, StallInv
    <3> QED
      BY <1>4, <1>5, <3>1 DEF Requeue, FailJob, Write
  <2> QED
    BY <1>1, <1>5, <2>1 DEF Stays
<1>6. CASE CommitFailure(s) /\ ~UNCHANGED row
  <2>1. Rows /\ QueuesFresh
    <3>1. task[s] \in Jobs
      BY <1>6, TaskIsJob DEF CommitFailure, StallInv
    <3> QED
      BY <1>4, <1>6, <3>1 DEF CommitFailure, FailJob, Write, queueVars
  <2> QED
    BY <1>1, <2>1 DEF Stays
<1>7. CASE Complete(s) /\ ~UNCHANGED row
  <2>1. row' = [row EXCEPT ![task[s]] = [row[task[s]] EXCEPT !.status = "succeeded", !.lease = "none"]]
    BY <1>7 DEF Complete, CompleteJob, Write
  <2>2. Rows /\ QueuesFresh
    BY <2>1 DEF RowStays, QueuesFresh, Row
  <2> QED
    BY <1>1, <2>2 DEF Stays
<1> QED
  BY <1>2, <1>3, <1>5, <1>6, <1>7 DEF SlotStep, Load, Scan, List, Generate, Persist, Abandon, Fail,
     NotifyFailure, NotifySuccess, SessionFails, queueVars

\* StallInv holds in every reachable state, wherever slots stall.
LEMMA StallInvariant == Spec => []StallInv
<1>1. Init => StallInv
  <2> SUFFICES ASSUME Init PROVE AttemptsApart /\ Paid /\ NoneBefore
    BY TypeInit DEF StallInv
  <2>1. \A j \in Jobs : row[j].attempts = 0
    BY DEF Init, QueueInit, NoRow
  <2>2. \A s \in Slots, j \in Jobs, n \in Nat : ~Holds(s, j, n)
    BY WorkerAssumption DEF Init, WorkerInit, Holds
  <2> QED
    BY <2>1, <2>2, QueueAssumption DEF AttemptsApart, Paid, NoneBefore
<1>2. StallInv /\ [Next]_vars => StallInv'
  <2> SUFFICES ASSUME StallInv, [Next]_vars PROVE StallInv'
    OBVIOUS
  <2>1. TypeInv'
    BY TypeStep DEF StallInv
  <2>2. ASSUME Stays, QueuesFresh PROVE StallInv'
    BY <2>1, <2>2, QuietKeeps DEF Stays, QueuesFresh
  <2>3. ASSUME NEW s \in Slots, SlotStep(s) \/ SessionFails(s) PROVE StallInv'
    BY <2>1, <2>2, <2>3, SlotStepStays, RequeueKeeps DEF Stays
  <2> QED
    BY <2>1, <2>2, <2>3, EnvironmentStays, ClaimKeeps DEF Next, Slot
<1> QED
  BY <1>1, <1>2, PTL DEF Spec

\* Wherever slots outlive their leases, fail_job requeues a job beyond its last
\* attempt at most once for each of the attempts before that one.
THEOREM AttemptsBoundedAnyway == Spec => []AttemptsBoundedUnderStall
<1>1. StallInv => AttemptsBoundedUnderStall
  <2> SUFFICES ASSUME StallInv, NEW j \in Jobs PROVE row[j].attempts <= 2 * MaxAttempts - 1
    BY DEF AttemptsBoundedUnderStall
  <2>1. row[j].attempts \in Nat /\ MaxAttempts \in Nat \ {0} /\ Cardinality(MayReturn(j)) \in Nat
    BY StallTypes, ReturnsFinite DEF StallInv, Row
  <2>2. row[j].attempts >= MaxAttempts =>
          row[j].attempts + Cardinality(MayReturn(j)) <=
            IF row[j].status = "queued" THEN 2 * MaxAttempts - 2 ELSE 2 * MaxAttempts - 1
    BY DEF StallInv, Paid
  <2> QED
    BY <2>1, <2>2
<1> QED
  BY <1>1, StallInvariant, PTL
-----------------------------------------------------------------------------
(***************************************************************************)
(* Ownership: who executes what when no slot outlives its lease.           *)
(* OwnershipIsCurrent carries the argument.  It is inductive with the      *)
(* types and two facts about rows: a queued job has an attempt left, and   *)
(* only a job that is over can be deleted.                                 *)
(***************************************************************************)
BudgetKept ==
  \A j \in Jobs : /\ row[j].attempts <= MaxAttempts
                  /\ row[j].status = "queued" => row[j].attempts < MaxAttempts
                  /\ row[j].status = "absent" => row[j].attempts = 0

DeletedIsOver == \A j \in Jobs : row[j].deleted => row[j].status \in Terminal

OwnInv == TypeInv /\ OwnershipIsCurrent /\ BudgetKept /\ DeletedIsOver

\* Where one step can take a row.
Moves(j, from, to) == row[j].status = from /\ row'[j].status = to

Advances(j) ==
  \/ /\ row'[j].status = row[j].status /\ row'[j].attempts = row[j].attempts
     /\ row'[j].deleted = row[j].deleted \/ row[j].status \in Terminal
  \/ /\ row'[j].attempts = row[j].attempts /\ row'[j].deleted = row[j].deleted
     /\ \/ Moves(j, "absent", "queued") \/ Moves(j, "queued", "cancelled")
        \/ Moves(j, "running", "succeeded") \/ Moves(j, "running", "failed")
        \/ Moves(j, "running", "queued") /\ row[j].attempts < MaxAttempts
  \/ /\ Moves(j, "queued", "running")
     /\ row'[j].attempts = row[j].attempts + 1 /\ row'[j].deleted = row[j].deleted

-----------------------------------------------------------------------------
\* The types the proofs below need most.
LEMMA TypesNow ==
  ASSUME OwnInv
  PROVE  /\ row \in [Jobs -> Row] /\ pc \in [Slots -> PC]
         /\ task \in [Slots -> Jobs \cup {NoJob}] /\ snap \in [Slots -> Snapshot]
  BY DEF OwnInv, TypeInv, QueueOK, QueueTypeOK, WorkerTypeOK

\* The slot that is about to write a verdict owns the job.
LEMMA OwnerWrites ==
  ASSUME OwnInv, NEW s \in Slots, pc[s] \notin {"idle", "announce"}
  PROVE  task[s] \in Jobs /\ Executing(s, task[s]) /\ Owns(s, task[s])
  BY TaskIsJob DEF OwnInv, OwnershipIsCurrent, Executing

\* No step takes a row anywhere else.
LEMMA RowAdvances ==
  ASSUME OwnInv, Next, NEW j \in Jobs
  PROVE  Advances(j)
<1> row \in [Jobs -> Row]
  BY TypesNow
<1>1. ASSUME NEW i \in Jobs, Api(i) PROVE Advances(j)
  <2>1. CASE UNCHANGED row
    BY <2>1 DEF Advances
  <2>2. CASE Submit(i)
    BY <2>2 DEF Submit, Enqueue, Write, Advances, Moves, Row
  <2>3. CASE CancelJob(i)
    BY <2>3 DEF CancelJob, Write, Advances, Moves, Row
  <2>4. CASE row[i].status \in Terminal /\ row' = [row EXCEPT ![i].deleted = TRUE]
    BY <2>4 DEF Advances, Row
  <2> QED
    BY <1>1, <2>1, <2>2, <2>3, <2>4 DEF Api, AbandonUpload, Cancel, DeleteFromHistory,
       DeleteProject, queueVars
<1>2. ASSUME NEW i \in Jobs, Clock(i) PROVE Advances(j)
  BY <1>2 DEF Clock, Lapse, LeaseExpires, Due, BecomeDue, Write, Advances, Row
<1>3. CASE Reap
  BY <1>3 DEF Reap, ReapExpiredLeases, Expired, Advances, Moves, Row
<1>4. ASSUME NEW w \in Workers, Process(w) PROVE Advances(j)
  BY <1>4 DEF Process, Drain, Stop, Crash, Restart, Gone, Orphan, queueVars, Advances, Row
<1>5. ASSUME NEW s \in Slots, Claim(s) PROVE Advances(j)
  BY <1>5 DEF Claim, ClaimJob, IsNext, Ready, Write, Advances, Moves, Row
<1>6. ASSUME NEW s \in Slots, SlotStep(s) PROVE Advances(j)
  <2>1. CASE UNCHANGED row
    BY <2>1 DEF Advances
  <2>2. CASE Prepare(s) \/ Fetch(s) \/ Loop(s)
    BY <2>2 DEF Prepare, Fetch, Loop, Heartbeat, Write, Advances, Row
  <2>3. CASE Requeue(s)
    BY <2>3, OwnerWrites DEF Requeue, FailJob, MayRetry, Owns, Write, Advances, Moves, Row
  <2>4. CASE CommitFailure(s)
    <3>1. row[task[s]].status = "running"
      BY <2>4, OwnerWrites DEF CommitFailure, Owns
    <3>2. CASE FailJob(task[s], FALSE)
      BY <3>1, <3>2 DEF FailJob, Write, Advances, Moves, Row
    <3> QED
      BY <2>1, <2>4, <3>2 DEF CommitFailure, queueVars
  <2>5. CASE Complete(s)
    <3>1. row[task[s]].status = "running"
      BY <2>5, OwnerWrites DEF Complete, Owns
    <3>2. Write(task[s], [row[task[s]] EXCEPT !.status = "succeeded", !.lease = "none"])
      BY <2>5, OwnerWrites DEF Complete, CompleteJob, Owns
    <3> QED
      BY <3>1, <3>2 DEF Write, Advances, Moves, Row
  <2> QED
    BY <1>6, <2>1, <2>2, <2>3, <2>4, <2>5 DEF SlotStep, Load, Scan, List, Generate, Persist, Abandon,
       Fail, NotifyFailure, NotifySuccess, queueVars
<1>7. ASSUME NEW s \in Slots, SessionFails(s) PROVE Advances(j)
  BY <1>7 DEF SessionFails, Abandon, queueVars, Advances
<1> QED
  BY <1>1, <1>2, <1>3, <1>4, <1>5, <1>6, <1>7 DEF Next, Slot

-----------------------------------------------------------------------------
\* An executor keeps what it owns through a step that touches neither its
\* locals nor the row, whoever takes it.
LEMMA OwnsKept ==
  ASSUME OwnInv, NEW s \in Slots, NEW j \in Jobs, Executing(s, j), row'[j] = row[j],
         UNCHANGED <<pc[s], snap[s]>>
  PROVE  Owns(s, j)'
  BY DEF OwnInv, OwnershipIsCurrent, Owns

\* ... and when it renews the lease itself.
LEMMA OwnsRenewed ==
  ASSUME OwnInv, NEW s \in Slots, NEW j \in Jobs, Executing(s, j),
         row'[j] = row[j] \/ row'[j] = [row[j] EXCEPT !.lease = "live"],
         pc[s] # "claimed", UNCHANGED snap[s]
  PROVE  Owns(s, j)'
<1> row[j] \in Row /\ Owns(s, j)
  BY DEF OwnInv, OwnershipIsCurrent, TypeInv, QueueOK, QueueTypeOK
<1> QED
  BY DEF Owns, Row

\* No handler of the API touches a row that is running.
LEMMA ApiOwns ==
  ASSUME OwnInv, NEW i \in Jobs, Api(i)
  PROVE  OwnershipIsCurrent'
<1> SUFFICES ASSUME NEW s \in Slots, NEW j \in Jobs, Executing(s, j)' PROVE Owns(s, j)'
  BY DEF OwnershipIsCurrent
<1>1. UNCHANGED slotVars /\ Executing(s, j)
  BY DEF Api, Submit, AbandonUpload, Cancel, DeleteFromHistory, DeleteProject, Executing, slotVars
<1>2. row[j].status = "running"
  BY <1>1 DEF OwnInv, OwnershipIsCurrent, Owns
<1>3. row'[j] = row[j]
  <2>1. CASE Submit(i)
    BY <1>2, <2>1, TypesNow DEF Submit, Enqueue, Write
  <2>2. CASE Cancel(i)
    BY <1>2, <2>2, TypesNow DEF Cancel, CancelJob, queueVars, Write
  <2>3. CASE DeleteFromHistory(i)
    BY <1>2, <2>3, TypesNow DEF DeleteFromHistory, Terminal
  <2> QED
    BY <2>1, <2>2, <2>3 DEF Api, AbandonUpload, DeleteProject, queueVars
<1> QED
  BY <1>1, <1>3, OwnsKept DEF slotVars

\* Without stalls a lease only runs out where nobody executes; the reaper only
\* takes what has run out.
LEMMA ClockOwns ==
  ASSUME Stalls = {}, OwnInv, Reap \/ \E i \in Jobs : Clock(i)
  PROVE  OwnershipIsCurrent'
<1> SUFFICES ASSUME NEW s \in Slots, NEW j \in Jobs, Executing(s, j)' PROVE Owns(s, j)'
  BY DEF OwnershipIsCurrent
<1>1. UNCHANGED slotVars /\ Executing(s, j)
  BY DEF Clock, Lapse, Due, Reap, Executing, slotVars
<1>2. row[j].status = "running" /\ row[j].lockedBy = s /\ row[j].lease = "live"
  BY <1>1 DEF OwnInv, OwnershipIsCurrent, Owns
<1>3. row'[j] = row[j]
  <2>1. CASE Reap
    BY <1>2, <2>1 DEF Reap, ReapExpiredLeases, Expired
  <2>2. ASSUME NEW i \in Jobs, Lapse(i) PROVE row'[j] = row[j]
    BY <1>1, <2>2, <1>2 DEF Lapse, LeaseExpires, Write
  <2>3. ASSUME NEW i \in Jobs, Due(i) PROVE row'[j] = row[j]
    BY <2>3, <1>2 DEF Due, BecomeDue, Write
  <2> QED
    BY <2>1, <2>2, <2>3 DEF Clock
<1> QED
  BY <1>1, <1>3, OwnsKept DEF slotVars

\* A process that is gone executes nothing, and takes no other slot along.
LEMMA ProcessOwns ==
  ASSUME OwnInv, NEW w \in Workers, Process(w)
  PROVE  OwnershipIsCurrent'
<1> SUFFICES ASSUME NEW s \in Slots, NEW j \in Jobs, Executing(s, j)' PROVE Owns(s, j)'
  BY DEF OwnershipIsCurrent
<1>1. CASE UNCHANGED <<queueVars, slotVars>>
  BY <1>1, OwnsKept DEF slotVars, queueVars, Executing
<1>2. CASE Gone(w)
  <2>1. s \notin SlotsOf(w)
    BY <1>2, WorkerAssumption DEF Gone, Executing
  <2>2. Executing(s, j) /\ UNCHANGED <<pc[s], snap[s]>>
    BY <1>2, <2>1 DEF Gone, Executing
  <2>3. row'[j] = row[j]
    BY <1>2, <2>1, <2>2 DEF Gone, Orphan, OwnInv, OwnershipIsCurrent, Owns
  <2> QED
    BY <2>2, <2>3, OwnsKept
<1> QED
  BY <1>1, <1>2 DEF Process, Drain, Stop, Crash, Restart

\* What a step of slot s leaves alone: the other slots, the rows of other jobs.
SlotFrame(s) ==
  /\ \A t \in Slots \ {s} : UNCHANGED <<pc[t], task[t], snap[t]>>
  /\ \A j \in Jobs \ {task[s]} : row'[j] = row[j]

\* A step of slot s on its own row leaves the other slots what they own.
LEMMA FrameOwns ==
  ASSUME OwnInv, NEW s \in Slots, SlotFrame(s), UNCHANGED row \/ Executing(s, task[s]),
         NEW t \in Slots \ {s}, NEW j \in Jobs, Executing(t, j)'
  PROVE  Owns(t, j)'
<1>1. UNCHANGED <<pc[t], task[t], snap[t]>> /\ Executing(t, j)
  BY DEF SlotFrame, Executing
<1>2. row'[j] = row[j]
  BY <1>1 DEF SlotFrame, OwnInv, OwnershipIsCurrent, Owns
<1> QED
  BY <1>1, <1>2, OwnsKept

\* claim_job hands out a queued row, which no slot executes.
LEMMA ClaimOwns ==
  ASSUME OwnInv, NEW s \in Slots, Claim(s)
  PROVE  OwnershipIsCurrent'
<1> SUFFICES ASSUME NEW t \in Slots, NEW j \in Jobs, Executing(t, j)' PROVE Owns(t, j)'
  BY DEF OwnershipIsCurrent
<1> PICK i \in Jobs : ClaimJob(s, i, Held) /\ task' = [task EXCEPT ![s] = i]
  BY DEF Claim
<1>1. row[i].status = "queued"
  BY DEF ClaimJob, IsNext, Ready
<1> /\ row \in [Jobs -> Row] /\ pc \in [Slots -> PC]
    /\ task \in [Slots -> Jobs \cup {NoJob}] /\ snap \in [Slots -> Snapshot]
  BY TypesNow
<1>2. CASE t = s
  <2>1. j = i /\ pc'[s] = "claimed"
    BY <1>2 DEF Claim, Goto, Executing
  <2> QED
    BY <1>1, <1>2, <2>1 DEF ClaimJob, Write, Owns, Row, OwnInv, DeletedIsOver, Terminal
<1>3. CASE t # s
  <2>1. UNCHANGED <<pc[t], snap[t]>> /\ Executing(t, j)
    BY <1>3 DEF Claim, Goto, Executing
  <2>2. row'[j] = row[j]
    BY <1>1, <2>1 DEF ClaimJob, Write, OwnInv, OwnershipIsCurrent, Owns
  <2> QED
    BY <2>1, <2>2, OwnsKept
<1> QED
  BY <1>2, <1>3

\* What a step of a slot that has a job does to the rest.
SlotEffect(s) ==
  /\ SlotFrame(s)
  /\ UNCHANGED row \/ Executing(s, task[s])
  /\ \/ task'[s] = NoJob
     \/ pc'[s] = "announce"
     \/ Load(s)
     \/ /\ pc[s] # "claimed" /\ task[s] \in Jobs /\ Executing(s, task[s])
        /\ UNCHANGED <<task[s], snap[s]>>
        /\ \/ row'[task[s]] = row[task[s]]
           \/ row'[task[s]] = [row[task[s]] EXCEPT !.lease = "live"]

\* The slot stays with its job and at most renews the lease ...
LEMMA StayEffect ==
  ASSUME OwnInv, NEW s \in Slots, pc[s] \notin {"idle", "claimed", "announce"},
         UNCHANGED <<task, snap>>, \A t \in Slots \ {s} : pc'[t] = pc[t],
         UNCHANGED row \/ Heartbeat(s, task[s])
  PROVE  SlotEffect(s)
<1>1. task[s] \in Jobs /\ Executing(s, task[s])
  BY OwnerWrites
<1>2. SlotFrame(s)
  BY TypesNow DEF SlotFrame, Heartbeat, Write
<1>3. row'[task[s]] = row[task[s]] \/ row'[task[s]] = [row[task[s]] EXCEPT !.lease = "live"]
  BY <1>1 DEF Heartbeat, Write, OwnInv, TypeInv, QueueOK, QueueTypeOK
<1> QED
  BY <1>1, <1>2, <1>3 DEF SlotEffect

\* ... or leaves it for good and says how it ended.
LEMMA ReleaseEffect ==
  ASSUME OwnInv, NEW s \in Slots, Release(s),
         UNCHANGED row \/ (Executing(s, task[s]) /\ \E r : Write(task[s], r))
  PROVE  SlotEffect(s)
<1>1. SlotFrame(s)
  BY TypesNow DEF SlotFrame, Release, Goto, Write
<1>2. task'[s] = NoJob
  BY DEF Release, OwnInv, TypeInv, WorkerTypeOK
<1> QED
  BY <1>1, <1>2 DEF SlotEffect

\* What a step of a slot can do to its row: nothing, a renewal, or a verdict after
\* which the slot no longer executes.
LEMMA SlotStepEffect ==
  ASSUME OwnInv, NEW s \in Slots, SlotStep(s) \/ SessionFails(s)
  PROVE  SlotEffect(s)
<1> /\ row \in [Jobs -> Row] /\ pc \in [Slots -> PC]
    /\ task \in [Slots -> Jobs \cup {NoJob}] /\ snap \in [Slots -> Snapshot]
  BY TypesNow
<1>1. CASE Load(s)
  BY <1>1 DEF SlotEffect, SlotFrame, Load, Goto, queueVars
<1>2. CASE Prepare(s)
  BY <1>2, StayEffect DEF Prepare, Goto, End
<1>3. CASE Fetch(s)
  BY <1>3, StayEffect DEF Fetch, Goto, End
<1>4. CASE Scan(s) \/ List(s)
  BY <1>4, StayEffect DEF Scan, List, Goto, End, queueVars
<1>5. CASE Loop(s)
  BY <1>5, StayEffect DEF Loop, Goto
<1>6. CASE Generate(s)
  BY <1>6, StayEffect DEF Generate, Goto, End, queueVars
<1>7. CASE Persist(s) \/ SessionFails(s)
  BY <1>7, StayEffect, ReleaseEffect DEF Persist, SessionFails, Abandon, Goto, queueVars
<1>8. CASE Requeue(s)
  BY <1>8, ReleaseEffect, OwnerWrites DEF Requeue, FailJob
<1>9. CASE Fail(s) \/ NotifyFailure(s)
  BY <1>9, StayEffect DEF Fail, NotifyFailure, Goto, queueVars
<1>10. CASE CommitFailure(s)
  BY <1>10, ReleaseEffect, OwnerWrites DEF CommitFailure, FailJob, queueVars
<1>11. CASE Complete(s)
  <2>1. Executing(s, task[s])
    BY <1>11, OwnerWrites DEF Complete
  <2>2. SlotFrame(s) /\ pc'[s] = "announce"
    BY <1>11, TypesNow DEF Complete, CompleteJob, Write, Goto, SlotFrame
  <2> QED
    BY <2>1, <2>2 DEF SlotEffect
<1>12. CASE NotifySuccess(s)
  BY <1>12, ReleaseEffect DEF NotifySuccess, queueVars
<1> QED
  BY <1>1, <1>2, <1>3, <1>4, <1>5, <1>6, <1>7, <1>8, <1>9, <1>10, <1>11, <1>12 DEF SlotStep

\* So every step of a slot keeps the ownership of all.
LEMMA SlotStepOwns ==
  ASSUME OwnInv, NEW s \in Slots, SlotStep(s) \/ SessionFails(s)
  PROVE  OwnershipIsCurrent'
<1>1. SlotEffect(s)
  BY SlotStepEffect
<1> SUFFICES ASSUME NEW t \in Slots, NEW j \in Jobs, Executing(t, j)' PROVE Owns(t, j)'
  BY DEF OwnershipIsCurrent
<1>2. CASE t # s
  BY <1>1, <1>2, FrameOwns DEF SlotEffect
<1>3. CASE t = s
  <2>1. task'[s] # NoJob /\ pc'[s] # "announce"
    BY <1>3, WorkerAssumption DEF Executing
  <2>2. CASE Load(s)
    <3>1. task[s] = j /\ Executing(s, j) /\ Owns(s, j)
      BY <1>3, <2>2, OwnerWrites DEF Load, Executing
    <3>2. snap'[s] = [owned |-> TRUE, attempts |-> row[j].attempts,
                      project |-> project[j], intact |-> TRUE]
      BY <2>2, <3>1 DEF Load, Owns, OwnInv, TypeInv, WorkerTypeOK
    <3> QED
      BY <1>3, <2>2, <3>1, <3>2 DEF Load, Owns, queueVars
  <2>3. CASE ~Load(s)
    BY <1>1, <1>3, <2>1, <2>3, OwnsRenewed DEF SlotEffect, Executing
  <2> QED
    BY <2>2, <2>3
<1> QED
  BY <1>2, <1>3

-----------------------------------------------------------------------------
\* Nobody owns anything at first.
LEMMA OwnInit == Init => OwnInv
<1> SUFFICES ASSUME Init PROVE OwnInv
  OBVIOUS
<1>1. OwnershipIsCurrent
  BY WorkerAssumption DEF Init, WorkerInit, OwnershipIsCurrent, Executing
<1>2. BudgetKept /\ DeletedIsOver
  BY QueueAssumption DEF Init, QueueInit, NoRow, BudgetKept, DeletedIsOver
<1> QED
  BY <1>1, <1>2, TypeInit DEF OwnInv

\* OwnInv is inductive when no slot outlives its lease.
LEMMA OwnStep ==
  ASSUME Stalls = {}, OwnInv, [Next]_vars
  PROVE  OwnInv'
<1>1. TypeInv'
  BY TypeStep DEF OwnInv
<1>2. CASE Next
  <2>1. OwnershipIsCurrent'
    BY <1>2, ApiOwns, ClockOwns, ProcessOwns, ClaimOwns, SlotStepOwns DEF Next, Slot
  <2>2. ASSUME NEW j \in Jobs PROVE Advances(j)
    BY <1>2, RowAdvances
  <2>3. BudgetKept'
    BY <2>2, QueueAssumption DEF Advances, Moves, BudgetKept, OwnInv, TypeInv, QueueOK, QueueTypeOK, Row
  <2>4. DeletedIsOver'
    BY <2>2 DEF Advances, Moves, DeletedIsOver, OwnInv, Terminal
  <2> QED
    BY <1>1, <2>1, <2>3, <2>4 DEF OwnInv
<1>3. CASE UNCHANGED vars
  BY <1>1, <1>3 DEF vars, queueVars, slotVars, OwnInv, OwnershipIsCurrent, Executing, Owns,
     BudgetKept, DeletedIsOver
<1> QED
  BY <1>2, <1>3

\* OwnInv holds in every reachable state.
LEMMA OwnInvariant ==
  ASSUME Stalls = {}
  PROVE  Spec => []OwnInv
<1>1. OwnInv /\ [Next]_vars => OwnInv'
  BY OwnStep
<1> QED
  BY <1>1, OwnInit, PTL DEF Spec

\* For any number of slots and processes, a slot that executes a job owns its
\* row, under a live lease, and fail_job's snapshot of it is right.
THEOREM OwnershipHolds ==
  ASSUME Stalls = {}
  PROVE  Spec => []OwnershipIsCurrent
<1>1. OwnInv => OwnershipIsCurrent
  BY DEF OwnInv
<1> QED
  BY <1>1, OwnInvariant, PTL

\* No two slots execute the same job (claim_job, SKIP LOCKED, the lease).
THEOREM ExecutionIsExclusive ==
  ASSUME Stalls = {}
  PROVE  Spec => []ExclusiveExecution
<1>1. OwnInv => ExclusiveExecution
  BY DEF OwnInv, OwnershipIsCurrent, Owns, ExclusiveExecution
<1> QED
  BY <1>1, OwnInvariant, PTL

\* No job is executed more often than max_attempts (fail_job, the reaper).
THEOREM AttemptsStayBounded ==
  ASSUME Stalls = {}
  PROVE  Spec => []AttemptsBounded
<1>1. OwnInv => AttemptsBounded
  BY DEF OwnInv, BudgetKept, AttemptsBounded
<1> QED
  BY <1>1, OwnInvariant, PTL

\* No handler, verdict, reaper or late writer takes a job out of a terminal
\* state.
THEOREM TerminalStaysFinal ==
  ASSUME Stalls = {}
  PROVE  Spec => TerminalIsFinal
<1>1. OwnInv /\ [Next]_vars => [\A j \in Jobs : row[j].status \in Terminal =>
                                   row'[j].status = row[j].status]_vars
  BY RowAdvances DEF Advances, Moves, Terminal
<1> QED
  BY <1>1, OwnInvariant, PTL DEF Spec, TerminalIsFinal

-----------------------------------------------------------------------------
(* The system implements the life cycle.                                   *)

\* Before the loop a slot has counted nothing.
BeforeLoop == {"idle", "claimed", "prepare", "fetch", "scan", "list"}

\* What already_documented, the file index and the result list say is true of
\* the table: a known file has a document; a document is known or behind; what
\* is being generated is a file of the job and was not known.
Honest(s, j) ==
  /\ work[s].next >= 1
  /\ work[s].known \subseteq docs[j]
  /\ work[s].produced => docs[j] # {}
  /\ pc[s] \in {"generate", "persist"} =>
       work[s].next \in Files(j) \ work[s].known
  /\ pc[s] \in {"loop", "generate", "persist"} =>
       \A f \in docs[j] : f \in work[s].known \/ f < work[s].next

ProgressHonest ==
  \A s \in Slots : /\ pc[s] \in BeforeLoop => work[s] = NoWork
                   /\ \A j \in Jobs : Executing(s, j) => Honest(s, j)

RefineInv == OwnInv /\ ProgressHonest

\* The locals of a slot have their type.
LEMMA WorkNow ==
  ASSUME RefineInv
  PROVE  /\ work \in [Slots -> Work] /\ docs \in [Jobs -> SUBSET Nat]
         /\ row \in [Jobs -> Row] /\ pc \in [Slots -> PC]
         /\ task \in [Slots -> Jobs \cup {NoJob}] /\ snap \in [Slots -> Snapshot]
  BY TypesNow DEF RefineInv, OwnInv, TypeInv, WorkerTypeOK

\* The invariant holds at first.
LEMMA RefineInit == Init => RefineInv
<1> SUFFICES ASSUME Init PROVE ProgressHonest
  BY OwnInit DEF RefineInv
<1> QED
  BY WorkerAssumption DEF Init, WorkerInit, ProgressHonest, Executing, BeforeLoop

\* What a step of somebody else leaves true of the slots in S.
LEMMA HonestKept ==
  ASSUME RefineInv, NEW s \in Slots, UNCHANGED <<pc[s], work[s], task[s]>>,
         \A j \in Jobs : Executing(s, j) => docs'[j] = docs[j]
  PROVE  /\ pc'[s] \in BeforeLoop => work'[s] = NoWork
         /\ \A j \in Jobs : Executing(s, j)' => Honest(s, j)'
<1>1. pc'[s] \in BeforeLoop => work'[s] = NoWork
  BY DEF RefineInv, ProgressHonest
<1>2. ASSUME NEW j \in Jobs, Executing(s, j)' PROVE Honest(s, j)'
  <2>1. Executing(s, j) /\ docs'[j] = docs[j] /\ Honest(s, j)
    BY <1>2 DEF Executing, RefineInv, ProgressHonest
  <2> QED
    BY <2>1 DEF Honest
<1> QED
  BY <1>1, <1>2

\* The API, the clock, the reaper and the processes add no document.
LEMMA EnvironmentHonest ==
  ASSUME RefineInv,
         \/ \E j \in Jobs : Api(j) \/ Clock(j)
         \/ \E w \in Workers : Process(w)
         \/ Reap
         \/ UNCHANGED vars
  PROVE  ProgressHonest'
<1>0. ASSUME UNCHANGED slotVars, \A s \in Slots, j \in Jobs : Executing(s, j) => docs'[j] = docs[j]
      PROVE  ProgressHonest'
  BY <1>0, HonestKept DEF slotVars, ProgressHonest
<1>1. ASSUME NEW i \in Jobs, Api(i) PROVE ProgressHonest'
  <2>1. UNCHANGED slotVars
    BY <1>1 DEF Api, Submit, AbandonUpload, Cancel, DeleteFromHistory, DeleteProject
  <2>2. ASSUME NEW s \in Slots, NEW j \in Jobs, Executing(s, j) PROVE docs'[j] = docs[j]
    <3>1. row[j].status = "running"
      BY <2>2 DEF RefineInv, OwnInv, OwnershipIsCurrent, Owns
    <3>2. CASE DeleteFromHistory(i)
      BY <3>1, <3>2, WorkNow DEF DeleteFromHistory, Terminal
    <3> QED
      BY <1>1, <3>2 DEF Api, Submit, AbandonUpload, Cancel, DeleteProject
  <2> QED
    BY <1>0, <2>1, <2>2
<1>2. CASE Reap \/ \E j \in Jobs : Clock(j)
  BY <1>0, <1>2 DEF Reap, Clock, Lapse, Due, storeVars
<1>3. ASSUME NEW w \in Workers, Process(w) PROVE ProgressHonest'
  <2>1. CASE UNCHANGED <<slotVars, docs>>
    BY <1>0, <2>1
  <2>2. CASE Gone(w)
    <3>1. ASSUME NEW s \in SlotsOf(w)
          PROVE  work'[s] = NoWork /\ \A j \in Jobs : ~Executing(s, j)'
      BY <2>2, WorkerAssumption DEF Gone, SlotsOf, Executing
    <3>2. ASSUME NEW s \in Slots \ SlotsOf(w)
          PROVE  UNCHANGED <<pc[s], work[s], task[s], docs>>
      BY <2>2 DEF Gone, storeVars
    <3> QED
      BY <3>1, <3>2, HonestKept DEF ProgressHonest
  <2> QED
    BY <1>3, <2>1, <2>2 DEF Process, Drain, Restart, Stop, Crash, storeVars
<1>4. CASE UNCHANGED vars
  BY <1>0, <1>4 DEF vars, storeVars
<1> QED
  BY <1>1, <1>2, <1>3, <1>4

-----------------------------------------------------------------------------
\* What is to be shown of one slot.
HonestSlot(s) ==
  /\ pc[s] \in BeforeLoop => work[s] = NoWork
  /\ \A j \in Jobs : Executing(s, j) => Honest(s, j)

\* A step of slot s adds documents to no job but its own.
LEMMA OthersHonest ==
  ASSUME RefineInv, NEW s \in Slots,
         \A t \in Slots \ {s} : UNCHANGED <<pc[t], task[t], work[t]>>,
         UNCHANGED docs \/ (/\ Executing(s, task[s])
                            /\ \A j \in Jobs \ {task[s]} : docs'[j] = docs[j]),
         HonestSlot(s)'
  PROVE  ProgressHonest'
<1> SUFFICES ASSUME NEW t \in Slots \ {s} PROVE HonestSlot(t)'
  BY DEF ProgressHonest, HonestSlot
<1>1. UNCHANGED <<pc[t], work[t], task[t]>>
  OBVIOUS
<1>2. ASSUME NEW j \in Jobs, Executing(t, j) PROVE docs'[j] = docs[j]
  BY <1>2 DEF RefineInv, OwnInv, OwnershipIsCurrent, Owns
<1> QED
  BY <1>1, <1>2, HonestKept DEF HonestSlot

\* The slot lets go of its job.
LEMMA ReleaseHonest ==
  ASSUME RefineInv, NEW s \in Slots, Release(s)
  PROVE  HonestSlot(s)' /\ \A t \in Slots \ {s} : work'[t] = work[t]
  BY WorkNow, WorkerAssumption DEF Release, Goto, HonestSlot, Executing

\* The slot moves on towards the loop.
LEMMA ApproachHonest ==
  ASSUME RefineInv, NEW s \in Slots, UNCHANGED work, pc[s] \in BeforeLoop
  PROVE  pc'[s] \in BeforeLoop => HonestSlot(s)'
  BY DEF RefineInv, ProgressHonest, HonestSlot, Honest, NoWork, BeforeLoop

\* The slot is done with the files, or goes on with the locals it has.
LEMMA FinishHonest ==
  ASSUME RefineInv, NEW s \in Slots, pc[s] \notin {"idle", "announce"}, UNCHANGED <<docs, task>>,
         pc'[s] \notin BeforeLoop \cup {"loop", "generate", "persist"},
         \/ UNCHANGED work
         \/ \E result : Keep(s, [work[s] EXCEPT !.result = result])
  PROVE  HonestSlot(s)' /\ \A t \in Slots \ {s} : work'[t] = work[t]
<1>1. /\ work'[s].next = work[s].next /\ work'[s].known = work[s].known
      /\ work'[s].produced = work[s].produced
      /\ \A t \in Slots \ {s} : work'[t] = work[t]
  BY WorkNow DEF Keep, Work
<1>2. ASSUME NEW j \in Jobs, Executing(s, j)' PROVE Honest(s, j)'
  <2>1. Honest(s, j)
    BY <1>2 DEF Executing, RefineInv, ProgressHonest
  <2> QED
    BY <1>1, <2>1 DEF Honest
<1> QED
  BY <1>1, <1>2 DEF HonestSlot

-----------------------------------------------------------------------------
\* The job of a slot that is in the loop, and what is known of it.
LEMMA LoopNow ==
  ASSUME RefineInv, NEW s \in Slots, pc[s] \in {"loop", "generate", "persist"}
  PROVE  /\ task[s] \in Jobs /\ Executing(s, task[s]) /\ Honest(s, task[s])
         /\ work[s] \in Work /\ work[s].next \in Nat /\ docs[task[s]] \subseteq Nat
         /\ Files(task[s]) = 1..Request[task[s]].files /\ Request[task[s]].files \in Nat
<1>1. task[s] \in Jobs /\ Executing(s, task[s])
  BY OwnerWrites DEF RefineInv
<1> QED
  BY <1>1, WorkNow, WorkerAssumption DEF RefineInv, ProgressHonest, Work, Files

\* Whatever the loop skips has a document.
LEMMA SkipHonest ==
  ASSUME RefineInv, NEW s \in Slots, pc[s] = "loop", NEW result, NEW f \in Nat, SkipTo(s, f, result),
         \A g \in Nat : g >= work[s].next /\ g < f => g \in work[s].known
  PROVE  /\ work'[s].next = f /\ work'[s].known = work[s].known
         /\ work'[s].produced => docs[task[s]] # {}
         /\ \A t \in Slots \ {s} : work'[t] = work[t]
<1> DEFINE b == work[s].produced \/ work[s].next < f
<1>1. b => docs[task[s]] # {}
  BY LoopNow DEF Honest
<1>2. /\ work'[s].next = f /\ work'[s].known = work[s].known /\ work'[s].produced = b
      /\ \A t \in Slots \ {s} : work'[t] = work[t]
  BY WorkNow DEF SkipTo, Keep, Work
<1> QED
  BY <1>1, <1>2

\* The loop either finds a file without a document or ends.
LEMMA LoopHonest ==
  ASSUME RefineInv, NEW s \in Slots, Loop(s)
  PROVE  HonestSlot(s)' /\ \A t \in Slots \ {s} : work'[t] = work[t]
<1> DEFINE j == task[s]
<1>0. /\ pc[s] = "loop" /\ j \in Jobs /\ UNCHANGED <<task, docs>> /\ Honest(s, j)
      /\ work[s].next \in Nat /\ Request[j].files \in Nat /\ Files(j) = 1..Request[j].files
  BY LoopNow DEF Loop
<1>1. CASE Pending(s) = {}
  <2>1. SkipTo(s, Request[j].files + 1, "done") /\ pc'[s] = "outcome"
    BY <1>1, WorkNow DEF Loop, Goto, IsNextFile
  <2>2. \A g \in Nat : g >= work[s].next /\ g < Request[j].files + 1 => g \in work[s].known
    BY <1>0, <1>1 DEF Pending, Honest
  <2>3. /\ work'[s].next = Request[j].files + 1 /\ work'[s].known = work[s].known
        /\ work'[s].produced => docs[j] # {}
        /\ \A t \in Slots \ {s} : work'[t] = work[t]
    BY <1>0, <2>1, <2>2, SkipHonest
  <2> QED
    BY <1>0, <2>1, <2>3 DEF HonestSlot, Honest, Executing, BeforeLoop
<1>2. ASSUME NEW f \in Files(j), IsNextFile(s, f), NEW result, SkipTo(s, f, result),
             pc'[s] \in {"generate", "outcome"}
      PROVE  HonestSlot(s)' /\ \A t \in Slots \ {s} : work'[t] = work[t]
  <2>1. f \in Nat /\ f >= work[s].next /\ f >= 1 /\ f \notin work[s].known
    BY <1>0, <1>2 DEF IsNextFile, Pending
  <2>2. ASSUME NEW g \in Nat, g >= work[s].next, g < f PROVE g \in work[s].known
    BY <1>0, <1>2, <2>1, <2>2 DEF IsNextFile, Pending, Honest
  <2>3. /\ work'[s].next = f /\ work'[s].known = work[s].known
        /\ work'[s].produced => docs[j] # {}
        /\ \A t \in Slots \ {s} : work'[t] = work[t]
    BY <1>0, <1>2, <2>1, <2>2, SkipHonest
  <2>4. \A g \in docs[j] : g \in work[s].known \/ g < f
    BY <1>0, <2>1, LoopNow DEF Honest
  <2> QED
    BY <1>0, <1>2, <2>1, <2>3, <2>4 DEF HonestSlot, Honest, Executing, BeforeLoop
<1>3. CASE Pending(s) # {}
  BY <1>2, <1>3, WorkNow DEF Loop, Goto
<1> QED
  BY <1>1, <1>3

\* already_documented is what the table holds.
LEMMA ListHonest ==
  ASSUME RefineInv, NEW s \in Slots, List(s)
  PROVE  HonestSlot(s)' /\ \A t \in Slots \ {s} : work'[t] = work[t]
<1>1. /\ task[s] \in Jobs /\ UNCHANGED <<task, docs>> /\ pc'[s] = "loop" /\ work[s] = NoWork
      /\ docs[task[s]] \subseteq Nat
  BY OwnerWrites, WorkNow DEF List, storeVars, Goto, RefineInv, ProgressHonest, BeforeLoop
<1>2. /\ work'[s].known = docs[task[s]] /\ work'[s].next = 1 /\ ~work'[s].produced
      /\ \A t \in Slots \ {s} : work'[t] = work[t]
  BY <1>1, WorkNow DEF List, Keep, Work, NoWork
<1> QED
  BY <1>1, <1>2 DEF HonestSlot, Honest, Executing, BeforeLoop

\* The pipeline changes no table.
LEMMA GenerateHonest ==
  ASSUME RefineInv, NEW s \in Slots, Generate(s)
  PROVE  HonestSlot(s)' /\ \A t \in Slots \ {s} : work'[t] = work[t]
<1>1. pc[s] = "generate" /\ UNCHANGED <<task, docs>>
  BY DEF Generate
<1>2. CASE Goto(s, "persist") /\ UNCHANGED work
  BY <1>1, <1>2, LoopNow, WorkNow DEF Goto, HonestSlot, Honest, Executing, BeforeLoop
<1>3. CASE Goto(s, "loop") /\ Keep(s, [work[s] EXCEPT !.next = @ + 1])
  <2>1. /\ work'[s].next = work[s].next + 1 /\ work'[s].known = work[s].known
        /\ work'[s].produced = work[s].produced
        /\ \A t \in Slots \ {s} : work'[t] = work[t]
    BY <1>3, WorkNow DEF Keep, Work
  <2>2. pc'[s] = "loop"
    BY <1>3, WorkNow DEF Goto
  <2>3. \A f \in docs[task[s]] : f \in work[s].known \/ f < work[s].next + 1
    BY <1>1, LoopNow DEF Honest
  <2> QED
    BY <1>1, <2>1, <2>2, <2>3, LoopNow DEF HonestSlot, Honest, Executing, BeforeLoop
<1>4. CASE End(s, "error")
  BY <1>1, <1>4, FinishHonest, WorkNow DEF End, Goto, BeforeLoop
<1> QED
  BY <1>2, <1>3, <1>4 DEF Generate

\* A stored document is behind the loop.
LEMMA PersistHonest ==
  ASSUME RefineInv, NEW s \in Slots, Persist(s)
  PROVE  /\ HonestSlot(s)' /\ \A t \in Slots \ {s} : work'[t] = work[t]
         /\ UNCHANGED docs \/ \A j \in Jobs \ {task[s]} : docs'[j] = docs[j]
<1> DEFINE j == task[s]
<1>1. pc[s] = "persist"
  BY DEF Persist
<1>2. CASE Abandon(s) /\ UNCHANGED docs
  BY <1>2, ReleaseHonest DEF Abandon
<1>3. CASE ~(Abandon(s) /\ UNCHANGED docs)
  <2>1. /\ docs' = [docs EXCEPT ![j] = @ \cup {work[s].next}]
        /\ Keep(s, [work[s] EXCEPT !.next = @ + 1, !.produced = TRUE])
        /\ Goto(s, "loop") /\ UNCHANGED task
    BY <1>3 DEF Persist
  <2>2. /\ work'[s].next = work[s].next + 1 /\ work'[s].known = work[s].known
        /\ \A t \in Slots \ {s} : work'[t] = work[t]
    BY <2>1, WorkNow DEF Keep, Work
  <2>3. pc'[s] = "loop" /\ docs'[j] = docs[j] \cup {work[s].next}
    BY <1>1, <2>1, WorkNow, LoopNow DEF Goto
  <2>4. \A f \in docs'[j] : f \in work[s].known \/ f < work[s].next + 1
    BY <1>1, <2>3, LoopNow DEF Honest
  <2>5. HonestSlot(s)'
    BY <1>1, <2>1, <2>2, <2>3, <2>4, LoopNow DEF HonestSlot, Honest, Executing, BeforeLoop
  <2> QED
    BY <2>1, <2>2, <2>5, WorkNow
<1> QED
  BY <1>2, <1>3

\* The steps before the loop.
LEMMA ApproachSteps ==
  ASSUME RefineInv, NEW s \in Slots, Claim(s) \/ Load(s) \/ Prepare(s) \/ Fetch(s) \/ Scan(s)
  PROVE  HonestSlot(s)' /\ (\A t \in Slots \ {s} : work'[t] = work[t]) /\ UNCHANGED docs
<1>1. pc[s] \in BeforeLoop /\ UNCHANGED docs
  BY DEF Claim, Load, Prepare, Fetch, Scan, BeforeLoop, storeVars
<1>2. CASE UNCHANGED work /\ pc'[s] \in BeforeLoop
  BY <1>1, <1>2, ApproachHonest
<1>3. ASSUME UNCHANGED task, pc[s] # "idle", NEW result, End(s, result)
      PROVE  HonestSlot(s)' /\ \A t \in Slots \ {s} : work'[t] = work[t]
  BY <1>1, <1>3, FinishHonest, WorkNow DEF End, Goto, BeforeLoop
<1> QED
  BY <1>1, <1>2, <1>3, WorkNow DEF Claim, Load, Prepare, Fetch, Scan, Goto, BeforeLoop

\* The steps after it.
LEMMA OutcomeSteps ==
  ASSUME RefineInv, NEW s \in Slots,
         \/ Requeue(s) \/ Fail(s) \/ NotifyFailure(s) \/ CommitFailure(s)
         \/ Complete(s) \/ NotifySuccess(s) \/ SessionFails(s)
  PROVE  HonestSlot(s)' /\ (\A t \in Slots \ {s} : work'[t] = work[t]) /\ UNCHANGED docs
<1>1. UNCHANGED docs
  BY DEF Requeue, Fail, NotifyFailure, CommitFailure, Complete, NotifySuccess, SessionFails, storeVars
<1>2. CASE Release(s)
  BY <1>1, <1>2, ReleaseHonest
<1>3. CASE Fail(s) \/ NotifyFailure(s) \/ Complete(s)
  BY <1>1, <1>3, FinishHonest, WorkNow DEF Fail, NotifyFailure, Complete, Goto, BeforeLoop
<1> QED
  BY <1>2, <1>3 DEF Requeue, CommitFailure, NotifySuccess, SessionFails, Abandon

\* Every step of a slot keeps progress honest.
LEMMA SlotHonest ==
  ASSUME RefineInv, NEW s \in Slots, Slot(s)
  PROVE  ProgressHonest'
<1>1. \A t \in Slots \ {s} : UNCHANGED <<pc[t], task[t]>>
  <2>1. CASE Claim(s)
    BY <2>1, WorkNow DEF Claim, Goto
  <2> QED
    BY <2>1, SlotStepEffect DEF RefineInv, SlotEffect, SlotFrame, Slot
<1>2. HonestSlot(s)' /\ \A t \in Slots \ {s} : work'[t] = work[t]
  BY ListHonest, LoopHonest, GenerateHonest, PersistHonest, ApproachSteps, OutcomeSteps DEF Slot, SlotStep
<1>3. UNCHANGED docs \/ (/\ Executing(s, task[s])
                         /\ \A j \in Jobs \ {task[s]} : docs'[j] = docs[j])
  <2>1. CASE Persist(s)
    BY <2>1, PersistHonest, LoopNow DEF Persist
  <2> QED
    BY <2>1, ApproachSteps, OutcomeSteps DEF Slot, SlotStep, List, Loop, Generate, storeVars
<1> QED
  BY <1>1, <1>2, <1>3, OthersHonest

\* RefineInv is inductive.
LEMMA RefineStep ==
  ASSUME Stalls = {}, RefineInv, [Next]_vars
  PROVE  RefineInv'
  BY OwnStep, EnvironmentHonest, SlotHonest DEF RefineInv, Next

\* RefineInv holds in every reachable state.
LEMMA RefineInvariant ==
  ASSUME Stalls = {}
  PROVE  Spec => []RefineInv
<1>1. RefineInv /\ [Next]_vars => RefineInv'
  BY RefineStep
<1> QED
  BY <1>1, RefineInit, PTL DEF Spec

\* A file that has a document is not given to the agents again, in whichever
\* attempt and by whichever slot it was documented (docs/como-funciona.md, 5.4).
THEOREM NothingPaidTwice ==
  ASSUME Stalls = {}
  PROVE  Spec => []NeverPaysTwice
<1>1. RefineInv => NeverPaysTwice
  BY LoopNow DEF NeverPaysTwice, Honest
<1> QED
  BY <1>1, RefineInvariant, PTL

-----------------------------------------------------------------------------
\* The mapped state after a step, column by column.
LEMMA MapTypes ==
  ASSUME RefineInv, [Next]_vars
  PROVE  row \in [Jobs -> Row] /\ row' \in [Jobs -> Row]
         /\ docs \in [Jobs -> SUBSET Nat] /\ docs' \in [Jobs -> SUBSET Nat]
  BY TypeStep DEF RefineInv, OwnInv, TypeInv, WorkerTypeOK, QueueOK, QueueTypeOK

\* Same but for job j, whose status moves.
OthersSame(j) ==
  \A k \in Jobs \ {j} : /\ row'[k].status = row[k].status
                        /\ row'[k].attempts = row[k].attempts
                        /\ row'[k].deleted = row[k].deleted

\* The mapped columns: none changes, ...
LEMMA MapStutter ==
  ASSUME UNCHANGED docs,
         \A k \in Jobs : /\ row'[k].status = row[k].status
                         /\ row'[k].attempts = row[k].attempts
                         /\ row'[k].deleted = row[k].deleted
  PROVE  UNCHANGED Lifecycle!jobVars
  BY DEF Lifecycle!jobVars

\* ... the status of one job does, ...
LEMMA MapMove ==
  ASSUME NEW j \in Jobs, NEW from, NEW to, OthersSame(j), row[j].status = from, row'[j].status = to
  PROVE  Lifecycle!Move(j, from, to)
  BY DEF Lifecycle!Move, OthersSame

\* ... and of the other two each changes only where the row of j does.
LEMMA MapSame ==
  ASSUME NEW j \in Jobs, OthersSame(j)
  PROVE  /\ row'[j].attempts = row[j].attempts =>
              [k \in Jobs |-> row[k].attempts]' = [k \in Jobs |-> row[k].attempts]
         /\ row'[j].attempts = row[j].attempts + 1 =>
              [k \in Jobs |-> row[k].attempts]'
                = [[k \in Jobs |-> row[k].attempts] EXCEPT ![j] = @ + 1]
         /\ row'[j].deleted = row[j].deleted =>
              [k \in Jobs |-> row[k].deleted]' = [k \in Jobs |-> row[k].deleted]
  BY DEF OthersSame

-----------------------------------------------------------------------------
\* What a step is to the life cycle.
Abstract == [Lifecycle!Next]_(Lifecycle!jobVars)

\* The empty table is the initial state of the life cycle.
LEMMA InitMaps == Init => Lifecycle!Init
  BY DEF Init, QueueInit, WorkerInit, NoRow, Lifecycle!Init

\* A row whose status, attempts and history flag stay is a stutter.
LEMMA QuietMaps ==
  ASSUME RefineInv, [Next]_vars, UNCHANGED docs,
         \/ UNCHANGED row
         \/ \E j \in Jobs : \/ Write(j, [row[j] EXCEPT !.lease = "live"])
                            \/ Write(j, [row[j] EXCEPT !.lease = "expired"])
                            \/ Write(j, [row[j] EXCEPT !.due = TRUE])
  PROVE  Abstract
<1>1. row \in [Jobs -> Row]
  BY MapTypes
<1>2. ASSUME NEW k \in Jobs
      PROVE  /\ row'[k].status = row[k].status
             /\ row'[k].attempts = row[k].attempts
             /\ row'[k].deleted = row[k].deleted
  BY <1>1 DEF Write, Row
<1> QED
  BY <1>2, MapStutter DEF Abstract

\* Submit, Cancel and Delete of the API are those of the life cycle.
LEMMA ApiMaps ==
  ASSUME RefineInv, Next, NEW j \in Jobs, Api(j)
  PROVE  Abstract
<1> row \in [Jobs -> Row] /\ docs \in [Jobs -> SUBSET Nat]
  BY MapTypes
<1>1. CASE UNCHANGED <<row, docs>>
  BY <1>1, QuietMaps
<1>2. CASE Submit(j)
  <2>1. /\ row[j].status = "absent" /\ row'[j].status = "queued" /\ OthersSame(j)
        /\ row'[j].attempts = row[j].attempts /\ row'[j].deleted = row[j].deleted
        /\ UNCHANGED docs
    BY <1>2 DEF Submit, Enqueue, Write, OthersSame, Row
  <2>2. Lifecycle!Submit(j)
    BY <2>1, MapMove, MapSame DEF Lifecycle!Submit
  <2> QED
    BY <2>2 DEF Abstract, Lifecycle!Next
<1>3. CASE CancelJob(j) /\ UNCHANGED docs
  <2>1. /\ row[j].status = "queued" /\ row'[j].status = "cancelled" /\ OthersSame(j)
        /\ row'[j].attempts = row[j].attempts /\ row'[j].deleted = row[j].deleted
        /\ UNCHANGED docs
    BY <1>3 DEF CancelJob, Write, OthersSame, Row
  <2>2. Lifecycle!Cancel(j)
    BY <2>1, MapMove, MapSame DEF Lifecycle!Cancel
  <2> QED
    BY <2>2 DEF Abstract, Lifecycle!Next
<1>4. CASE /\ row[j].status \in Terminal /\ ~row[j].deleted
           /\ row' = [row EXCEPT ![j].deleted = TRUE]
           /\ docs' = [docs EXCEPT ![j] = {}]
  <2>1. /\ OthersSame(j) /\ row'[j].status = row[j].status
        /\ row'[j].attempts = row[j].attempts /\ row'[j].deleted = TRUE
    BY <1>4 DEF OthersSame, Row
  <2>2. Lifecycle!Delete(j)
    BY <1>4, <2>1 DEF OthersSame, Lifecycle!Delete, Lifecycle!Over, Terminal
  <2> QED
    BY <2>2 DEF Abstract, Lifecycle!Next
<1> QED
  BY <1>1, <1>2, <1>3, <1>4 DEF Api, AbandonUpload, Cancel, DeleteFromHistory, DeleteProject, queueVars

\* The reaper gives up all expired jobs at once.
LEMMA ReapMaps ==
  ASSUME RefineInv, Next, Reap
  PROVE  Abstract
<1>0. PICK S \in SUBSET Jobs : S = Expired
  BY DEF Expired
<1> DEFINE retried == {j \in S : row[j].attempts < MaxAttempts}
<1> row \in [Jobs -> Row] /\ UNCHANGED docs
  BY MapTypes DEF Reap, storeVars
<1>1. ASSUME NEW k \in Jobs
      PROVE  /\ row'[k].attempts = row[k].attempts /\ row'[k].deleted = row[k].deleted
             /\ row'[k].status = IF k \in retried THEN "queued"
                                 ELSE IF k \in S THEN "failed" ELSE row[k].status
  BY <1>0 DEF Reap, ReapExpiredLeases, Row
<1>2. \A j \in S : row[j].status = "running"
  BY <1>0 DEF Expired
<1>3. Lifecycle!GiveUp(S)
  <2>1. /\ retried \in SUBSET {j \in S : [k \in Jobs |-> row[k].attempts][j] < MaxAttempts}
        /\ \A j \in S : [k \in Jobs |-> row[k].status][j] = "running"
    BY <1>2
  <2>2. [k \in Jobs |-> row[k].status]'
          = [j \in Jobs |-> IF j \in retried THEN "queued"
                            ELSE IF j \in S THEN "failed"
                            ELSE [k \in Jobs |-> row[k].status][j]]
    BY <1>1
  <2>3. /\ [k \in Jobs |-> row[k].attempts]' = [k \in Jobs |-> row[k].attempts]
        /\ [k \in Jobs |-> row[k].deleted]' = [k \in Jobs |-> row[k].deleted]
    BY <1>1
  <2> HIDE DEF retried
  <2> QED
    BY <2>1, <2>2, <2>3 DEF Lifecycle!GiveUp
<1> QED
  BY <1>3 DEF Abstract, Lifecycle!Next

\* fail_job gives up one.
LEMMA FailMaps ==
  ASSUME RefineInv, Next, NEW j \in Jobs, NEW retry \in BOOLEAN, FailJob(j, retry), UNCHANGED docs,
         row[j].status = "running", retry => row[j].attempts < MaxAttempts
  PROVE  Abstract
<1> DEFINE retried == IF retry THEN {j} ELSE {}
<1> row \in [Jobs -> Row]
  BY MapTypes
<1>1. /\ OthersSame(j) /\ row'[j].attempts = row[j].attempts /\ row'[j].deleted = row[j].deleted
      /\ row'[j].status = IF retry THEN "queued" ELSE "failed"
  <2> DEFINE status == IF retry THEN "queued" ELSE "failed"
  <2>1. row' = [row EXCEPT ![j] = [row[j] EXCEPT !.status = status, !.lockedBy = Nobody,
                                                 !.lease = "none", !.due = FALSE]]
    BY DEF FailJob, Write
  <2> HIDE DEF status
  <2>2. /\ OthersSame(j) /\ row'[j].attempts = row[j].attempts /\ row'[j].deleted = row[j].deleted
        /\ row'[j].status = status
    BY <2>1 DEF OthersSame, Row
  <2> QED
    BY <2>2 DEF status
<1>2. Lifecycle!GiveUp({j})
  <2>1. /\ retried \in SUBSET {i \in {j} : [k \in Jobs |-> row[k].attempts][i] < MaxAttempts}
        /\ \A i \in {j} : [k \in Jobs |-> row[k].status][i] = "running"
    OBVIOUS
  <2>2. [k \in Jobs |-> row[k].status]'
          = [i \in Jobs |-> IF i \in retried THEN "queued"
                            ELSE IF i \in {j} THEN "failed"
                            ELSE [k \in Jobs |-> row[k].status][i]]
    BY <1>1 DEF OthersSame
  <2>3. /\ [k \in Jobs |-> row[k].attempts]' = [k \in Jobs |-> row[k].attempts]
        /\ [k \in Jobs |-> row[k].deleted]' = [k \in Jobs |-> row[k].deleted]
    BY <1>1, MapSame
  <2> HIDE DEF retried
  <2> QED
    BY <2>1, <2>2, <2>3 DEF Lifecycle!GiveUp
<1> QED
  BY <1>2 DEF Abstract, Lifecycle!Next

\* claim_job starts an attempt.
LEMMA ClaimMaps ==
  ASSUME RefineInv, Next, NEW s \in Slots, Claim(s)
  PROVE  Abstract
<1> row \in [Jobs -> Row]
  BY MapTypes
<1>1. PICK j \in Jobs : ClaimJob(s, j, Held)
  BY DEF Claim
<1>2. /\ row[j].status = "queued" /\ row'[j].status = "running" /\ OthersSame(j)
      /\ row'[j].attempts = row[j].attempts + 1 /\ row'[j].deleted = row[j].deleted
      /\ UNCHANGED docs
  BY <1>1 DEF Claim, ClaimJob, IsNext, Ready, Write, OthersSame, Row, storeVars
<1>3. row[j].attempts < MaxAttempts
  BY <1>2 DEF RefineInv, OwnInv, BudgetKept
<1>4. Lifecycle!Start(j)
  BY <1>2, <1>3, MapMove, MapSame DEF Lifecycle!Start
<1> QED
  BY <1>4 DEF Abstract, Lifecycle!Next

\* A document appears while its job runs, and replaces none.
LEMMA PersistMaps ==
  ASSUME RefineInv, Next, NEW s \in Slots, Persist(s)
  PROVE  Abstract
<1> DEFINE j == task[s]
<1>1. CASE UNCHANGED <<row, docs>>
  BY <1>1, QuietMaps
<1>2. CASE ~UNCHANGED <<row, docs>>
  <2>1. /\ work[s].next \notin docs[j] /\ UNCHANGED row
        /\ docs' = [docs EXCEPT ![j] = @ \cup {work[s].next}]
    BY <1>2 DEF Persist, Abandon, queueVars
  <2>2. /\ j \in Jobs /\ Executing(s, j) /\ work[s].next \in Files(j)
    BY LoopNow DEF Persist, Honest
  <2>3. row[j].status = "running"
    BY <2>2 DEF RefineInv, OwnInv, OwnershipIsCurrent, Owns
  <2>4. Lifecycle!Document(j)
    BY <2>1, <2>2, <2>3 DEF Lifecycle!Document
  <2> QED
    BY <2>2, <2>4 DEF Abstract, Lifecycle!Next
<1> QED
  BY <1>1, <1>2

\* complete_job finds the row it claimed, and a document to show.
LEMMA CompleteMaps ==
  ASSUME RefineInv, Next, NEW s \in Slots, Complete(s)
  PROVE  Abstract
<1> row \in [Jobs -> Row]
  BY MapTypes
<1>1. PICK j \in Jobs : j = task[s] /\ Executing(s, j) /\ Owns(s, j)
  BY OwnerWrites DEF Complete, RefineInv
<1>2. docs[j] # {}
  BY <1>1 DEF Complete, RefineInv, ProgressHonest, Honest
<1>3. Write(j, [row[j] EXCEPT !.status = "succeeded", !.lease = "none"])
  BY <1>1 DEF Complete, CompleteJob, Owns
<1>4. /\ row[j].status = "running" /\ row'[j].status = "succeeded" /\ OthersSame(j)
      /\ row'[j].attempts = row[j].attempts /\ row'[j].deleted = row[j].deleted
      /\ UNCHANGED docs
  BY <1>1, <1>3 DEF Owns, Complete, Write, OthersSame, Row, storeVars
<1>5. Lifecycle!Succeed(j)
  BY <1>1, <1>2, <1>4, MapMove, MapSame DEF Lifecycle!Succeed
<1> QED
  BY <1>1, <1>5 DEF Abstract, Lifecycle!Next

\* Every step of a slot is a step of the life cycle or invisible.
LEMMA SlotMaps ==
  ASSUME RefineInv, Next, NEW s \in Slots, Slot(s)
  PROVE  Abstract
<1>1. CASE UNCHANGED <<row, docs>>
  BY <1>1, QuietMaps
<1>2. CASE Prepare(s) \/ Fetch(s) \/ Loop(s)
  <2>1. task[s] \in Jobs
    BY <1>2, TaskIsJob DEF Prepare, Fetch, Loop, RefineInv, OwnInv
  <2>2. UNCHANGED docs /\ (UNCHANGED row \/ Write(task[s], [row[task[s]] EXCEPT !.lease = "live"]))
    BY <1>2 DEF Prepare, Fetch, Loop, Heartbeat
  <2> QED
    BY <2>1, <2>2, QuietMaps
<1>3. CASE Requeue(s)
  BY <1>3, OwnerWrites, FailMaps DEF Requeue, MayRetry, Owns, RefineInv, storeVars
<1>4. CASE CommitFailure(s)
  BY <1>1, <1>4, OwnerWrites, FailMaps DEF CommitFailure, Owns, RefineInv, storeVars, queueVars
<1> QED
  BY <1>1, <1>2, <1>3, <1>4, ClaimMaps, PersistMaps, CompleteMaps DEF Slot, SlotStep, Load, Scan,
     List, Generate, Fail, NotifyFailure, NotifySuccess, SessionFails, Abandon, storeVars, queueVars

\* Every step of the system is.
LEMMA StepMaps ==
  ASSUME RefineInv, [Next]_vars
  PROVE  Abstract
<1>1. CASE UNCHANGED vars
  BY <1>1, QuietMaps DEF vars, queueVars, storeVars
<1>2. CASE Next
  <2>1. ASSUME NEW j \in Jobs, Clock(j) PROVE Abstract
    BY <1>2, <2>1, QuietMaps DEF Clock, Lapse, LeaseExpires, Due, BecomeDue, storeVars
  <2>2. ASSUME NEW w \in Workers, Process(w) PROVE Abstract
    <3>1. CASE UNCHANGED <<row, docs>>
      BY <3>1, QuietMaps
    <3>2. CASE Orphan(SlotsOf(w)) /\ UNCHANGED docs
      BY <3>2, MapTypes, MapStutter DEF Orphan, Row, Abstract
    <3> QED
      BY <2>2, <3>1, <3>2 DEF Process, Drain, Stop, Crash, Restart, Gone, queueVars, storeVars
  <2> QED
    BY <1>2, <2>1, <2>2, ApiMaps, ReapMaps, SlotMaps DEF Next
<1> QED
  BY <1>1, <1>2

\* The whole system, with any number of jobs, slots and processes, does to a
\* job only what docs/api-contract.md lets a client expect.
THEOREM LifecycleImplemented ==
  ASSUME Stalls = {}
  PROVE  Spec => ImplementsLifecycle
<1>1. RefineInv /\ [Next]_vars => [Lifecycle!Next]_(Lifecycle!jobVars)
  BY StepMaps DEF Abstract
<1> QED
  BY <1>1, InitMaps, RefineInvariant, PTL DEF Spec, ImplementsLifecycle, Lifecycle!Spec

-----------------------------------------------------------------------------
(* How a job ends.                                                         *)

History == INSTANCE JobLifecycle_proofs WITH
  FilesOf   <- [j \in Jobs |-> Files(j)],
  status    <- [j \in Jobs |-> row[j].status],
  attempts  <- [j \in Jobs |-> row[j].attempts],
  documents <- docs,
  deleted   <- [j \in Jobs |-> row[j].deleted]

\* The life cycle the system implements is the one the theorem is about.
LEMMA SameLifecycle ==
  /\ Lifecycle!Init <=> History!Init
  /\ Abstract <=> [History!Next]_(History!jobVars)
<1>1. Lifecycle!Init <=> History!Init
  BY DEF Lifecycle!Init, History!Init
<1>2. \A j : /\ Lifecycle!Submit(j) <=> History!Submit(j)
             /\ Lifecycle!Cancel(j) <=> History!Cancel(j)
             /\ Lifecycle!Start(j) <=> History!Start(j)
             /\ Lifecycle!Document(j) <=> History!Document(j)
             /\ Lifecycle!Succeed(j) <=> History!Succeed(j)
             /\ Lifecycle!Delete(j) <=> History!Delete(j)
             /\ Lifecycle!GiveUp(j) <=> History!GiveUp(j)
  BY DEF Lifecycle!Submit, History!Submit, Lifecycle!Cancel, History!Cancel, Lifecycle!Start,
     History!Start, Lifecycle!Document, History!Document, Lifecycle!Succeed, History!Succeed,
     Lifecycle!Delete, History!Delete, Lifecycle!GiveUp, History!GiveUp, Lifecycle!Move,
     History!Move, Lifecycle!Over, History!Over
<1>3. Lifecycle!Next <=> History!Next
  BY <1>2 DEF Lifecycle!Next, History!Next
<1> QED
  BY <1>1, <1>3 DEF Abstract, Lifecycle!jobVars, History!jobVars

\* What JobLifecycle_proofs shows of the life cycle holds of the system.
LEMMA HistoryInherited ==
  ASSUME Stalls = {}
  PROVE  Spec => []History!HistoryIsTrue
<1>1. RefineInv /\ [Next]_vars => [History!Next]_(History!jobVars)
  BY StepMaps, SameLifecycle
<1>2. Init => History!Init
  BY InitMaps, SameLifecycle
<1> QED
  BY <1>1, <1>2, RefineInvariant, History!HistoryStaysTrue, PTL DEF Spec, History!Spec

\* A deleted job is over and shows no document.
THEOREM DeletedGoneForGood ==
  ASSUME Stalls = {}
  PROVE  Spec => []DeletedStaysGone
<1>1. History!HistoryIsTrue => DeletedStaysGone
  BY DEF History!HistoryIsTrue, History!Visible, History!Over, DeletedStaysGone, Terminal
<1> QED
  BY <1>1, HistoryInherited, PTL

\* A job the user sees as succeeded has a document to show.
THEOREM SuccessShowsDocuments ==
  ASSUME Stalls = {}
  PROVE  Spec => []SucceededHasDocuments
<1>1. History!HistoryIsTrue => SucceededHasDocuments
  BY DEF History!HistoryIsTrue, History!Visible, SucceededHasDocuments
<1> QED
  BY <1>1, HistoryInherited, PTL

-----------------------------------------------------------------------------
\* What is announced next is already in the table, and so is what was.
AnnouncersSucceeded == \A s \in Slots : pc[s] = "announce" => row[task[s]].status = "succeeded"

AnnounceInv == RefineInv /\ AnnouncersSucceeded /\ SuccessAnnouncedIsDurable

\* The types the next two lemmas need.
LEMMA NotifiedNow ==
  ASSUME AnnounceInv
  PROVE  notified \in [Jobs -> SUBSET {"succeeded", "failed"}]
  BY DEF AnnounceInv, RefineInv, OwnInv, TypeInv, WorkerTypeOK

\* A slot comes to its announcement by complete_job alone.
LEMMA AnnouncersStep ==
  ASSUME AnnounceInv, Next
  PROVE  AnnouncersSucceeded'
<1> SUFFICES ASSUME NEW s \in Slots, pc'[s] = "announce" PROVE row'[task'[s]].status = "succeeded"
  BY DEF AnnouncersSucceeded
<1> row \in [Jobs -> Row] /\ pc \in [Slots -> PC]
  BY WorkNow DEF AnnounceInv
<1>1. ASSUME pc[s] = "announce", task'[s] = task[s] PROVE row'[task'[s]].status = "succeeded"
  <2>1. task[s] \in Jobs /\ row[task[s]].status = "succeeded"
    BY <1>1, TaskIsJob DEF AnnounceInv, AnnouncersSucceeded, RefineInv, OwnInv
  <2> QED
    BY <1>1, <2>1, RowAdvances DEF Advances, Moves, AnnounceInv, RefineInv
<1>2. CASE UNCHANGED slotVars
  BY <1>1, <1>2 DEF slotVars
<1>3. ASSUME NEW w \in Workers, Gone(w) PROVE row'[task'[s]].status = "succeeded"
  BY <1>1, <1>3 DEF Gone
<1>4. ASSUME NEW t \in Slots, Slot(t) PROVE row'[task'[s]].status = "succeeded"
  <2>1. CASE s # t
    <3>1. UNCHANGED <<pc[s], task[s]>>
      BY <1>4, <2>1, SlotStepEffect, WorkNow DEF AnnounceInv, RefineInv, SlotEffect, SlotFrame,
         Slot, Claim, Goto
    <3> QED
      BY <1>1, <3>1
  <2>2. CASE s = t /\ Complete(t)
    <3>1. task[s] \in Jobs /\ Owns(s, task[s])
      BY <2>2, OwnerWrites DEF Complete, AnnounceInv, RefineInv
    <3>2. Write(task[s], [row[task[s]] EXCEPT !.status = "succeeded", !.lease = "none"])
      BY <2>2, <3>1 DEF Complete, CompleteJob, Owns
    <3> QED
      BY <2>2, <3>1, <3>2 DEF Complete, Write, Row
  <2>3. CASE s = t /\ ~Complete(t)
    BY <1>4, <2>3 DEF Slot, SlotStep, Claim, Load, Prepare, Fetch, Scan, List, Loop, Generate,
       Persist, Requeue, Fail, NotifyFailure, CommitFailure, NotifySuccess, SessionFails, Abandon,
       Release, End, Goto
  <2> QED
    BY <2>1, <2>2, <2>3
<1> QED
  BY <1>2, <1>3, <1>4 DEF Next, Api, Submit, AbandonUpload, Cancel, DeleteFromHistory,
     DeleteProject, Clock, Lapse, Due, Reap, Process, Drain, Restart, Stop, Crash

\* A success is announced by a slot that has committed it.
LEMMA AnnouncedStep ==
  ASSUME AnnounceInv, Next
  PROVE  SuccessAnnouncedIsDurable'
<1> SUFFICES ASSUME NEW j \in Jobs, "succeeded" \in notified'[j] PROVE row'[j].status = "succeeded"
  BY DEF SuccessAnnouncedIsDurable
<1>1. row[j].status = "succeeded"
  <2>1. CASE UNCHANGED notified
    BY <2>1 DEF AnnounceInv, SuccessAnnouncedIsDurable
  <2>2. ASSUME NEW s \in Slots, NotifyFailure(s) PROVE row[j].status = "succeeded"
    BY <2>2, NotifiedNow DEF NotifyFailure, Notify, AnnounceInv, SuccessAnnouncedIsDurable
  <2>3. ASSUME NEW s \in Slots, NotifySuccess(s) PROVE row[j].status = "succeeded"
    BY <2>3, NotifiedNow DEF NotifySuccess, Notify, AnnounceInv, SuccessAnnouncedIsDurable,
       AnnouncersSucceeded
  <2> QED
    BY <2>1, <2>2, <2>3 DEF Next, Api, Submit, AbandonUpload, Cancel, DeleteFromHistory,
       DeleteProject, Clock, Lapse, Due, Reap, Process, Drain, Restart, Stop, Crash, Gone, Slot,
       SlotStep, Claim, Load, Prepare, Fetch, Scan, List, Loop, Generate, Persist, Requeue, Fail,
       CommitFailure, Complete, SessionFails
<1> QED
  BY <1>1, RowAdvances DEF Advances, Moves, AnnounceInv, RefineInv

\* The webhook never announces a success that is not in the table (_notify
\* after the commit of complete_job).
THEOREM AnnouncedSuccessIsDurable ==
  ASSUME Stalls = {}
  PROVE  Spec => []SuccessAnnouncedIsDurable
<1>1. Init => AnnouncersSucceeded /\ SuccessAnnouncedIsDurable
  BY DEF Init, WorkerInit, AnnouncersSucceeded, SuccessAnnouncedIsDurable
<1>2. AnnounceInv /\ [Next]_vars => AnnounceInv'
  <2>1. CASE Next
    BY <2>1, RefineStep, AnnouncersStep, AnnouncedStep DEF AnnounceInv
  <2>2. CASE UNCHANGED vars
    BY <2>2, RefineStep DEF AnnounceInv, AnnouncersSucceeded, SuccessAnnouncedIsDurable, vars,
       queueVars, slotVars
  <2> QED
    BY <2>1, <2>2
<1>3. AnnounceInv => SuccessAnnouncedIsDurable
  BY DEF AnnounceInv
<1> QED
  BY <1>1, <1>2, <1>3, RefineInit, PTL DEF Spec, AnnounceInv

-----------------------------------------------------------------------------
\* What a slot may rely on: its archive and its tree are there until its own
\* finally, and gone when it says that all went well.
NothingOnDisk(j) == ~zip[j] /\ ~tree[j]

Tidy(s) ==
  /\ InTry(s) => zip[task[s]] /\ tree[task[s]]
  /\ pc[s] = "outcome" /\ work[s].result = "done" => NothingOnDisk(task[s])

\* Only an upload has files, and only one that has not succeeded.
DiskFree(j) == Request[j].kind # "archive" \/ row[j].status = "succeeded" => NothingOnDisk(j)

DiskInv == RefineInv /\ (\A s \in Slots : Tidy(s)) /\ \A j \in Jobs : DiskFree(j)

\* The types of the disk.
LEMMA DiskNow ==
  ASSUME DiskInv
  PROVE  /\ zip \in [Jobs -> BOOLEAN] /\ tree \in [Jobs -> BOOLEAN]
         /\ pc \in [Slots -> PC] /\ work \in [Slots -> Work] /\ row \in [Jobs -> Row]
         /\ task \in [Slots -> Jobs \cup {NoJob}]
  BY WorkNow DEF DiskInv, RefineInv, OwnInv, TypeInv, WorkerTypeOK

\* A slot finds its files as it left them where nobody else has written them.
LEMMA TidyKept ==
  ASSUME DiskInv, NEW s \in Slots, UNCHANGED <<pc[s], work[s], task[s]>>,
         \A j \in Jobs : Executing(s, j) => UNCHANGED <<zip[j], tree[j]>>
  PROVE  Tidy(s)'
<1>1. ASSUME pc[s] \notin {"idle", "announce"} PROVE UNCHANGED <<zip[task[s]], tree[task[s]]>>
  BY <1>1, OwnerWrites DEF DiskInv, RefineInv
<1> QED
  BY <1>1 DEF DiskInv, Tidy, InTry, NothingOnDisk

\* A job becomes a success by complete_job alone.
LEMMA SuccessIsCompleted ==
  ASSUME DiskInv, Next, NEW j \in Jobs, row'[j].status = "succeeded", row[j].status # "succeeded"
  PROVE  \E s \in Slots : Complete(s) /\ task[s] = j
<1> row \in [Jobs -> Row]
  BY DiskNow
<1>1. ASSUME NEW i \in Jobs, Api(i) PROVE FALSE
  <2>1. CASE Submit(i)
    BY <2>1 DEF Submit, Enqueue, Write, Row
  <2>2. CASE CancelJob(i)
    BY <2>2 DEF CancelJob, Write, Row
  <2>3. CASE row' = [row EXCEPT ![i].deleted = TRUE]
    BY <2>3 DEF Row
  <2> QED
    BY <1>1, <2>1, <2>2, <2>3 DEF Api, AbandonUpload, Cancel, DeleteFromHistory, DeleteProject,
       queueVars
<1>2. ASSUME NEW i \in Jobs, Clock(i) PROVE FALSE
  BY <1>2 DEF Clock, Lapse, LeaseExpires, Due, BecomeDue, Write, Row
<1>3. CASE Reap
  BY <1>3 DEF Reap, ReapExpiredLeases, Row
<1>4. ASSUME NEW w \in Workers, Process(w) PROVE FALSE
  BY <1>4 DEF Process, Drain, Stop, Crash, Restart, Gone, Orphan, queueVars, Row
<1>5. ASSUME NEW s \in Slots, Claim(s) PROVE FALSE
  BY <1>5 DEF Claim, ClaimJob, Write, Row
<1>6. ASSUME NEW s \in Slots, SlotStep(s) \/ SessionFails(s) PROVE Complete(s) /\ task[s] = j
  <2>1. row'[j] # row[j]
    OBVIOUS
  <2>2. CASE Prepare(s) \/ Fetch(s) \/ Loop(s)
    BY <2>1, <2>2 DEF Prepare, Fetch, Loop, Heartbeat, Write, Row
  <2>3. CASE Requeue(s) \/ CommitFailure(s)
    <3>1. PICK status \in {"queued", "failed"} :
            row' = [row EXCEPT ![task[s]] = [row[task[s]] EXCEPT !.status = status,
                       !.lockedBy = Nobody, !.lease = "none", !.due = FALSE]]
      BY <2>1, <2>3 DEF Requeue, CommitFailure, FailJob, Write, queueVars
    <3> QED
      BY <3>1 DEF Row
  <2>4. CASE Complete(s)
    BY <2>1, <2>4 DEF Complete, CompleteJob, Write
  <2> QED
    BY <1>6, <2>1, <2>2, <2>3, <2>4 DEF SlotStep, Load, Scan, List, Generate, Persist, Abandon,
       Fail, NotifyFailure, NotifySuccess, SessionFails, queueVars
<1> QED
  BY <1>1, <1>2, <1>3, <1>4, <1>5, <1>6 DEF Next, Slot

\* What a success leaves and what is no upload at all stays off the disk, when
\* a step writes files of an upload in progress only.
LEMMA FreeKept ==
  ASSUME DiskInv, Next, NEW j \in Jobs,
         \/ UNCHANGED <<zip[j], tree[j]>>
         \/ NothingOnDisk(j)'
         \/ Request[j].kind = "archive" /\ row[j].status # "succeeded",
         \A s \in Slots : Complete(s) => task[s] # j
  PROVE  DiskFree(j)'
<1>1. row'[j].status = "succeeded" => row[j].status = "succeeded"
  BY SuccessIsCompleted
<1> QED
  BY <1>1 DEF DiskInv, DiskFree, NothingOnDisk

\* The API writes and removes the file of a job nobody executes.
LEMMA ApiDisk ==
  ASSUME DiskInv, Next, NEW i \in Jobs, Api(i)
  PROVE  (\A s \in Slots : Tidy(s)') /\ \A j \in Jobs : DiskFree(j)'
<1>1. UNCHANGED <<slotVars, tree>>
  BY DEF Api, Submit, AbandonUpload, Cancel, DeleteFromHistory, DeleteProject
<1>2. \A j \in Jobs \ {i} : zip'[j] = zip[j]
  BY DiskNow DEF Api, Submit, AbandonUpload, Cancel, DeleteFromHistory, DeleteProject, Unlink
<1>3. \/ zip'[i] = zip[i]
      \/ row[i].status # "running" /\ ~zip'[i]
      \/ row[i].status = "absent" /\ (zip'[i] => Request[i].kind = "archive")
  BY DiskNow DEF Api, Submit, Enqueue, AbandonUpload, Cancel, DeleteFromHistory, DeleteProject,
     Unlink, Terminal
<1>4. ASSUME NEW s \in Slots PROVE Tidy(s)'
  <2>1. \A j \in Jobs : Executing(s, j) => row[j].status = "running"
    BY DEF DiskInv, RefineInv, OwnInv, OwnershipIsCurrent, Owns
  <2> QED
    BY <1>1, <1>2, <1>3, <2>1, TidyKept DEF slotVars
<1>5. ASSUME NEW j \in Jobs PROVE DiskFree(j)'
  <2>1. row'[j].status = "succeeded" => row[j].status = "succeeded"
    <3>1. \A s \in Slots : ~Complete(s) \/ task[s] # j
      BY <1>1, DiskNow DEF Complete, Goto, slotVars
    <3> QED
      BY <3>1, SuccessIsCompleted
  <2> QED
    BY <1>1, <1>2, <1>3, <2>1 DEF DiskInv, DiskFree, NothingOnDisk
<1> QED
  BY <1>4, <1>5

\* The clock, the reaper and the processes write no file.
LEMMA EnvironmentDisk ==
  ASSUME DiskInv, Next,
         \/ \E j \in Jobs : Clock(j)
         \/ \E w \in Workers : Process(w)
         \/ Reap
  PROVE  (\A s \in Slots : Tidy(s)') /\ \A j \in Jobs : DiskFree(j)'
<1>1. UNCHANGED <<zip, tree>>
  BY DEF Clock, Lapse, Due, Process, Drain, Stop, Crash, Restart, Gone, Reap, storeVars
<1>2. ASSUME NEW s \in Slots
      PROVE  UNCHANGED <<pc[s], work[s], task[s]>> \/ pc'[s] = "idle"
  BY DEF Clock, Lapse, Due, Process, Drain, Stop, Crash, Restart, Gone, Reap, slotVars
<1>3. \A s \in Slots : Tidy(s)'
  BY <1>1, <1>2, TidyKept DEF Tidy, InTry
<1>4. ASSUME NEW s \in Slots, Complete(s) PROVE FALSE
  BY <1>2, <1>4, DiskNow DEF Complete, Goto
<1> QED
  BY <1>1, <1>3, <1>4, FreeKept

\* What a step of slot s does to the disk.
SlotDisk(s) ==
  /\ Tidy(s)'
  /\ \A k \in Jobs \ {task[s]} : UNCHANGED <<zip[k], tree[k]>>
  /\ \/ UNCHANGED <<zip, tree>>
     \/ /\ pc[s] \notin {"idle", "announce"}
        /\ \/ ~zip'[task[s]] /\ ~tree'[task[s]]
           \/ Request[task[s]].kind = "archive"

\* The finally leaves nothing of the job, upload or not.
LEMMA CleanupDisk ==
  ASSUME DiskInv, NEW s \in Slots, Cleanup(s),
         pc[s] \in {"fetch", "scan", "list", "loop", "generate", "persist"}
  PROVE  ~zip'[task[s]] /\ ~tree'[task[s]]
<1>1. task[s] \in Jobs /\ DiskFree(task[s])
  BY OwnerWrites DEF DiskInv, RefineInv
<1> QED
  BY <1>1, DiskNow DEF Cleanup, InTry, NothingOnDisk, DiskFree

\* A slot that stops working on its job after the finally.
LEMMA StopDisk ==
  ASSUME DiskInv, NEW s \in Slots, Cleanup(s) \/ UNCHANGED <<zip, tree>>, pc[s] # "idle",
         pc[s] # "announce" \/ UNCHANGED <<zip, tree>>,
         \/ pc'[s] \in {"idle", "notify", "commit", "announce"}
         \/ pc'[s] = "outcome" /\ work'[s].result # "done"
  PROVE  SlotDisk(s)
<1>1. Tidy(s)'
  BY DEF Tidy, InTry
<1>2. CASE UNCHANGED <<zip, tree>>
  BY <1>1, <1>2 DEF SlotDisk
<1>3. CASE Cleanup(s) /\ ~UNCHANGED <<zip, tree>>
  <2>1. InTry(s)
    BY <1>3 DEF Cleanup
  <2>2. \A k \in Jobs \ {task[s]} : UNCHANGED <<zip[k], tree[k]>>
    BY <1>3, <2>1, DiskNow DEF Cleanup
  <2> QED
    BY <1>1, <1>3, <2>1, <2>2 DEF SlotDisk, InTry
<1> QED
  BY <1>2, <1>3

\* A slot that goes on has its files.
LEMMA GoOnDisk ==
  ASSUME DiskInv, NEW s \in Slots, InTry(s), UNCHANGED <<zip, tree, task>>,
         pc'[s] # "outcome"
  PROVE  SlotDisk(s)
  BY DEF DiskInv, Tidy, InTry, SlotDisk

\* The outcome of an attempt that ended early is not a success.
LEMMA EndResult ==
  ASSUME DiskInv, NEW s \in Slots, NEW result, End(s, result)
  PROVE  pc'[s] = "outcome" /\ work'[s].result = result
  BY DiskNow DEF End, Goto, Keep, Work

\* From the claim to the first file.
LEMMA ApproachDisk ==
  ASSUME DiskInv, NEW s \in Slots, Claim(s) \/ Load(s) \/ Prepare(s) \/ Fetch(s)
  PROVE  SlotDisk(s)
<1> DEFINE j == task[s]
<1>1. CASE Claim(s) \/ Load(s)
  BY <1>1, DiskNow DEF Claim, Load, Goto, storeVars, SlotDisk, Tidy, InTry
<1>2. CASE Prepare(s)
  <2>1. j \in Jobs /\ UNCHANGED <<task, zip>> /\ pc[s] = "prepare"
    BY <1>2, OwnerWrites DEF Prepare, DiskInv, RefineInv
  <2>2. ASSUME NEW result \in {"legacy", "error"}, End(s, result), UNCHANGED tree
        PROVE  SlotDisk(s)
    BY <2>1, <2>2, EndResult, StopDisk
  <2>3. CASE /\ Request[j].kind = "snippet" /\ Goto(s, "list") /\ UNCHANGED tree
    BY <2>1, <2>3, DiskNow DEF Goto, SlotDisk, Tidy, InTry
  <2>4. CASE /\ Goto(s, "fetch") /\ tree' = [tree EXCEPT ![j] = @ \/ Request[j].kind = "archive"]
             /\ Request[j].kind = "archive" => zip[j]
    <3>1. pc'[s] = "fetch"
      BY <2>4, DiskNow DEF Goto
    <3>2. CASE Request[j].kind = "archive"
      BY <2>1, <2>4, <3>1, <3>2, DiskNow DEF SlotDisk, Tidy, InTry
    <3>3. CASE Request[j].kind # "archive"
      BY <2>1, <2>4, <3>1, <3>3, DiskNow DEF SlotDisk, Tidy, InTry
    <3> QED
      BY <3>2, <3>3
  <2> QED
    BY <1>2, <2>2, <2>3, <2>4 DEF Prepare, Visible
<1>3. CASE Fetch(s)
  <2>1. j \in Jobs /\ UNCHANGED task /\ pc[s] = "fetch"
    BY <1>3, OwnerWrites DEF Fetch, DiskInv, RefineInv
  <2>2. ASSUME NEW result \in {"legacy", "error"}, End(s, result), Cleanup(s)
        PROVE  SlotDisk(s)
    BY <2>1, <2>2, EndResult, StopDisk
  <2>3. CASE /\ Goto(s, "scan") /\ tree' = [tree EXCEPT ![j] = @ \/ Request[j].kind = "archive"]
             /\ UNCHANGED zip
    <3>1. pc'[s] = "scan"
      BY <2>3, DiskNow DEF Goto
    <3>2. CASE Request[j].kind = "archive"
      BY <2>1, <2>3, <3>1, <3>2, DiskNow DEF DiskInv, SlotDisk, Tidy, InTry
    <3>3. CASE Request[j].kind # "archive"
      BY <2>1, <2>3, <3>1, <3>3, DiskNow DEF SlotDisk, Tidy, InTry
    <3> QED
      BY <3>2, <3>3
  <2> QED
    BY <1>3, <2>2, <2>3 DEF Fetch
<1> QED
  BY <1>1, <1>2, <1>3

\* From the scan to the outcome.
LEMMA WorkDisk ==
  ASSUME DiskInv, NEW s \in Slots,
         Scan(s) \/ List(s) \/ Loop(s) \/ Generate(s) \/ Persist(s) \/ SessionFails(s)
  PROVE  SlotDisk(s)
<1>1. pc[s] \notin {"idle", "announce"} /\ task[s] \in Jobs
  BY OwnerWrites DEF Scan, List, Loop, Generate, Persist, SessionFails, DiskInv, RefineInv
<1>2. ASSUME NEW label \in {"list", "loop", "generate", "persist"}, Goto(s, label),
             UNCHANGED <<zip, tree, task>>,
             pc[s] \in {"scan", "list", "loop", "generate", "persist"}
      PROVE  SlotDisk(s)
  BY <1>2, DiskNow DEF Goto, DiskInv, SlotDisk, Tidy, InTry
<1>3. ASSUME NEW result \in {"legacy", "error"}, End(s, result), Cleanup(s)
      PROVE  SlotDisk(s)
  BY <1>1, <1>3, EndResult, StopDisk
<1>4. CASE Abandon(s)
  BY <1>1, <1>4, DiskNow, StopDisk DEF Abandon, Release, Goto
<1>5. ASSUME pc[s] = "loop", Cleanup(s), Goto(s, "outcome"), UNCHANGED task PROVE SlotDisk(s)
  <2>1. ~zip'[task[s]] /\ ~tree'[task[s]] /\ pc'[s] = "outcome"
    BY <1>5, CleanupDisk, DiskNow DEF Goto
  <2>2. \A k \in Jobs \ {task[s]} : UNCHANGED <<zip[k], tree[k]>>
    BY <1>5, DiskNow DEF Cleanup
  <2> QED
    BY <1>1, <1>5, <2>1, <2>2 DEF SlotDisk, Tidy, InTry, NothingOnDisk
<1>6. CASE Scan(s)
  BY <1>2, <1>3, <1>6 DEF Scan
<1>7. CASE List(s)
  BY <1>2, <1>7 DEF List, storeVars
<1>8. CASE Loop(s)
  BY <1>2, <1>5, <1>8 DEF Loop
<1>9. CASE Generate(s)
  BY <1>2, <1>3, <1>9 DEF Generate
<1>10. CASE Persist(s)
  BY <1>2, <1>4, <1>10 DEF Persist
<1> QED
  BY <1>4, <1>6, <1>7, <1>8, <1>9, <1>10 DEF SessionFails

\* The verdict comes after the finally.
LEMMA VerdictDisk ==
  ASSUME DiskInv, NEW s \in Slots,
         \/ Requeue(s) \/ Fail(s) \/ NotifyFailure(s) \/ CommitFailure(s)
         \/ Complete(s) \/ NotifySuccess(s)
  PROVE  SlotDisk(s) /\ UNCHANGED <<zip, tree>>
<1>1. UNCHANGED <<zip, tree>> /\ pc[s] # "idle"
  BY DEF Requeue, Fail, NotifyFailure, CommitFailure, Complete, NotifySuccess, storeVars
<1>2. pc'[s] \in {"idle", "notify", "commit", "announce"}
  BY DiskNow DEF Requeue, Fail, NotifyFailure, CommitFailure, Complete, NotifySuccess, Release, Goto
<1> QED
  BY <1>1, <1>2, StopDisk

\* A step of a slot keeps the disk of all.
LEMMA SlotKeepsDisk ==
  ASSUME DiskInv, Next, NEW s \in Slots, Slot(s)
  PROVE  (\A t \in Slots : Tidy(t)') /\ \A j \in Jobs : DiskFree(j)'
<1>1. SlotDisk(s)
  BY ApproachDisk, WorkDisk, VerdictDisk DEF Slot, SlotStep
<1>2. \A t \in Slots \ {s} : UNCHANGED <<pc[t], task[t], work[t]>>
  <2>1. \A t \in Slots \ {s} : work'[t] = work[t]
    BY ListHonest, LoopHonest, GenerateHonest, PersistHonest, ApproachSteps, OutcomeSteps
    DEF Slot, SlotStep, DiskInv
  <2>2. CASE Claim(s)
    BY <2>1, <2>2, DiskNow DEF Claim, Goto
  <2> QED
    BY <2>1, <2>2, SlotStepEffect DEF DiskInv, RefineInv, SlotEffect, SlotFrame, Slot
<1>3. pc[s] \notin {"idle", "announce"} =>
        Executing(s, task[s]) /\ task[s] \in Jobs /\ row[task[s]].status = "running"
  BY OwnerWrites DEF DiskInv, RefineInv, Owns
<1>4. ASSUME NEW t \in Slots \ {s} PROVE Tidy(t)'
  <2>1. ASSUME NEW j \in Jobs, Executing(t, j) PROVE UNCHANGED <<zip[j], tree[j]>>
    <3>1. Executing(s, task[s]) => task[s] # j
      BY <2>1 DEF DiskInv, RefineInv, OwnInv, OwnershipIsCurrent, Owns
    <3> QED
      BY <1>1, <1>3, <3>1 DEF SlotDisk
  <2> QED
    BY <1>2, <2>1, TidyKept
<1>5. ASSUME NEW j \in Jobs PROVE DiskFree(j)'
  <2>1. CASE \E t \in Slots : Complete(t) /\ task[t] = j
    <3>1. Complete(s) /\ task[s] = j
      <4>1. PICK t \in Slots : Complete(t) /\ task[t] = j
        BY <2>1
      <4>2. pc'[t] # pc[t]
        BY <4>1, DiskNow DEF Complete, Goto
      <4> QED
        BY <1>2, <4>1, <4>2
    <3>2. NothingOnDisk(j) /\ UNCHANGED <<zip, tree>>
      BY <3>1, VerdictDisk DEF Complete, DiskInv, Tidy
    <3> QED
      BY <3>2 DEF DiskFree, NothingOnDisk
  <2>2. CASE \A t \in Slots : Complete(t) => task[t] # j
    <3>1. CASE j = task[s] /\ ~UNCHANGED <<zip, tree>>
      BY <1>1, <1>3, <2>2, <3>1, FreeKept DEF SlotDisk, NothingOnDisk
    <3>2. CASE ~(j = task[s] /\ ~UNCHANGED <<zip, tree>>)
      BY <1>1, <2>2, <3>2, FreeKept DEF SlotDisk
    <3> QED
      BY <3>1, <3>2
  <2> QED
    BY <2>1, <2>2
<1> QED
  BY <1>1, <1>4, <1>5 DEF SlotDisk

\* DiskInv holds in every reachable state.
LEMMA DiskInvariant ==
  ASSUME Stalls = {}
  PROVE  Spec => []DiskInv
<1>1. Init => DiskInv
  <2> SUFFICES ASSUME Init PROVE (\A s \in Slots : Tidy(s)) /\ \A j \in Jobs : DiskFree(j)
    BY RefineInit DEF DiskInv
  <2> QED
    BY DEF Init, WorkerInit, Tidy, InTry, DiskFree, NothingOnDisk
<1>2. DiskInv /\ [Next]_vars => DiskInv'
  <2> SUFFICES ASSUME DiskInv, [Next]_vars
               PROVE  (\A s \in Slots : Tidy(s)') /\ \A j \in Jobs : DiskFree(j)'
    BY RefineStep DEF DiskInv
  <2>1. CASE Next
    BY <2>1, ApiDisk, EnvironmentDisk, SlotKeepsDisk DEF Next
  <2>2. CASE UNCHANGED vars
    BY <2>2 DEF DiskInv, Tidy, InTry, DiskFree, NothingOnDisk, vars, queueVars, slotVars, storeVars
  <2> QED
    BY <2>1, <2>2
<1> QED
  BY <1>1, <1>2, RefineInvariant, PTL DEF Spec

\* Nobody removes the archive or the extracted tree under a slot at work: not
\* the API, not the finally of another attempt (_document_archive).
THEOREM WorkspaceStaysIntact ==
  ASSUME Stalls = {}
  PROVE  Spec => []WorkspaceIntact
<1>1. DiskInv => WorkspaceIntact
  BY DEF DiskInv, Tidy, WorkspaceIntact
<1> QED
  BY <1>1, DiskInvariant, PTL

\* A succeeded job has left nothing on the disk of the server.
THEOREM SuccessFreesDisk ==
  ASSUME Stalls = {}
  PROVE  Spec => []SucceededFreesDisk
<1>1. DiskInv => SucceededFreesDisk
  BY DEF DiskInv, DiskFree, NothingOnDisk, SucceededFreesDisk
<1> QED
  BY <1>1, DiskInvariant, PTL
=============================================================================
