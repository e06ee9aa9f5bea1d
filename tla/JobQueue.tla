------------------------------ MODULE JobQueue ------------------------------
(***************************************************************************)
(* The jobs table and the functions of packages/core/legacydoc_core/       *)
(* queue.py, as they behave on Postgres (the SQLite branch of claim_job    *)
(* serves the unit tests only).                                            *)
(*                                                                         *)
(* Each operation is one SQL statement, hence atomic.  The parameter       *)
(* "held" is the set of rows another transaction has written and not yet   *)
(* committed: claim_job skips them (SKIP LOCKED) and every other writer    *)
(* waits for them.                                                         *)
(***************************************************************************)
EXTENDS Naturals

CONSTANTS
  Jobs,         \* the jobs a behaviour may submit
  Slots,        \* worker slots; a slot's name is the locked_by it writes
  MaxAttempts,  \* Job.max_attempts
  PriorityOf,   \* plan.queue_priority of each job's owner, lower goes first
  Nobody,       \* locked_by IS NULL
  Ghost         \* locked_by names a slot of a process that is gone

ASSUME QueueAssumption ==
  /\ MaxAttempts \in Nat \ {0}
  /\ PriorityOf \in [Jobs -> Nat]
  /\ Nobody \notin Slots
  /\ Ghost \notin Slots
  /\ Nobody # Ghost

VARIABLES
  row,    \* the jobs table
  ahead   \* ahead[j]: due jobs whose scheduled_at is earlier than j's

queueVars == <<row, ahead>>

Terminal == {"succeeded", "failed", "cancelled"}
JobStatus == {"absent", "queued", "running"} \cup Terminal

\* lease is lease_expires_at seen from now; due is scheduled_at <= now for a
\* queued row.
Row == [status   : JobStatus,
        lockedBy : Slots \cup {Nobody, Ghost},
        attempts : Nat,
        lease    : {"none", "live", "expired"},
        due      : BOOLEAN,
        deleted  : BOOLEAN]

NoRow == [status |-> "absent", lockedBy |-> Nobody, attempts |-> 0,
          lease |-> "none", due |-> FALSE, deleted |-> FALSE]

Ready(j) == row[j].status = "queued" /\ row[j].due

Write(j, columns) == row' = [row EXCEPT ![j] = columns]

-----------------------------------------------------------------------------
\* scheduled_at only matters for the order of due rows.  The jobs of S become
\* due at one instant, after every job that is due already ...
Joins(S) ==
  ahead' = [k \in Jobs |-> IF k \in S THEN {i \in Jobs \ S : Ready(i)}
                                      ELSE ahead[k] \ S]

\* ... or stop being due.
Leaves(S) ==
  ahead' = [k \in Jobs |-> IF k \in S THEN {} ELSE ahead[k] \ S]

Enqueue(j) ==
  /\ row[j].status = "absent"
  /\ Write(j, [row[j] EXCEPT !.status = "queued", !.due = TRUE])
  /\ Joins({j})

\* Bug: ORDER BY priority alone.
IsNextByPlan(j, held) ==
  /\ Ready(j) /\ j \notin held
  /\ \A i \in Jobs \ held : Ready(i) => PriorityOf[j] <= PriorityOf[i]

\* ORDER BY priority ASC, scheduled_at ASC FOR UPDATE SKIP LOCKED LIMIT 1
IsNext(j, held) ==
  /\ Ready(j) /\ j \notin held
  /\ \A i \in Jobs \ held : Ready(i) =>
       /\ PriorityOf[j] <= PriorityOf[i]
       /\ PriorityOf[j] = PriorityOf[i] => i \notin ahead[j]

\* Bug: the row is selected for update and its status left as it is.
ClaimJobSelect(s, j, held) ==
  /\ IsNext(j, held)
  /\ Write(j, [row[j] EXCEPT !.lockedBy = s, !.lease = "live", !.attempts = @ + 1])
  /\ UNCHANGED ahead

ClaimJob(s, j, held) ==
  /\ IsNext(j, held)
  /\ Write(j, [row[j] EXCEPT !.status = "running", !.lockedBy = s,
                             !.lease = "live", !.attempts = @ + 1, !.due = FALSE])
  /\ Leaves({j})

\* What heartbeat returns, and what it writes.  It never looks at the clock:
\* an expired lease nobody has reaped yet is renewed.
Alive(s, j) == row[j].lockedBy = s /\ row[j].status = "running"

Heartbeat(s, j) ==
  IF Alive(s, j) THEN Write(j, [row[j] EXCEPT !.lease = "live"])
                 ELSE UNCHANGED row

\* The WHERE clause names the owner and not the status; locked_by stays set.
CompleteJob(s, j) ==
  IF row[j].lockedBy = s
  THEN Write(j, [row[j] EXCEPT !.status = "succeeded", !.lease = "none"])
  ELSE UNCHANGED row

\* Bug: the lease stays on the row.
FailJobKeepsLease(j, retry) ==
  /\ Write(j, [row[j] EXCEPT !.status = IF retry THEN "queued" ELSE "failed",
                             !.lockedBy = Nobody, !.due = FALSE])
  /\ Leaves({j})

\* What fail_job flushes, by primary key: the row as it is now is not looked
\* at again.  A retry is scheduled in the future, min(30 * 2^(n-1), 900) s.
FailJob(j, retry) ==
  /\ Write(j, [row[j] EXCEPT !.status = IF retry THEN "queued" ELSE "failed",
                             !.lockedBy = Nobody, !.lease = "none", !.due = FALSE])
  /\ Leaves({j})

\* Bug: lease_expires_at < now() is dropped from the WHERE clause.
ExpiredOrNot == {j \in Jobs : row[j].status = "running"}

\* Bug: the second UPDATE, for the jobs without attempts left, is dropped.
ExpiredWithAttemptsLeft ==
  {j \in Jobs : /\ row[j].status = "running" /\ row[j].lease = "expired"
                /\ row[j].attempts < MaxAttempts}

Expired == {j \in Jobs : row[j].status = "running" /\ row[j].lease = "expired"}

\* Both UPDATEs of reap_expired_leases run in one transaction.
ReapExpiredLeases(held) ==
  LET requeued == {j \in Expired : row[j].attempts < MaxAttempts}
  IN  /\ Expired # {}
      /\ Expired \cap held = {}
      /\ row' = [j \in Jobs |->
                   IF j \notin Expired THEN row[j]
                   ELSE [row[j] EXCEPT
                           !.status = IF j \in requeued THEN "queued"
                                                        ELSE "failed",
                           !.lockedBy = Nobody, !.lease = "none",
                           !.due = (j \in requeued)]]
      /\ Joins(requeued)

\* Bug: a status the enumeration does not have.
CancelJobMisspelt(j) ==
  /\ row[j].status = "queued"
  /\ Write(j, [row[j] EXCEPT !.status = "canceled", !.due = FALSE])
  /\ Leaves({j})

CancelJob(j) ==
  /\ row[j].status = "queued"
  /\ Write(j, [row[j] EXCEPT !.status = "cancelled", !.due = FALSE])
  /\ Leaves({j})

-----------------------------------------------------------------------------
\* The clock.  A backoff runs out; a lease runs out.
BecomeDue(j) ==
  /\ row[j].status = "queued" /\ ~row[j].due
  /\ Write(j, [row[j] EXCEPT !.due = TRUE])
  /\ Joins({j})

LeaseExpires(j) ==
  /\ row[j].lease = "live"
  /\ Write(j, [row[j] EXCEPT !.lease = "expired"])
  /\ UNCHANGED ahead

\* Bug: what a dead worker is named on goes back to the queue.
OrphanRequeue(S) ==
  row' = [j \in Jobs |-> IF row[j].lockedBy \in S
                         THEN [row[j] EXCEPT !.status = "queued", !.lockedBy = Nobody]
                         ELSE row[j]]

\* A worker id ends in a fresh uuid (runner.py), so when a process is gone no
\* later slot equals the ids it left in the table: they become Ghost.
Orphan(S) ==
  row' = [j \in Jobs |-> IF row[j].lockedBy \in S
                         THEN [row[j] EXCEPT !.lockedBy = Ghost]
                         ELSE row[j]]

QueueInit ==
  /\ row = [j \in Jobs |-> NoRow]
  /\ ahead = [j \in Jobs |-> {}]

QueueTypeOK ==
  /\ row \in [Jobs -> Row]
  /\ ahead \in [Jobs -> SUBSET Jobs]
=============================================================================
