------------------------------ MODULE JobSystem ------------------------------
(***************************************************************************)
(* The whole path of a job: the handlers of apps/api/legacydoc_api/        *)
(* routers/jobs.py, the queue, the worker processes with their slots and   *)
(* reapers, the clock.  Every actor moves at any time.                     *)
(***************************************************************************)
EXTENDS Worker

CONSTANT Stalls  \* where a slot that is alive may outlive its own lease

ASSUME SystemAssumption == Stalls \subseteq PC

TypeOK == QueueTypeOK /\ WorkerTypeOK

-----------------------------------------------------------------------------
\* create_job and create_upload_job, once their checks have passed: the upload
\* is on disk before the row is inserted.
Submit(j) ==
  /\ ~zip[j]
  /\ Enqueue(j)
  /\ zip' = [zip EXCEPT ![j] = (Request[j].kind = "archive")]
  /\ UNCHANGED <<mode, slotVars, docs, tree, project, notified>>

\* The client drops the connection during the upload, or the insert fails:
\* only the block that writes the file removes it, and only on an Exception.
AbandonUpload(j) ==
  /\ Request[j].kind = "archive" /\ row[j].status = "absent"
  /\ zip' = [zip EXCEPT ![j] = TRUE]
  /\ UNCHANGED <<queueVars, mode, slotVars, docs, tree, project, notified>>

Unlink(j) == zip' = [zip EXCEPT ![j] = FALSE]

\* Bug: the file goes although cancel_job found the job running.
CancelUnlinks(j) ==
  /\ ~row[j].deleted /\ j \notin Held /\ row[j].status \in {"queued", "running"}
  /\ CancelJob(j) \/ UNCHANGED queueVars
  /\ Unlink(j)
  /\ UNCHANGED <<mode, slotVars, docs, tree, project, notified>>

\* cancel: the file goes before the commit, which may still fail.
Cancel(j) ==
  /\ ~row[j].deleted /\ j \notin Held /\ row[j].status = "queued"
  /\ CancelJob(j) \/ UNCHANGED queueVars
  /\ Unlink(j)
  /\ UNCHANGED <<mode, slotVars, docs, tree, project, notified>>

\* Bug: the history of a job in progress can be deleted.
DeleteUnfinished(j) ==
  /\ row[j].status # "absent" /\ ~row[j].deleted /\ j \notin Held
  /\ row' = [row EXCEPT ![j].deleted = TRUE]
  /\ docs' = [docs EXCEPT ![j] = {}]
  /\ Unlink(j)
  /\ UNCHANGED <<ahead, mode, slotVars, tree, project, notified>>

\* delete_from_history: documents, file and row, in that order.
DeleteFromHistory(j) ==
  /\ row[j].status \in Terminal /\ ~row[j].deleted /\ j \notin Held
  /\ \/ /\ row' = [row EXCEPT ![j].deleted = TRUE]
        /\ docs' = [docs EXCEPT ![j] = {}]
     \/ UNCHANGED <<row, docs>>
  /\ Unlink(j)
  /\ UNCHANGED <<ahead, mode, slotVars, tree, project, notified>>

\* delete_project; ON DELETE SET NULL writes the rows of its jobs.
DeleteProject(j) ==
  /\ project[j] /\ j \notin Held
  /\ project' = [project EXCEPT ![j] = FALSE]
  /\ UNCHANGED <<queueVars, mode, slotVars, docs, zip, tree, notified>>

Api(j) == \/ Submit(j) \/ AbandonUpload(j) \/ Cancel(j)
          \/ DeleteFromHistory(j) \/ DeleteProject(j)

-----------------------------------------------------------------------------
\* A slot executes a job from the claim until its last statement on the row.
Executing(s, j) == task[s] = j /\ pc[s] # "announce"

\* Without stalls, a lease only runs out when nobody executes the job: the
\* steps between two renewals (claim, progress reports, files) fit in it.
Lapse(j) ==
  /\ \A s \in Slots : row[j].lockedBy = s /\ Executing(s, j) => pc[s] \in Stalls
  /\ LeaseExpires(j)
  /\ UNCHANGED <<mode, slotVars, storeVars, notified>>

Due(j) == BecomeDue(j) /\ UNCHANGED <<mode, slotVars, storeVars, notified>>

Clock(j) == Lapse(j) \/ Due(j)

Slot(s) == Claim(s) \/ SlotStep(s) \/ SessionFails(s)

Process(w) == Drain(w) \/ Stop(w) \/ Crash(w) \/ Restart(w)

Init == QueueInit /\ WorkerInit

Next ==
  \/ \E j \in Jobs : Api(j) \/ Clock(j)
  \/ \E s \in Slots : Slot(s)
  \/ \E w \in Workers : Process(w)
  \/ Reap

Spec == Init /\ [][Next]_vars

\* The clock runs, a slot that holds a job gets on with it, a drained process
\* exits and docker restarts what is down ("restart: unless-stopped").  A
\* process claims and reaps first thing when it comes up, so however often it
\* is restarted it gets to do so: strong fairness for these two.
Fairness ==
  /\ \A j \in Jobs : WF_vars(Lapse(j)) /\ WF_vars(Due(j))
  /\ \A s \in Slots : WF_vars(SlotStep(s))
  /\ \A w \in Workers : WF_vars(Stop(w)) /\ WF_vars(Restart(w))
  /\ SF_vars(Reap)
  /\ SF_vars(\E s \in Slots : Claim(s))

FairSpec == Spec /\ Fairness

-----------------------------------------------------------------------------
\* A running row has an owner and a lease, no other row has a lease, and only
\* a succeeded one keeps its owner; a job enters the order of the queue when
\* it is due and leaves it when it is not (queue.py).
RowConsistent ==
  \A j \in Jobs :
    /\ row[j].status = "running" <=> row[j].lease # "none"
    /\ row[j].status = "running" => row[j].lockedBy # Nobody
    /\ row[j].status \notin {"running", "succeeded"} => row[j].lockedBy = Nobody
    /\ row[j].due => row[j].status = "queued"
    /\ \A i \in ahead[j] : Ready(i) /\ Ready(j) /\ j \notin ahead[i]

\* At most one live slot executes a job.  Claims, the reaper, crashes, failed
\* sessions and drains never put two slots on one job, as long as no slot
\* outlives its lease.
ExclusiveExecution ==
  \A s, t \in Slots, j \in Jobs : Executing(s, j) /\ Executing(t, j) => s = t

Owns(s, j) ==
  /\ row[j].status = "running" /\ row[j].lockedBy = s /\ row[j].lease = "live"
  /\ ~row[j].deleted
  /\ pc[s] # "claimed" => /\ snap[s].owned /\ snap[s].intact
                          /\ snap[s].attempts = row[j].attempts

\* What a slot believes since Load is what the row says: it owns a running
\* job with a live lease, and fail_job's decision on the snapshot is right.
OwnershipIsCurrent ==
  \A s \in Slots, j \in Jobs : Executing(s, j) => Owns(s, j)

\* Retries are bounded: "ate 3 tentativas" (docs/como-funciona.md, 5.2).
AttemptsBounded == \A j \in Jobs : row[j].attempts <= MaxAttempts

\* When leases can be outlived every execution but the last may requeue the
\* job once more from its old snapshot, never more than that.
AttemptsBoundedUnderStall ==
  \A j \in Jobs : row[j].attempts <= 2 * MaxAttempts - 1

\* A job the user sees as succeeded has a document to show, whoever
\* documented what in whichever attempt.
SucceededHasDocuments ==
  \A j \in Jobs : row[j].status = "succeeded" /\ ~row[j].deleted => docs[j] # {}

\* A file with a document is not given to the agents again: a retry resumes
\* (docs/como-funciona.md, 5.4), so no token is paid twice for it.
NeverPaysTwice ==
  \A s \in Slots : pc[s] \in {"generate", "persist"} =>
    work[s].next \notin docs[task[s]]

\* Nobody removes the archive or the extracted tree under a slot that is
\* between its first look at the archive and its own finally.
WorkspaceIntact ==
  \A s \in Slots : InTry(s) => zip[task[s]] /\ tree[task[s]]

\* A succeeded upload has left nothing on the server's disk.
SucceededFreesDisk ==
  \A j \in Jobs : row[j].status = "succeeded" => ~zip[j] /\ ~tree[j]

\* A job that is over, and that no slot has in hand, has left none of the client's
\* code on the server's disk, however it ended ("nenhum caminho deixa codigo de
\* cliente parado no disco do servidor", docs/como-funciona.md).  The code does
\* not keep this: a failure in front of the try of process(), and the reaper, end
\* a job without removing its archive.
NoCodeLeftBehind ==
  \A j \in Jobs :
    row[j].status \in Terminal /\ (\A s \in Slots : task[s] # j) => ~zip[j] /\ ~tree[j]

\* The webhook never announced a success that is not in the table.
SuccessAnnouncedIsDurable ==
  \A j \in Jobs : "succeeded" \in notified[j] => row[j].status = "succeeded"

\* A deleted job is over and shows no document.
DeletedStaysGone ==
  \A j \in Jobs : row[j].deleted => row[j].status \in Terminal /\ docs[j] = {}

\* succeeded, failed and cancelled are final (JobStatus.is_terminal): a client
\* stops polling there.
TerminalIsFinal ==
  [][\A j \in Jobs : row[j].status \in Terminal =>
        row'[j].status = row[j].status]_vars

\* Every job that was accepted comes to rest in a terminal state.
Settles ==
  \A j \in Jobs : row[j].status = "queued" ~> [](row[j].status \in Terminal)

-----------------------------------------------------------------------------
\* The system implements the life cycle the API promises.
Lifecycle == INSTANCE JobLifecycle WITH
  FilesOf   <- [j \in Jobs |-> Files(j)],
  status    <- [j \in Jobs |-> row[j].status],
  attempts  <- [j \in Jobs |-> row[j].attempts],
  documents <- docs,
  deleted   <- [j \in Jobs |-> row[j].deleted]

\* A job moves as docs/api-contract.md says: no attempt beyond the last, no
\* way out of a terminal state, documents only while it runs, a success only
\* with documents, and nothing comes back after the history is deleted.
ImplementsLifecycle == Lifecycle!Spec
=============================================================================
