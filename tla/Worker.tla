------------------------------- MODULE Worker -------------------------------
(***************************************************************************)
(* A worker process: its slots (runner.py) and what a slot does with the   *)
(* job it claimed (processor.py), from the claim to the webhook.           *)
(*                                                                         *)
(* A step of this module runs from one await to the next one that lets     *)
(* another actor in: a committed statement, the fetch of the sources, one  *)
(* run of the agents' pipeline, one webhook call.                          *)
(***************************************************************************)
EXTENDS JobQueue, FiniteSets

CONSTANTS
  Workers,        \* worker processes
  WorkerOf,       \* the process each slot belongs to
  Request,        \* what each job asks for
  SharedUploads,  \* does the worker see the directory the API uploads to?
  NoJob           \* the task of a slot that has none

Kinds == {"snippet", "archive", "repository"}

ASSUME WorkerAssumption ==
  /\ WorkerOf \in [Slots -> Workers]
  /\ Request \in [Jobs -> [kind : Kinds, files : Nat,
                           project : BOOLEAN, webhook : BOOLEAN]]
  /\ SharedUploads \in BOOLEAN
  /\ NoJob \notin Jobs

VARIABLES
  mode,      \* mode[w]: is the process up, draining after SIGTERM, or down
  pc,        \* pc[s]: where the slot is
  task,      \* task[s]: the job it holds
  snap,      \* snap[s]: the Job object its session loaded and never refreshes
  work,      \* work[s]: the locals of _document_files and how process() ended
  docs,      \* docs[j]: indices of the files of j with a row in documents
  zip,       \* zip[j]: the uploaded archive is on disk
  tree,      \* tree[j]: the directory archive_<job id> is on disk
  project,   \* project[j]: the project the job belongs to exists
  notified   \* notified[j]: statuses the webhook was called with

slotVars == <<pc, task, snap, work>>
storeVars == <<docs, zip, tree, project>>
vars == <<queueVars, mode, slotVars, storeVars, notified>>

PC == {"idle", "claimed", "prepare", "fetch", "scan", "list", "loop",
       "generate", "persist", "outcome", "notify", "commit", "announce"}

\* owned: job.locked_by is this slot; intact: params and webhook_url are there.
Snapshot == [owned : BOOLEAN, attempts : Nat, project : BOOLEAN,
             intact : BOOLEAN]
NoSnapshot == [owned |-> FALSE, attempts |-> 0, project |-> FALSE,
               intact |-> FALSE]

\* result: process() returned ("done"), raised a LegacyDocError ("legacy") or
\* raised anything else ("error").
Work == [known : SUBSET Nat, next : Nat, produced : BOOLEAN,
         result : {"none", "done", "legacy", "error"}]
NoWork == [known |-> {}, next |-> 1, produced |-> FALSE, result |-> "none"]

Files(j) == 1..Request[j].files

WorkerTypeOK ==
  /\ mode \in [Workers -> {"up", "draining", "down"}]
  /\ pc \in [Slots -> PC]
  /\ task \in [Slots -> Jobs \cup {NoJob}]
  /\ snap \in [Slots -> Snapshot]
  /\ work \in [Slots -> Work]
  /\ docs \in [Jobs -> SUBSET Nat]
  /\ zip \in [Jobs -> BOOLEAN]
  /\ tree \in [Jobs -> BOOLEAN]
  /\ project \in [Jobs -> BOOLEAN]
  /\ notified \in [Jobs -> SUBSET {"succeeded", "failed"}]

-----------------------------------------------------------------------------
\* fail_job has flushed its UPDATE and the session is not committed: _notify
\* runs inside session_scope, so the row stays locked during the webhook call.
Held == {task[s] : s \in {t \in Slots : /\ pc[t] \in {"notify", "commit"}
                                        /\ snap[t].owned}}

Goto(s, label) == pc' = [pc EXCEPT ![s] = label]

Keep(s, locals) == work' = [work EXCEPT ![s] = locals]

Release(s) ==
  /\ Goto(s, "idle")
  /\ task' = [task EXCEPT ![s] = NoJob]
  /\ snap' = [snap EXCEPT ![s] = NoSnapshot]
  /\ work' = [work EXCEPT ![s] = NoWork]

\* process() ends and _execute looks at how.
End(s, result) ==
  /\ Goto(s, "outcome")
  /\ Keep(s, [work[s] EXCEPT !.result = result])

\* The finally of _document_archive.
InTry(s) == /\ pc[s] \in {"fetch", "scan", "list", "loop", "generate", "persist"}
            /\ Request[task[s]].kind = "archive"

\* Bug: the finally forgets the archive.
CleanupTree(s) ==
  IF InTry(s)
  THEN tree' = [tree EXCEPT ![task[s]] = FALSE] /\ UNCHANGED zip
  ELSE UNCHANGED <<zip, tree>>

Cleanup(s) ==
  IF InTry(s)
  THEN /\ zip' = [zip EXCEPT ![task[s]] = FALSE]
       /\ tree' = [tree EXCEPT ![task[s]] = FALSE]
  ELSE UNCHANGED <<zip, tree>>

\* An exception that _execute does not survive: a failed flush leaves the
\* session unusable, so fail_job raises in its turn, session_scope rolls back
\* and _slot logs.  The row is not touched.
Abandon(s) == Cleanup(s) /\ Release(s) /\ UNCHANGED queueVars

-----------------------------------------------------------------------------
Claim(s) ==
  /\ pc[s] = "idle" /\ mode[WorkerOf[s]] = "up"
  /\ \E j \in Jobs : /\ ClaimJob(s, j, Held)
                     /\ task' = [task EXCEPT ![s] = j]
  /\ Goto(s, "claimed")
  /\ UNCHANGED <<mode, snap, work, storeVars, notified>>

\* _execute opens a session of its own and loads the job once.
Load(s) ==
  /\ pc[s] = "claimed"
  /\ LET j == task[s]
     IN  snap' = [snap EXCEPT ![s] = [owned    |-> row[j].lockedBy = s,
                                      attempts |-> row[j].attempts,
                                      project  |-> project[j],
                                      intact   |-> ~row[j].deleted]]
  /\ Goto(s, "prepare")
  /\ UNCHANGED <<queueVars, mode, task, work, storeVars, notified>>

\* archive_path.is_file(), as the worker sees it.
Visible(j) == SharedUploads /\ zip[j]

\* process() up to its first progress report, whose answer is ignored.  No
\* provider configured is a LegacyDocError; missing params a KeyError.  The
\* extraction that follows creates its directory before anything else.
Prepare(s) ==
  LET j == task[s]
      kind == Request[j].kind
  IN  /\ pc[s] = "prepare"
      /\ \/ /\ End(s, "legacy")
            /\ UNCHANGED <<row, tree>>
         \/ /\ kind # "repository" /\ ~snap[s].intact
            /\ End(s, "error")
            /\ UNCHANGED <<row, tree>>
         \/ /\ kind = "archive" /\ snap[s].intact /\ ~Visible(j)
            /\ End(s, "legacy")
            /\ UNCHANGED <<row, tree>>
         \/ /\ kind = "snippet" /\ snap[s].intact
            /\ Goto(s, "list")
            /\ UNCHANGED <<row, tree, work>>
         \/ /\ kind = "repository" \/ (kind = "archive" /\ snap[s].intact /\ Visible(j))
            /\ j \notin Held
            /\ Heartbeat(s, j)
            /\ tree' = [tree EXCEPT ![j] = @ \/ kind = "archive"]
            /\ Goto(s, "fetch")
            /\ UNCHANGED work
      /\ UNCHANGED <<ahead, mode, task, snap, docs, zip, project, notified>>

\* safe_extract or clone, then the second progress report.
Fetch(s) ==
  LET j == task[s]
      archive == Request[j].kind = "archive"
      possible == IF archive THEN zip[j] ELSE snap[s].intact
  IN  /\ pc[s] = "fetch"
      /\ \/ /\ possible /\ j \notin Held
            /\ Heartbeat(s, j)
            /\ tree' = [tree EXCEPT ![j] = @ \/ archive]
            /\ Goto(s, "scan")
            /\ UNCHANGED <<work, zip>>
         \/ \E result \in {"legacy", "error"} :
              /\ ~possible => result = "error"
              /\ Cleanup(s)
              /\ End(s, result)
              /\ UNCHANGED row
      /\ UNCHANGED <<ahead, mode, task, snap, docs, project, notified>>

\* The scan reads every file into memory.
Scan(s) ==
  LET j == task[s]
  IN  /\ pc[s] = "scan"
      /\ \/ /\ Request[j].kind = "archive" => tree[j]
            /\ Goto(s, "list")
            /\ UNCHANGED <<work, zip, tree>>
         \/ Cleanup(s) /\ End(s, "legacy")
      /\ UNCHANGED <<queueVars, mode, task, snap, docs, project, notified>>

\* Bug: a retry starts from nothing.
ListNothing(s) ==
  /\ pc[s] = "list"
  /\ Goto(s, "loop")
  /\ UNCHANGED <<queueVars, mode, task, snap, work, storeVars, notified>>

\* already_documented, read once per attempt.
List(s) ==
  /\ pc[s] = "list"
  /\ Keep(s, [work[s] EXCEPT !.known = docs[task[s]]])
  /\ Goto(s, "loop")
  /\ UNCHANGED <<queueVars, mode, task, snap, storeVars, notified>>

\* The file the loop documents next; those it skips on its way there have a
\* document and count as created.
Pending(s) == {f \in Files(task[s]) : f >= work[s].next /\ f \notin work[s].known}
IsNextFile(s, f) == f \in Pending(s) /\ \A g \in Pending(s) : f <= g

SkipTo(s, f, result) ==
  Keep(s, [work[s] EXCEPT !.next = f, !.result = result,
                          !.produced = @ \/ work[s].next < f])

\* The heartbeat in front of every file is the one whose answer counts.
Loop(s) ==
  LET j == task[s]
  IN  /\ pc[s] = "loop"
      /\ \/ /\ Pending(s) = {}
            /\ SkipTo(s, Request[j].files + 1, "done")
            /\ Cleanup(s)
            /\ Goto(s, "outcome")
            /\ UNCHANGED row
         \/ \E f \in Files(j) :
              /\ IsNextFile(s, f)
              /\ j \notin Held
              /\ Heartbeat(s, j)
              /\ \/ /\ Alive(s, j)
                    /\ SkipTo(s, f, "none")
                    /\ Goto(s, "generate")
                    /\ UNCHANGED <<zip, tree>>
                 \/ /\ ~Alive(s, j)
                    /\ SkipTo(s, f, "done")
                    /\ Cleanup(s)
                    /\ Goto(s, "outcome")
      /\ UNCHANGED <<ahead, mode, task, snap, docs, project, notified>>

\* pipeline.run; a LegacyDocError costs the file, not the job.
Generate(s) ==
  /\ pc[s] = "generate"
  /\ \/ /\ Goto(s, "persist")
        /\ UNCHANGED <<work, zip, tree>>
     \/ /\ Goto(s, "loop")
        /\ Keep(s, [work[s] EXCEPT !.next = @ + 1])
        /\ UNCHANGED <<zip, tree>>
     \/ Cleanup(s) /\ End(s, "error")
  /\ UNCHANGED <<queueVars, mode, task, snap, docs, project, notified>>

\* Insert and commit: no look at the row of the job.  The unique constraint
\* (job_id, path) and the foreign key to the project can refuse it.
Persist(s) ==
  LET j == task[s]
      refused == work[s].next \in docs[j] \/ (snap[s].project /\ ~project[j])
  IN  /\ pc[s] = "persist"
      /\ \/ /\ ~refused
            /\ docs' = [docs EXCEPT ![j] = @ \cup {work[s].next}]
            /\ Keep(s, [work[s] EXCEPT !.next = @ + 1, !.produced = TRUE])
            /\ Goto(s, "loop")
            /\ UNCHANGED <<queueVars, task, snap, zip, tree>>
         \/ /\ refused
            /\ Abandon(s)
            /\ UNCHANGED docs
      /\ UNCHANGED <<mode, project, notified>>

-----------------------------------------------------------------------------
\* Bugs: one attempt too many; attempts never looked at.
MayRetryOnceMore(s) == snap[s].owned /\ snap[s].attempts <= MaxAttempts
MayRetryAlways(s) == snap[s].owned

\* fail_job decides on the snapshot, not on the row.
MayRetry(s) == snap[s].owned /\ snap[s].attempts < MaxAttempts

Requeue(s) ==
  /\ pc[s] = "outcome" /\ work[s].result = "error" /\ MayRetry(s)
  /\ task[s] \notin Held
  /\ FailJob(task[s], TRUE)
  /\ Release(s)
  /\ UNCHANGED <<mode, storeVars, notified>>

\* The final failure is flushed, then announced, then committed.
Fail(s) ==
  /\ pc[s] = "outcome"
  /\ \/ work[s].result = "legacy"
     \/ work[s].result = "error" /\ ~MayRetry(s)
     \/ work[s].result = "done" /\ ~work[s].produced
  /\ snap[s].owned => task[s] \notin Held
  /\ Goto(s, "notify")
  /\ UNCHANGED <<queueVars, mode, task, snap, work, storeVars, notified>>

Notify(s, status) ==
  notified' = IF Request[task[s]].webhook /\ snap[s].intact
              THEN [notified EXCEPT ![task[s]] = @ \cup {status}]
              ELSE notified

NotifyFailure(s) ==
  /\ pc[s] = "notify"
  /\ Notify(s, "failed")
  /\ Goto(s, "commit")
  /\ UNCHANGED <<queueVars, mode, task, snap, work, storeVars>>

CommitFailure(s) ==
  /\ pc[s] = "commit"
  /\ IF snap[s].owned THEN FailJob(task[s], FALSE) ELSE UNCHANGED queueVars
  /\ Release(s)
  /\ UNCHANGED <<mode, storeVars, notified>>

\* Bug: a job that ran through without a document counts as a success.
CompleteEmpty(s) ==
  /\ pc[s] = "outcome" /\ work[s].result = "done"
  /\ task[s] \notin Held
  /\ CompleteJob(s, task[s])
  /\ Goto(s, "announce")
  /\ UNCHANGED <<ahead, mode, task, snap, work, storeVars, notified>>

\* Bug: the success is announced by a session that never commits it.
CompleteUncommitted(s) ==
  /\ pc[s] = "outcome" /\ work[s].result = "done" /\ work[s].produced
  /\ task[s] \notin Held
  /\ Goto(s, "announce")
  /\ UNCHANGED <<queueVars, mode, task, snap, work, storeVars, notified>>

\* Success is committed, then announced.
Complete(s) ==
  /\ pc[s] = "outcome" /\ work[s].result = "done" /\ work[s].produced
  /\ task[s] \notin Held
  /\ CompleteJob(s, task[s])
  /\ Goto(s, "announce")
  /\ UNCHANGED <<ahead, mode, task, snap, work, storeVars, notified>>

NotifySuccess(s) ==
  /\ pc[s] = "announce"
  /\ Notify(s, "succeeded")
  /\ Release(s)
  /\ UNCHANGED <<queueVars, mode, storeVars>>

\* Any statement can fail: the database restarts, the connection drops.
SessionFails(s) ==
  /\ pc[s] \in {"claimed", "prepare", "fetch", "list", "loop", "persist",
                "outcome", "commit"}
  /\ Abandon(s)
  /\ UNCHANGED <<mode, docs, project, notified>>

SlotStep(s) ==
  \/ Load(s) \/ Prepare(s) \/ Fetch(s) \/ Scan(s) \/ List(s) \/ Loop(s)
  \/ Generate(s) \/ Persist(s) \/ Requeue(s) \/ Fail(s) \/ NotifyFailure(s)
  \/ CommitFailure(s) \/ Complete(s) \/ NotifySuccess(s)

-----------------------------------------------------------------------------
SlotsOf(w) == {s \in Slots : WorkerOf[s] = w}

\* Every worker process runs a reaper until it is told to stop.
Reap ==
  /\ \E w \in Workers : mode[w] = "up"
  /\ ReapExpiredLeases(Held)
  /\ UNCHANGED <<mode, slotVars, storeVars, notified>>

Drain(w) ==
  /\ mode[w] = "up"
  /\ mode' = [mode EXCEPT ![w] = "draining"]
  /\ UNCHANGED <<queueVars, slotVars, storeVars, notified>>

\* The process is gone with all its slots, and what they had not committed.
Gone(w) ==
  /\ mode' = [mode EXCEPT ![w] = "down"]
  /\ Orphan(SlotsOf(w))
  /\ pc' = [s \in Slots |-> IF s \in SlotsOf(w) THEN "idle" ELSE pc[s]]
  /\ task' = [s \in Slots |-> IF s \in SlotsOf(w) THEN NoJob ELSE task[s]]
  /\ snap' = [s \in Slots |-> IF s \in SlotsOf(w) THEN NoSnapshot ELSE snap[s]]
  /\ work' = [s \in Slots |-> IF s \in SlotsOf(w) THEN NoWork ELSE work[s]]
  /\ UNCHANGED <<ahead, storeVars, notified>>

Stop(w) ==
  /\ mode[w] = "draining"
  /\ \A s \in SlotsOf(w) : pc[s] = "idle"
  /\ Gone(w)

Crash(w) == mode[w] # "down" /\ Gone(w)

Restart(w) ==
  /\ mode[w] = "down"
  /\ mode' = [mode EXCEPT ![w] = "up"]
  /\ UNCHANGED <<queueVars, slotVars, storeVars, notified>>

WorkerInit ==
  /\ mode = [w \in Workers |-> "up"]
  /\ pc = [s \in Slots |-> "idle"]
  /\ task = [s \in Slots |-> NoJob]
  /\ snap = [s \in Slots |-> NoSnapshot]
  /\ work = [s \in Slots |-> NoWork]
  /\ docs = [j \in Jobs |-> {}]
  /\ zip = [j \in Jobs |-> FALSE]
  /\ tree = [j \in Jobs |-> FALSE]
  /\ project = [j \in Jobs |-> Request[j].project]
  /\ notified = [j \in Jobs |-> {}]
=============================================================================
