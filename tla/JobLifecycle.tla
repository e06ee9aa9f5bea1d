---------------------------- MODULE JobLifecycle ----------------------------
(***************************************************************************)
(* What the API promises of a job (docs/api-contract.md, "status percorre  *)
(* queued -> running -> succeeded | failed | cancelled"), with no worker,  *)
(* lease or session in it: a state machine per job, documents that appear  *)
(* one at a time while the job runs, and a history that can be deleted.    *)
(***************************************************************************)
EXTENDS Naturals

CONSTANTS
  Jobs,
  MaxAttempts,
  FilesOf       \* FilesOf[j]: the files job j may get a document for

VARIABLES status, attempts, documents, deleted

jobVars == <<status, attempts, documents, deleted>>

Over == {"succeeded", "failed", "cancelled"}

Init ==
  /\ status = [j \in Jobs |-> "absent"]
  /\ attempts = [j \in Jobs |-> 0]
  /\ documents = [j \in Jobs |-> {}]
  /\ deleted = [j \in Jobs |-> FALSE]

Move(j, from, to) ==
  /\ status[j] = from
  /\ status' = [status EXCEPT ![j] = to]

Submit(j) == Move(j, "absent", "queued") /\ UNCHANGED <<attempts, documents, deleted>>

Cancel(j) == Move(j, "queued", "cancelled") /\ UNCHANGED <<attempts, documents, deleted>>

Start(j) ==
  /\ attempts[j] < MaxAttempts
  /\ Move(j, "queued", "running")
  /\ attempts' = [attempts EXCEPT ![j] = @ + 1]
  /\ UNCHANGED <<documents, deleted>>

\* A document never replaces another one.
Document(j) ==
  /\ status[j] = "running"
  /\ \E file \in FilesOf[j] \ documents[j] :
       documents' = [documents EXCEPT ![j] = @ \cup {file}]
  /\ UNCHANGED <<status, attempts, deleted>>

Succeed(j) ==
  /\ documents[j] # {}
  /\ Move(j, "running", "succeeded")
  /\ UNCHANGED <<attempts, documents, deleted>>

\* Attempts of several jobs may be given up at one instant (the reaper).  A
\* job that has attempts left goes back to the queue or is failed for good;
\* one that has none left is failed.
GiveUp(S) ==
  /\ \A j \in S : status[j] = "running"
  /\ \E retried \in SUBSET {j \in S : attempts[j] < MaxAttempts} :
       status' = [j \in Jobs |-> IF j \in retried THEN "queued"
                                 ELSE IF j \in S THEN "failed" ELSE status[j]]
  /\ UNCHANGED <<attempts, documents, deleted>>

Delete(j) ==
  /\ status[j] \in Over /\ ~deleted[j]
  /\ deleted' = [deleted EXCEPT ![j] = TRUE]
  /\ documents' = [documents EXCEPT ![j] = {}]
  /\ UNCHANGED <<status, attempts>>

Next ==
  \/ \E j \in Jobs : \/ Submit(j) \/ Cancel(j) \/ Start(j) \/ Document(j)
                     \/ Succeed(j) \/ Delete(j)
  \/ \E S \in SUBSET Jobs : GiveUp(S)

Spec == Init /\ [][Next]_jobVars
=============================================================================
