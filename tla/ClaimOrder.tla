----------------------------- MODULE ClaimOrder -----------------------------
(***************************************************************************)
(* The order of claim_job under a load that never ends: jobs keep being    *)
(* submitted, fail and come back after a backoff, and an element of Jobs   *)
(* that is over stands for the next one its owner submits.  What a slot    *)
(* does between the claim and the end is left out: see Worker.             *)
(***************************************************************************)
EXTENDS JobQueue

Init == QueueInit

Arrive(j) == Enqueue(j)

Take(s) == (\A j \in Jobs : row[j].lockedBy # s) /\ \E j \in Jobs : ClaimJob(s, j, {})

\* The job ends and its owner submits another, or it is put back for later.
Leave(s, j) ==
  /\ row[j].lockedBy = s
  /\ \/ row' = [row EXCEPT ![j] = NoRow] /\ UNCHANGED ahead
     \/ row[j].attempts < MaxAttempts /\ FailJob(j, TRUE)

Next ==
  \/ \E j \in Jobs : Arrive(j) \/ BecomeDue(j)
  \/ \E s \in Slots : Take(s)
  \/ \E s \in Slots, j \in Jobs : Leave(s, j)

Fairness ==
  /\ \A j \in Jobs : WF_queueVars(BecomeDue(j))
  /\ \A s \in Slots : WF_queueVars(Take(s))
  /\ \A s \in Slots : WF_queueVars(\E j \in Jobs : Leave(s, j))

Spec == Init /\ [][Next]_queueVars /\ Fairness

\* The jobs no other job may overtake because of its plan.
BestBand == {j \in Jobs : \A i \in Jobs : PriorityOf[j] <= PriorityOf[i]}

\* Within the best band the queue is fair: a job of that band is claimed
\* however many others keep arriving and failing, because scheduled_at orders
\* the due ones and a requeued job goes behind those that were due before it.
BestBandServed ==
  \A j \in BestBand : row[j].status = "queued" ~> row[j].status = "running"

\* Only that band has the guarantee: where paying jobs never stop coming, a
\* job of the free plan can wait for ever (no doc promises otherwise).
=============================================================================
