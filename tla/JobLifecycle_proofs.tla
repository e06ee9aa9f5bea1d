------------------------ MODULE JobLifecycle_proofs ------------------------
(***************************************************************************)
(* What a client may conclude from the life cycle of a job alone.  Every   *)
(* specification that implements JobLifecycle inherits it.                 *)
(***************************************************************************)
EXTENDS JobLifecycle, TLAPS

AnyFile == UNION {FilesOf[j] : j \in Jobs}

JobTypeOK ==
  /\ status \in [Jobs -> {"absent", "queued", "running"} \cup Over]
  /\ documents \in [Jobs -> SUBSET AnyFile]
  /\ deleted \in [Jobs -> BOOLEAN]

\* A deleted job is over and has no document left; a succeeded job that is in
\* the history has one.
Visible(j) ==
  /\ deleted[j] => status[j] \in Over /\ documents[j] = {}
  /\ status[j] = "succeeded" /\ ~deleted[j] => documents[j] # {}

HistoryIsTrue == \A j \in Jobs : Visible(j)

HistoryInv == JobTypeOK /\ HistoryIsTrue

\* Nothing is submitted yet.
LEMMA HistoryInit == Init => HistoryInv
  BY DEF Init, HistoryInv, JobTypeOK, HistoryIsTrue, Visible, Over

\* Every step keeps what the history shows true: documents only come while a
\* job runs, and go only with the history.
LEMMA HistoryStep == HistoryInv /\ [Next]_jobVars => HistoryInv'
<1> SUFFICES ASSUME HistoryInv, [Next]_jobVars PROVE HistoryInv'
  OBVIOUS
<1> USE DEF HistoryInv, JobTypeOK, HistoryIsTrue, Visible, Over
<1>1. ASSUME NEW j \in Jobs, Submit(j) \/ Cancel(j) \/ Start(j) \/ Succeed(j) PROVE HistoryInv'
  BY <1>1 DEF Submit, Cancel, Start, Succeed, Move
<1>2. ASSUME NEW j \in Jobs, Document(j) PROVE HistoryInv'
  BY <1>2 DEF Document, AnyFile
<1>3. ASSUME NEW j \in Jobs, Delete(j) PROVE HistoryInv'
  BY <1>3 DEF Delete
<1>4. ASSUME NEW S \in SUBSET Jobs, GiveUp(S) PROVE HistoryInv'
  BY <1>4 DEF GiveUp
<1>5. CASE UNCHANGED jobVars
  BY <1>5 DEF jobVars
<1> QED
  BY <1>1, <1>2, <1>3, <1>4, <1>5 DEF Next

\* A client that finds a job succeeded finds a document with it, and one that
\* deleted a job finds neither the job nor a document again (GET /jobs/{id},
\* delete_from_history).
THEOREM HistoryStaysTrue == Spec => []HistoryIsTrue
<1>1. HistoryInv => HistoryIsTrue
  BY DEF HistoryInv
<1> QED
  BY <1>1, HistoryInit, HistoryStep, PTL DEF Spec
=============================================================================
