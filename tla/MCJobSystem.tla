----------------------------- MODULE MCJobSystem -----------------------------
\* Instances of JobSystem for TLC: two worker processes with a slot each.
EXTENDS JobSystem, TLC

CONSTANTS j1, j2, s1, s2, w1, w2

OneJob == {j1}
TwoJobs == {j1, j2}
TwoSlots == {s1, s2}
TwoWorkers == {w1, w2}
OneSlotEach == (s1 :> w1) @@ (s2 :> w2)

PaidFirst == (j1 :> 100) @@ (j2 :> 10)
SamePriority == [j \in Jobs |-> 100]

\* An upload of two files, and a snippet in a project, with a webhook.
ArchiveAndSnippet ==
  (j1 :> [kind |-> "archive", files |-> 2, project |-> FALSE, webhook |-> FALSE])
  @@ (j2 :> [kind |-> "snippet", files |-> 1, project |-> TRUE, webhook |-> TRUE])

\* One upload of two files.
Archive ==
  j1 :> [kind |-> "archive", files |-> 2, project |-> FALSE, webhook |-> FALSE]

\* A repository of two files, in a project, with a webhook.
Repository ==
  j1 :> [kind |-> "repository", files |-> 2, project |-> TRUE, webhook |-> TRUE]

\* The processes are interchangeable, each with its slot.
Interchangeable ==
  {p \in Permutations(TwoSlots \cup TwoWorkers) :
     \A s \in TwoSlots : p[s] \in TwoSlots /\ p[OneSlotEach[s]] = OneSlotEach[p[s]]}

=============================================================================
