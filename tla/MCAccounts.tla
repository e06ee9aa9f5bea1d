----------------------------- MODULE MCAccounts -----------------------------
\* An account with two plans and two requests under way.
EXTENDS Accounts, TLC

CONSTANTS r1, r2, a1, a2, g1, g2, free, pro

TwoRequests == {r1, r2}
TwoJobs == {a1, a2}
TwoGrants == {g1, g2}
SecondAndThird == (g1 :> 2) @@ (g2 :> 3)
TwoPlans == {free, pro}
OneAtATime == [p \in Plans |-> 1]
OneAMonth == [p \in Plans |-> 1]
OneOrTwoUnits == {1, 2}

Alike == Permutations(Requests) \cup Permutations(Jobs) \cup Permutations(Plans)
=============================================================================
