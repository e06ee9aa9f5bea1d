---------------------------- MODULE MCClaimOrder ----------------------------
\* Two paid jobs and a free one compete for one slot, without end.
EXTENDS ClaimOrder, TLC

CONSTANTS j1, j2, j3, s1

ThreeJobs == {j1, j2, j3}
OneSlot == {s1}
TwoPaidOneFree == (j1 :> 10) @@ (j2 :> 10) @@ (j3 :> 100)
=============================================================================
