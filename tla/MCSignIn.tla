------------------------------ MODULE MCSignIn ------------------------------
\* An account with two requests under way.
EXTENDS SignIn, TLC

CONSTANTS r1, r2, t1, t2, t3, s1, k1

TwoRequests == {r1, r2}
ThreeLinks == {t1, t2, t3}
OneSession == {s1}
OneKey == {k1}

Alike == Permutations(Requests) \cup Permutations(Links)
=============================================================================
