---------------------------- MODULE MCRateLimiter ----------------------------
\* A client and the three rules, with room for two of its three keys.
EXTENDS RateLimiter, TLC

CONSTANTS c1

OneClient == {c1}
Allowances == [auth |-> 1, jobs |-> 3, read |-> 1]
Windows == [auth |-> 3, jobs |-> 4, read |-> 1]

OneOfAKind == {"POST /v1/auth/login", "POST /v1/jobs", "GET /v1/jobs", "GET /health"}
==============================================================================
