SPECIFICATION Spec
CONSTANTS
  c1 = c1
  Clients <- OneClient
  MaxRequests <- Allowances
  Window <- Windows
  Routes <- OneOfAKind
  ExemptRoutes = {"GET /health"}
  AuthRoutes = {"POST /v1/auth/login"}
  JobRoutes = {"POST /v1/jobs"}
  MaxTrackedKeys = 2
  Cycle = 12
INVARIANTS
  RetryAfterIsEnough
