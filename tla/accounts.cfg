SPECIFICATION Spec
CONSTANTS
  r1 = r1
  r2 = r2
  a1 = a1
  a2 = a2
  g1 = g1
  g2 = g2
  free = free
  pro = pro
  NoGrant = NoGrant
  NoPlan = NoPlan
  Requests <- TwoRequests
  Jobs <- TwoJobs
  Grants <- TwoGrants
  ExpiryOf <- SecondAndThird
  Value = 1
  Plans <- TwoPlans
  MaxConcurrent <- OneAtATime
  MonthlyQuota <- OneAMonth
  Ceilings <- OneOrTwoUnits
  GlobalBudget = 4
  FileCost = 2
  MaxFiles = 1
  OthersSpend = {0, 2}
  LastMonth = 2
  TurnsMidway = FALSE
SYMMETRY Alike
INVARIANTS
  TypeOK
  ChargedOnce
PROPERTIES
  SoonestFirst
  ForgivenOnlyWithoutCredit
  AdmittedWithinPlan
