SPECIFICATION Spec
CONSTANTS
  r1 = r1
  r2 = r2
  t1 = t1
  t2 = t2
  t3 = t3
  s1 = s1
  k1 = k1
  NoLink = NoLink
  Requests <- TwoRequests
  Links <- ThreeLinks
  Sessions <- OneSession
  Keys <- OneKey
  MaxFailed = 2
  AttemptsCap = 3
  LockUnit = 1
  LockCap = 1
  LinkLife = 2
  SessionLife = 1
SYMMETRY Alike
PROPERTIES
  ResetUnlocks
