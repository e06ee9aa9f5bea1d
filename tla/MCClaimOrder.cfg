SPECIFICATION Spec
CONSTANTS
  j1 = j1
  j2 = j2
  j3 = j3
  s1 = s1
  Nobody = Nobody
  Ghost = Ghost
  Jobs <- ThreeJobs
  Slots <- OneSlot
  PriorityOf <- TwoPaidOneFree
  MaxAttempts = 2
PROPERTIES
  BestBandServed
