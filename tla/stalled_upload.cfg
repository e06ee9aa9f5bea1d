SPECIFICATION FairSpec
CONSTANTS
  j1 = j1
  j2 = j2
  s1 = s1
  s2 = s2
  w1 = w1
  w2 = w2
  Nobody = Nobody
  Ghost = Ghost
  NoJob = NoJob
  Jobs <- OneJob
  Request <- Archive
  PriorityOf <- SamePriority
  Slots <- TwoSlots
  Workers <- TwoWorkers
  WorkerOf <- OneSlotEach
  MaxAttempts = 2
  SharedUploads = TRUE
  Stalls <- PC
INVARIANTS
  RowConsistent
  AttemptsBoundedUnderStall
  SucceededHasDocuments
PROPERTIES
  Settles
