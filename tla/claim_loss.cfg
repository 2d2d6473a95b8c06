SPECIFICATION Spec
CONSTANTS
  j1 = j1
  j2 = j2
  a1 = a1
  a2 = a2
  b1 = b1
  A = A
  B = B
  NoLock = NoLock
  NoJob = NoJob
  Unlimited = Unlimited
  Jobs = {j1}
  Workers = {A}
  Slots = {a1}
  WorkerOf <- OneSlot
  JobOptions <- PlainJobs
  MaxAttempts <- DefaultAttempts
  LocksOutliveHolder = TRUE
  Limits <- Crash1
INVARIANT NoJobLoss
