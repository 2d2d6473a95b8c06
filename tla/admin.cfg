SPECIFICATION AdminSpec
CONSTANTS
  j1 = j1
  j2 = j2
  s1 = s1
  W = W
  c1 = c1
  c2 = c2
  NoLock = NoLock
  NoJob = NoJob
  Unlimited = Unlimited
  Jobs = {j1}
  Workers = {W}
  Slots = {s1}
  WorkerOf <- OneSlot
  JobOptions <- RetriedJobs
  MaxAttempts <- DefaultAttempts
  LocksOutliveHolder = TRUE
  Limits <- OneFault
  Callers = {c1, c2}
  Operations = {"RetryJob", "RemoveJob", "CleanCompleted", "CleanFailed", "Drain"}
  MaxCalls = 2
SYMMETRY CallerSymmetry
INVARIANTS AdminTypeOK 
