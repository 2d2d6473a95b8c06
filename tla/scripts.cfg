SPECIFICATION FairSpec
CONSTANTS
  j1 = j1
  j2 = j2
  a = a
  b = b
  NoLock = NoLock
  NoJob = NoJob
  NoLimit = NoLimit
  Unlimited = Unlimited
  Jobs = {j1, j2}
  Foreign = {j2}
  Workers = {}
  Slots = {a, b}
  JobOptions <- SomeJobs
  KeepJobs <- KeepSome
  Concurrencies = {1, NoLimit}
  MaxStalled = 0
  Batch = 1
  Troubles = 1
INVARIANTS TypeOK OnePlace LockedActive AttemptsExact HeldLocked ActiveBounded CountsCover
PROPERTIES LeavesFairly SharedSettles LeasesKept
