SPECIFICATION FairSpec
CONSTANTS
  j1 = j1
  j2 = j2
  c1 = c1
  c2 = c2
  c3 = c3
  d1 = d1
  d2 = d2
  None = None
  Jobs = {j1, j2}
  Calls = {c1, c2, d1, d2}
  JobOf <- TwoAndTwo
  Handout <- AnyAndGone
INVARIANTS NoOrphanLoop LockKept
PROPERTY LoopsEnd
CHECK_DEADLOCK FALSE
