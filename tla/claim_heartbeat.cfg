SPECIFICATION Spec
CONSTANTS
  j1 = j1
  j2 = j2
  c1 = c1
  c2 = c2
  c3 = c3
  d1 = d1
  d2 = d2
  None = None
  Jobs = {j1}
  Calls = {c1, c2, c3}
  JobOf <- Three
  Handout <- Returned
INVARIANT HeartbeatUntilDone
CHECK_DEADLOCK FALSE
