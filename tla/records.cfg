SPECIFICATION Spec
CONSTANTS
  c1 = c1
  c2 = c2
  Calls = {c1, c2}
  Callers = {a1}
  KeepLogs <- OneAndTwo
  Progresses = {50, 100}
  OptionSets = {{"complete"}, {"fail"}}
  MaxWrites <- OneAndTwo
  MaxScans = 1
  MaxFaults = 1
INVARIANTS TypeOK LogsOwned LogsNewest ProgressTold FinalTold ResultKept
CHECK_DEADLOCK FALSE
