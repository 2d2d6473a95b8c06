SPECIFICATION FunctionsSpec
CONSTANTS
  Bits = 16
  BackoffDelay = 7
  MaxBackoffDelay = 1000
  MaxRetries = 20
  Bytes = {123, 125, 97}
  MaxName = 3
  MaxChain = 3
  Hash <- CalculateCRC16
INVARIANTS CrcIsCcitt KeysTogether
PROPERTIES NeverSooner 
CHECK_DEADLOCK FALSE
