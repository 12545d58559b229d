SPECIFICATION Spec
CONSTANTS
  Lines = {l1}
  Batches = {b1}
  Entries = {e1, e2}
  HttpTries = 1
  MaxAttempts = 3
  MaxStray = 0
  NoLine = NoLine
  NoEntry = NoEntry
INVARIANT ZeroDuplicates
CHECK_DEADLOCK FALSE
