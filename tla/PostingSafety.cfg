SPECIFICATION Spec
CONSTANTS
  Lines = {l1, l2}
  Batches = {b1, b2}
  Entries = {e1, e2}
  HttpTries = 2
  MaxAttempts = 3
  MaxStray = 1
  NoLine = NoLine
  NoEntry = NoEntry
SYMMETRY Symmetry
CONSTRAINT OneHardLine
INVARIANTS TypeOK IntentBeforeEffect ConfirmedIsThere AtMostOnce
PROPERTY ConfirmedStays
CHECK_DEADLOCK FALSE
