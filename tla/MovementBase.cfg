SPECIFICATION Spec
CONSTANTS
  Ids = {i1, i2}
  Accounts = {a, b}
  Months = {1, 2}
  Files = {f, g, h}
  Blank = {h}
  FileMonth = 1
  Requests = {r1, r2}
  MaxRequests = 3
  MaxChanges = 2
  Never = Never
SYMMETRY Symmetry
INVARIANTS TypeOK ExactMonth OneFileCounts
CHECK_DEADLOCK FALSE
