SPECIFICATION Spec
CONSTANTS
  f1 = f1
  f2 = f2
  f3 = f3
  bad = bad
  Nobody = Nobody
  HashOf <- MCHashOf
  Files = {f1, f2, bad}
  FailedParts = {bad}
  InitialFiles = {f1, f2}
  Tasks = {t1, t2, t3}
  Requests = {r1, r2}
  Kinds = {"reprocess", "attach", "remove", "cancel", "discard"}
INVARIANT KeepsALine
CHECK_DEADLOCK FALSE
