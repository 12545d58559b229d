SPECIFICATION Spec
CONSTANTS
  f1 = f1
  f2 = f2
  f3 = f3
  bad = bad
  Nobody = Nobody
  HashOf <- MCHashOf
  Files = {f1, bad}
  FailedParts = {bad}
  InitialFiles = {f1}
  Tasks = {t1, t2}
  Requests = {r1}
  Kinds = {"reprocess", "attach", "remove", "cancel", "discard"}
INVARIANT OneRunAtATime
CHECK_DEADLOCK FALSE
