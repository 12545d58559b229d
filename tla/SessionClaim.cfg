SPECIFICATION Spec
CONSTANTS
  f1 = f1
  f2 = f2
  f3 = f3
  bad = bad
  Nobody = Nobody
  HashOf <- MCHashOf
  Files = {f1, bad}
  FailedParts = {bad}
  InitialFiles = {f1}
  Tasks = {t1, t2, t3, t4}
  Requests = {r1, r2, r3}
  Kinds = {"reprocess", "discard"}
SYMMETRY Symmetry
PROPERTY ExclusiveSpec
CHECK_DEADLOCK FALSE
