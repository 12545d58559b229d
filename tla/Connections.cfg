SPECIFICATION Spec
CONSTANTS
  Ids = {c1, c2}
  Labels = {x, y}
  Secrets = {s1, s2}
  Requests = {r1, r2}
  None = None
  Gone = Gone
SYMMETRY Symmetry
INVARIANTS TypeOK OneTypeOfOrigin ErrorIsDeserved
CHECK_DEADLOCK FALSE
