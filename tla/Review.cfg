SPECIFICATION Spec
CONSTANTS
  Lines = {l1, l2}
  OmieIds = {x1}
  Manual = {m1}
  Requests = {r1, r2}
  NoId = NoId
  NoLine = NoLine
  Same = Same
  Asked <- MCAsked
SYMMETRY Symmetry
VIEW View
INVARIANTS TypeOK CountersOfTheRows OneLinePerEntry LinkMeansConciliated
CHECK_DEADLOCK FALSE
