CONSTANTS
  a1 = a1
  b1 = b1
  c1 = c1
  d1 = d1
  o = o
  p = p
  q = q
  A = A
  B = B
  C = C
  D = D
  r1 = r1
  r2 = r2
  NoLine = NoLine
  NoKey = NoKey
  Lines = {a1, b1, c1, d1}
  Requests = {r1, r2}
  Number <- MCNumber
  Session <- MCSession
  Purchase <- MCPurchase
  Identity <- MCIdentity
  Total = 2
  PayLines = {b1, d1}
  MaxSends = 1
  MaxAttempts = 2
  DirectLines = {d1}
  NewSuppliers = {a1}
  Plans <- MCPlans
  Late = {c1}
SPECIFICATION Spec
INVARIANTS TypeOK RecordedBeforeSent OneForm NoMoreTitlesThanPurchases OneLinePerTitle
  BookedIsThere CapWhilePending
PROPERTIES NeverBack TitlesOfTheSeries
CHECK_DEADLOCK FALSE
