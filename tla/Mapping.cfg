SPECIFICATION Spec
CONSTANTS
  Keys = {k1}
  Targets = {t1, t2}
  LastMonth = 3
  MaxMade = 2
  Requests = {r1, r2}
  None = None
SYMMETRY Symmetry
INVARIANTS TypeOK Reproducible PreviewStillTrue
PROPERTIES ConfirmedIsFixed RetroactiveSparesDelivered OneProposal BulkConfirmKeepsTargets
CHECK_DEADLOCK FALSE
