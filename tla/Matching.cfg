SPECIFICATION Spec
CONSTANTS
  Lines = {1, 2}
  MaxDays = 1
  Tolerance = 1
  MCModes = {"purchase", "lot"}
  Inputs <- MCInputs
  None = None
INVARIANTS OneToOne Stable NoDoubleAlarm ConciliatedMeansBalanced
