\* Two commands side by side, the operator once, anything may fail.
SPECIFICATION LocalSpec
CONSTANTS
  p1 = p1
  p2 = p2
  Procs = {p1, p2}
  Ids = {1, 2}
  Versions = {1, 2}
  Requests <- MCRequests
  Earlier <- MCEarlier
  Faults = {"disk", "crash"}
  MaxTime = 0
  MaxCalls = 2
  MaxTouches = 1
SYMMETRY MCSymmetry
CHECK_DEADLOCK FALSE
INVARIANT OutcomeIsTrue
PROPERTY MergeKeeps
