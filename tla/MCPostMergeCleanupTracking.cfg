\* Nobody else acts and nothing fails.
CONSTANTS
  A = A  B = B
  Paths = {A, B}  Primary = A
  Head = Head  Later = Later  Own = Own  Rewritten = Rewritten
  NoCommit = NoCommit  NoTree = NoTree
  HeadMerged = TRUE
  MaxMain = 2  MaxActs = 0
  Faults = {}
  MaxFaults = 0  MaxRuns = 1
SPECIFICATION CleanupSpec
CHECK_DEADLOCK FALSE
INVARIANT TrackingRetained
