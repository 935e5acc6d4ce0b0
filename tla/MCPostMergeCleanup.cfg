\* Two worktrees; others act twice during one run; one command may fail.
CONSTANTS
  A = A  B = B
  Paths = {A, B}  Primary = A
  Head = Head  Later = Later  Own = Own  Rewritten = Rewritten
  NoCommit = NoCommit  NoTree = NoTree
  HeadMerged = TRUE
  MaxMain = 2  MaxActs = 2
  Faults = {"refuse", "lost", "disk", "crash"}
  MaxFaults = 1  MaxRuns = 1
SPECIFICATION CleanupSpec
CHECK_DEADLOCK FALSE
INVARIANT PassIsTrue
PROPERTIES RemoteLease SparesWork
