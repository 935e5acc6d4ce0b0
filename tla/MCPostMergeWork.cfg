\* Two cleanups and two closeouts in any order, alone; one command may fail.
CONSTANTS
  A = A  B = B
  Paths = {A, B}  Primary = A
  Head = Head  Later = Later  Own = Own  Rewritten = Rewritten
  NoCommit = NoCommit  NoTree = NoTree
  HeadMerged = TRUE
  MaxMain = 1  MaxActs = 0
  Faults = {"refuse", "lost", "disk", "crash"}
  MaxFaults = 1  MaxRuns = 2  MaxCloseouts = 2
SPECIFICATION WorkSpec
CHECK_DEADLOCK FALSE
PROPERTIES EachReadiesTheOther StaysRepeatable EachPasses
