\* One process, three commands, every fault at any time.
SPECIFICATION LoginSpec
CONSTANTS
  p1 = p1
  a1 = a1
  Procs = {p1}
  Accounts = {a1}
  Window = 1
  Lives = {2}
  Patience = 2
  MaxTokens = 3
  Faults = {"refuse", "lost", "disk", "crash"}
  MaxTime = 3
  MaxCalls = 3
CHECK_DEADLOCK FALSE
INVARIANTS
  TokenIsSound
  AttemptsTold
  CodesOnce
PROPERTIES
  SpentStaysSpent
  RemovedIsRevoked
  CeremonyEnds
