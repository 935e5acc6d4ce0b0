\* Two processes, three commands, one fault of any kind.
SPECIFICATION GoogleSpec
CONSTANTS
  p1 = p1
  p2 = p2
  Procs = {p1, p2}
  Faults = {"refuse", "lost", "disk", "crash", "silent", "rotate", "withdraw"}
  MaxTime = 3
  MaxCalls = 3
  MaxFaults = 1
  Window = 1
  Delay = 1
  Patience = 1
  Lives = {2}
CHECK_DEADLOCK FALSE
INVARIANT LiveWhenRead
PROPERTIES ReauthorizationSticks RenewsAlone
