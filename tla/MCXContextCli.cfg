\* Two processes, three commands, one thing the operator does to the store.
SPECIFICATION CliSpec
CONSTANTS
  p1 = p1
  p2 = p2
  u1 = u1
  u2 = u2
  b1 = b1
  b2 = b2
  t1 = t1
  t2 = t2
  Procs = {p1, p2}
  Users = {u1, u2}
  Accounts = {u1, u2}
  Posts = {b1, b2}
  Texts = {t1, t2}
  Pages <- MCPages
  Window = 1
  Lives = {2}
  MaxTokens = 3
  Faults = {"refuse", "lost", "disk", "crash"}
  MaxTime = 1
  MaxCalls = 3
  MaxTouches = 1
SYMMETRY MCSymmetry
CHECK_DEADLOCK FALSE
INVARIANTS
  RequestsTold
  SubjectIsolated
  EffectTold
PROPERTIES
  OnlyAdds
