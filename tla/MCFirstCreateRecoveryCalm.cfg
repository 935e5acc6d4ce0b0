SPECIFICATION RecoveryFairSpec
CONSTANTS
  c001 = c001
  p001 = p001
  base = base
  edited = edited
  i1 = i1
  i2 = i2
  i3 = i3
  i4 = i4
  e1 = e1
  e2 = e2
  NoId = NoId
  Current = Current
  Folder = Folder
  Ids = {i1, i2, i3, i4}
  Records <- MCRecords
  Order <- MCOrder
  Fixtures <- MCFixtures
  Text <- MCText
  Baseline = base
  Execs = {e1}
  Faults = {"crash"}
  Trouble = {}
  MaxRuns = 3
  MaxEdits = 0
  MaxTries = 3
CHECK_DEADLOCK FALSE
PROPERTY CalmRecovery
