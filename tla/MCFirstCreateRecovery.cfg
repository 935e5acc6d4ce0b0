SPECIFICATION RecoverySpec
CONSTANTS
  c001 = c001
  p001 = p001
  base = base
  edited = edited
  i1 = i1
  i2 = i2
  i3 = i3
  i4 = i4
  e1 = e1
  e2 = e2
  NoId = NoId
  Current = Current
  Folder = Folder
  Ids <- MCIds
  Records <- MCRecords
  Order <- MCOrder
  Fixtures <- MCFixtures
  Text <- MCText
  Baseline = base
  Execs = {e1, e2}
  Faults = {"refuse", "crash"}
  Trouble = {"refuse", "lost", "disk", "crash"}
  MaxRuns = 3
  MaxEdits = 1
  MaxTries = 3
SYMMETRY MCSymmetry
CHECK_DEADLOCK FALSE
INVARIANTS
  RecoveryInv
  OneExecutor
  CompleteIsHistory
PROPERTIES
  OwnerTextKept
  KeepsPromise
  IntentAhead
  OriginalKept
