SPECIFICATION Spec
CONSTANTS
  c001 = c001
  p001 = p001
  base = base
  edited = edited
  i1 = i1
  i2 = i2
  i3 = i3
  i4 = i4
  i5 = i5
  NoId = NoId
  Current = Current
  Folder = Folder
  Ids <- MCIds
  Records <- MCRecords
  Order <- MCOrder
  Fixtures <- MCFixtures
  Text <- MCText
  Faults = {"refuse", "lost", "disk", "crash"}
  MaxRuns = 4
  MaxEdits = 2
SYMMETRY MCSymmetry
CHECK_DEADLOCK FALSE
INVARIANTS
  OnePerRole
  IInv
  ClearMeansWhole
  CompleteIsPublished
PROPERTIES
  OwnerTextKept
  CurrentLast
  WriteAhead
  KeepsPromise
