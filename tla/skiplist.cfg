SPECIFICATION Spec
CONSTANTS
  Keys = {1, 2, 3}
  Lengths = {0, 1, 2}
  MaxLevel = 3
  End = End
  NotFound = NotFound
  Done = Done
INVARIANTS TypeOK LinksSorted ReadsCorrect SizesExact
PROPERTY CallsAdvance
