SPECIFICATION Spec
CONSTANTS
  n1 = n1
  n2 = n2
  n3 = n3
  r1 = r1
  Nodes = {n1, n2, n3}
  Nobody = Nobody
  Members = {n1}
  Noop = Noop
  MaxTerm = 2
  Requests = {r1}
  Nil = Nil
  MaxCrashes = 1
  Seed = n1
  Levels = {"STRONG", "FAST", "EVENTUAL"}
SYMMETRY Symmetry
INVARIANTS WritesOnce SettledReadsFresh
PROPERTY ForwardsToNewerTerms
CHECK_DEADLOCK FALSE
