SPECIFICATION Spec
CONSTANTS
  Requests = {r1, r2}
  Paths = {p1, p2}
  Methods <- AllMethods
  MaxId = 3
SYMMETRY Symmetry
INVARIANT ClosedPanesReleaseShells
