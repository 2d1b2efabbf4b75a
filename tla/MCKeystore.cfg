SPECIFICATION Spec
CONSTANTS
  Generators = {g1, g2}
  Old = {k0}
  Requests = {r1, r2}
SYMMETRY Symmetry
INVARIANTS
  FileIsExact
  JudgedByTheFile
PROPERTY NeverLeftWithoutKeys
