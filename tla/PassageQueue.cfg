SPECIFICATION Spec
CONSTANTS
  Shutdown = Shutdown
  Passages = {p1, p2}
  MaxQid = 6
  MaxLen = 4
  MaxBatch = 2
INVARIANTS
  TypeOK
PROPERTIES
  IdentityKept
