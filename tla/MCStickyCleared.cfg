SPECIFICATION Spec
CONSTANTS
  IdMax = 3
  InitialId = 0
  Descs = {d0}
  NoDesc = d0
  Torn = torn
  Environments <- FullTables
INVARIANTS
  StickyCleared
