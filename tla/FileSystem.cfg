CONSTANTS
  Proc = {p1, p2}
  Nobody = Nobody
  NInode = 3
  NINODE = 3
  Images <- MCImages
  Calls <- MCCalls
  MaxCalls = 3
  MaxCrashes = 1
  f1 = f1
  f2 = f2
  h1 = h1
SPECIFICATION MCSpec
SYMMETRY Symmetry
INVARIANTS RefsExact PutNeverBlocks LinkCounts BlocksOwned
PROPERTIES FreedUnused ImplementsFileStore
