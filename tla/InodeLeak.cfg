CONSTANTS
  Proc = {p1, p2}
  Nobody = Nobody
  NInode = 3
  NINODE = 3
  Images <- MCImages
  Calls <- MCCalls
  MaxCalls = 3
  MaxCrashes = 0
SPECIFICATION Spec
SYMMETRY Symmetry
INVARIANT LastReferenceFrees
