CONSTANTS
  NFrames = 3
  CPU = {c1, c2}
  MaxRef = 3
SPECIFICATION MCSpec
INVARIANTS FreeIffUnreferenced NoDoubleFree CountCoversReferences WritableIsPrivate
