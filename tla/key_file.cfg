SPECIFICATION FairSpec
CONSTANTS
  Starts = {n1, n2, n3}
  Chunks = 2
  Before = {n0}
  NoStart = NoStart
  NoKey = NoKey
INVARIANTS TypeOK SameKey UnreadableAfterCrash
PROPERTY StartEnds
