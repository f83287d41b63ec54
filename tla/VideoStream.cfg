SPECIFICATION FairSpec
CONSTANTS
  Size = {small, large}
  NoSize = NoSize
  Depth = 2
  Room = 2
INVARIANTS
  StreamTypeOK
  StartsWithKey
PROPERTY
  Recovers
