SPECIFICATION FairSpec
CONSTANTS
  Host = {h1, h2}
  Rounds = 2
  Receives = 3
  Searches = 2
INVARIANTS
  DiscoveryTypeOK
  ListIsThisSearch
  ThreadJoined
  NoneForgotten
PROPERTY
  DiscoveryEnds
