SPECIFICATION FairSpec
CONSTANTS
  Conn = {v1, v2, v3}
  NoConn = NoConn
  Room = 2
  MaxUnits = 2
INVARIANTS
  VideoTypeOK
  StreamOwnsSocket
  OffIsDark
PROPERTIES
  StopReturns
  WaitingIsServed
