SPECIFICATION FairVSpec
CONSTANTS
  Conn = {c1}
  NoConn = NoConn
  Capacity = 1
  MaxStates = 1
  HostLines <- MCHostLines
INVARIANTS
  VTypeOK
  ViewerOwnsSockets
  EndedIsDisconnected
  ConnectComesBack
PROPERTY
  VideoJoins
  JoinsReturn
