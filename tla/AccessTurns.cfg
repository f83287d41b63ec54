SPECIFICATION FairTurnSpec
CONSTANTS
  Conn = {c1}
  NoConn = NoConn
  Capacity = 2
  MaxPosted = 1
  MaxStates = 0
  ViewerLines <- Line
  HostLines <- Line
  Buttons <- Device
  HostClicks = 1
  ViewerKeys = 1
  ViewerTries = 2
  ViewerExits = 1
  HostStops = 1
INVARIANTS
  InSync
  WindowsAgree
PROPERTY
  ComesToRest
CHECK_DEADLOCK FALSE
