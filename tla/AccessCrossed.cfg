SPECIFICATION SyncSpec
CONSTANTS
  Conn = {c1}
  NoConn = NoConn
  Capacity = 2
  MaxPosted = 1
  MaxStates = 0
  ViewerLines <- Line
  HostLines <- Line
  Buttons <- Device
  HostClicks = 1
  ViewerKeys = 1
  ViewerTries = 1
  ViewerExits = 0
  HostStops = 0
INVARIANT
  InSync
CHECK_DEADLOCK FALSE
