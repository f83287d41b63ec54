SPECIFICATION SilentSpec
CONSTANTS
  Conn = {c1}
  NoConn = NoConn
  Capacity = 1
  MaxPosted = 1
  ViewerLines <- MCViewerLines
  Buttons <- Device
PROPERTY
  StopCompletes
