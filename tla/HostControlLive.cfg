SPECIFICATION FairSpec
CONSTANTS
  Conn = {c1, c2}
  NoConn = NoConn
  Capacity = 1
  MaxPosted = 1
  ViewerLines <- MCHelloOnly
  Buttons <- MCOneButton
PROPERTIES
  StopCompletes
  BacklogServed
