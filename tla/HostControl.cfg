SPECIFICATION Spec
CONSTANTS
  Conn = {c1, c2}
  NoConn = NoConn
  Capacity = 1
  MaxPosted = 1
  ViewerLines <- MCViewerLines
  Buttons <- Device
SYMMETRY MCSymmetry
INVARIANTS
  TypeOK
  OffIsQuiet
  SessionOwnsSocket
  CaptionFresh
PROPERTY
  ImplementsGate
