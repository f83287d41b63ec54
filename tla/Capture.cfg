SPECIFICATION Spec
CONSTANTS
  Widths = {4, 5}
  Pics = {1, 2}
  Adapters = 2
  Outputs = 2
INVARIANTS
  CaptureTypeOK
  NothingLeaks
  IdleMeansDelivered
  BestOutput
