SPECIFICATION Spec
CONSTANTS
  Procs = {1, 2}
  Eye = Eye
  Big = Big
  Flat = Flat
  Gone = Gone
  Junk = Junk
  Out = Out
  Other = Other
  Inputs = {Eye, Big, Flat, Gone, Junk}
  Outputs = {Out, Other}
  Missing = Missing
  Damaged = Damaged
  Pictures <- MCPictures
  Jobs <- MCJobs
  Length <- MCLength
  OUTPUT_BUF_SIZE = 2
INVARIANTS
  SharedOutputIsWhole
  SamplesInsideEye
  RowsKeepOrder
PROPERTIES
  ConversionSpec
CHECK_DEADLOCK FALSE
