SPECIFICATION MCSpec
CONSTANTS
  Frame = {f1, f2}
  MaxSockets = 1
  Patient = TRUE
  Reconnects = {}
  NetworkCount = 2
  NumberWidth = 4
  CountWidth = 8
  IdLimit = 3
  DlcLimit = 2
  Channels = {2, 3, 5}
  Counts = {0, 1, 3}
  MaxFrames = 3
  MaxChange = 2
  MaxAttach = 1
PROPERTY ErrorEnds
CHECK_DEADLOCK FALSE
