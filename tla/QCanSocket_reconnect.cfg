SPECIFICATION Spec
CONSTANTS
  Frame = {f1, f2}
  MaxSockets = 3
  Patient = TRUE
  Reconnects = {"local"}
INVARIANT IsConnected
CHECK_DEADLOCK FALSE
