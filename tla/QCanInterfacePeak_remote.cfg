SPECIFICATION Spec
CONSTANTS
  Frame = {r1, r2}
  Remote = {r1}
  None = None
  MaxRestart = 1
INVARIANT RemoteIsRemote
CHECK_DEADLOCK FALSE
