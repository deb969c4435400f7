SPECIFICATION FairSpec
CONSTANTS
  Local = {l1}
  Web = {w1, w2}
  Interface = Interface
  Frame = {f1}
  Error = {}
  NoMember = NoMember
PROPERTY MutexUnlocked

CHECK_DEADLOCK FALSE
