SPECIFICATION Spec
CONSTANTS
  Local = {l1}
  Web = {w1}
  Interface = Interface
  Frame = {f1, e1}
  Error = {e1}
  NoMember = NoMember
PROPERTY DisabledIsSilent

