SPECIFICATION Spec
CONSTANTS
  Local = {l1}
  Web = {w1, w2, w3}
  Interface = Interface
  Frame = {f1, e1}
  Error = {e1}
  NoMember = NoMember
INVARIANTS OrderedOnce NobodyLeftOut CountsExact
SYMMETRY SocketSymmetry

CHECK_DEADLOCK FALSE
