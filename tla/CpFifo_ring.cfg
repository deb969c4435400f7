SPECIFICATION MCSpec
CONSTANTS
  Size = 3
  CounterMod = 8
  Frame = {f1, f2}
  NoFrame = NoFrame
  Atomic = TRUE
  Preemptive = TRUE
  DropOldest = FALSE
INVARIANTS CountMatchesIndices NoSharedEntry
SYMMETRY FrameSymmetry
PROPERTY RingImplements
