SPECIFICATION FairSpec
CONSTANTS
  s = s
  e = e
  BufferMax = 2
  ExtBits <- MCExtBits
  StdBits <- MCStdBits
  Dlc = {0}
  Frame <- DataFrames
  Setting <- WideSetting
  Fifo = {q1}
  NoFifo = NoFifo
  Capacity = 1
  CounterMod = 3
  MaxQueue = 2
  MaxNesting = 2
  MaxSlots = 2
INVARIANTS AcceptanceStable TypeOK RcvCountExact NothingLeftBehind
CONSTRAINT MCBound
PROPERTY ReceptionEnds
