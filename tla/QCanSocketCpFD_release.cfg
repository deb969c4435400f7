SPECIFICATION Spec
CONSTANTS
  s = s
  e = e
  BufferMax = 1
  ExtBits <- MCExtBits
  StdBits <- MCStdBits
  Dlc = {0}
  Frame <- OneFrame
  Setting <- MCSetting
  Fifo = {}
  NoFifo = NoFifo
  Capacity = 1
  CounterMod = 2
  MaxQueue = 1
  MaxNesting = 1
  MaxSlots = 1
PROPERTY ReleasedIsSilent
