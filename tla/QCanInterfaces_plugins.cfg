SPECIFICATION MCSpec
CONSTANTS
  Frame = {w1, w2, r1, r2}
  Ext = {w2, r2}
  None = None
  Outgoing = {w1, w2}
  Interface = {i1, i2}
  ChannelOf <- MCChannelOf
  i1 = i1
  i2 = i2
  ListMax = 1
  Received = {r1, r2}
  Remote = {r1}
  MaxRestart = 3
  MaxPlug = 2
INVARIANTS
  TypesOK UsartInOrder UsartNothingOld UsartOneUnderWay UsartNotStuck
  ReadExactly VciLineIsUsed InterfacesPolled
PROPERTIES UsartAnswered PeakEmptied VciNoticed
CHECK_DEADLOCK FALSE
