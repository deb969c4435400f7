SPECIFICATION SettingsSpec
CONSTANTS
  i1 = i1
  QCAN_NETWORK_MAX = 1
  Interface = {i1}
  Support <- MCSupport
  Nominal = {1, 2}
  Data <- MCData
  MaxChange = 2
  teChannelP = 1
  Rates <- MCRates
  MaxSend = 1
  MaxAttach = 1
PROPERTY SettingsAreCurrent
CHECK_DEADLOCK FALSE
