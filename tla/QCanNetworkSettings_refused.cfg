SPECIFICATION SettingsSpec
CONSTANTS
  i1 = i1
  QCAN_NETWORK_MAX = 2
  Interface = {i1}
  Support <- MCSupport
  Nominal = {1, 2}
  Data <- MCData
  MaxChange = 4
  teChannelP = 2
  Rates <- MCRates
  MaxSend = 1
  MaxAttach = 1
INVARIANT RatesShown
CHECK_DEADLOCK FALSE
