SPECIFICATION MCSpec
CONSTANTS
  Positions = {0, 1, 2, 3, 8}
  Byte = {0, 1}
  Dlcs = {0, 2, 8, 15, 16}
  Modes = {0, 2}
  Rates = {5}
  Counters = {0, 96, 255}
  Sizes = {1, 9, 64}
  SecsLimit = 3
  NanoPerSec = 6
  NanoPerMicro = 2
  NanoPerMilli = 3
  Invalid = 13
  Width = 16
  MaxSeconds = 18
  Base = 2
  CheckedUse = FALSE
  Std = Std
  Ext = Ext
  IdMax = 2
  MaxFilters = 3
  CheckedFilter = TRUE
INVARIANT TimeIsExact
