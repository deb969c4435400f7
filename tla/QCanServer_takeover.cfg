SPECIFICATION FairSpec
CONSTANTS
  Server = {p1, p2, p3}
  Period = 2
  MaxLag = 1
  MaxAge = 4
  btClearServerV = TRUE
  Exclusive = TRUE
  SurvivesCrash = TRUE
  MaxCrash = 2
INVARIANTS TypeOK AtMostOneServer Visible
PROPERTY ServiceReturns
