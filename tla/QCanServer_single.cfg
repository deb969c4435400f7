SPECIFICATION Spec
CONSTANTS
  Server = {p1, p2}
  Period = 2
  MaxLag = 1
  MaxAge = 4
  btClearServerV = TRUE
  Exclusive = FALSE
  SurvivesCrash = TRUE
  MaxCrash = 0
INVARIANT AtMostOneServer
