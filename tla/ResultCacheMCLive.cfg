SPECIFICATION FairSpec
CONSTANTS
  w1 = w1
  w2 = w2
  w3 = w3
  Wrappers = {w1, w2}
  Command <- MCCommand
  Texts <- MCTexts
  Outputs <- MCOutputs
  None = None
  MaxKills = 1
  MaxClosings = 1
PROPERTIES
  EveryWrapperEnds
CHECK_DEADLOCK FALSE
