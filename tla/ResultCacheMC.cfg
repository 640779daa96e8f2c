SPECIFICATION Spec
CONSTANTS
  w1 = w1
  w2 = w2
  w3 = w3
  Wrappers = {w1, w2, w3}
  Command <- MCCommand
  Texts <- MCTexts
  Outputs <- MCOutputs
  None = None
  MaxKills = 1
  MaxClosings = 1
INVARIANTS
  TypeOK
  StoreHasRuns
  PrintsWholeOutputs
  ResultIsReported
CHECK_DEADLOCK FALSE
