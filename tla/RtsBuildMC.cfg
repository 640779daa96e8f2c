SPECIFICATION FairSpec
CONSTANTS
  Trees <- AllTrees
  Plans <- MCPlans
INVARIANTS
  TypeOK DirsRestored DescriptorExact RequirementsMet UnitsProvidedOnce
  SuccessIsComplete NoMixture
PROPERTIES EarlierRuntimesKept EveryRunEnds
CHECK_DEADLOCK FALSE
