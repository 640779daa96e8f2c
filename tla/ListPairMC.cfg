SPECIFICATION Spec
VIEW Relevant
CONSTANTS
  Large = "Large"
  Small = "Small"
  Lists = {"Large", "Small"}
  Capacity <- MCCapacity
  LargeCapacity = 3
  SmallCapacity = 2
  Elements = {1, 2}
INVARIANTS
  TypeOK
  WellLinked
  NoNodeLost
  VetAcceptsCursors
PROPERTIES
  MeetsContracts
