SPECIFICATION Spec
CONSTANTS
  Large = "Large"
  Small = "Small"
  Lists = {"Large", "Small"}
  Capacity <- MCCapacity
  LargeCapacity = 3
  SmallCapacity = 2
  Elements = {1, 2}
INVARIANTS
  MergeKeepsOrder
