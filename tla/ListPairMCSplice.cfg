SPECIFICATION Spec
CONSTANTS
  Large = "Large"
  Small = "Small"
  Lists = {"Large", "Small"}
  Capacity <- MCCapacity
  LargeCapacity = 3
  SmallCapacity = 1
  Elements = {1, 2}
INVARIANTS
  SplicePutsBefore
