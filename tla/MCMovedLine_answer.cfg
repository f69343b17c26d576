SPECIFICATION Spec
CONSTANTS
  Devices = {d1, d2}
  d1 = d1
  d2 = d2
  Schemes = {1, 2, 3}
  Home = 1
  MaxActs = 3
  MaxOps = 2
INVARIANT DeletionStands
