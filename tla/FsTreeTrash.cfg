SPECIFICATION Spec
CONSTANTS
  alice = alice
  bob = bob
  r1 = r1
  r2 = r2
  Null = Null
  User = {alice, bob}
  Request = {r1, r2}
  Role = {"manager"}
  Seed <- MCSeed
  MaxNode = 5
  Plans <- TrashPlans
SYMMETRY Symmetry
CHECK_DEADLOCK FALSE
INVARIANT
  InTrashWithFolder
