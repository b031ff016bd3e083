SPECIFICATION FairSpec
CONSTANTS
  alice = alice
  bob = bob
  MaxNode = 4
  User <- MCUser
  Owner <- MCOwner
  SizeOf <- MCSizeOf
  LimitBytes <- MCLimitBytes
  SelectTaskLimit = 2
  BatchSize = 1
  LastRequest = 2
PROPERTIES
  QueuedIsErased
CHECK_DEADLOCK FALSE
