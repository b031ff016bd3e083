SPECIFICATION Spec
CONSTANTS
  alice = alice
  bob = bob
  MaxNode = 5
  User <- MCUser
  Owner <- MCOwner
  SizeOf <- MCSizeOf
  LimitBytes <- MCLimitBytes
  SelectTaskLimit = 2
  BatchSize = 1
  LastRequest = 2
INVARIANTS
  TypeOK
  QuotaMatchesNodes
  ScannedChildrenQueued
  
  HandOverAfterDeletion
PROPERTIES
  ErasureSpec
CHECK_DEADLOCK FALSE
