SPECIFICATION Spec
CONSTANTS
  folder = folder
  file = file
  alice = alice
  bob = bob
  Resource = {folder, file}
  Tuple <- MCTuple
  Audited <- MCAudited
  Granted <- MCTuple
  Slot = {1, 2}
  SelectTaskLimit = 2
  BatchSize = 1
  RecoveryLoop = TRUE
  MaxTask = 2
  MaxSend <- MCFileAgain
  MaxAcl = 1
INVARIANTS
  TypeOK
  
  AccessIsListed
PROPERTIES
  CompletedIsFinal
  GrantErasureSpec
CHECK_DEADLOCK FALSE
