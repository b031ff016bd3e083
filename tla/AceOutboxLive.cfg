SPECIFICATION FairSpec
CONSTANTS
  folder = folder
  file = file
  alice = alice
  bob = bob
  Resource = {folder, file}
  Tuple <- MCTuple
  Audited <- MCAudited
  Granted <- MCTuple
  Slot = {1, 2}
  SelectTaskLimit = 2
  BatchSize = 2
  RecoveryLoop = TRUE
  MaxTask = 2
  MaxSend <- MCOnce
  MaxAcl = 0
PROPERTIES
  TasksComplete
CHECK_DEADLOCK FALSE
