SPECIFICATION FairCompactSpec
CONSTANTS
  b1 = b1
  b2 = b2
  b3 = b3
  Batches = {b1, b2, b3}
  HashesOf <- Rows
  MayStop = TRUE
INVARIANTS PartitionTypeOK
PROPERTIES InterruptionLosesNothing BecomesOneFile
CHECK_DEADLOCK FALSE
