CONSTANTS
  t1 = t1
  t2 = t2
  hda = hda
  hdb = hdb
  filesys = filesys
  swap = swap
  NULL = NULL
  Thread <- TwoThreads
  Boot = t1
  DiskNo <- TwoDisks
  LargeDisk <- TooLarge
  Partition <- Partitions
  disk_of <- OnHda
  start_of <- Starts
  size_of <- Sizes
  Capacity = 3
  Value <- TwoValues
  MaxSpurious = 1
  MaxAborts = 1
SPECIFICATION FairSpec
INVARIANTS ReadsLastWritten AcknowledgedIfExpected
PROPERTIES PartitionsApart RequestsFinish
CHECK_DEADLOCK FALSE
