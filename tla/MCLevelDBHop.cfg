\* One writer that puts one key twice and flushes, one snapshot.
CONSTANTS
  Writers = {w1}
  Jobs <- MCJobs
  NumLevels = 3
  MaxMemCompactLevel = 1
  L0_CompactionTrigger = 2
  L0_StopWritesTrigger = 2
  WriteBuffer = 1
  kBlockSize = 4
  kHeaderSize = 2
  BatchHeader = 1
  OpBytes = 2
  MaxSeq = 2
  Budgets <- HopBudgets
SPECIFICATION Spec
CHECK_DEADLOCK FALSE
INVARIANT EntriesNeverHop
