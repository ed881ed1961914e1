\* Two writers, up to four sequence numbers; what else may happen is in MCBudgets.
\* The bounds end every behaviour, so deadlock is not checked.
CONSTANTS
  Writers = {w1, w2}
  Jobs <- MCJobs
  NumLevels = 3
  MaxMemCompactLevel = 1
  L0_CompactionTrigger = 2
  L0_StopWritesTrigger = 2
  WriteBuffer = 1
  kBlockSize = 4
  kHeaderSize = 2
  BatchHeader = 1
  OpBytes = 2
  MaxSeq = 4
  Budgets <- MCBudgets
SPECIFICATION Spec
SYMMETRY Symmetry
CHECK_DEADLOCK FALSE
INVARIANTS
  LevelDBTypeOK
  ReadsRight
  LiveFilesExist
  LevelsSorted
  OpensAfterCrash
  NoLostWakeup
PROPERTY ImplementsStore
