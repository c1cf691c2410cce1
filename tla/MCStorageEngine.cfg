CONSTANTS
  write = write
  queued = queued
  sqlite = sqlite
  AllOrder <- WriteThenRead
  RawTests = {write, queued}
  WriteTests = {write}
  QueueTests = {queued}
  MaxRuns = 2

SPECIFICATION FairSpec

INVARIANTS
  TerminalRemovesFiles
  StoppedIffCutShort
  CompletedRecordsAll

PROPERTIES
  RunEndsUnlessOverwritten

\* The engine may stop for good: it is destroyed, or stays in kStopping.
CHECK_DEADLOCK FALSE
