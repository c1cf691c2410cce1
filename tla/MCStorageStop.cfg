CONSTANTS
  write = write
  queued = queued
  sqlite = sqlite
  AllOrder <- WriteThenRead
  RawTests = {write, queued}
  WriteTests = {write}
  QueueTests = {queued}
  MaxRuns = 1

SPECIFICATION FairSpec

PROPERTY TerminalIsFinal

CHECK_DEADLOCK FALSE
