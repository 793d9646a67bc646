CONSTANTS
  Absent = Absent
  NoFile = NoFile
  Corrupt = Corrupt
  Counts <- MCCounts
  DefaultMaxCircuits = 8
  DefaultWorkerThreads = 8
  InitialFiles <- MCFreshInstall
  MaxRuns = 3
SPECIFICATION Spec
INVARIANTS AdapterKeysOnlyWithRust
CHECK_DEADLOCK FALSE
