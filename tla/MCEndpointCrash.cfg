CONSTANTS
  Absent = Absent
  NoFile = NoFile
  Corrupt = Corrupt
  Counts <- MCCounts
  DefaultMaxCircuits = 8
  DefaultWorkerThreads = 8
  InitialFiles <- MCFreshInstall
  MaxRuns = 3
SPECIFICATION Spec
INVARIANTS ConstructionNeverCrashes
CHECK_DEADLOCK FALSE
