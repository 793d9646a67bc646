CONSTANTS
  Absent = Absent
  NoFile = NoFile
  Corrupt = Corrupt
  Counts <- MCCounts
  DefaultMaxCircuits = 8
  DefaultWorkerThreads = 8
  InitialFiles <- MCInitialFiles
  MaxRuns = 3
SPECIFICATION Spec
INVARIANTS TypeOK RustWorkersFollowPolicy
CHECK_DEADLOCK FALSE
