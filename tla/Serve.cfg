SPECIFICATION FairSpec
CONSTANTS
  Files <- MCFiles
  Versions <- MCVersions
  ChunksOf <- MCChunksOf
  Settings <- MCSettings
  MaxEdits = 1
  MaxStarts = 2
INVARIANTS TypeOK IngestsOnlyWhileServing NothingIsLeftRunning SandboxTargetsHaveSandbox RecordedIsStored FinishedIsNotRedone
PROPERTY StartsAndStops
CHECK_DEADLOCK FALSE
