SPECIFICATION Spec
CONSTANTS
  Files <- MCFiles
  Versions <- MCVersions
  ChunksOf <- MCChunksOf
  Settings <- MCManaged
  MaxEdits = 0
  MaxStarts = 1
PROPERTY SkippedWithoutQdrant
CHECK_DEADLOCK FALSE
