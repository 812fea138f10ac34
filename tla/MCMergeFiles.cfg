CONSTANTS
  FileAllNums = 3
  Cells = 3
  MaxLength = 2
  Inputs <- MCInputs
  Garbage <- MCGarbage
  None = None
SPECIFICATION MergeSpec
INVARIANTS
  OneEntryPerFile
  WeightConserved
PROPERTY ImplementsKWayMerge
CHECK_DEADLOCK FALSE
