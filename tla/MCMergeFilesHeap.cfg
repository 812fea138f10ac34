CONSTANTS
  FileAllNums = 4
  Cells = 3
  MaxLength = 1
  Inputs <- MCInputs
  Garbage <- MCGarbage
  None = None
SPECIFICATION MergeSpec
INVARIANT HeapOrder
CHECK_DEADLOCK FALSE
