CONSTANTS
  VocabSize = 3
  MaxProduct = 4
  UIntRange = 16
  Window = 2
  OverflowLength = 2
  Unit = 6
  MaxFid = 4
  MaxWeight = 33
  MaxWords = 4
  Corpora <- MCCorpora
  Oov = Oov
  Empty = Empty
SPECIFICATION BuildSpec
INVARIANTS
  HighCellsInBounds
  HighCellsDistinct
  GatheredIsExpected
  FilesFaithful
  ListedIsCounted
PROPERTIES
  ImplementsPairCounts
  BuildEnds
CHECK_DEADLOCK FALSE
