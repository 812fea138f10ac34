CONSTANTS
  VocabSize = 2
  MaxProduct = 1
  UIntRange = 16
  Window = 2
  OverflowLength = 4
  Unit = 2
  MaxFid = 1
  MaxWeight = 12
  MaxWords = 3
  Corpora <- MCCorpora
  Oov = Oov
  Empty = Empty
SPECIFICATION BuildSpec
INVARIANT NothingLost
CHECK_DEADLOCK FALSE
