CONSTANTS
  Threads = 3
  RecordCounts = {2, 7, 9, 20}
  Epochs = 2
  IntRecords = 8
SPECIFICATION Spec
INVARIANTS
  OncePerEpoch
  LossOfEpoch
  EveryRecordUsed
PROPERTY TrainingEnds
CHECK_DEADLOCK FALSE
