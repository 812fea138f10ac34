SPECIFICATION Spec
CONSTANTS
    Workers = {w1, w2, w3}
    Submitters = {s1, s2}
    NumTasks = 3
CHECK_DEADLOCK FALSE
INVARIANTS
    TakenOnceInOrder
    NoTaskSleeps
    DestroyedIsQuiet
PROPERTIES
    SubmittedIsRun
    DestructionEnds
