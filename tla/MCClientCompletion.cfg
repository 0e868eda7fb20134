SPECIFICATION Spec
CONSTANTS
    Window = 4
    MaxBody = 5
    MaxBatch = 4
INVARIANTS
    CompletionKept
CHECK_DEADLOCK FALSE
