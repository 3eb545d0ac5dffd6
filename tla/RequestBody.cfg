SPECIFICATION Spec
CONSTANTS
    Parts = 2
    Size = 2
    Buffered = 1
    Requests = {first, second, third}
    First = first
INVARIANTS
    TypeOK
    WholeBodyOrError
    HandlesFreed
PROPERTIES
    UploadEnds
CHECK_DEADLOCK FALSE
