SPECIFICATION Spec
CONSTANTS
    Parts = 1
    Size = 2
    Buffered = 1
    Requests = {first, second}
    First = first
INVARIANT BlobBodiesReplay
CHECK_DEADLOCK FALSE
