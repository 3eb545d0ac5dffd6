CONSTANTS
    MaxSends = 1
    MaxMessages = 0
SPECIFICATION Spec
\* A closed socket is done.
CHECK_DEADLOCK FALSE
INVARIANT CleanCloseReported
