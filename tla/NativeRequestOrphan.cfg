CONSTANTS
    Requests = {r1}
    Signalled = {r1}
    Uploads = {}
SPECIFICATION Spec
\* Calls end: the system stops once the call is settled and released.
CHECK_DEADLOCK FALSE
INVARIANT EveryBodyHasAnOwner
