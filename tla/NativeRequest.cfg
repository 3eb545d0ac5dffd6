CONSTANTS
    Requests = {r1, r2}
    Signalled = {r1, r2}
    Uploads = {r1}
SPECIFICATION FairSpec
\* Calls end: the system stops once every call is settled and released.
CHECK_DEADLOCK FALSE
INVARIANTS
    TypeOK
    CancelReachesOwnTask
    ListenerOnlyWhilePending
    UploadReleased
    ResponseOwnsBody
PROPERTIES
    AbortIsFinal
    AbortStopsTask
    AbortStopsUpload
