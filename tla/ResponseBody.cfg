SPECIFICATION Spec
CONSTANTS
    Responses = {original, clone}
    Original = original
    MaxChunks = 3
    MaxEmpty = 2
INVARIANTS
    TypeOK
    HandleGuarded
    ReadsAheadByOne
PROPERTIES
    DeliversBody
    ReadsSettle
    AbandonedReleased
CHECK_DEADLOCK FALSE
