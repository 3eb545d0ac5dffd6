CONSTANTS
    a1 = a1
    a2 = a2
    b1 = b1
    originA = originA
    originB = originB
    Urls = {a1, a2, b1}
    Starts <- MCStarts
    Origins = {originA, originB}
    OriginOf <- MCOriginOf
    Invalid = Invalid
    NoValue = NoValue
    OptionSets <- MCOptionSets
SPECIFICATION FairSpec
\* A call ends: it returns or throws and is then done.
CHECK_DEADLOCK FALSE
INVARIANTS
    TypeOK
    DispatchBudget
    RedirectsAcyclic
    CredentialsStayOnOrigin
    JarCookieCurrent
    BodiesReleased
PROPERTIES
    NoSendAfterAbort
    StreamSentOnce
    FetchSettles
