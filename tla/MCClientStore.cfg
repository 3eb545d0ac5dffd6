CONSTANTS
    o1 = o1
    o2 = o2
    c1 = c1
    c2 = c2
    c3 = c3
    c4 = c4
    b1 = b1
    b2 = b2
    Owners = {o1, o2}
    Keys <- MCKeys
    Calls = {c1, c2, c3, c4}
    OwnerOf <- MCOwnerOf
    KeyOf <- MCKeyOf
    ConfigsOf <- MCConfigsOf
    Undefined = Undefined
    Off = Off
    Drawn <- MCDrawn
    Unit = 10
    NoClient = NoClient
    Dispatches <- MCDispatches
SPECIFICATION Spec
SYMMETRY MCSymmetry
\* Every call is over in the end.
CHECK_DEADLOCK FALSE
INVARIANTS
    TypeOK
    ClientsIsolated
    OnePool
    LeftBehindByLateCalls
