SPECIFICATION Spec
CONSTANTS
    Width = 4
    s = 1
    b = 1
    E = 3
    MaxAccess = 7
INVARIANTS
    TypeOK
    MissesFillOrEvict
    AddressIsCut
PROPERTIES
    ModifyHits
    ImplementsSetCache
CHECK_DEADLOCK FALSE
