SPECIFICATION Spec
CONSTANTS
    k1 = k1
    k2 = k2
    k3 = k3
    Key = {k1, k2, k3}
    Hash <- MCHash
    Val = {v1}
    Sizes = {0, 1, 2}
    Copies = 4
    NoVal = NoVal
INVARIANTS
    TypeOK
    KeysAreUnique
    HeapIsOwned
    NothingLeaks
PROPERTY ImplementsDictionary
CHECK_DEADLOCK FALSE
