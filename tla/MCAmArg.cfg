SPECIFICATION Spec
CONSTANTS
    a = a
    b = b
    Vars <- MCVars
    Ints = {1}
    Keys = {"k"}
    MaxLen = 2
    MaxAllocs = 3
    MaxRefs = 1
INVARIANTS
    TypeOK
    NoUseAfterFree
    OwnershipExact
    RefCountExact
CHECK_DEADLOCK FALSE
