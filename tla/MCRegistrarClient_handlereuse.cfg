\* a create may reuse the handle of a registration
CONSTANTS
    h1 = h1
    h2 = h2
    h3 = h3
    i1 = i1
    i2 = i2
    Handles <- MCHandles
    Ids <- MCIds
    BusShapes <- MCBusShapes
    MaxRegs = 3
    MaxPosts = 4
    UniqueHandles = FALSE
SPECIFICATION Spec
INVARIANT NoUseAfterFree
CHECK_DEADLOCK FALSE
