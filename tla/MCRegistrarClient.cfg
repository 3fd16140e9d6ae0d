\* fresh handles (AmSession::getNewId), every API and bus event
CONSTANTS
    h1 = h1
    h2 = h2
    h3 = h3
    i1 = i1
    i2 = i2
    Handles <- MCHandles
    Ids <- MCIds
    BusShapes <- MCBusShapes
    MaxRegs = 2
    MaxPosts = 4
    UniqueHandles = TRUE
SPECIFICATION Spec
INVARIANT NoUseAfterFree
INVARIANT ByIdMatchesRegistrations
PROPERTY RemovedEventuallyDeleted
CHECK_DEADLOCK FALSE
