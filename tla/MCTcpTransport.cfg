\* one sender thread, one accepted connection from another peer
CONSTANTS
    s1 = s1
    s2 = s2
    Senders <- MCSenders1
    MaxSends = 3
    MaxSocks = 3
    MaxAccepts = 1
    Collide = FALSE
    BindFail = TRUE
    MaxMsgs = 2
SPECIFICATION Spec
INVARIANT RefCountExact
INVARIANT NoUseAfterFree
INVARIANT DeletedOnlyWhenClosed
INVARIANT TableHoldsOpenSockets
PROPERTY ClosedEventuallyFreed
CHECK_DEADLOCK FALSE
