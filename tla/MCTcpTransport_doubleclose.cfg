\* one sender whose connect() fails in bind, one accepted connection
CONSTANTS
    s1 = s1
    s2 = s2
    Senders <- MCSenders1
    MaxSends = 1
    MaxSocks = 2
    MaxAccepts = 1
    Collide = FALSE
    BindFail = TRUE
    MaxMsgs = 0
SPECIFICATION Spec
INVARIANT FdOwned
CHECK_DEADLOCK FALSE
