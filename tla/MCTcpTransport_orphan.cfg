\* two sender threads to one peer, no accepted connection
CONSTANTS
    s1 = s1
    s2 = s2
    Senders <- MCSenders2
    MaxSends = 2
    MaxSocks = 3
    MaxAccepts = 0
    Collide = FALSE
    BindFail = TRUE
    MaxMsgs = 0
SPECIFICATION Spec
INVARIANT DeletedOnlyWhenClosed
CHECK_DEADLOCK FALSE
