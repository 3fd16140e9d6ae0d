CONSTANTS
    ta = ta
    tb = tb
    Tags <- MCTags
    MaxCSeq = 3
    MaxRx = 3
    MaxTx = 2
    IgnoreNotifyLowerCSeq = FALSE
SPECIFICATION Spec
CHECK_DEADLOCK FALSE
INVARIANTS
    TypeOK
    AppRequestsHaveTransaction
    AtMostOneFinalReply
PROPERTIES
    UacTransEventuallyFinished
