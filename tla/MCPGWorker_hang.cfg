\* one submission, no failures; the database may never answer a cancelled query
CONSTANTS
    s1 = s1
    s2 = s2
    c1 = c1
    c2 = c2
    Subs <- MCOneSub
    SubSize <- MCOneSize
    SubKind <- MCOneKind
    SubSender <- MCOneSender
    MasterConns <- MCMasterConns
    SlaveConns <- MCSlaveConns
    FailoverToSlave = TRUE
    RetransmitEnable = TRUE
    UsePipeline = FALSE
    TransWaitTime = 1
    RetransmitInterval = 1
    ReconnectInterval = 1
    BatchTimeout = 1
    BatchSize = 1
    MaxQueueLength = 0
    HasAdminSet = FALSE
    ReconnectErrorsEmpty = FALSE
    MaxFailures = 0
    DbAnswersInTime = FALSE
SPECIFICATION Spec
PROPERTY WedgedConnectionIsReset
