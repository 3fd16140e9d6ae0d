\* retransmit and failover on: a reconfiguration while a connection is down
CONSTANTS
    s1 = s1
    s2 = s2
    c1 = c1
    c2 = c2
    Subs <- MCSubs
    SubSize <- MCSubSize
    SubKind <- MCSubKind
    SubSender <- MCSubSender
    MasterConns <- MCMasterConns
    SlaveConns <- MCSlaveConns
    FailoverToSlave = TRUE
    RetransmitEnable = TRUE
    UsePipeline = FALSE
    TransWaitTime = 1
    RetransmitInterval = 1
    ReconnectInterval = 1
    BatchTimeout = 1
    BatchSize = 1
    MaxQueueLength = 0
    HasAdminSet = TRUE
    ReconnectErrorsEmpty = FALSE
    MaxFailures = 2
    DbAnswersInTime = TRUE
SPECIFICATION Spec





INVARIANT PendingWorkScheduled
