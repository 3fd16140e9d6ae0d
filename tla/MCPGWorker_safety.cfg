\* retransmit and failover on; a single statement and a two-statement
\* NonTransaction, both with senders; up to three driver failures
CONSTANTS
    s1 = s1
    s2 = s2
    c1 = c1
    c2 = c2
    Subs <- MCSubs
    SubSize <- MCMixedSize
    SubKind <- MCSubKind
    SubSender <- MCSubSender
    MasterConns <- MCMasterConns
    SlaveConns <- MCSlaveConns
    FailoverToSlave = TRUE
    RetransmitEnable = TRUE
    UsePipeline = FALSE
    TransWaitTime = 1
    RetransmitInterval = 1
    ReconnectInterval = 1
    BatchTimeout = 1
    BatchSize = 1
    MaxQueueLength = 0
    HasAdminSet = TRUE
    ReconnectErrorsEmpty = FALSE
    MaxFailures = 3
    DbAnswersInTime = TRUE
SPECIFICATION Spec
INVARIANT TypeOK
INVARIANT GaugesMatch
INVARIANT ActiveRunsOnItsConnection
INVARIANT AtMostOneOutcome
INVARIANT NoSilentLoss
