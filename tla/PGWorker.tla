------------------------------ MODULE PGWorker ------------------------------
(***************************************************************************)
(* The scheduling core of the PostgreSQL module: one Worker with a master  *)
(* and an optional slave ConnectionPool (src/apps/postgresql/             *)
(* ConnectionPool.{h,cpp}).  The Worker runs on one thread: every handler  *)
(* below is one atomic action.  The connection driver and the database    *)
(* (Connection.cpp, Transaction.cpp, not in this repository) are the       *)
(* environment: they deliver the callbacks nondeterministically.          *)
(*                                                                         *)
(* Time is kept as ages: each record that the code stamps with time(0)    *)
(* keeps the seconds elapsed since, capped at AgeCap, which is above every *)
(* threshold the code compares against.                                   *)
(***************************************************************************)
EXTENDS Integers, Sequences, SequencesExt

CONSTANTS
    Subs,               \* submissions made by producers (model values)
    SubSize,            \* [Subs -> Nat]: statements in each submission
    SubKind,            \* [Subs -> {"non","policy"}]: NonTransaction or DbTransaction
    SubSender,          \* [Subs -> BOOLEAN]: producer gave a non-empty sender_id
    MasterConns,        \* sequence of the master pool's connections (vector order)
    SlaveConns,         \* sequence of the slave pool's connections, <<>> = no slave
    FailoverToSlave,    \* failover_to_slave
    RetransmitEnable,   \* retransmit_enable
    UsePipeline,        \* use_pipeline
    TransWaitTime,      \* trans_wait_time
    RetransmitInterval, \* retransmit_interval
    ReconnectInterval,  \* reconnect_interval
    BatchTimeout,       \* batch_timeout
    BatchSize,          \* batch_size
    MaxQueueLength,     \* max_queue_length, 0 = unbounded
    HasAdminSet,        \* prepareds, search_pathes or init_queries non-empty
    ReconnectErrorsEmpty, \* reconnect_errors is empty: every error code resets
    MaxFailures,        \* bound on the failures, reconfigurations and pool
                        \* resets the environment injects
    DbAnswersInTime     \* environment assumption: a query never stays active past 2*TransWaitTime

Conns == ToSet(MasterConns) \cup ToSet(SlaveConns)
HasSlave == SlaveConns # <<>>
Pools == {"master", "slave"}
NoPool == "none"
NoConn == "noconn"
NoTime == -1
AgeCap == 2 * TransWaitTime + RetransmitInterval + ReconnectInterval + 1
Kinds == {"non", "policy"}
OutcomeKinds == {"result", "error", "timeout", "queue_full"}
OutcomeCap == 2     \* outcomes recorded per token; 2 is enough to see a duplicate

ASSUME /\ MasterConns # <<>>
       /\ ToSet(MasterConns) \cap ToSet(SlaveConns) = {}
       /\ SubSize \in [Subs -> Nat \ {0}]
       /\ SubKind \in [Subs -> Kinds]
       /\ BatchSize \in Nat \ {0}
       /\ TransWaitTime \in Nat \ {0}

VARIABLES
    submitted,    \* submissions the producers have handed to runTransaction
    queue,        \* Worker::queue
    retryQ,       \* Worker::retransmit_q
    active,       \* Worker::transactions (active transactions)
    conn,         \* per connection: status, current and planned transaction, disconnected_time age
    resetList,    \* Worker::resetConnections
    sendNext,     \* send_next_time as seconds left, NoTime when 0
    retNext,      \* retransmit_next_time # 0
    waitNext,     \* wait_next_time # 0
    resetNext,    \* reset_next_time # 0
    timerArmed,   \* workTimer is armed
    hung,         \* the worker thread never returned from onTimer
    queueGauge,   \* queue_size
    activeGauge,  \* tr_size
    retGauge,     \* ret_size
    outcomes,     \* per token: the events posted to the sender, in order
    failures      \* failures injected by the environment so far

vars == <<submitted, queue, retryQ, active, conn, resetList, sendNext, retNext,
          waitNext, resetNext, timerArmed, hung, queueGauge, activeGauge,
          retGauge, outcomes, failures>>

(* The Worker's state as one record, so that a handler is a function from  *)
(* state to state and a long handler is a composition of its calls.        *)
W == [queue |-> queue, retryQ |-> retryQ, active |-> active, conn |-> conn,
      resetList |-> resetList, sendNext |-> sendNext, retNext |-> retNext,
      waitNext |-> waitNext, resetNext |-> resetNext, timerArmed |-> timerArmed,
      hung |-> hung, queueGauge |-> queueGauge, activeGauge |-> activeGauge,
      retGauge |-> retGauge, outcomes |-> outcomes]

Apply(st) ==
    /\ queue' = st.queue /\ retryQ' = st.retryQ /\ active' = st.active
    /\ conn' = st.conn /\ resetList' = st.resetList /\ sendNext' = st.sendNext
    /\ retNext' = st.retNext /\ waitNext' = st.waitNext
    /\ resetNext' = st.resetNext /\ timerArmed' = st.timerArmed /\ hung' = st.hung
    /\ queueGauge' = st.queueGauge /\ activeGauge' = st.activeGauge
    /\ retGauge' = st.retGauge /\ outcomes' = st.outcomes

-----------------------------------------------------------------------------
(* Transactions and the TransContainer records that hold them.            *)

Tx == [subs : Seq(Subs), size : Nat, kind : Kinds]
Container == [tx : Tx, pool : Pools \cup {NoPool}, sender : BOOLEAN,
              token : Subs, age : 0..AgeCap]
ActiveEntry == [tx : Tx, pool : Pools, sender : BOOLEAN, token : Subs,
                age : 0..AgeCap, conn : Conns, canceling : BOOLEAN]

SumSizes(s) == FoldLeft(LAMBDA acc, e : acc + e.tx.size, 0, s)
CapAge(a) == IF a >= AgeCap THEN AgeCap ELSE a

\* AmEventDispatcher::post to the sender, keyed by the echoed token
Post(st, token, kind) ==
    IF Len(st.outcomes[token]) < OutcomeCap
    THEN [st EXCEPT !.outcomes[token] = Append(@, kind)]
    ELSE st

\* Worker::setWorkTimer: armed iff asked for immediately or any wake time is set
SetWorkTimer(st, immediately) ==
    [st EXCEPT !.timerArmed = immediately \/ st.resetNext \/ st.retNext
                              \/ st.waitNext \/ st.sendNext # NoTime]

-----------------------------------------------------------------------------
(* ConnectionPool and the Worker's pool selection.                        *)

PoolOf(c) == IF c \in ToSet(MasterConns) THEN "master" ELSE "slave"
PoolConns(p) == IF p = "master" THEN MasterConns ELSE SlaveConns

\* mutant of FirstFree: the isBusy() test is dropped
FirstFreeIgnoringBusy(st, p) ==
    LET i == SelectInSeq(PoolConns(p), LAMBDA c : st.conn[c].status = "ok")
    IN IF i = 0 THEN NoConn ELSE PoolConns(p)[i]

\* ConnectionPool::getFreeConnection: the first connection, in vector order,
\* that is not busy (IPGConnection::isBusy) and whose status is CONNECTION_OK
FirstFree(st, p) ==
    LET i == SelectInSeq(PoolConns(p),
                 LAMBDA c : st.conn[c].status = "ok" /\ st.conn[c].cur = "none")
    IN IF i = 0 THEN NoConn ELSE PoolConns(p)[i]

\* Worker::getFreeConnection.  The do-while exits as soon as a pool is
\* chosen, so only ONE pool is tried: master when no pool is given, slave
\* when master is given; with no pool left it reports "worker not found"
\* (the master pool always exists here, so that report is never posted).
GetFreeConnection(st, p) ==
    LET np == IF p = NoPool THEN "master"
              ELSE IF HasSlave /\ p = "master" THEN "slave" ELSE NoPool
    IN IF np = NoPool THEN [pool |-> p, conn |-> NoConn]
       ELSE [pool |-> np, conn |-> FirstFree(st, np)]

\* transactions.emplace_back(...) followed by conn->runTransaction(trans)
RunOn(st, tr, c, p) ==
    [st EXCEPT !.active = Append(@, [tx |-> tr.tx, pool |-> p, sender |-> tr.sender,
                                     token |-> tr.token, age |-> 0, conn |-> c,
                                     canceling |-> FALSE]),
               !.activeGauge = @ + tr.tx.size,
               !.waitNext = TRUE,
               !.conn[c].cur = "work"]

Res(st, tr, ret) == [st |-> st, tr |-> tr, ret |-> ret]

\* mutant of RetransmitTransaction: a fresh dispatch records the
\* container's pool (none) instead of the pool the connection came from
RECURSIVE RetransmitTransactionKeepPool(_, _)
RetransmitTransactionKeepPool(st0, tr) ==
  LET st == [st0 EXCEPT !.retNext = FALSE] IN
  IF tr.pool = NoPool THEN
      LET g == GetFreeConnection(st, NoPool) IN
      IF g.conn = NoConn THEN Res(st, tr, -1)
      ELSE Res(RunOn(st, tr, g.conn, tr.pool), tr, 0)
  ELSE IF tr.pool = "master" THEN
      IF ~FailoverToSlave /\ ~RetransmitEnable THEN Res(st, tr, 0)
      ELSE IF tr.age < RetransmitInterval THEN Res([st EXCEPT !.retNext = TRUE], tr, 1)
      ELSE LET g == GetFreeConnection(st, "master") IN
           IF FailoverToSlave /\ HasSlave /\ g.conn = NoConn THEN Res(st, tr, 1)
           ELSE IF FailoverToSlave /\ g.conn # NoConn
                THEN Res(RunOn(st, tr, g.conn, g.pool), tr, 0)
           ELSE IF ~RetransmitEnable THEN Res(st, tr, 0)
           ELSE RetransmitTransactionKeepPool(st, [tr EXCEPT !.pool = NoPool])
  ELSE IF ~RetransmitEnable THEN Res(st, tr, 0)
  ELSE IF tr.age < RetransmitInterval THEN Res([st EXCEPT !.retNext = TRUE], tr, 1)
  ELSE RetransmitTransactionKeepPool(st, [tr EXCEPT !.pool = NoPool])


(* Worker::retransmitTransaction.  Returns the new state, the container   *)
(* (its pool is cleared by reference before a recursive call) and the     *)
(* result: -1 no free connection, 0 run or deleted, 1 not yet.            *)
RECURSIVE RetransmitTransaction(_, _)
RetransmitTransaction(st0, tr) ==
  LET st == [st0 EXCEPT !.retNext = FALSE] IN
  IF tr.pool = NoPool THEN
      LET g == GetFreeConnection(st, NoPool) IN
      IF g.conn = NoConn THEN Res(st, tr, -1)
      ELSE Res(RunOn(st, tr, g.conn, g.pool), tr, 0)
  ELSE IF tr.pool = "master" THEN
      IF ~FailoverToSlave /\ ~RetransmitEnable THEN Res(st, tr, 0)
      ELSE IF tr.age < RetransmitInterval THEN Res([st EXCEPT !.retNext = TRUE], tr, 1)
      ELSE LET g == GetFreeConnection(st, "master") IN
           IF FailoverToSlave /\ HasSlave /\ g.conn = NoConn THEN Res(st, tr, 1)
           ELSE IF FailoverToSlave /\ g.conn # NoConn
                THEN Res(RunOn(st, tr, g.conn, g.pool), tr, 0)
           ELSE IF ~RetransmitEnable THEN Res(st, tr, 0)
           ELSE RetransmitTransaction(st, [tr EXCEPT !.pool = NoPool])
  ELSE IF ~RetransmitEnable THEN Res(st, tr, 0)
  ELSE IF tr.age < RetransmitInterval THEN Res([st EXCEPT !.retNext = TRUE], tr, 1)
  ELSE RetransmitTransaction(st, [tr EXCEPT !.pool = NoPool])

-----------------------------------------------------------------------------
(* Worker::checkQueue                                                      *)

\* mutant of RetryScan: a "not yet" entry is erased like a consumed one
RECURSIVE RetryScanEraseNotYet(_, _)
RetryScanEraseNotYet(st, i) ==
  IF i > Len(st.retryQ) THEN st
  ELSE LET r == RetransmitTransaction(st, st.retryQ[i]) IN
       IF r.ret = -1 THEN [r.st EXCEPT !.retryQ[i] = r.tr]
       ELSE RetryScanEraseNotYet([r.st EXCEPT !.retryQ = RemoveAt(@, i),
                                              !.retGauge = @ - st.retryQ[i].tx.size], i)

\* the retransmit_q loop: -1 stops the scan, 1 skips the entry, 0 erases it
RECURSIVE RetryScan(_, _)
RetryScan(st, i) ==
  IF i > Len(st.retryQ) THEN st
  ELSE LET r == RetransmitTransaction(st, st.retryQ[i]) IN
       CASE r.ret = -1 -> [r.st EXCEPT !.retryQ[i] = r.tr]
         [] r.ret = 1  -> RetryScan([r.st EXCEPT !.retryQ[i] = r.tr], i + 1)
         [] r.ret = 0  -> RetryScan([r.st EXCEPT !.retryQ = RemoveAt(@, i),
                                       !.retGauge = @ - st.retryQ[i].tx.size], i)

\* IPGTransaction::merge (Transaction.cpp): transactions of one kind merge
CanMerge(a, b) == a.kind = b.kind

\* the last queue index folded into the batch that starts at the head: the
\* batch grows while the next one merges and the statement count is below
\* batch_size
RECURSIVE BatchEnd(_, _, _)
BatchEnd(q, k, count) ==
  IF k < Len(q) /\ count < BatchSize /\ CanMerge(q[1].tx, q[k + 1].tx)
  THEN BatchEnd(q, k + 1, count + q[k + 1].tx.size)
  ELSE k

\* the clone of the head merged with the rest of the batch; the container
\* takes sender_id and token of the batch's last transaction
Batched(b) ==
  [tx |-> [subs |-> FoldLeft(LAMBDA acc, e : acc \o e.tx.subs, <<>>, b),
           size |-> SumSizes(b), kind |-> b[1].tx.kind],
   pool |-> NoPool, sender |-> b[Len(b)].sender, token |-> b[Len(b)].token, age |-> 0]

\* the queue loop: dispatch batch after batch until one finds no connection
RECURSIVE BatchScan(_)
BatchScan(st) ==
  IF st.queue = <<>> THEN st
  ELSE LET k == BatchEnd(st.queue, 1, st.queue[1].tx.size)
           b == SubSeq(st.queue, 1, k)
           r == RetransmitTransaction(st, Batched(b))
       IN IF r.ret = -1 THEN r.st
          ELSE BatchScan([r.st EXCEPT !.queue = SubSeq(@, k + 1, Len(@)),
                                      !.queueGauge = @ - SumSizes(b)])

CheckQueue(st) ==
  LET s1 == RetryScan(st, 1) IN
  IF s1.sendNext > 0 /\ Len(s1.queue) < BatchSize THEN s1
  ELSE LET s2 == BatchScan(s1)
       IN [s2 EXCEPT !.sendNext = IF s2.queue = <<>> THEN NoTime ELSE BatchTimeout]

-----------------------------------------------------------------------------
(* Driver callbacks handled by the Worker.                                 *)

ActiveIndex(st, c) == SelectInSeq(st.active, LAMBDA e : e.conn = c)

\* Worker::onStopTransaction: the same transaction goes to retransmit_q
\* with no pool, whatever retransmit_enable says
OnStopTransaction(st, c) ==
  LET i == ActiveIndex(st, c) IN
  IF i = 0 THEN st
  ELSE LET e == st.active[i] IN
       [st EXCEPT !.retryQ = Append(@, [tx |-> e.tx, pool |-> NoPool, sender |-> e.sender,
                                        token |-> e.token, age |-> 0]),
                  !.activeGauge = @ - e.tx.size,
                  !.retGauge = @ + e.tx.size,
                  !.active = RemoveAt(@, i)]

\* the driver ends the connection's current transaction and starts the
\* planned one, if any (Connection.cpp, modelled from the spec)
EndCurrent(st, c) ==
  [st EXCEPT !.conn[c].cur = IF st.conn[c].planned THEN "admin" ELSE "none",
             !.conn[c].planned = FALSE]

\* IPGConnection::reset (Connection.cpp, modelled from the spec): a running
\* transaction is stopped through onStopTransaction and an asynchronous
\* connect starts, ending in onConnect or onConnectionFailed
ConnReset(st, c) ==
  LET st1 == IF st.conn[c].cur = "work" THEN OnStopTransaction(st, c) ELSE st
  IN [st1 EXCEPT !.conn[c].status = "connecting", !.conn[c].cur = "none",
                 !.conn[c].planned = FALSE]

\* Worker::onFinish: wake the timer, post the result, drop the entry
OnFinish(st, c) ==
  LET i == ActiveIndex(st, c)
      st1 == SetWorkTimer(st, TRUE)
  IN IF i = 0 THEN st1
     ELSE LET e == st.active[i]
              st2 == IF e.sender THEN Post(st1, e.token, "result") ELSE st1
          IN [st2 EXCEPT !.activeGauge = @ - e.tx.size, !.active = RemoveAt(@, i)]

\* mutant of OnErrorTransaction: a NonTransaction reports the size of the
\* requeued current statement instead of its own
OnErrorTransactionRequeuedSize(st, e) ==
  LET tx   == e.tx
      cur  == [tx EXCEPT !.size = 1]
      rest == [tx EXCEPT !.size = @ - 1]
      Requeue(s, t) ==
          [s EXCEPT !.retryQ = Append(@, [tx |-> t, pool |-> e.pool, sender |-> e.sender,
                                          token |-> e.token, age |-> 0]),
                    !.retGauge = @ + t.size]
  IN IF ~RetransmitEnable /\ ~FailoverToSlave /\ e.sender
     THEN [st |-> Post(st, e.token, "error"), size |-> tx.size]
     ELSE IF tx.kind = "non" /\ ~UsePipeline
     THEN [st |-> Requeue(st, cur), size |-> cur.size]
     ELSE IF tx.size > 1
     THEN [st |-> Requeue(Requeue(st, rest), cur), size |-> rest.size]
     ELSE [st |-> Requeue(st, tx), size |-> tx.size]

(* Worker::onErrorTransaction.  Returns the state and the size of the      *)
(* failed transaction afterwards: removeQuery shortens its own chain.      *)
(* The failing statement is the chain's current query (size 1).           *)
OnErrorTransaction(st, e) ==
  LET tx   == e.tx
      cur  == [tx EXCEPT !.size = 1]
      rest == [tx EXCEPT !.size = @ - 1]
      Requeue(s, t) ==
          [s EXCEPT !.retryQ = Append(@, [tx |-> t, pool |-> e.pool, sender |-> e.sender,
                                          token |-> e.token, age |-> 0]),
                    !.retGauge = @ + t.size]
  IN IF ~RetransmitEnable /\ ~FailoverToSlave /\ e.sender
     THEN [st |-> Post(st, e.token, "error"), size |-> tx.size]
     ELSE IF tx.kind = "non" /\ ~UsePipeline
     THEN [st |-> Requeue(st, cur), size |-> tx.size]
     ELSE IF tx.size > 1
     THEN [st |-> Requeue(Requeue(st, rest), cur), size |-> rest.size]
     ELSE [st |-> Requeue(st, tx), size |-> tx.size]

\* Worker::onError and Worker::onPQError(IPGTransaction*)
OnError(st, c) ==
  LET i == ActiveIndex(st, c) IN
  IF i = 0 THEN st
  ELSE LET r == OnErrorTransaction(st, st.active[i])
       IN [r.st EXCEPT !.activeGauge = @ - r.size, !.active = RemoveAt(@, i)]

\* Worker::onErrorCode: a code in reconnect_errors (or any code when the
\* list is empty) queues the connection for reset
OnErrorCode(st, c, matches) ==
  IF ReconnectErrorsEmpty \/ matches
  THEN SetWorkTimer([st EXCEPT !.resetList = Append(@, c), !.resetNext = TRUE], FALSE)
  ELSE st

\* Worker::onConnectionFailed and Worker::onDisconnect
QueueReset(st, c) ==
  SetWorkTimer([st EXCEPT !.resetList = Append(@, c), !.resetNext = TRUE], FALSE)

\* Worker::onConnect: the admin set runs first as a ConfigTransaction,
\* otherwise the timer fires at once to hand queued work to the connection
OnConnect(st, c) ==
  IF HasAdminSet THEN [st EXCEPT !.conn[c].cur = "admin"]
  ELSE SetWorkTimer(st, TRUE)

\* ConnectionPool::runTransactionForPool: a clone of the admin transaction
\* runs on every idle connected member and is planned on a busy one
RunTransactionForPool(st) ==
  [st EXCEPT !.conn = [c \in Conns |->
      IF st.conn[c].status # "ok" THEN st.conn[c]
      ELSE IF st.conn[c].cur = "none" THEN [st.conn[c] EXCEPT !.cur = "admin"]
      ELSE [st.conn[c] EXCEPT !.planned = TRUE]]]

\* Worker::configure with the same tunables: each prepared statement and a
\* search path is one runTransactionForPool over both pools (n of them),
\* then the reset list and the retry, wait and reset wake times are
\* cleared and the timer is re-armed from what is left
RECURSIVE RunAdmin(_, _)
RunAdmin(st, n) == IF n = 0 THEN st ELSE RunAdmin(RunTransactionForPool(st), n - 1)

Configure(st, n) ==
  SetWorkTimer([RunAdmin(st, n) EXCEPT !.resetNext = FALSE, !.resetList = <<>>,
                                       !.retNext = FALSE, !.waitNext = FALSE], FALSE)

\* Worker::resetPools: ConnectionPool::resetConnections on the master, the
\* slave, or both: reset() on every member, in vector order
ResetPool(st, p) == FoldLeft(LAMBDA acc, c : ConnReset(acc, c), st, PoolConns(p))

-----------------------------------------------------------------------------
(* Worker::onTimer                                                         *)

\* the resetConnections loop: reset every due connection, oldest first,
\* stop at the first one not yet due and keep it and the rest
RECURSIVE ResetScan(_, _)
ResetScan(st, l) ==
  IF l # <<>> /\ st.conn[Head(l)].discAge > ReconnectInterval
  THEN ResetScan(ConnReset(st, Head(l)), Tail(l))
  ELSE [st EXCEPT !.resetNext = (l # <<>>), !.resetList = l \o @]

\* mutant of OnFireTransaction: Timeout is posted even with retransmit on
OnFireTransactionAlwaysNotify(st, i) ==
  LET e == st.active[i]
      st1 == IF e.sender THEN Post(st, e.token, "timeout") ELSE st
  IN [st1 EXCEPT !.active[i].canceling = TRUE]

\* Worker::onFireTransaction: Timeout to the sender unless retransmit or
\* failover is on, then IPGTransaction::cancel marks the entry CANCELING
OnFireTransaction(st, i) ==
  LET e == st.active[i]
      st1 == IF ~RetransmitEnable /\ ~FailoverToSlave /\ e.sender
             THEN Post(st, e.token, "timeout") ELSE st
  IN [st1 EXCEPT !.active[i].canceling = TRUE]

\* the transactions loop.  Its first two branches do not advance the
\* iterator: after a fire the same entry is looked at again, and an entry
\* CANCELING for more than 2*trans_wait_time is pushed to resetConnections
\* again and again, so the loop never ends
RECURSIVE WaitScan(_, _)
WaitScan(st, i) ==
  IF i > Len(st.active) THEN st
  ELSE LET e == st.active[i] IN
       IF e.age > TransWaitTime /\ ~e.canceling THEN WaitScan(OnFireTransaction(st, i), i)
       ELSE IF e.age > 2 * TransWaitTime /\ e.canceling THEN [st EXCEPT !.hung = TRUE]
       ELSE WaitScan([st EXCEPT !.waitNext = TRUE], i + 1)

OnTimer(st) ==
  LET s1 == ResetScan([st EXCEPT !.resetList = <<>>, !.resetNext = FALSE], st.resetList)
      s2 == WaitScan(s1, 1)
  IN IF s2.hung THEN s2 ELSE SetWorkTimer(CheckQueue(s2), FALSE)

\* Worker::runTransaction (the producer's submit)
RunTransaction(st, s) ==
  LET sender == SubSender[s] /\ ~(BatchSize > 1)
      tx == [subs |-> <<s>>, size |-> SubSize[s], kind |-> SubKind[s]]
  IN IF MaxQueueLength > 0 /\ st.queueGauge >= MaxQueueLength
     THEN IF sender THEN Post(st, s, "queue_full") ELSE st
     ELSE SetWorkTimer([st EXCEPT !.queue = Append(@, [tx |-> tx, pool |-> NoPool,
                                         sender |-> sender, token |-> s, age |-> 0]),
                                  !.queueGauge = @ + tx.size,
                                  !.sendNext = IF @ = NoTime THEN BatchTimeout ELSE @],
                       FALSE)

-----------------------------------------------------------------------------
(* Actions.  The worker thread runs every handler; once it hangs in        *)
(* onTimer none runs again.  Only time keeps passing.                      *)

Init ==
    /\ submitted = {}
    /\ queue = <<>> /\ retryQ = <<>> /\ active = <<>>
    \* the ConnectionPool constructor calls reset() on every connection
    /\ conn = [c \in Conns |-> [status |-> "connecting", cur |-> "none", planned |-> FALSE,
                                discAge |-> 0]]
    /\ resetList = <<>>
    /\ sendNext = NoTime /\ retNext = FALSE /\ waitNext = FALSE /\ resetNext = FALSE
    /\ timerArmed = FALSE
    /\ hung = FALSE
    /\ queueGauge = 0 /\ activeGauge = 0 /\ retGauge = 0
    /\ outcomes = [s \in Subs |-> <<>>]
    /\ failures = 0

\* a producer submits s
Submit(s) ==
    /\ ~hung
    /\ s \notin submitted
    /\ submitted' = submitted \cup {s}
    /\ Apply(RunTransaction(W, s))
    /\ UNCHANGED failures

\* workTimer expires: Worker::processEvent -> onTimer (a one-shot timer)
Tick ==
    /\ ~hung
    /\ timerArmed
    /\ Apply(OnTimer([W EXCEPT !.timerArmed = FALSE]))
    /\ UNCHANGED <<submitted, failures>>

\* the database completes the connection's current transaction
DbFinish(c) ==
    /\ ~hung
    /\ conn[c].status = "ok"
    /\ conn[c].cur # "none"
    /\ Apply(OnFinish(EndCurrent(W, c), c))
    /\ UNCHANGED <<submitted, failures>>

\* the current transaction fails; on a lost connection this is the error
\* the driver reports for it, which the Disconnect already counted
DbError(c) ==
    /\ ~hung
    /\ conn[c].cur # "none"
    /\ \/ conn[c].status # "ok" /\ UNCHANGED failures
       \/ conn[c].status = "ok" /\ failures < MaxFailures /\ failures' = failures + 1
    /\ Apply(OnError(EndCurrent(W, c), c))
    /\ UNCHANGED submitted

\* the driver forces the current transaction off (IPGConnection::stopTransaction)
DbStop(c) ==
    /\ ~hung
    /\ conn[c].cur = "work"
    /\ failures < MaxFailures
    /\ failures' = failures + 1
    /\ Apply(OnStopTransaction(EndCurrent(W, c), c))
    /\ UNCHANGED submitted

\* the server reports an SQL error code for the current transaction
DbErrorCode(c) ==
    /\ ~hung
    /\ conn[c].status = "ok"
    /\ conn[c].cur # "none"
    /\ failures < MaxFailures
    /\ failures' = failures + 1
    /\ \E matches \in BOOLEAN : Apply(OnErrorCode(W, c, matches))
    /\ UNCHANGED submitted

\* the link drops: the driver marks it bad and calls onDisconnect
Disconnect(c) ==
    /\ ~hung
    /\ conn[c].status = "ok"
    /\ failures < MaxFailures
    /\ failures' = failures + 1
    /\ Apply(QueueReset([W EXCEPT !.conn[c].status = "bad", !.conn[c].discAge = 0], c))
    /\ UNCHANGED submitted

\* an asynchronous connect fails: onConnectionFailed
ConnectFail(c) ==
    /\ ~hung
    /\ conn[c].status = "connecting"
    /\ failures < MaxFailures
    /\ failures' = failures + 1
    /\ Apply(QueueReset([W EXCEPT !.conn[c].status = "bad", !.conn[c].discAge = 0], c))
    /\ UNCHANGED submitted

\* an asynchronous connect succeeds: onConnect
Connect(c) ==
    /\ ~hung
    /\ conn[c].status = "connecting"
    /\ Apply(OnConnect([W EXCEPT !.conn[c].status = "ok"], c))
    /\ UNCHANGED <<submitted, failures>>

\* the module reconfigures the worker (a config with n admin items)
Reconfigure ==
    /\ ~hung
    /\ failures < MaxFailures
    /\ failures' = failures + 1
    /\ \E n \in (IF HasAdminSet THEN 1..2 ELSE {0}) : Apply(Configure(W, n))
    /\ UNCHANGED submitted

\* the module resets the master pool, the slave pool or both
ResetPools ==
    /\ ~hung
    /\ failures < MaxFailures
    /\ failures' = failures + 1
    /\ \E ps \in {<<"master">>, <<"slave">>, <<"master", "slave">>} :
         Apply(FoldLeft(LAMBDA acc, p : ResetPool(acc, p), W, ps))
    /\ UNCHANGED submitted

\* one second passes; under DbAnswersInTime no query is left active for
\* more than 2*trans_wait_time
Elapse ==
    /\ DbAnswersInTime => \A i \in DOMAIN active : active[i].age < 2 * TransWaitTime
    /\ active' = [i \in DOMAIN active |-> [active[i] EXCEPT !.age = CapAge(@ + 1)]]
    /\ retryQ' = [i \in DOMAIN retryQ |-> [retryQ[i] EXCEPT !.age = CapAge(@ + 1)]]
    /\ conn' = [c \in Conns |-> [conn[c] EXCEPT !.discAge = CapAge(@ + 1)]]
    /\ sendNext' = IF sendNext > 0 THEN sendNext - 1 ELSE sendNext
    /\ UNCHANGED <<submitted, queue, resetList, retNext, waitNext, resetNext,
                   timerArmed, hung, queueGauge, activeGauge, retGauge, outcomes, failures>>

Next ==
    \/ \E s \in Subs : Submit(s)
    \/ Tick
    \/ \E c \in Conns : DbFinish(c) \/ DbError(c) \/ DbStop(c) \/ DbErrorCode(c)
    \/ \E c \in Conns : Disconnect(c) \/ ConnectFail(c) \/ Connect(c)
    \/ Reconfigure \/ ResetPools
    \/ Elapse

(* The timer fires when armed and time passes; connects eventually end;   *)
(* the database eventually answers a running query.  Producers and        *)
(* failures are not fair.                                                  *)
Fairness ==
    /\ WF_vars(Tick)
    /\ WF_vars(Elapse)
    /\ \A c \in Conns : WF_vars(Connect(c)) /\ WF_vars(DbFinish(c))

Spec == Init /\ [][Next]_vars /\ Fairness

-----------------------------------------------------------------------------
(* Properties                                                              *)

TypeOK ==
    /\ submitted \subseteq Subs
    /\ queue \in Seq(Container) /\ retryQ \in Seq(Container)
    /\ active \in Seq(ActiveEntry)
    /\ conn \in [Conns -> [status : {"ok", "bad", "connecting"},
                           cur : {"none", "work", "admin"}, planned : BOOLEAN,
                           discAge : 0..AgeCap]]
    /\ resetList \in Seq(Conns)
    /\ sendNext \in {NoTime} \cup 0..BatchTimeout
    /\ {retNext, waitNext, resetNext, timerArmed, hung} \subseteq BOOLEAN
    /\ outcomes \in [Subs -> Seq(OutcomeKinds)]
    /\ failures \in 0..MaxFailures

(* The statistics gauges equal what they count (spec section 8): queue_size *)
(* the statements in the queue, tr_size those in the active table and      *)
(* ret_size those in retransmit_q.  It must hold when a query is stopped,  *)
(* fails or times out and goes to retransmit_q, when a two-statement       *)
(* NonTransaction fails and only its current statement is requeued, on     *)
(* failover to the slave pool, and when the retry scan dispatches, keeps  *)
(* or erases entries.  A failing DbTransaction chain, whose tr_size        *)
(* decrement reads the size after removeQuery, breaks it.                  *)
GaugesMatch ==
    /\ queueGauge = SumSizes(queue)
    /\ activeGauge = SumSizes(active)
    /\ retGauge = SumSizes(retryQ)

(* Every active-table entry is the transaction its connection is running, *)
(* in the pool it was recorded with, and no connection runs two: dispatch  *)
(* only picks free connections and every callback that ends a transaction *)
(* removes its entry.                                                       *)
ActiveRunsOnItsConnection ==
    /\ \A i, j \in DOMAIN active : i # j => active[i].conn # active[j].conn
    /\ \A i \in DOMAIN active : /\ conn[active[i].conn].cur = "work"
                                /\ PoolOf(active[i].conn) = active[i].pool
    /\ \A c \in Conns : conn[c].cur = "work" => \E i \in DOMAIN active : active[i].conn = c

(* A producer receives at most one outcome (Result, Error or Timeout) per   *)
(* submission (spec sections 7 and 8).  With retry on, a query that times *)
(* out, is stopped or fails leaves the active table for retransmit_q, so  *)
(* its late answer from the database finds no entry and posts nothing,    *)
(* and only the requeued copy is answered.  A DbTransaction chain split on *)
(* error, and a timeout with retry off, both post twice.                   *)
AtMostOneOutcome == \A s \in Subs : Len(outcomes[s]) <= 1

(* No submission whose producer waits for an answer is lost silently: it   *)
(* is still queued, retried or active (as a whole, batched or as a split   *)
(* piece), or an outcome has been posted for it.  Broken when              *)
(* retransmitTransaction deletes a retry entry.                            *)
Tracked(s) == s \in submitted /\ SubSender[s] /\ BatchSize = 1
InFlight(s) == \E e \in ToSet(queue) \cup ToSet(retryQ) \cup ToSet(active) :
                   s \in ToSet(e.tx.subs)
NoSilentLoss == \A s \in Subs : Tracked(s) => outcomes[s] # <<>> \/ InFlight(s)

(* When onTimer runs the batch stage and leaves work queued, no connection *)
(* of either pool was free (spec 4.3d: a transaction with no pool prefers  *)
(* the master and else takes the slave).                                   *)
FreeConnExists(cn) == \E c \in Conns : cn[c].status = "ok" /\ cn[c].cur = "none"
QueueWaitsOnlyWhenNoFreeConnection ==
    [][Tick /\ (sendNext <= 0 \/ Len(queue) >= BatchSize) /\ queue' # <<>>
       => ~FreeConnExists(conn')]_vars

(* The statements queued never exceed max_queue_length (spec section 3).   *)
QueueWithinCapacity == MaxQueueLength > 0 => queueGauge <= MaxQueueLength

(* A transaction left CANCELING for more than 2*trans_wait_time marks its  *)
(* connection as wedged; onTimer queues that connection for reset, whose   *)
(* reset stops the transaction, so the wedged entry eventually goes.       *)
Wedged(c) == \E i \in DOMAIN active : /\ active[i].conn = c
                                      /\ active[i].canceling
                                      /\ active[i].age > 2 * TransWaitTime
WedgedConnectionIsReset == \A c \in Conns : Wedged(c) ~> ~Wedged(c)

(* The worker keeps a wake-up for all its pending work.  A connection that *)
(* failed (onConnectionFailed, onDisconnect) waits in resetConnections,    *)
(* the only list onTimer reconnects from; and while connections wait      *)
(* there or transactions wait in retransmit_q, the work timer is armed.   *)
(* It must hold across timer scans that keep entries not yet due, pool    *)
(* resets and reconfigurations.                                            *)
PendingWorkScheduled ==
    /\ \A c \in Conns : conn[c].status = "bad" => c \in ToSet(resetList)
    /\ resetList # <<>> \/ retryQ # <<>> => timerArmed \/ hung

==============================================================================
