# TLA+ models of SEMS

This directory holds TLA+ models of parts of SEMS, the SIP Express Media
Server (`src/`), and the TLC configurations that check them. These components are
modelled:
- the PostgreSQL worker of `src/apps/postgresql` (module PGWorker): queues,
  batching, pool failover, retries, timeouts and reconnects, driven by one
  event loop and by callbacks from the connection driver;
- the event queue `AmEventQueue` (EventQueue), shown to refine an abstract
  FIFO mailbox (Mailbox);
- the registration table of the SIP registrar client (RegistrarClient);
- the connection table and socket lifetime of the SIP TCP transport
  (TcpTransport);
- the transaction bookkeeping of a SIP dialog (SipDialog);
- the DTLS handshake retransmission timer of `AmDtlsConnection` and its
  reference counts (DtlsTimer);
- the lifetime of the variant value `AmArg` (AmArg): ownership of arrays and
  structs, shared `ValueRef` references, and the exceptions of its calls.

## The system and its parts

| Part | Source | State | Operations | Status |
|---|---|---|---|---|
| PG Worker | `apps/postgresql/ConnectionPool.cpp`, `ConnectionPool.h` | `queue`, `retransmit_q`, `transactions` (active), `resetConnections`, `erased`, four wake-up times, the one-shot `workTimer`, gauges `queue_size`, `tr_size`, `ret_size` | `runTransaction`, `checkQueue`, `retransmitTransaction`, `onTimer`, `onFireTransaction`, `onErrorTransaction`, the callbacks `onConnect`, `onConnectionFailed`, `onDisconnect`, `onStopTransaction`, `onError`, `onPQError`, `onErrorCode`, `onFinish`; `configure`, `resetPools`, `onSock` | partly (PGWorker) |
| ConnectionPool | same files | one vector of connections, pool type master or slave | `getFreeConnection`, `checkConnection`, `runTransactionForPool`, `resetConnections`, `usePipeline` | partly (PGWorker) |
| Connection / Transaction driver | `apps/postgresql/Connection.h` (the `.cpp` files are not in the repository) | status, current transaction, disconnect time | connect, reset, run, cancel, stop; it calls back into the worker | environment of PGWorker |
| Event queue | `core/AmEventQueue.cpp` | event list, `ev_pending`, mutex, wake-up handler | `postEvent`, `processEvents`, `processSingleEvent`, `setEventNotificationSink` | modelled (EventQueue, Mailbox) |
| SIP registrar client | `apps/registrar_client/SIPRegistrarClient.cpp` | `registrations`, `registrations_by_id`, the registration objects, the client's event queue | `createRegistration`, `removeRegistration(ById)`, `onBusEvent` (create, remove, flush), `onSipReply` and `onSipReplyEvent`, `onNewRegistration`, `onRemoveRegistration`, `checkTimeouts`, the RPC readers, the shutdown event, `on_stop` | partly (RegistrarClient) |
| SIP TCP/TLS transport | `core/sip/tcp_base_trsp.cpp`, `tls_trsp*.h` | `trsp_worker::connections`, socket reference counts, `sd`, `connected`, `closed`, `send_q`, the libevent events | `trsp_worker::send`, `add_connection`, `remove_connection`, `check_connection`, `on_read`, `on_write`, `on_connect`, `close` | partly (TcpTransport) |
| SIP dialog | `core/AmBasicSipDialog.cpp` | `uas_trans`, `uac_trans`, `r_cseq`, `r_cseq_i`, `cseq`, `callid`, `remote_tag`, whether `ext_local_tag` is set | `onRxRequest` (with `onRxReqSanity`), `reply` / `onReplyTxed`, `termUasTrans`, `dropTransactions`, `sendRequest` / `onRequestTxed`, `onRxReply` (with `onRxReplySanity`), `initFromLocalRequest` | partly (SipDialog) |
| SIP control interface | `core/SipCtrlInterface.cpp` | none beyond start-up | `handle_sip_reply` with `sip_msg2am_reply` (the path of a reply into the dialog) | partly (SipDialog) |
| DTLS connection | `core/AmDtlsConnection.cpp` | `dtls_channel` (present or not), `activated`, `pending_handshake_timer`, each `DtlsTimer`'s reference count, `is_valid` and place in the wheel | `initConnection`, the destructor, `handleConnection`, `send`, `tls_session_activated`, `DtlsTimer::fire`, `timer_check`, `reset`, `invalidate` | partly (DtlsTimer) |
| AmArg variant value | `core/AmArg.cpp`, `AmArg.h` | `type` and the owned `ValueArray`/`ValueStruct` or shared `ValueRef` of each value | `operator=`, `invalidate`, constructors, `clear`, `assertArray`/`assertStruct`, `push`, `pop`, `pop_back`, `erase`, `concat`, `operator[]` | partly (AmArg) |
| RTP/RTSP audio, JSON-RPC, RpcTreeHandler, log, unit test | see PROJECT.json | | | not modelled (reasons in PROJECT.json) |

How the worker's parts interact:
- A producer thread posts a transaction to the worker. `runTransaction` checks
  the admission limit, appends the transaction to `queue` and arms the timer.
- The worker thread runs `onTimer` when the one-shot timer fires.
  - First it reconnects the connections in `resetConnections` whose reconnect
    interval has passed.
  - Then it times out the active transactions older than `trans_wait_time`.
  - Then `checkQueue` runs. It dispatches `retransmit_q`, then batches
    compatible queued transactions up to `batch_size` and dispatches them.
- `retransmitTransaction` chooses a pool and a free connection through
  `Worker::getFreeConnection` and `ConnectionPool::getFreeConnection`. On an
  earlier failure it fails over from master to slave, or retries on the same
  pool after `retransmit_interval`.
- The driver calls the worker back when a connection connects, fails or drops,
  and when a transaction finishes, errors, gets an error code or is stopped.
  Each callback moves the transaction between the queues, adjusts the gauges,
  posts the reply to the sender and re-arms the timer.

The hard behaviours are these:
- Callbacks interleave with timer scans.
- A timeout races a late answer.
- A failure can hit one statement of a batched chain.
- Connections are lost and reconnected.
- Limits are reached: the queue, the batch size and the pool.

## Module PGWorker: how it corresponds to the code

- **State.** Each worker member has a variable:
  - `queue`, `retryQ` and `active` for `queue`, `retransmit_q` and `transactions`;
  - `resetList` for `resetConnections`;
  - `sendNext`, `retNext`, `waitNext` and `resetNext` for the four `*_next_time` members;
  - `timerArmed` for the `workTimer`;
  - `queueGauge`, `activeGauge` and `retGauge` for the counters.

  Each connection has a record `conn[c]` with the driver status (ok, bad or
  connecting), its current transaction (none, work or admin), whether an
  admin transaction is planned behind the current one, and the time since it
  was disconnected.

  Two variables belong to the model, not the code:
  - `outcomes[s]` collects the replies posted to the producer of submission `s`;
  - `hung` records that the worker thread is stuck in an endless loop.
- **Data.** A transaction is a record:
  - the set of submissions it carries (after batching there can be several);
  - its statement count (`get_size`);
  - its kind (non, policy or another kind), which stands for the type that `merge` checks.

  A container (`TransContainer`) adds its current pool, whether it has a sender
  (the token) and its age.
- **Time.** The model keeps the age of each entry instead of absolute times.
  Ages are capped at `AgeCap`, past which every comparison in the code gives the
  same answer.
  - The action `Elapse` advances every age by one second.
  - The wake-up times are kept as set or unset, except `send_next_time`, whose
    batch countdown the model tracks.
- **Handlers.** Every handler is an operator over a record `W` of all worker
  variables, and `Apply` writes the result back. Each action is one whole
  callback. For example, `DbError` is `onPQError`/`onError` including
  `onErrorTransaction`: the requeue into `retransmit_q` or the posted error,
  and the gauge updates. Loops over the lists are RECURSIVE operators that follow the
  code's iteration exactly, including where it does not advance:
  - `RetryScan` and `BatchScan` in `checkQueue`;
  - `ResetScan` and `WaitScan` in `onTimer`.
- **Environment.** The driver's transitions are the actions `Connect`,
  `ConnectFail`, `Disconnect`, `DbFinish`, `DbError`, `DbStop` and
  `DbErrorCode`. Two operators are modelled from the spec because
  `Connection.cpp` and `Transaction.cpp` are not in the repository:
  - `ConnReset`: a reset ends the running transaction through `onStopTransaction`.
  - `CanMerge`: two transactions merge when they have the same kind.
  - `EndCurrent`: when a transaction ends, a planned admin transaction
    (`addPlannedTransaction`) starts in its place.
- **Administration.** The module's two control events are actions, both
  counted against `MaxFailures`:
  - `Reconfigure` is `Worker::configure`. It replays the admin set, each item
    a `runTransactionForPool` over both pools (`RunAdmin`, one or two items).
    It then clears `resetConnections` and the wake-up times and calls
    `setWorkTimer(false)`.
  - `ResetPools` is `Worker::resetPools` for the master pool, the slave pool or
    both. It calls `reset()` on every member in vector order.

  `RunTransactionForPool` gives an idle connected member the admin
  transaction, and plans it on a busy member.
- The "map" section of PROJECT.json names the source lines of every definition.

## PGWorker runs

MCPGWorker.tla instantiates the model with:
- one master connection `c1` and one slave connection `c2`;
- the submissions `s1`, a single statement, and `s2`, a two-statement
  NonTransaction (`MCMixedSize`), both with senders;
- all intervals set to 1 s.

`MaxFailures` bounds the number of driver failures (DbError on an ok
connection, DbStop, DbErrorCode, Disconnect and ConnectFail), together with
reconfigurations and pool resets. It is 3 in core_safety. The
violation runs use single statements and fewer failures (their cfgs).

| Run | Result | What it shows |
|---|---|---|
| core_safety | passes: 1,109,999 distinct states in about 40 s, every action fired | With retry and failover on, four things hold: the gauges equal the queue contents; a connection runs at most one query, and every active entry is on its connection; a submission gets at most one reply; a submission that waits for a reply is always queued, retrying, active or already answered. |
| reconfigure_drops_reset | violation | `PendingWorkScheduled`: every failed connection is in `resetConnections`, and the timer is armed while connections or retries wait. `configure` empties the list and zeroes every wake-up time. TLC finds a failed connection that is never reconnected in 2 steps (`ConnectFail`, `Reconfigure`). Without `Reconfigure` the property holds, with two and with three failures. |
| timer_scan_hang | violation (liveness) | After a query stays active for more than 2×`trans_wait_time`, the `onTimer` loop never advances its iterator and the connection is never reset. |

The findings in PROJECT.json describe each violation against the source line.
Every property of core_safety has a mutant in PROJECT.json: a plausible bug in
the mapped code that TLC detects. The mutants are:
- the requeue keeps the pool;
- `onError` decrements `tr_size` by the size of the requeued statement
  instead of the failed NonTransaction's (caught only because `s2` has two
  statements);
- `getFreeConnection` ignores `isBusy`;
- the timeout always notifies;
- the retry scan drops entries that are not yet due.

**Why the bounds are enough.**
- Two submissions over two connections are the smallest setting in which a
  failover from master to slave and two producers competing for one
  connection can both happen.
- The two-statement NonTransaction makes the gauges count more than one
  statement per entry. When it fails, `onErrorTransaction` requeues its
  current statement alone.
- Three failures allow a failure, a failure of the retry, and a stop or a
  disconnect on top.
- What core_safety cannot reach:
  - **Batching.** `runTransaction` drops the sender when `batch_size > 1`,
    so a batching run has no tracked replies, and `BatchSize` is 1.
  - **DbTransaction chains.** Their split on error breaks two invariants.
    With `s2` a two-statement DbTransaction, TLC finds `GaugesMatch`
    violated in 6 states: `onError` decrements `tr_size` by the size after
    `removeQuery` shortened the chain (`ConnectionPool.cpp:181`). It finds
    `AtMostOneOutcome` violated in 13 states: both halves are answered
    (`ConnectionPool.cpp:631`). No run slot is left for them, and the
    hazard list records both.
- Intervals of 1 s with ages capped just above 2W+R+RI make every
  time comparison in the code take both values.

**Fairness.** `Spec` assumes weak fairness of:
- `Tick`: the armed `timerfd` fires;
- `Elapse`: time passes;
- `Connect`: an asynchronous connect ends;
- `DbFinish`: the server answers a query.

Producers and failures are not fair.

**Assumptions.**
- `DbAnswersInTime` (TRUE except in timer_scan_hang) is an assumption about the
  database: `Elapse` is blocked while a query has been active for 2W. Without
  it, the hang above is reachable in every configuration.
- The model lets a tick happen at any time after the timer is armed, which
  includes a late tick. This is a superset of what the `timerfd` does.

`QueueWithinCapacity` is still stated in PGWorker, but no run checks it. With
capacity 2, a 1-statement submission followed by a 2-statement one puts 3
statements in the queue. The hazard list in PROJECT.json records this. Its run
gave way to the transport's two runs, because the run list has at most twelve
entries.

`QueueWaitsOnlyWhenNoFreeConnection` is also kept without a run. It says
that queued work waits only while no connection of either pool is free.
`Worker::getFreeConnection` never tries the slave pool, because its
`continue` jumps to the loop condition `while(!pool)`, which is false once
the master pool was chosen. With the master connection busy and the slave
connection free, TLC violated the property in 6 states. That run,
`no_slave_fallback`, gave way to `amarg`; the hazard `ConnectionPool.cpp:300`
records it.

## Module EventQueue: AmEventQueue and its abstract mailbox

- **State.**
  - `evQueue`, `evPending` and `sink` are `ev_queue`, `ev_pending` and
    `wakeup_handler`.
  - Per thread, `notified[t]` says the queue is in the thread's wake-up set.
    `pc[t]` and `cur[t]` are where the owner loop is and the event it popped.
  - `mode` is the owner loop, fixed when the queue is created and chosen in
    `Init` from `Modes`:
    - woken by its sink and draining the queue with `processEvents`;
    - waiting on `ev_pending` (`waitForEvent`) and then using `processEvents`;
    - waiting on `ev_pending` and using `processSingleEvent`.
- **Atomicity.** Every region between `m_queue.lock()` and `unlock()` is one
  action: `PostEvent`, `SetEventNotificationSink`, `PopEvent`, `QueueEmpty`
  and `SingleDone`. The handler call `Process` runs outside the lock. This
  lets producers interleave with a consumer that is inside `process`.
- **Refinement.** Mailbox.tla is the abstract promise: a FIFO mailbox whose
  messages are handled one at a time, in order, each once, and eventually.
  EventQueue instantiates it with
  `mailbox <- InFlight \o evQueue` (the event being processed, then the
  queue). The run checks `Abstract!Spec` as a property, so the refinement
  includes the abstract weak fairness.
- **Run eventqueue** (MCEventQueue.cfg) passes. It uses two producers with two
  posts each, `postEvent(NULL)` allowed, two threads and all three modes. It
  checks:
  - `NoLostWakeup`: while events wait and the owner is idle, something will
    wake it;
  - `ImplementsMailbox`.
- **Fairness.** The owner thread's steps and the sink's installation are weakly
  fair; producers are not. `run()` of every AmEventQueueProcessor loops on
  these steps.

## Module RegistrarClient: the registration table and its event queue

- **State.**
  - `registrations` and `registrationsById` are the two indexes.
  - `reg[o]` holds each `AmSIPRegistration` object, numbered by creation, with
    its life state (unborn, live or deleted), its handle and id, and its
    unregistering and remove flags.
  - `evq` is the client's own `AmEventQueue`. `stopFired` and `running` are
    the `stop_event` and the `run()` loop.
  - Bookkeeping for the bounds: `requested`, `posts`, `usedHandles`, and
    `answered` (the unregisters the SIP stack has answered).
  - History variables:
    - `freedRead`: a thread read a deleted object;
    - `removeRequested`: objects `onRemoveRegistration` unregistered;
    - `flushed`: objects a flush took out of the indexes.
- **Other threads post events** (`Post` is `AmEventQueue::postEvent`):
  - `Invoke` is the DI entry point `invoke`. It dispatches to
    `CreateRegistration` (both argument forms post the same event; bad
    arguments throw before anything is posted), `RemoveRegistration` by
    handle or by id, and the RPC readers below;
  - `PostBusEvent`, a `BusReplyEvent` from another module. Its payload is a
    list of actions taken from `BusShapes`.
  - `OnSipReply`: the SIP stack answers an unregister. `onSipReply` posts the
    reply only if `hasRegistration` finds the handle at that moment.
  - `PostShutdown` and `OnStop`, the two ways `stop_event` is fired.
- **The client thread.** Each handler `process()` dispatches to is one
  action, popping the head of the queue:
  - `OnNewRegistration`, which includes `AddReg`;
  - both forms of `OnRemoveRegistration`, including the early returns on an
    unknown handle or id;
  - `OnSipReplyEvent`;
  - `OnBusEvent`. Its creates and removes are posted back to the client's own
    queue, behind everything already there (`Reposted`). A flush runs at once
    (`FlushTable`).
  - `OnSystemEvent`.

  `CheckTimeouts` and `Stop` (`onServerShutdown`) are the timer and the
  `stop_event` branches of `run()`. The RPC readers `showRegistrationById` and
  `getRegistrationState` read under `reg_mut`.
- **Scheduling.** `processEvents` drains the queue in one go, while the model
  lets the timer run between two events. This allows more interleavings than
  the code, so safety results remain sound.
- **Undefined behaviour.** When the by-id lookup reaches a deleted object, the
  handle it reads may be any handle, so the model chooses one
  nondeterministically.
- **Runs.** MCRegistrarClient uses three handles and two ids, two
  registrations, four posts, and bus payloads `<<create>>` and
  `<<remove, flush>>`.
  - **registrar_table** (pass, 923,559 distinct states): with fresh handles,
    `NoUseAfterFree`, `ByIdMatchesRegistrations` and the liveness
    `RemovedEventuallyDeleted` hold.
  - **registrar_handle_reuse** (violation): when a create reuses a handle,
    `add_reg` deletes the old object but leaves its by-id entry. An RPC read
    by id then reads freed memory (5 steps).
  - `NoLeakedRegistration` is still stated. `flush` clears both indexes
    without deleting the objects, and TLC violates it in 4 steps when flush
    is enabled. Its run gave way to the SIP dialog runs, and the hazard list
    records it.
  - The hazard list records two ordering effects of the bus re-posting:
    - a remove by id that an API caller posts behind a bus create is handled
      first and ignored. TLC finds this in 5 steps with a history variable;
    - a flush runs before the creates of its own payload. No property takes a
      side here, because nothing says a payload's items apply in order.
- **Fairness.**
  - The client thread's handlers are weakly fair, and so are `checkTimeouts`
    and the read of a fired `stop_event`.
  - An unregister is eventually answered, or times out, which the
    registration reports the same way.
  - Callers and the shutdown are not fair.

## Module TcpTransport: connections and socket lifetime

- **Threads.** Three kinds of thread share a `tcp_base_trsp`:
  - SIP threads in `trsp_worker::send`;
  - the accepting thread in `create_connected` / `add_connection`;
  - the worker thread running the libevent callbacks.
- **Reference counts.** A socket is reference counted. The table holds one
  reference per entry, `send` holds one while it uses the socket, and every
  `sip_msg` that `parse_input` hands to the transaction layer holds one
  through its `local_socket` until the message is deleted. The last
  `dec_ref` runs `~tcp_base_trsp`, which frees the events only: it neither
  closes `sd` nor reports what is left in `send_q`.
- **State.**
  - `conns`: one conn id per peer. With plain TCP, a list holds at most one
    entry and `trsp_compare` matches every socket.
  - `sock[s]`, per socket:
    - its life state and reference count;
    - `sd`, the descriptor number it holds (0 for -1);
    - `connected` and `closed`;
    - the length of `send_q`;
    - the pending read and write events.
  - `snd[t]`: where each sender is.
  - `wcb`: the callback the worker is running.
  - `msgs[s]`: the received messages whose `local_socket` is `s`, and
    `rcvd`, the messages parsed so far (bounded by `MaxMsgs`).
- **Actions.**
  - `trsp_worker::send` is split into actions where its locks end:
    - `SendLookup`, under `connections_mut`;
    - `SendDo`, which is `sock->send`, `check_connection` and `connect()`;
    - `CheckConnClose`, the second close after a failed `bind`;
    - `SendFinish`, which is the `remove_connection` of a failed new
      connection followed by `dec_ref`.
  - `Accept` is `on_accept` with `trsp_worker::create_connected`: the
    factory's `CreateConnected` and then `AddConnection`. A failed `accept()`
    or `FIONBIO` changes nothing. `SendLookup` creates a socket with
    `NewConnection`.
  - A callback is `Dispatch`, where libevent picks an event, followed by
    `OnRead`, `OnConnectFail` or `OnWrite`. Between the two, other threads can
    drop references, and the callback holds none.
  - `OnRead(res)` is the whole of `on_read`: `"close"` for an idle timeout, a
    read error, EOF or a `parse_input` error; `"again"` for EAGAIN or an
    incomplete message; `"msg"` for a complete message, which is
    `ParseInput`: the new `sip_msg` takes `inc_ref` on the socket. The byte
    framing is abstracted; a read holding a message and then more is this
    step followed by the next read's.
  - `FreeMsg(s)` is the transaction layer deleting a message (`~sip_msg`,
    not in the repository), which does `dec_ref` on its socket.
  - `close()` is the operator `CloseSock`, with `generate_transport_errors`
    inside it.
  - The socket classes' own `send` is not in the repository. The model gives
    it the contract that `check_connection` and its comments imply: a closed
    socket refuses, otherwise the message is queued.
- **Runs.**
  - **tcp_transport** (pass, 43,722 distinct states): one sender with three
    sends, one accepted connection from another peer, three sockets, two
    received messages. It checks:
    - `RefCountExact`: count = entries + holders + messages;
    - `NoUseAfterFree`, which includes that no message points to a deleted
      socket, even after a later read closed it;
    - `DeletedOnlyWhenClosed`;
    - `TableHoldsOpenSockets`;
    - the liveness `ClosedEventuallyFreed`.
  - **tcp_orphan_socket** (violation): two senders to one peer.
    1. The first sender creates a socket, and its connect fails at once.
    2. The second sender takes the same socket from the table.
    3. The first sender's `remove_connection` unlinks it.
    4. The second sender connects it and queues its message.
    5. The second sender's `dec_ref` deletes it with `sd` open, and the
       message is never reported.

    TLC finds this in 7 steps. The same happens with one sender when an
    accepted connection has the sender's conn id (`Collide = TRUE`, for
    example with static client ports): `add_connection` drops the outbound
    socket's table reference. Its hazard records this.
  - **tcp_double_close** (violation): descriptor numbers are modelled in
    `fdOwner`, and socket() and accept() hand out the lowest free number, as
    the kernel does. The bug takes 5 steps:
    1. When `setsockopt` or `bind` fails, `connect()` closes `sd` but leaves
       the number in it (`BindFail`).
    2. The accepting thread gets the same number for a new connection.
    3. `check_connection`'s second `::close(sd)` (`CheckConnClose`) closes
       the accepted socket's descriptor.

    This violates `FdOwned`. The pass run includes the bind failure and
    checks the other properties with it.
- **Bounds and fairness.** Three sockets are enough for a failed connection, a
  reconnection and an accepted one. The pass run has one sender because every
  setting with two senders to one peer, or with a colliding accept, is the
  finding. Threads inside `send` run on, and a started callback runs to its
  end. The transaction layer deletes every message it received, at the end of
  `received_msg` or when the transaction that keeps it ends, so `FreeMsg` is
  weakly fair. Starting a send, the network raising an event and peers
  connecting are not fair. Two messages are enough for one to outlive the
  close of its socket while another is still held.

## Module SipDialog: the transactions of a SIP dialog

- **State.**
  - `uasTrans` and `uacTrans` are `uas_trans` and `uac_trans`. They map a
    CSeq to the method of the request filed under it.
  - `rCSeq`, `rCSeqI`, `cseq`, `callid` and `remoteTag` are the fields of the
    same names. The local `cseq` starts at 1 rather than the constructor's 10.
  - History variables:
    - `appReqs`: requests handed to the session and not yet finally answered;
    - `finalSent`: final replies sent per CSeq;
    - `sent`: requests sent;
    - `rcvdFinal`: the final code each client transaction received.
  - `extLocal`: whether `ext_local_tag` is set. Each sent request records
    the From-tag it went out with (`FromTag`).
- **Actions.** Each is one method, with the calls it makes that change state:
  - `OnRxRequest`, with `onRxReqSanity` as the operator `RxReqSane`;
  - `Reply`, with `onReplyTxed`;
  - `TermUasTrans`;
  - `DropTransactions`, with `termUacTrans`;
  - `SendRequest`, with `onRequestTxed`;
  - `HandleSipReply`: `SipCtrlInterface::handle_sip_reply`, which converts
    the reply (`sip_msg2am_reply`, as `SentReq`) and calls `OnRxReply`.
    `OnRxReply` starts with `onRxReplySanity` (`RxReplySane`). A reply whose
    From-tag is not the dialog's current local tag throws and changes
    nothing. `sip_msg2am_reply` always returns true, so the branch of
    `handle_sip_reply` that hands on a 500 instead is dead and not modelled;
  - `InitFromLocalRequest`.
- **Environment.** The session layer (`AmSipDialog`) is not in the repository.
  - `onRxReqStatus` may accept a request or refuse it. A refused request stays
    in `uas_trans`.
  - The session answers each request it was given once, with any number of
    provisional replies first. A failed send makes the session give up.
  - The session ACKs a 2xx to INVITE (`SendAck`, through `onRequestTxed`).
  - The session may set `ext_local_tag` once (`SetExtLocalTag`; the setter
    is in `AmBasicSipDialog.h`). The model allows this only while no client
    transaction is open. Otherwise every reply to the open one fails
    `onRxReplySanity`, and `UacTransEventuallyFinished` fails. TLC shows
    this with the guard dropped; see the hazard at
    `AmBasicSipDialog.cpp:686`.
- **Network.**
  - Requests can come with any CSeq, method and From-tag, or with no
    From-tag. `onRxReqSanity` lets a tagless request through whatever
    `remote_tag` is. This covers duplicated, reordered and stale requests.
  - A client transaction gets one final reply, from the peer or the
    transaction layer's timeout. Provisional replies and retransmissions of
    the final reply can come at any time. Forked 2xx replies are left out.
- **Runs.**
  - **sip_dialog** (pass): `IgnoreNotifyLowerCSeq` is FALSE, with 3 remote
    CSeqs, 3 received requests, 2 sent requests and 2 tags plus none
    (901,486 distinct states, under 2 minutes). It checks:
    - `AppRequestsHaveTransaction`: every request the session holds still
      has its server transaction;
    - `AtMostOneFinalReply`: `termUasTrans` never answers a request a second
      time;
    - the liveness `UacTransEventuallyFinished`: every client transaction
      leaves `uac_trans`, a 2xx to INVITE through the ACK.
  - With `ignore_notify_lower_cseq`, a NOTIFY with the CSeq of a pending
    INVITE replaces it in `uas_trans`. An earlier run, `sip_notify_overwrite`,
    found this in 3 steps; it gave way to `dtls_timer` (hazard
    `AmBasicSipDialog.cpp:519`). A plausible mutant of the sanity check that
    uses `<` where the code has `<=` breaks the same property in the pass
    run.
- **Bounds and fairness.**
  - Three requests are enough for a request, a stale duplicate and a fresh
    one.
  - Two sent requests are enough for an INVITE whose 2xx waits for the ACK
    beside a non-INVITE.
  - Weak fairness is assumed on the final reply of each client transaction,
    because the transaction layer's timer B/F guarantees one. The ACK is
    weakly fair because `AmSipDialog` sends it when the 2xx arrives.

## Module DtlsTimer: the DTLS handshake timer and its references

- **Threads.**
  - The media thread owns the `AmDtlsConnection`. It feeds datagrams to the
    channel, sends, re-initialises and destroys the connection.
  - The wheel-timer thread calls `DtlsTimer::fire`.
  - Nothing locks the connection against the wheel thread.
- **State.**
  - `conn`: whether the connection object is alive or destroyed.
  - `channel`: `dtls_channel != 0`. The Botan channel is otherwise left out.
  - `activated` and `pending` (`pending_handshake_timer`).
  - `tm[t]` for each timer: its reference count, `is_valid`, whether it is in
    the wheel, and whether it has been freed.
  - `firing`: the timer whose `fire()` is between its `is_valid` check and
    `conn->timer_check()`.
  - History: `handshaked` (the current channel completed its handshake),
    `connUaf` and `nullChan`.
  - `atomic_ref_cnt` and the wheel timer are not in the repository.
    `dec_ref` is taken to free the object at zero (`DecRef`).
- **Actions.**
  - `InitConnection(ok)`: `initConnection`, which releases the old timer.
    With `ok` false the Botan constructor throws and `dtls_channel` is left 0.
  - `HandleConnection`, with `TlsSessionActivated`.
  - `Send`: only its state-changing case, `send` on a null channel.
  - `Destroy`: the destructor.
  - `Expire(t)`: the wheel takes `t` out and `fire()` checks `is_valid`.
  - `FireCall`: `timer_check`, then `reset` or `dec_ref`. On a destroyed
    connection the call reads freed memory, and its answer is either.
- **Run dtls_timer** (pass, `MaxInits` = 3, 443 distinct states). It checks:
  - `RefCountExact`: each timer's count equals its holders (the connection
    while it points to it, the wheel while it is inserted or firing). A timer
    is freed exactly when none is left. This holds across re-initialisations,
    failed ones and the destructor racing `fire()`.
  - the liveness `TimersReclaimed`: once the connection is destroyed, every
    timer it created is freed.
- **Fairness.** The wheel thread is weakly fair: it fires every expired
  timer. The media thread is not.
- **Hazards without a run.** The run list is full. TLC finds each of these
  with a scratch invariant; they are listed in PROJECT.json:
  - the destructor between `fire()`'s `is_valid` check and `timer_check`
    (3 steps);
  - `activated` not reset by a re-initialisation, which stops the new
    handshake's retransmissions (4 steps);
  - a failed re-initialisation leaving `dtls_channel` 0 for
    `handleConnection` (2 steps).

## Module AmArg: the variant value

`AmArg` is single-threaded. Its hazards are ownership ones: the value owns
the `ValueArray` or `ValueStruct` it points to, and shares a reference-counted
`ValueRef`.

- **State.**
  - `arg[v]`: the type of each of a few variables, with its int value, or the
    number of its object or `ValueRef`.
  - `heap[o]`: each allocated object, whether it is live, its elements and
    its members. A deleted object keeps its contents, so that a read of
    freed memory is recorded in the history variable `uaf`.
  - `refs[r]`: each `ValueRef`'s count and whether it was deleted.
  - `exc`: the exception the last call threw.
- **Actions.** Each action is one member function, written as an operator
  from a state record to the next, so that the code's call chain reads in
  order: `operator=` is `AssignVal` (`Invalidate`, then `Copy`).
  - Assignment and lifetime: `Assign` (`v = w`), `MakeInt`, `MakeRef`
    (`AmArg(obj, true)` and the temporary's destructor) and `Clear`.
  - Arrays: `Push`, `Pop`, `PopBack`, `Erase`, `Concat` and `IndexSet`
    (`operator[](int)` via `assertArray(n)`).
  - Structs: `PushKey` (`push(key, val)`, also `v[key] = val`),
    `ConstIndexKey` and `EraseKey`.
- **What stays as the code does it.**
  - A call that throws keeps what it changed before the throw. For example,
    `erase(i)` on an Undef value leaves an empty array behind.
  - The const `operator[](key)` throws on Undef, and it inserts a missing
    member although the value is const.
  - `pop_back` removes the element with `erase(end())`. That is undefined
    behaviour: libstdc++ removes the last element, and a `_GLIBCXX_DEBUG`
    build aborts. `PopBack` takes either outcome.
- **Run amarg** (pass, 155,484 distinct states, about 20 s). The bounds are
  two variables `a` and `b`, one int, one key, arrays of at most 2 elements,
  3 objects and 1 `ValueRef`. That is enough to copy every kind of value
  into the other variable and to grow an array past its length. Deadlock is
  not checked, because an abort ends the program and the allocation bounds
  run out. It checks:
  - `OwnershipExact`: every live object has exactly one owner, and a deleted
    one has none;
  - `RefCountExact`: each `ValueRef` count equals the values that hold it,
    and the `ValueRef` is deleted exactly at zero;
  - `NoUseAfterFree`.

  Each property has a mutant:
  - a shallow copy;
  - a copy without `inc_ref`;
  - `operator=` without its `this != &v` check;
  - `assertArray(n)` resizing one element too far.
- **Left out of the run.** An element is never assigned to its own
  container (`a = a[0]`): `operator=` would read it from the array its
  `invalidate()` just deleted. Added to `Next`, TLC finds this in 3 states;
  the hazard `AmArg.cpp:83` records it. `concat(a)` on `a` itself never
  terminates, because the loop reads the growing size, so `Concat` takes two
  distinct variables.
- **Failed copies are not modelled.** An allocation in `operator=` does not
  fail in the model. The code has already freed the old object and set
  `type` when `new ValueArray`/`new ValueStruct` runs (line 97). If that copy
  throws, the value points at freed memory, and the next `invalidate()`
  deletes it again. With a throwing copy added to `Next`, TLC finds
  `NoUseAfterFree` violated in 6 states. The hazard `AmArg.cpp:97` records
  it.

## Not modelled yet, and the plan

Next steps for the PG worker:
- `onSock` epoll failures;
- the `connected` gauge, with the hazards listed in PROJECT.json;
- a statement-order property for chain splits.

Two liveness runs did not finish within 15 minutes:
- "every tracked submission eventually gets an outcome", under `DbAnswersInTime`;
- "every failed connection is eventually reconnected", even with one
  submission.

The safety invariant `PendingWorkScheduled` states what the second needs,
namely a queued reset and an armed timer. It is checked instead.

The double reply after a timeout, with retry and failover off (hazard
`ConnectionPool.cpp:605`), was found by an earlier run, `timeout_double_outcome`:
`PGTimeout` is posted while the query stays active, and its late result is
posted too. That run gave way to `reconfigure_drops_reset`. core_safety still
checks `AtMostOneOutcome` with retry and failover on.

Parts of `AmArg` are not modelled. They change no ownership and make no
calls that could race, so no ownership or memory property involves them:
- the scalar types CStr, Blob, Bool and Double;
- nested containers;
- the conversions (`print`, `*_to_*`) and the format checks (`assertArrayFmt`).

Two of them are defects a unit test would show directly:
- `print` of a Blob falls through to the Array case and throws;
- `operator==` compares arrays and structs by pointer, so a copy is never
  equal to its original.

The vector constructors (`AmArg.cpp` 136–164) are not modelled either. They
set `type(Array)` and then call `assertArray(0)`, which reads the
uninitialised `v_array`; `push` then writes through it. What that does
depends on stack contents, not on any sequence of calls, so a model of call
sequences has nothing to add to it.

Further plans:
- the dialog status machine and the routing data of `AmBasicSipDialog`, and
  the rest of `SipCtrlInterface`. The latter is mostly start-up and
  conversion between `AmSipRequest` and the parser's `sip_msg`;
- TLS in the transport (`tls_trsp_socket`, whose implementation is not in the
  repository);
- an abstract transaction lifecycle that PGWorker refines.

The run list is at its limit of twelve. These runs took the places of
earlier ones:
- The SIP dialog runs replaced `split_double_outcome` and
  `registrar_flush_leak`.
- The transport's double-close run replaced `failover_silent_loss`.
- `dtls_timer` replaced `sip_notify_overwrite`.
- `amarg` replaced `no_slave_fallback`.

The hazard list keeps every defect those runs found.

Every run, mutant, hazard and finding is listed in PROJECT.json.
