---------------------------- MODULE TcpTransport ----------------------------
(* The SIP TCP transport of src/core/sip/tcp_base_trsp.cpp: one           *)
(* trsp_worker, its table connections (conn id -> list of tcp_base_trsp),  *)
(* and the sockets it owns.  Three kinds of thread touch a socket:         *)
(*   - SIP threads call trsp_worker::send: a lookup under connections_mut, *)
(*     then sock->send outside it, then the cleanup;                       *)
(*   - the accepting thread calls create_connected / add_connection;       *)
(*   - the worker thread runs the libevent callbacks on_read / on_write.   *)
(* A socket is an atomic_ref_cnt: the table holds one reference per entry, *)
(* send holds one while it uses the socket, and dec_ref deletes the socket *)
(* when the count reaches 0.  The worker's callbacks hold no reference;   *)
(* every sip_msg parse_input passes to the transaction layer holds one     *)
(* until the transaction layer deletes the message.                        *)
(* The model has plain TCP only (no ssl marker), where the list of a conn  *)
(* id has at most one entry and trsp_compare matches every socket.         *)
EXTENDS Naturals, FiniteSets

CONSTANTS Senders,     \* SIP threads calling trsp_worker::send to one peer
          MaxSends,    \* bound on send calls per thread
          MaxSocks,    \* bound on sockets created
          MaxAccepts,  \* bound on accepted connections
          Collide,     \* an accepted connection has the conn id (peer ip:port)
                       \* that send uses, as with static client ports
          BindFail,    \* connect()'s setsockopt or bind may fail
          MaxMsgs      \* bound on SIP messages parsed from the sockets

Socks == 1..MaxSocks
NoSock == 0
ConnIds == {"out", "in"}   \* the peer send targets, another peer
Fds == 1..MaxSocks         \* descriptor numbers; 0 stands for sd = -1

VARIABLES conns,     \* conn id -> the socket of its list, or NoSock
          sock,      \* socket -> its state
          created,   \* sockets created so far
          accepted,  \* connections accepted so far
          snd,       \* sender -> where it is in trsp_worker::send
          wcb,       \* the callback the worker thread is running
          fdOwner,   \* descriptor -> the socket it was opened for, or NoSock
          msgs,      \* socket -> received sip_msgs whose local_socket it is
          rcvd       \* messages parsed so far

vars == <<conns, sock, created, accepted, snd, wcb, fdOwner, msgs, rcvd>>

NoCb == [s |-> NoSock, ev |-> "none"]

Init == /\ conns = [c \in ConnIds |-> NoSock]
        /\ sock = [s \in Socks |-> [st |-> "unborn", cid |-> "out", ref |-> 0,
                                    sd |-> 0, connected |-> FALSE, closed |-> FALSE,
                                    q |-> 0, rev |-> FALSE, wev |-> FALSE]]
        /\ created = 0
        /\ accepted = 0
        /\ snd = [t \in Senders |-> [pc |-> "idle", s |-> NoSock, new |-> FALSE,
                                     ret |-> "ok", n |-> 0]]
        /\ wcb = NoCb
        /\ fdOwner = [f \in Fds |-> NoSock]
        /\ msgs = [s \in Socks |-> 0]
        /\ rcvd = 0

Live(s) == sock[s].st = "live"

\* socket(), accept(): the kernel gives the lowest free descriptor number
FreeFds == {f \in Fds : fdOwner[f] = NoSock}
LowestFree == CHOOSE f \in FreeFds : \A g \in FreeFds : f <= g

\* ::close(sd): the number is free again, whoever opened it
CloseFd(sd) == IF sd # 0 THEN [fdOwner EXCEPT ![sd] = NoSock] ELSE fdOwner

\* dec_ref: the last reference deletes the socket; ~tcp_base_trsp frees its
\* events but neither closes sd nor reports the messages left in send_q
DecRef(sk, s) ==
    LET r == sk[s] IN
    [sk EXCEPT ![s] = [r EXCEPT !.ref = r.ref - 1,
                                !.st = IF r.ref = 1 THEN "deleted" ELSE r.st,
                                !.rev = r.rev /\ r.ref # 1,
                                !.wev = r.wev /\ r.ref # 1]]

\* remove_connection(s): the first entry of s's conn id that trsp_compare
\* matches, whichever socket it is, loses the table's reference
RemoveConnection(sk, s) ==
    LET e == conns[sk[s].cid] IN IF e # NoSock THEN DecRef(sk, e) ELSE sk
RemovedConns(s) == [conns EXCEPT ![sock[s].cid] = NoSock]

\* close(): inc_ref, remove_connection, closed, both events deleted, sd
\* closed, generate_transport_errors drains send_q, dec_ref
CloseSock(s) ==
    LET sk1 == [sock EXCEPT ![s].ref = @ + 1]
        sk2 == RemoveConnection(sk1, s)
        sk3 == [sk2 EXCEPT ![s] = [@ EXCEPT !.closed = TRUE, !.rev = FALSE,
                                   !.wev = FALSE, !.sd = 0, !.q = 0]]
    IN DecRef(sk3, s)

\* mutant: close() without the inc_ref that keeps the socket alive
CloseNoIncRef(s) ==
    /\ sock' = DecRef([RemoveConnection(sock, s) EXCEPT ![s] = [@ EXCEPT !.closed = TRUE,
                        !.rev = FALSE, !.wev = FALSE, !.sd = 0, !.q = 0]], s)
    /\ conns' = RemovedConns(s)
    /\ fdOwner' = CloseFd(sock[s].sd)

\* mutant: generate_transport_errors leaves send_q alone
CloseNoDrain(s) ==
    /\ sock' = [CloseSock(s) EXCEPT ![s].q = sock[s].q]
    /\ conns' = RemovedConns(s)
    /\ fdOwner' = CloseFd(sock[s].sd)

\* mutant: close() without remove_connection
CloseKeepEntry(s) ==
    /\ sock' = DecRef([sock EXCEPT ![s] = [@ EXCEPT !.closed = TRUE, !.rev = FALSE,
                                           !.wev = FALSE, !.sd = 0, !.q = 0]], s)
    /\ conns' = conns
    /\ fdOwner' = CloseFd(sock[s].sd)

Close(s) == /\ sock' = CloseSock(s)
            /\ conns' = RemovedConns(s)
            /\ fdOwner' = CloseFd(sock[s].sd)

-----------------------------------------------------------------------------
(* trsp_worker::send                                                       *)

\* mutant: a new connection gets the table's reference only
SendLookupNewOneRef(t) ==
    /\ snd[t].pc = "idle"
    /\ snd[t].n < MaxSends
    /\ LET e == conns["out"] IN
       IF e # NoSock
       THEN /\ sock' = [sock EXCEPT ![e].ref = @ + 1]
            /\ snd' = [snd EXCEPT ![t] = [pc |-> "send", s |-> e, new |-> FALSE,
                                          ret |-> "ok", n |-> @.n + 1]]
            /\ UNCHANGED <<conns, created>>
       ELSE /\ created < MaxSocks
            /\ LET n == created + 1 IN
               /\ sock' = [sock EXCEPT ![n] = [@ EXCEPT !.st = "live", !.cid = "out", !.ref = 1]]
               /\ conns' = [conns EXCEPT !["out"] = n]
               /\ created' = n
               /\ snd' = [snd EXCEPT ![t] = [pc |-> "send", s |-> n, new |-> TRUE,
                                             ret |-> "ok", n |-> @.n + 1]]
    /\ UNCHANGED <<accepted, wcb, fdOwner, msgs, rcvd>>

\* trsp_worker::new_connection: the factory's socket n without a descriptor
\* (sd = -1), appended to the destination's list with inc_ref
NewConnection(n) ==
    [sock EXCEPT ![n] = [@ EXCEPT !.st = "live", !.cid = "out", !.ref = 1]]

\* under connections_mut: take the socket of the destination, or create one
\* with new_connection, and inc_ref it for send
SendLookup(t) ==
    /\ snd[t].pc = "idle"
    /\ snd[t].n < MaxSends
    /\ LET e == conns["out"] IN
       IF e # NoSock
       THEN /\ sock' = [sock EXCEPT ![e].ref = @ + 1]
            /\ snd' = [snd EXCEPT ![t] = [pc |-> "send", s |-> e, new |-> FALSE,
                                          ret |-> "ok", n |-> @.n + 1]]
            /\ UNCHANGED <<conns, created>>
       ELSE /\ created < MaxSocks
            /\ LET n == created + 1 IN
               /\ sock' = [NewConnection(n) EXCEPT ![n].ref = @ + 1]
               /\ conns' = [conns EXCEPT !["out"] = n]
               /\ created' = n
               /\ snd' = [snd EXCEPT ![t] = [pc |-> "send", s |-> n, new |-> TRUE,
                                             ret |-> "ok", n |-> @.n + 1]]
    /\ UNCHANGED <<accepted, wcb, fdOwner, msgs, rcvd>>

\* sock->send under sock_mut (the socket class's send is not in the
\* repository): a closed socket refuses; otherwise check_connection
\* connects a socket without sd.  connect() opens the lowest free
\* descriptor; the connect succeeds at once, is in progress (write event
\* armed for the connect timeout) or fails (check_connection closes sd
\* and refuses).  When setsockopt or bind fails, connect() closes sd but
\* leaves it set, and check_connection closes it a second time
\* (CheckConnClose).  The message joins send_q and a connected socket arms
\* its write event.
SendDo(t) ==
    /\ snd[t].pc = "send"
    /\ LET s == snd[t].s
           r == sock[s]
           Refuse == /\ snd' = [snd EXCEPT ![t].pc = "finish", ![t].ret = "err"]
                     /\ UNCHANGED <<sock, fdOwner>>
           Queue(c, sd) ==
               LET conn == r.connected \/ c = "now" IN
               /\ sock' = [sock EXCEPT ![s] = [r EXCEPT !.sd = sd, !.connected = conn,
                                               !.rev = r.rev \/ c = "now",
                                               !.wev = r.wev \/ conn \/ c = "progress",
                                               !.q = r.q + 1]]
               /\ fdOwner' = [fdOwner EXCEPT ![sd] = s]
               /\ snd' = [snd EXCEPT ![t].pc = "finish", ![t].ret = "ok"]
       IN /\ Live(s)
          /\ \/ r.closed /\ Refuse
             \/ ~r.closed /\ r.sd # 0 /\ Queue("up", r.sd)
             \/ ~r.closed /\ r.sd = 0 /\ Refuse
             \/ ~r.closed /\ r.sd = 0 /\ FreeFds # {}
                /\ \E c \in {"now", "progress"} : Queue(c, LowestFree)
             \/ ~r.closed /\ r.sd = 0 /\ FreeFds # {} /\ BindFail
                /\ sock' = [sock EXCEPT ![s].sd = LowestFree]
                /\ snd' = [snd EXCEPT ![t].pc = "connclose"]
                /\ UNCHANGED fdOwner
    /\ UNCHANGED <<conns, created, accepted, wcb, msgs, rcvd>>

\* check_connection after connect() failed with an error other than
\* EINPROGRESS: ::close(sd) and sd = -1, then send returns the error
CheckConnClose(t) ==
    /\ snd[t].pc = "connclose"
    /\ LET s == snd[t].s IN
       /\ fdOwner' = CloseFd(sock[s].sd)
       /\ sock' = [sock EXCEPT ![s].sd = 0]
    /\ snd' = [snd EXCEPT ![t].pc = "finish", ![t].ret = "err"]
    /\ UNCHANGED <<conns, created, accepted, wcb, msgs, rcvd>>

\* mutant: the error path returns without dec_ref
SendFinishKeepRefOnError(t) ==
    /\ snd[t].pc = "finish"
    /\ LET s == snd[t].s
           drop == snd[t].ret = "err" /\ snd[t].new
           sk == IF drop THEN RemoveConnection(sock, s) ELSE sock IN
       /\ sock' = IF snd[t].ret = "err" THEN sk ELSE DecRef(sk, s)
       /\ conns' = IF drop THEN RemovedConns(s) ELSE conns
    /\ snd' = [snd EXCEPT ![t] = [@ EXCEPT !.pc = "idle", !.s = NoSock, !.new = FALSE]]
    /\ UNCHANGED <<created, accepted, wcb, fdOwner, msgs, rcvd>>

\* after sock->send: a new connection whose send failed is removed from
\* the table, then send's own reference is dropped
SendFinish(t) ==
    /\ snd[t].pc = "finish"
    /\ LET s == snd[t].s
           drop == snd[t].ret = "err" /\ snd[t].new IN
       /\ sock' = DecRef(IF drop THEN RemoveConnection(sock, s) ELSE sock, s)
       /\ conns' = IF drop THEN RemovedConns(s) ELSE conns
    /\ snd' = [snd EXCEPT ![t] = [@ EXCEPT !.pc = "idle", !.s = NoSock, !.new = FALSE]]
    /\ UNCHANGED <<created, accepted, wcb, fdOwner, msgs, rcvd>>

-----------------------------------------------------------------------------
(* The accepting thread                                                    *)

\* trsp_socket_factory::create_connected: socket n for the accepted
\* descriptor, connected, with its read event added
CreateConnected(n, c, sd) ==
    [sock EXCEPT ![n] = [@ EXCEPT !.st = "live", !.cid = c, !.sd = sd,
                                  !.connected = TRUE, !.rev = TRUE]]

\* add_connection: the new socket replaces the entry trsp_compare finds for
\* its conn id (dec_ref on the old one) or is appended, and takes a
\* reference for the table
AddConnection(sk, n) ==
    LET c == sk[n].cid
        old == conns[c]
        sk1 == IF old # NoSock THEN DecRef(sk, old) ELSE sk
    IN /\ sock' = [sk1 EXCEPT ![n].ref = @ + 1]
       /\ conns' = [conns EXCEPT ![c] = n]

\* on_accept: accept() gives the lowest free descriptor; when it fails, or
\* FIONBIO fails and the descriptor is closed again, nothing changes.
\* Otherwise trsp_worker::create_connected runs the factory's
\* create_connected and add_connection.
Accept ==
    /\ accepted < MaxAccepts
    /\ created < MaxSocks
    /\ FreeFds # {}
    /\ LET n == created + 1 IN
       /\ AddConnection(CreateConnected(n, IF Collide THEN "out" ELSE "in", LowestFree), n)
       /\ created' = n
       /\ fdOwner' = [fdOwner EXCEPT ![LowestFree] = n]
    /\ accepted' = accepted + 1
    /\ UNCHANGED <<snd, wcb, msgs, rcvd>>

-----------------------------------------------------------------------------
(* The worker thread: event_base_dispatch runs one callback at a time      *)

\* libevent picks an active event of a socket: the persistent read event,
\* or the one-shot write event (which leaves the pending set)
Dispatch(s) ==
    /\ wcb = NoCb
    /\ Live(s)
    /\ \E ev \in {e \in {"read", "write"} : IF e = "read" THEN sock[s].rev ELSE sock[s].wev} :
         /\ wcb' = [s |-> s, ev |-> ev]
         /\ sock' = IF ev = "write" THEN [sock EXCEPT ![s].wev = FALSE] ELSE sock
    /\ UNCHANGED <<conns, created, accepted, snd, fdOwner, msgs, rcvd>>

\* mutant: the parsed message points to the socket without inc_ref
ParseInputNoRef(s) ==
    /\ rcvd < MaxMsgs
    /\ msgs' = [msgs EXCEPT ![s] = @ + 1]
    /\ rcvd' = rcvd + 1
    /\ UNCHANGED sock

\* parse_input: a complete message in the input buffer becomes a sip_msg
\* whose local_socket is this socket, with inc_ref, and is handed to the
\* transaction layer (trans_layer is not in the repository)
ParseInput(s) ==
    /\ rcvd < MaxMsgs
    /\ msgs' = [msgs EXCEPT ![s] = @ + 1]
    /\ rcvd' = rcvd + 1
    /\ sock' = [sock EXCEPT ![s].ref = @ + 1]

\* on_read, with no reference of its own: an idle timeout, a read error,
\* EOF, or parse_input's error (a parse error or a message too big for the
\* buffer) closes; EAGAIN or an incomplete message leaves the socket as it
\* is; a complete message goes through parse_input.  A read holding a
\* message and then more is this step followed by the next read's.
OnRead(res) ==
    /\ wcb.ev = "read"
    /\ Live(wcb.s)
    /\ \/ res = "again" /\ UNCHANGED <<conns, sock, fdOwner, msgs, rcvd>>
       \/ res = "close" /\ Close(wcb.s) /\ UNCHANGED <<msgs, rcvd>>
       \/ res = "msg" /\ ParseInput(wcb.s) /\ UNCHANGED <<conns, fdOwner>>
    /\ wcb' = NoCb
    /\ UNCHANGED <<created, accepted, snd>>

\* on_write of an unconnected socket: on_connect fails (connect timeout,
\* getsockopt or SO_ERROR) and closes
OnConnectFail ==
    /\ wcb.ev = "write"
    /\ Live(wcb.s)
    /\ ~sock[wcb.s].connected
    /\ Close(wcb.s)
    /\ wcb' = NoCb
    /\ UNCHANGED <<created, accepted, snd, msgs, rcvd>>

\* on_write: on_connect succeeds if needed (connected, read event added),
\* then the send_q loop writes everything, or blocks or writes part of a
\* message (write event re-added), or fails and closes
OnWrite(res) ==
    /\ wcb.ev = "write"
    /\ Live(wcb.s)
    /\ res # "all" => sock[wcb.s].q > 0
    /\ LET s == wcb.s
           up == [sock EXCEPT ![s].connected = TRUE, ![s].rev = TRUE]
       IN CASE res = "all"   -> /\ sock' = [up EXCEPT ![s].q = 0]
                                /\ UNCHANGED <<conns, fdOwner>>
            [] res = "block" -> /\ sock' = [up EXCEPT ![s].wev = TRUE]
                                /\ UNCHANGED <<conns, fdOwner>>
            [] res = "error" -> /\ sock' = [CloseSock(s) EXCEPT ![s].connected = TRUE]
                                /\ conns' = RemovedConns(s)
                                /\ fdOwner' = CloseFd(sock[s].sd)
    /\ wcb' = NoCb
    /\ UNCHANGED <<created, accepted, snd, msgs, rcvd>>

\* the transaction layer deletes a received message (~sip_msg is not in the
\* repository): dec_ref of its local_socket, on a SIP thread
FreeMsg(s) ==
    /\ msgs[s] > 0
    /\ msgs' = [msgs EXCEPT ![s] = @ - 1]
    /\ sock' = DecRef(sock, s)
    /\ UNCHANGED <<conns, created, accepted, snd, wcb, fdOwner, rcvd>>

ReadResults == {"again", "close", "msg"}

Next ==
    \/ \E t \in Senders : SendLookup(t) \/ SendDo(t) \/ CheckConnClose(t)
                          \/ SendFinish(t)
    \/ Accept
    \/ \E s \in Socks : Dispatch(s)
    \/ \E res \in ReadResults : OnRead(res)
    \/ OnConnectFail
    \/ \E s \in Socks : FreeMsg(s)
    \/ \E res \in {"all", "block", "error"} : OnWrite(res)

(* A thread inside trsp_worker::send runs on to its return, a callback    *)
(* the worker has started runs to its end, and the transaction layer      *)
(* deletes every message it received (at the end of received_msg, or when *)
(* the transaction holding it ends).  Senders starting a send, the peer  *)
(* connecting and the network raising an event are not fair.              *)
Fairness ==
    /\ \A t \in Senders : WF_vars(SendDo(t)) /\ WF_vars(CheckConnClose(t))
                         /\ WF_vars(SendFinish(t))
    /\ WF_vars(\E res \in ReadResults : OnRead(res))
    /\ WF_vars(\E s \in Socks : FreeMsg(s))
    /\ WF_vars(OnConnectFail \/ \E res \in {"all", "block", "error"} : OnWrite(res))

Spec == Init /\ [][Next]_vars /\ Fairness

-----------------------------------------------------------------------------
(* Properties                                                              *)

Holders(s) == {t \in Senders : snd[t].pc # "idle" /\ snd[t].s = s}
Entries(s) == {c \in ConnIds : conns[c] = s}

(* The reference count of every socket created equals the table entries  *)
(* naming it, plus the send calls holding it, plus the received messages   *)
(* whose local_socket it is, so a deleted socket (count 0) is named by no  *)
(* entry, held by no sender and pointed to by no message.  It is kept by   *)
(* the inc_ref and dec_ref pairs of new_connection, send, add_connection,  *)
(* remove_connection, close, parse_input and the message's deletion across *)
(* every interleaving of the threads.                                      *)
RefCountExact ==
    \A s \in 1..created :
        sock[s].ref = Cardinality(Entries(s)) + Cardinality(Holders(s)) + msgs[s]

(* Nothing touches a deleted socket: neither a sender between lookup and  *)
(* its dec_ref, nor a libevent callback the worker thread had started,     *)
(* nor a received message whose local_socket the transaction layer may     *)
(* still use after a later read closed the socket.                         *)
NoUseAfterFree ==
    /\ wcb # NoCb => Live(wcb.s)
    /\ \A t \in Senders : snd[t].pc # "idle" => Live(snd[t].s)
    /\ \A s \in Socks : msgs[s] > 0 => sock[s].st # "deleted"

(* A socket is deleted only after close(): its sd is closed and every      *)
(* message left in send_q went to transport_error, so the last dec_ref     *)
(* leaks no descriptor and drops no message silently.                      *)
DeletedOnlyWhenClosed ==
    \A s \in Socks : sock[s].st = "deleted" => sock[s].sd = 0 /\ sock[s].q = 0

(* The table offers send only live, open sockets: close() and a failed     *)
(* new connection take their own entry out.                                *)
TableHoldsOpenSockets ==
    \A c \in ConnIds : conns[c] # NoSock => Live(conns[c]) /\ ~sock[conns[c]].closed

(* A closed socket is eventually deleted: the table's and every sender's   *)
(* references are given back.                                              *)
ClosedEventuallyFreed ==
    \A s \in Socks : sock[s].closed ~> sock[s].st = "deleted"

(* The descriptor a live socket holds in sd is one it opened and has not  *)
(* closed, except for the socket whose connect() just failed, whose sd is  *)
(* closed and about to be reset: no close() of one thread, in connect(),   *)
(* check_connection or close(), closes the descriptor another socket uses. *)
FdOwned ==
    \A s \in Socks :
        /\ Live(s) /\ sock[s].sd # 0
        /\ ~\E t \in Senders : snd[t].pc = "connclose" /\ snd[t].s = s
        => fdOwner[sock[s].sd] = s

==============================================================================
