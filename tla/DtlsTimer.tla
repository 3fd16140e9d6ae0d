------------------------------ MODULE DtlsTimer ------------------------------
(* The DTLS handshake retransmission timer of AmDtlsConnection             *)
(* (src/core/AmDtlsConnection.cpp).  initConnection creates a DtlsTimer,   *)
(* which takes one reference for the wheel timer and is inserted into it;  *)
(* the connection takes a second one as pending_handshake_timer.  The      *)
(* wheel thread calls fire(): an invalidated timer drops the wheel's       *)
(* reference, a valid one asks conn->timer_check() and is re-inserted      *)
(* while the handshake is not activated.  The media thread feeds the       *)
(* channel, sends, re-initialises and destroys the connection; nothing     *)
(* locks the connection against the wheel thread.  The Botan channel is    *)
(* reduced to whether it exists and whether its handshake has completed;   *)
(* atomic_ref_cnt and the wheel timer are not in the repository (dec_ref   *)
(* frees the object when the count drops to zero).                         *)
EXTENDS Naturals

CONSTANTS MaxInits   \* bound on initConnection calls (timers created)

Timers == 1..MaxInits
NoTimer == 0

VARIABLES conn,        \* "alive" or "destroyed": the AmDtlsConnection object
          channel,     \* dtls_channel # 0
          activated,   \* activated
          handshaked,  \* the current channel's handshake has completed
          pending,     \* pending_handshake_timer, or NoTimer for nullptr
          tm,          \* timer -> [ref, valid (is_valid), wheel (inserted), freed]
          inits,       \* timers created so far
          firing,      \* the timer whose fire() passed its is_valid check
          connUaf,     \* timer_check ran on a destroyed connection
          nullChan     \* dtls_channel was used while 0

vars == <<conn, channel, activated, handshaked, pending, tm, inits, firing,
          connUaf, nullChan>>

Unborn == [ref |-> 0, valid |-> FALSE, wheel |-> FALSE, freed |-> FALSE]

\* dec_ref: the last reference frees the timer
DecRef(t, ts) ==
    [ts EXCEPT ![t] = [@ EXCEPT !.ref = @ - 1, !.freed = (ts[t].ref = 1)]]

\* invalidate() then dec_ref: the connection lets its timer go
Release(t, ts) == DecRef(t, [ts EXCEPT ![t].valid = FALSE])

\* mutant: initConnection without its inc_ref of the new timer
NewTimerNoRef == [ref |-> 1, valid |-> TRUE, wheel |-> TRUE, freed |-> FALSE]

\* mutant: the timer takes a second reference of its own
NewTimerExtraRef == [ref |-> 3, valid |-> TRUE, wheel |-> TRUE, freed |-> FALSE]

\* reset(): the timer goes back into the wheel
Reset(t, ts) == [ts EXCEPT ![t].wheel = TRUE]

\* new DtlsTimer: inc_ref and reset() (inserted into the wheel), and
\* initConnection's own inc_ref
NewTimer == [ref |-> 2, valid |-> TRUE, wheel |-> TRUE, freed |-> FALSE]

\* the constructor ran initConnection, which created timer 1
Init == /\ conn = "alive"
        /\ channel = TRUE
        /\ activated = FALSE
        /\ handshaked = FALSE
        /\ pending = 1
        /\ tm = [t \in Timers |-> IF t = 1 THEN NewTimer ELSE Unborn]
        /\ inits = 1
        /\ firing = NoTimer
        /\ connUaf = FALSE
        /\ nullChan = FALSE

-----------------------------------------------------------------------------
(* The media thread                                                        *)

\* initConnection on a live connection: an existing channel's timer is
\* invalidated and released and the channel deleted; a new channel and
\* timer follow, unless the Botan constructor throws, which leaves
\* dtls_channel = 0 and no timer.  activated is left as it was.
InitConnection(ok) ==
    /\ conn = "alive"
    /\ inits < MaxInits
    /\ LET ts == IF channel /\ pending # NoTimer THEN Release(pending, tm) ELSE tm
           k == inits + 1
       IN IF ok
          THEN /\ tm' = [ts EXCEPT ![k] = NewTimer]
               /\ pending' = k
               /\ inits' = k
               /\ channel' = TRUE
          ELSE /\ tm' = ts
               /\ pending' = NoTimer
               /\ inits' = inits
               /\ channel' = FALSE
    /\ handshaked' = FALSE
    /\ UNCHANGED <<conn, activated, firing, connUaf, nullChan>>

\* tls_session_activated: the SRTP keys go to the transport and activated
\* is set
TlsSessionActivated == /\ activated' = TRUE
                       /\ handshaked' = TRUE

\* handleConnection: the channel takes the datagram (dtls_channel is not
\* checked); completing the handshake calls tls_session_activated
HandleConnection(completes) ==
    /\ conn = "alive"
    /\ IF channel
       THEN /\ IF completes THEN TlsSessionActivated
                             ELSE UNCHANGED <<activated, handshaked>>
            /\ UNCHANGED nullChan
       ELSE /\ nullChan' = TRUE
            /\ UNCHANGED <<activated, handshaked>>
    /\ UNCHANGED <<conn, channel, pending, tm, inits, firing, connUaf>>

\* send: once activated, the packet goes to dtls_channel->send
Send ==
    /\ conn = "alive"
    /\ activated
    /\ ~channel
    /\ nullChan' = TRUE
    /\ UNCHANGED <<conn, channel, activated, handshaked, pending, tm, inits,
                   firing, connUaf>>

\* mutant: the destructor drops its reference without invalidate()
DestroyNoInvalidate ==
    /\ conn = "alive"
    /\ conn' = "destroyed"
    /\ tm' = IF pending # NoTimer THEN DecRef(pending, tm) ELSE tm
    /\ channel' = FALSE
    /\ UNCHANGED <<activated, handshaked, pending, inits, firing, connUaf,
                   nullChan>>

\* ~AmDtlsConnection: the pending timer is invalidated and released, the
\* channel deleted
Destroy ==
    /\ conn = "alive"
    /\ conn' = "destroyed"
    /\ tm' = IF pending # NoTimer THEN Release(pending, tm) ELSE tm
    /\ channel' = FALSE
    /\ UNCHANGED <<activated, handshaked, pending, inits, firing, connUaf,
                   nullChan>>

-----------------------------------------------------------------------------
(* The wheel timer thread                                                  *)

\* the wheel takes an expired timer out and calls fire(): an invalidated
\* timer drops the wheel's reference, a valid one goes on to timer_check
Expire(t) ==
    /\ firing = NoTimer
    /\ tm[t].wheel
    /\ IF tm[t].valid
       THEN /\ tm' = [tm EXCEPT ![t].wheel = FALSE]
            /\ firing' = t
       ELSE /\ tm' = DecRef(t, [tm EXCEPT ![t].wheel = FALSE])
            /\ UNCHANGED firing
    /\ UNCHANGED <<conn, channel, activated, handshaked, pending, inits,
                   connUaf, nullChan>>

\* fire() after its is_valid check: conn->timer_check() runs
\* timeout_check on the channel and returns true while not activated;
\* true re-inserts the timer (reset), false drops the wheel's reference.
\* On a destroyed connection the call reads freed memory and its answer
\* is either.
FireCall ==
    /\ firing # NoTimer
    /\ \E again \in BOOLEAN :
         /\ conn = "alive" => again = ~activated
         /\ tm' = IF again THEN Reset(firing, tm) ELSE DecRef(firing, tm)
    /\ connUaf' = (connUaf \/ conn = "destroyed")
    /\ nullChan' = (nullChan \/ (conn = "alive" /\ ~activated /\ ~channel))
    /\ firing' = NoTimer
    /\ UNCHANGED <<conn, channel, activated, handshaked, pending, inits>>

-----------------------------------------------------------------------------
Next ==
    \/ \E ok \in BOOLEAN : InitConnection(ok)
    \/ \E completes \in BOOLEAN : HandleConnection(completes)
    \/ Send
    \/ Destroy
    \/ \E t \in Timers : Expire(t)
    \/ FireCall

(* The wheel thread fires every expired timer. *)
Fairness == WF_vars(\E t \in Timers : Expire(t)) /\ WF_vars(FireCall)

Spec == Init /\ [][Next]_vars /\ Fairness

-----------------------------------------------------------------------------
TypeOK ==
    /\ conn \in {"alive", "destroyed"}
    /\ pending \in Timers \cup {NoTimer}
    /\ firing \in Timers \cup {NoTimer}
    /\ inits \in Timers
    /\ tm \in [Timers -> [ref : 0..2, valid : BOOLEAN, wheel : BOOLEAN,
                          freed : BOOLEAN]]

\* The holders of a timer's references: the connection while it points to
\* it, and the wheel while it is inserted or being fired.
Holders(t) ==
    (IF conn = "alive" /\ pending = t THEN 1 ELSE 0)
    + (IF tm[t].wheel \/ firing = t THEN 1 ELSE 0)

\* Each created timer's reference count equals its holders, and it is freed
\* exactly when none is left: initConnection's inc_ref, the constructor's,
\* fire()'s dec_ref and the releases in initConnection and the destructor
\* balance, whichever thread runs first.
RefCountExact ==
    \A t \in 1..inits : /\ tm[t].ref = Holders(t)
                        /\ tm[t].freed <=> tm[t].ref = 0

\* Once the connection is destroyed, every timer it created is eventually
\* freed: the wheel's reference goes when fire() finds it invalidated.
TimersReclaimed ==
    conn = "destroyed" ~> \A t \in 1..inits : tm[t].freed
=============================================================================
