------------------------------ MODULE SipDialog ------------------------------
(* The transaction bookkeeping of AmBasicSipDialog                         *)
(* (src/core/AmBasicSipDialog.cpp).  A dialog keeps the server             *)
(* transactions it received (uas_trans) and the client transactions it     *)
(* sent (uac_trans), both keyed by CSeq; the remote CSeq r_cseq guards     *)
(* against stale requests, and the local cseq numbers the requests it      *)
(* sends.  The session layer (AmSipDialog, the handler hdl) is not in the  *)
(* repository: the model lets it reply to the requests it was given, send  *)
(* requests, ACK a 2xx to INVITE and terminate the transactions.  The      *)
(* network may duplicate, reorder and drop requests, and requests may come *)
(* with any CSeq and From-tag; a client transaction gets one final         *)
(* response (the peer's or the transaction layer's 408), which may be      *)
(* retransmitted.  Replies reach the dialog through                        *)
(* SipCtrlInterface::handle_sip_reply.  Header contents, targets, routes   *)
(* and logging are left out.                                               *)
EXTENDS Naturals, FiniteSets

CONSTANTS Tags,                  \* From-tags requests may carry
          MaxCSeq,               \* remote CSeqs are 1..MaxCSeq
          MaxRx,                 \* bound on requests received
          MaxTx,                 \* bound on requests sent (local CSeqs)
          IgnoreNotifyLowerCSeq  \* AmConfig.ignore_notify_lower_cseq

RemoteCSeqs == 1..MaxCSeq
LocalCSeqs == 1..MaxTx
Methods == {"INVITE", "NOTIFY", "BYE"}
Codes == {180, 200, 408}   \* provisional, success, a failure (or timeout)
None == "none"
NoTag == "notag"
RxTags == Tags \cup {NoTag}  \* a request may come without a From-tag
LocalTags == {"local", "ext"}  \* local_tag, or ext_local_tag once set

VARIABLES callid,     \* callid is set (the dialog is initialised)
          remoteTag,  \* remote_tag
          rCSeq,      \* r_cseq
          rCSeqI,     \* r_cseq_i
          uasTrans,   \* uas_trans: remote CSeq -> method, or None
          cseq,       \* cseq: the CSeq of the next request sent
          uacTrans,   \* uac_trans: local CSeq -> method, or None
          sent,       \* the requests sent, as [cseq, method]
          rcvdFinal,  \* local CSeq -> the final code received, or 0
          appReqs,    \* requests given to the session, not yet answered
          finalSent,  \* remote CSeq -> final replies sent on it
          rx,         \* requests received so far
          dropped,    \* dropTransactions ran: the dialog is going away
          extLocal    \* ext_local_tag is set

vars == <<callid, remoteTag, rCSeq, rCSeqI, uasTrans, cseq, uacTrans, sent,
          rcvdFinal, appReqs, finalSent, rx, dropped, extLocal>>

Init == /\ callid = FALSE
        /\ remoteTag = NoTag
        /\ rCSeq = 0
        /\ rCSeqI = FALSE
        /\ uasTrans = [c \in RemoteCSeqs |-> None]
        /\ cseq = 1          \* the constructor's cseq(10), renumbered
        /\ uacTrans = [c \in LocalCSeqs |-> None]
        /\ sent = {}
        /\ rcvdFinal = [c \in LocalCSeqs |-> 0]
        /\ appReqs = {}
        /\ finalSent = [c \in RemoteCSeqs |-> 0]
        /\ rx = 0
        /\ dropped = FALSE
        /\ extLocal = FALSE

-----------------------------------------------------------------------------
(* Server side                                                             *)

\* mutant: a request with the CSeq of the last one passes
RxReqSaneLt(c, m, tag) ==
    /\ ~(remoteTag # NoTag /\ tag # NoTag /\ tag # remoteTag)
    /\ ~(rCSeqI /\ c < rCSeq /\ ~(m = "NOTIFY" /\ IgnoreNotifyLowerCSeq))

\* onRxReqSanity: a From-tag other than remote_tag gets 481 (a request
\* without a From-tag passes), a CSeq not above r_cseq gets 500 (a NOTIFY
\* passes when ignore_notify_lower_cseq)
RxReqSane(c, m, tag) ==
    /\ ~(remoteTag # NoTag /\ tag # NoTag /\ tag # remoteTag)
    /\ ~(rCSeqI /\ c <= rCSeq /\ ~(m = "NOTIFY" /\ IgnoreNotifyLowerCSeq))

\* initFromLocalRequest: a UAC dialog takes its callid and local tag from
\* the request it is about to send; remote_tag stays empty
InitFromLocalRequest ==
    /\ ~callid
    /\ callid' = TRUE
    /\ UNCHANGED <<remoteTag, rCSeq, rCSeqI, uasTrans, cseq, uacTrans, sent,
                   rcvdFinal, appReqs, finalSent, rx, dropped, extLocal>>

\* onRxRequest: a sane request sets r_cseq, enters uas_trans under its
\* CSeq and initialises an empty dialog (callid, remote_tag); it goes to
\* the session when onRxReqStatus (AmSipDialog's) accepts it, otherwise
\* hdl->onFailure runs and the transaction stays open.  An insane request
\* was answered statelessly by reply_error.
OnRxRequest(c, m, tag) ==
    /\ ~dropped
    /\ rx < MaxRx
    /\ rx' = rx + 1
    /\ IF RxReqSane(c, m, tag)
       THEN /\ rCSeq' = c
            /\ rCSeqI' = TRUE
            /\ uasTrans' = [uasTrans EXCEPT ![c] = m]
            /\ callid' = TRUE
            /\ remoteTag' = IF callid THEN remoteTag ELSE tag
            /\ \/ appReqs' = appReqs \cup {[cseq |-> c, method |-> m]}
               \/ appReqs' = appReqs
       ELSE UNCHANGED <<rCSeq, rCSeqI, uasTrans, callid, remoteTag, appReqs>>
    /\ UNCHANGED <<cseq, uacTrans, sent, rcvdFinal, finalSent, dropped, extLocal>>

\* mutant: a final reply leaves its transaction in uas_trans
OnReplyTxedKeep(c, final) ==
    /\ uasTrans' = uasTrans
    /\ finalSent' = IF final THEN [finalSent EXCEPT ![c] = @ + 1] ELSE finalSent

\* onReplyTxed: a final reply (not to CANCEL) ends the server transaction
OnReplyTxed(c, final) ==
    /\ uasTrans' = IF final THEN [uasTrans EXCEPT ![c] = None] ELSE uasTrans
    /\ finalSent' = IF final THEN [finalSent EXCEPT ![c] = @ + 1] ELSE finalSent

\* reply(req, code): the transaction is looked up by CSeq alone; without
\* one reply returns -1.  SipCtrlInterface::send may fail, and the session
\* does not retry a final reply.
Reply(r, final, ok) ==
    /\ ~dropped
    /\ r \in appReqs
    /\ IF uasTrans[r.cseq] = None \/ ~ok
       THEN /\ final
            /\ appReqs' = appReqs \ {r}
            /\ UNCHANGED <<uasTrans, finalSent>>
       ELSE /\ OnReplyTxed(r.cseq, final)
            /\ appReqs' = IF final THEN appReqs \ {r} ELSE appReqs
    /\ UNCHANGED <<callid, remoteTag, rCSeq, rCSeqI, cseq, uacTrans, sent,
                   rcvdFinal, rx, dropped, extLocal>>

\* termUasTrans: every open server transaction gets 481 (a send may fail)
\* and is erased
TermUasTrans ==
    /\ ~dropped
    /\ LET open == {c \in RemoteCSeqs : uasTrans[c] # None} IN
       /\ open # {}
       /\ \E failed \in SUBSET open :
            finalSent' = [c \in RemoteCSeqs |->
                            IF c \in open \ failed THEN finalSent[c] + 1 ELSE finalSent[c]]
       /\ uasTrans' = [c \in RemoteCSeqs |-> None]
       /\ appReqs' = {r \in appReqs : uasTrans[r.cseq] # r.method}
    /\ UNCHANGED <<callid, remoteTag, rCSeq, rCSeqI, cseq, uacTrans, sent,
                   rcvdFinal, rx, dropped, extLocal>>

\* dropTransactions: termUacTrans removes every client transaction and
\* uas_trans is cleared without replies; the dialog is being torn down
DropTransactions ==
    /\ ~dropped
    /\ uacTrans' = [c \in LocalCSeqs |-> None]
    /\ uasTrans' = [c \in RemoteCSeqs |-> None]
    /\ dropped' = TRUE
    /\ UNCHANGED <<callid, remoteTag, rCSeq, rCSeqI, cseq, sent, rcvdFinal,
                   appReqs, finalSent, rx, extLocal>>

-----------------------------------------------------------------------------
(* Client side                                                             *)

\* mutant: cseq advances on an ACK too
OnRequestTxedAckInc(c, m) ==
    /\ uacTrans' = [uacTrans EXCEPT ![c] = IF m # "ACK" THEN m ELSE None]
    /\ cseq' = cseq + 1

\* onRequestTxed: a request other than ACK opens a client transaction under
\* cseq and advances cseq; an ACK ends the transaction of its CSeq
OnRequestTxed(c, m) ==
    IF m # "ACK"
    THEN /\ uacTrans' = [uacTrans EXCEPT ![c] = m]
         /\ cseq' = cseq + 1
    ELSE /\ uacTrans' = [uacTrans EXCEPT ![c] = None]
         /\ cseq' = cseq

\* the From-tag sendRequest puts on a request: ext_local_tag when set,
\* else local_tag
FromTag == IF extLocal THEN "ext" ELSE "local"

\* sendRequest: the request takes cseq and the current From-tag; when
\* SipCtrlInterface::send succeeds onRequestTxed runs (a failed send
\* changes nothing)
SendRequest(m) ==
    /\ ~dropped
    /\ cseq <= MaxTx
    /\ OnRequestTxed(cseq, m)
    /\ sent' = sent \cup {[cseq |-> cseq, method |-> m, tag |-> FromTag]}
    /\ UNCHANGED <<callid, remoteTag, rCSeq, rCSeqI, uasTrans, rcvdFinal,
                   appReqs, finalSent, rx, dropped, extLocal>>

\* the session (AmSipDialog) ACKs a 2xx to INVITE with the INVITE's CSeq
SendAck(c) ==
    /\ ~dropped
    /\ uacTrans[c] = "INVITE"
    /\ rcvdFinal[c] = 200
    /\ OnRequestTxed(c, "ACK")
    /\ UNCHANGED <<callid, remoteTag, rCSeq, rCSeqI, uasTrans, sent,
                   rcvdFinal, appReqs, finalSent, rx, dropped, extLocal>>

\* the session sets ext_local_tag (the setter is in AmBasicSipDialog.h);
\* it is taken to do so only while no client transaction is open
SetExtLocalTag ==
    /\ ~dropped
    /\ ~extLocal
    /\ \A c \in LocalCSeqs : uacTrans[c] = None
    /\ extLocal' = TRUE
    /\ UNCHANGED <<callid, remoteTag, rCSeq, rCSeqI, uasTrans, cseq, uacTrans,
                   sent, rcvdFinal, appReqs, finalSent, rx, dropped>>

\* the network: a reply to a sent request; after the final one only
\* provisional replies and retransmissions of the final one arrive
ReplyArrives(c, code) ==
    /\ \E r \in sent : r.cseq = c
    /\ rcvdFinal[c] # 0 => code \in {180, rcvdFinal[c]}

\* sip_msg2am_reply: the reply's CSeq method and From-tag are copied from
\* the message, which carries those of the request of local CSeq c
SentReq(c) == CHOOSE r \in sent : r.cseq = c

\* onRxReplySanity: the reply's From-tag (the one its request went out
\* with) must be ext_local_tag when that is set, else local_tag; otherwise
\* it throws and onRxReply does nothing more
RxReplySane(c) == SentReq(c).tag = FromTag

\* mutant: the transaction is erased only on a failure reply
OnRxReplyErr(c, code) ==
    uacTrans' = IF RxReplySane(c) /\ uacTrans[c] # None /\ code >= 300
                THEN [uacTrans EXCEPT ![c] = None] ELSE uacTrans

\* onRxReply: a reply failing onRxReplySanity or without a transaction is
\* dropped; a final reply ends its transaction, except a 2xx to INVITE,
\* which waits for the ACK
OnRxReply(c, code) ==
    uacTrans' = IF /\ RxReplySane(c)
                   /\ uacTrans[c] # None
                   /\ code >= 200
                   /\ SentReq(c).method # "INVITE" \/ code >= 300
                THEN [uacTrans EXCEPT ![c] = None] ELSE uacTrans

\* handle_sip_reply: the converted reply goes to the dialog's onRxReply
\* (sip_msg2am_reply always succeeds, so the branch that hands on a 500
\* instead never runs)
HandleSipReply(c, code) ==
    /\ ~dropped
    /\ ReplyArrives(c, code)
    /\ rcvdFinal' = IF code >= 200 THEN [rcvdFinal EXCEPT ![c] = code] ELSE rcvdFinal
    /\ OnRxReply(c, code)
    /\ UNCHANGED <<callid, remoteTag, rCSeq, rCSeqI, uasTrans, cseq, sent,
                   appReqs, finalSent, rx, dropped, extLocal>>

-----------------------------------------------------------------------------
Next ==
    \/ InitFromLocalRequest
    \/ \E c \in RemoteCSeqs, m \in Methods, tag \in RxTags : OnRxRequest(c, m, tag)
    \/ \E r \in appReqs, final, ok \in BOOLEAN : Reply(r, final, ok)
    \/ TermUasTrans
    \/ DropTransactions
    \/ \E m \in Methods : SendRequest(m)
    \/ \E c \in LocalCSeqs : SendAck(c)
    \/ SetExtLocalTag
    \/ \E c \in LocalCSeqs, code \in Codes : HandleSipReply(c, code)

\* The transaction layer ends every client transaction with a final reply
\* (the peer's or its own timeout), and AmSipDialog ACKs a 2xx at once.
Fairness ==
    /\ \A c \in LocalCSeqs :
         WF_vars(\E code \in Codes \ {180} : HandleSipReply(c, code))
    /\ \A c \in LocalCSeqs : WF_vars(SendAck(c))

Spec == Init /\ [][Next]_vars /\ Fairness

-----------------------------------------------------------------------------
TypeOK ==
    /\ callid \in BOOLEAN
    /\ remoteTag \in Tags \cup {NoTag}
    /\ rCSeq \in 0..MaxCSeq
    /\ uasTrans \in [RemoteCSeqs -> Methods \cup {None}]
    /\ cseq \in 1..MaxTx + 1
    /\ uacTrans \in [LocalCSeqs -> Methods \cup {None}]
    /\ rcvdFinal \in [LocalCSeqs -> {0, 200, 408}]
    /\ appReqs \subseteq [cseq : RemoteCSeqs, method : Methods]
    /\ finalSent \in [RemoteCSeqs -> Nat]
    /\ extLocal \in BOOLEAN

\* Every request the session was given and has not answered still has its
\* server transaction: onRxRequest never files a request over the pending
\* transaction of another (the r_cseq check in onRxReqSanity), so reply()
\* finds it.  Only termUasTrans, which answers each with 481, and
\* dropTransactions, at teardown, take them away.
AppRequestsHaveTransaction ==
    ~dropped => \A r \in appReqs : uasTrans[r.cseq] = r.method

\* No request is answered twice with a final reply: onReplyTxed erases the
\* transaction, so termUasTrans does not send 481 after a final reply.
AtMostOneFinalReply ==
    \A c \in RemoteCSeqs : finalSent[c] <= 1

\* Every client transaction in uac_trans is eventually removed: by its
\* final reply in onRxReply, or for a 2xx to INVITE by the ACK.
UacTransEventuallyFinished ==
    \A c \in LocalCSeqs : uacTrans[c] # None ~> uacTrans[c] = None
=============================================================================
