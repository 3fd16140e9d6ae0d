----------------------------- MODULE EventQueue -----------------------------
(* AmEventQueue (src/core/AmEventQueue.cpp): producers post events under   *)
(* m_queue; the first post after the queue went idle sets ev_pending and   *)
(* notifies the wake-up sink.  The owning thread either is woken by the   *)
(* sink and drains the queue with processEvents, or waits on ev_pending    *)
(* (waitForEvent) and takes one event with processSingleEvent.  Every      *)
(* region between m_queue.lock() and unlock() is one atomic step; the      *)
(* handler runs outside the lock.                                          *)
EXTENDS Naturals, Sequences

CONSTANTS Producers,     \* threads calling postEvent
          Threads,       \* threads that may be installed as wake-up sink
          MaxPosts,      \* bound on postEvent calls per producer
          NullPosts,     \* whether postEvent(NULL) (a bare wake-up) is used
          OwnThread,     \* the thread of a queue woken through ev_pending
          Modes          \* the owner loops configured, as records
                         \* [wake |-> "sink" (notify) or "pending" (waitForEvent),
                         \*  process |-> "all" (processEvents) or "single"]

ASSUME /\ Modes \subseteq [wake : {"sink", "pending"}, process : {"all", "single"}]
       /\ OwnThread \in Threads
       /\ MaxPosts \in Nat

Events == [from : Producers, n : 1..MaxPosts]
NoEvent == [from |-> "none", n |-> 0]
NoSink == "nosink"

VARIABLES evQueue,   \* ev_queue
          evPending, \* ev_pending
          sink,      \* wakeup_handler
          notified,  \* per thread: this queue is in the thread's wake-up set
          pc,        \* per thread: where its consumer loop is
          cur,       \* per thread: the event it popped and is processing
          sent,      \* per producer: postEvent calls made
          handled,   \* history: events whose handler->process returned
          mode       \* the owner's loop, fixed when the queue is created

vars == <<evQueue, evPending, sink, notified, pc, cur, sent, handled, mode>>

WakeBy == mode.wake
ProcessMode == mode.process

\* the owning thread: the installed sink, or the queue's own thread
Owner(t) == IF WakeBy = "sink" THEN sink = t ELSE t = OwnThread

Init == /\ evQueue = <<>>
        /\ evPending = FALSE
        /\ sink = NoSink
        /\ notified = [t \in Threads |-> FALSE]
        /\ pc = [t \in Threads |-> "idle"]
        /\ cur = [t \in Threads |-> NoEvent]
        /\ sent = [p \in Producers |-> 0]
        /\ handled = <<>>
        /\ mode \in Modes

\* the sink's notify(this): the queue joins the thread's wake-up set
Notify(n) == IF sink # NoSink THEN [n EXCEPT ![sink] = TRUE] ELSE n

\* mutant: ev_pending is raised only when a sink is already installed
PostEventPendingOnlyWithSink(p, withEvent) ==
    /\ sent[p] < MaxPosts
    /\ sent' = [sent EXCEPT ![p] = @ + 1]
    /\ evQueue' = IF withEvent THEN Append(evQueue, [from |-> p, n |-> sent[p] + 1])
                               ELSE evQueue
    /\ evPending' = (evPending \/ sink # NoSink)
    /\ notified' = IF evPending THEN notified ELSE Notify(notified)
    /\ UNCHANGED <<sink, pc, cur, handled, mode>>

\* postEvent(event), withEvent = FALSE for postEvent(NULL)
PostEvent(p, withEvent) ==
    /\ sent[p] < MaxPosts
    /\ sent' = [sent EXCEPT ![p] = @ + 1]
    /\ evQueue' = IF withEvent THEN Append(evQueue, [from |-> p, n |-> sent[p] + 1])
                               ELSE evQueue
    /\ evPending' = TRUE
    /\ notified' = IF evPending THEN notified ELSE Notify(notified)
    /\ UNCHANGED <<sink, pc, cur, handled, mode>>

\* setEventNotificationSink(t): installed once, when the owner starts
SetEventNotificationSink(t) ==
    /\ sink = NoSink
    /\ sink' = t
    /\ notified' = IF evPending THEN [notified EXCEPT ![t] = TRUE] ELSE notified
    /\ UNCHANGED <<evQueue, evPending, pc, cur, sent, handled, mode>>

\* the thread wakes for this queue: the sink's thread takes it from its
\* wake-up set, or waitForEvent returns because ev_pending is set
Wake(t) ==
    /\ pc[t] = "idle"
    /\ Owner(t)
    /\ IF WakeBy = "sink" THEN notified[t] ELSE evPending
    /\ notified' = [notified EXCEPT ![t] = FALSE]
    /\ pc' = [pc EXCEPT ![t] = "run"]
    /\ UNCHANGED <<evQueue, evPending, sink, cur, sent, handled, mode>>

\* mutant: the event is read with front() but never popped
PopEventNoPop(t) ==
    /\ pc[t] = "run"
    /\ evQueue # <<>>
    /\ cur' = [cur EXCEPT ![t] = Head(evQueue)]
    /\ pc' = [pc EXCEPT ![t] = "proc"]
    /\ UNCHANGED <<evQueue, evPending, sink, notified, sent, handled, mode>>

\* under m_queue: the loop head of processEvents, or the start of
\* processSingleEvent, finds an event and pops it
PopEvent(t) ==
    /\ pc[t] = "run"
    /\ evQueue # <<>>
    /\ cur' = [cur EXCEPT ![t] = Head(evQueue)]
    /\ evQueue' = Tail(evQueue)
    /\ pc' = [pc EXCEPT ![t] = "proc"]
    /\ UNCHANGED <<evPending, sink, notified, sent, handled, mode>>

\* under m_queue, the queue is empty: processEvents leaves its loop and
\* clears ev_pending; processSingleEvent returns leaving ev_pending alone
QueueEmpty(t) ==
    /\ pc[t] = "run"
    /\ evQueue = <<>>
    /\ evPending' = IF ProcessMode = "all" THEN FALSE ELSE evPending
    /\ pc' = [pc EXCEPT ![t] = "idle"]
    /\ UNCHANGED <<evQueue, sink, notified, cur, sent, handled, mode>>

\* handler->process(event) and delete, outside the lock
Process(t) ==
    /\ pc[t] = "proc"
    /\ handled' = Append(handled, cur[t])
    /\ cur' = [cur EXCEPT ![t] = NoEvent]
    /\ pc' = [pc EXCEPT ![t] = IF ProcessMode = "all" THEN "run" ELSE "done"]
    /\ UNCHANGED <<evQueue, evPending, sink, notified, sent, mode>>

\* processSingleEvent relocks: if the queue is empty it clears ev_pending
SingleDone(t) ==
    /\ pc[t] = "done"
    /\ evPending' = IF evQueue = <<>> THEN FALSE ELSE evPending
    /\ pc' = [pc EXCEPT ![t] = "idle"]
    /\ UNCHANGED <<evQueue, sink, notified, cur, sent, handled, mode>>

Next ==
    \/ \E p \in Producers, w \in BOOLEAN : (w \/ NullPosts) /\ PostEvent(p, w)
    \/ \E t \in Threads : \/ WakeBy = "sink" /\ SetEventNotificationSink(t)
                          \/ Wake(t) \/ PopEvent(t) \/ QueueEmpty(t)
                          \/ Process(t) \/ SingleDone(t)

(* The owner thread runs whenever it has something to do, and the owner    *)
(* eventually installs its sink.  Producers are not fair.                  *)
Fairness ==
    /\ WF_vars(\E t \in Threads : WakeBy = "sink" /\ SetEventNotificationSink(t))
    /\ \A t \in Threads : /\ WF_vars(Wake(t)) /\ WF_vars(PopEvent(t))
                          /\ WF_vars(QueueEmpty(t)) /\ WF_vars(Process(t))
                          /\ WF_vars(SingleDone(t))

Spec == Init /\ [][Next]_vars /\ Fairness

-----------------------------------------------------------------------------
(* Properties                                                              *)

TypeOK ==
    /\ evQueue \in Seq(Events)
    /\ evPending \in BOOLEAN
    /\ sink \in Threads \cup {NoSink}
    /\ notified \in [Threads -> BOOLEAN]
    /\ pc \in [Threads -> {"idle", "run", "proc", "done"}]
    /\ cur \in [Threads -> Events \cup {NoEvent}]
    /\ sent \in [Producers -> 0..MaxPosts]
    /\ handled \in Seq(Events)
    /\ mode \in Modes

(* No lost wake-up: while events wait in ev_queue and the owner is idle,   *)
(* something will wake it: ev_pending for waitForEvent, or the queue in    *)
(* the sink's wake-up set (or a sink still to be installed, which replays  *)
(* ev_pending).  Breaks if postEvent, processEvents or processSingleEvent  *)
(* clears or skips ev_pending or notify at the wrong moment.               *)
NoLostWakeup ==
    \A t \in Threads :
        (evQueue # <<>> /\ pc[t] = "idle" /\ Owner(t)) =>
            IF WakeBy = "sink" THEN notified[t] ELSE evPending

\* the abstract mailbox holds the events being processed, then the queue
InFlight == IF \E t \in Threads : pc[t] = "proc"
            THEN <<cur[CHOOSE t \in Threads : pc[t] = "proc"]>>
            ELSE <<>>

Abstract == INSTANCE Mailbox WITH Msgs <- Events,
                                  mailbox <- InFlight \o evQueue,
                                  handled <- handled

(* AmEventQueue implements the mailbox: events reach handler->process one  *)
(* at a time, in posting order, each once, and every posted event is       *)
(* eventually processed by the owner thread.                               *)
ImplementsMailbox == Abstract!Spec

==============================================================================
