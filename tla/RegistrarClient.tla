--------------------------- MODULE RegistrarClient ---------------------------
(* The registration table of SIPRegistrarClient                            *)
(* (src/apps/registrar_client/SIPRegistrarClient.cpp).  API callers, the  *)
(* event bus and the SIP stack post events to the client's queue; its     *)
(* thread runs the epoll loop of run(), processing them one at a time,    *)
(* and checkTimeouts on the timer.  RPC threads read the table under      *)
(* reg_mut.  A registration is an AmSIPRegistration object, numbered by   *)
(* creation; the table keeps two indexes to it, registrations (by handle) *)
(* and registrations_by_id.  AmSIPRegistration itself is not in the       *)
(* repository: the answer to its unregister is an environment step.       *)
EXTENDS Naturals, FiniteSets, Sequences, SequencesExt

CONSTANTS Handles,       \* registration handles (local tags)
          Ids,           \* registration ids given by the creator
          MaxRegs,       \* bound on registrations requested (and objects created)
          MaxPosts,      \* bound on events posted by API callers and the bus
          BusShapes,     \* action lists of the BusReplyEvent payloads sent
          UniqueHandles  \* every create uses a fresh handle (AmSession::getNewId)

Objs == 1..MaxRegs
None == 0

\* the events of the client's queue (SIPNewRegistrationEvent,
\* SIPRemoveRegistrationEvent, AmSipReplyEvent, BusReplyEvent, AmSystemEvent)
NewEv(h, i)      == [kind |-> "new", h |-> h, i |-> i]
RemEv(key, isId) == [kind |-> "rem", key |-> key, isId |-> isId]
ReplyEv(h)       == [kind |-> "reply", h |-> h]
BusOp(a, h, i)   == [act |-> a, h |-> h, i |-> i]
BusEv(ops)       == [kind |-> "bus", ops |-> ops]
SysEv            == [kind |-> "sys"]

VARIABLES registrations,      \* handle -> object, or None
          registrationsById,  \* id -> object, or None
          reg,                \* object -> its state and flags
          evq,                \* the client's event queue
          created,            \* objects created so far
          requested,          \* creations requested so far
          posts,              \* events posted by API callers and the bus
          usedHandles,        \* handles used by a create so far
          answered,           \* objects whose unregister has been answered
          stopFired,          \* stop_event has been fired
          running,            \* the run() loop has not seen stop_event
          freedRead,          \* some step dereferenced a deleted object
          removeRequested,    \* objects onRemoveRegistration unregistered
          flushed             \* objects a flush took out of the indexes

vars == <<registrations, registrationsById, reg, evq, created, requested, posts,
          usedHandles, answered, stopFired, running, freedRead, removeRequested,
          flushed>>
postVars == <<requested, posts, usedHandles>>
histVars == <<freedRead, removeRequested, flushed>>

Init == /\ registrations = [h \in Handles |-> None]
        /\ registrationsById = [i \in Ids |-> None]
        /\ reg = [o \in Objs |-> [st |-> "unborn", handle |-> CHOOSE h \in Handles : TRUE,
                                  id |-> CHOOSE i \in Ids : TRUE,
                                  unregistering |-> FALSE, remove |-> FALSE]]
        /\ evq = <<>>
        /\ created = 0
        /\ requested = 0
        /\ posts = 0
        /\ usedHandles = {}
        /\ answered = {}
        /\ stopFired = FALSE
        /\ running = TRUE
        /\ freedRead = FALSE
        /\ removeRequested = {}
        /\ flushed = {}

\* reading through a pointer: a deleted object is a use after free
Deref(o) == reg[o].st = "deleted"

\* a handle a new registration may take: with UniqueHandles the caller
\* leaves it empty and AmSession::getNewId() gives a fresh one
HandleOk(h) == UniqueHandles => h \notin usedHandles

-----------------------------------------------------------------------------
(* Other threads                                                           *)

\* postEvent from an API caller or the bus; the queue is not bounded
Post(e) == /\ posts < MaxPosts
           /\ posts' = posts + 1
           /\ evq' = Append(evq, e)

\* createRegistration: the handle, then a SIPNewRegistrationEvent
CreateRegistration(h, i) ==
    /\ requested < MaxRegs /\ HandleOk(h)
    /\ Post(NewEv(h, i))
    /\ requested' = requested + 1
    /\ usedHandles' = usedHandles \cup {h}
    /\ UNCHANGED <<registrations, registrationsById, reg, created, answered,
                   stopFired, running>>
    /\ UNCHANGED histVars

\* removeRegistration / removeRegistrationById
RemoveRegistration(key, isId) ==
    /\ Post(RemEv(key, isId))
    /\ UNCHANGED <<registrations, registrationsById, reg, created, requested,
                   usedHandles, answered, stopFired, running>>
    /\ UNCHANGED histVars

\* another module sends a BusReplyEvent whose payload is a list of
\* actions; a create in it uses handle h and id i, a remove id i
PostBusEvent(shape, h, i) ==
    LET creates == Len(SelectSeq(shape, LAMBDA a : a = "create")) IN
    /\ requested + creates <= MaxRegs
    /\ creates > 0 => HandleOk(h)
    /\ Post(BusEv([k \in DOMAIN shape |-> BusOp(shape[k], h, i)]))
    /\ requested' = requested + creates
    /\ usedHandles' = IF creates > 0 THEN usedHandles \cup {h} ELSE usedHandles
    /\ UNCHANGED <<registrations, registrationsById, reg, created, answered,
                   stopFired, running>>
    /\ UNCHANGED histVars

\* the SIP stack answers o's unregister: onSipReply checks hasRegistration
\* (get_reg under reg_mut) for the reply's from-tag, o's handle, and only
\* then posts an AmSipReplyEvent; otherwise the reply is dropped
OnSipReply(o) ==
    /\ reg[o].st = "live" /\ reg[o].unregistering /\ o \notin answered
    /\ answered' = answered \cup {o}
    /\ evq' = IF registrations[reg[o].handle] # None
              THEN Append(evq, ReplyEv(reg[o].handle)) ELSE evq
    /\ UNCHANGED <<registrations, registrationsById, reg, created, stopFired,
                   running>>
    /\ UNCHANGED <<postVars, histVars>>

\* the server shuts down: AmSystemEvent ServerShutdown to every queue
PostShutdown ==
    /\ Post(SysEv)
    /\ UNCHANGED <<registrations, registrationsById, reg, created, requested,
                   usedHandles, answered, stopFired, running>>
    /\ UNCHANGED histVars

\* on_stop: the plugin is unloaded; fires stop_event
OnStop ==
    /\ ~stopFired
    /\ stopFired' = TRUE
    /\ UNCHANGED <<registrations, registrationsById, reg, evq, created, answered,
                   running>>
    /\ UNCHANGED <<postVars, histVars>>

-----------------------------------------------------------------------------
(* The client thread: process() of the event at the head of the queue     *)

\* the queue's fd is readable and run() is still looping
Pending(kind) == running /\ evq # <<>> /\ Head(evq).kind = kind

\* add_reg(handle, o): refused on a duplicate id (RegisterDuplicate to the
\* sink, the new object deleted); otherwise o enters both indexes and the
\* old registration with the same handle is deleted
AddReg(h, i, o) ==
    LET old == registrations[h] IN
    IF registrationsById[i] # None
    THEN /\ reg' = [reg EXCEPT ![o] = [@ EXCEPT !.st = "deleted", !.handle = h, !.id = i]]
         /\ UNCHANGED <<registrations, registrationsById>>
    ELSE /\ registrationsById' = [registrationsById EXCEPT ![i] = o]
         /\ registrations' = [registrations EXCEPT ![h] = o]
         /\ reg' = [p \in Objs |->
                      IF p = o THEN [reg[o] EXCEPT !.st = "live", !.handle = h, !.id = i]
                      ELSE IF p = old THEN [reg[p] EXCEPT !.st = "deleted"]
                      ELSE reg[p]]

\* onNewRegistration: new AmSIPRegistration, add_reg and, if it was added,
\* doRegistration() (whose REGISTER is the registration's own business)
OnNewRegistration ==
    /\ Pending("new")
    /\ AddReg(Head(evq).h, Head(evq).i, created + 1)
    /\ created' = created + 1
    /\ evq' = Tail(evq)
    /\ UNCHANGED <<postVars, histVars, answered, stopFired, running>>

\* mutant: the by-id entry is left in place
UnregisterKeepById(o) ==
    /\ registrationsById' = registrationsById
    /\ reg' = [reg EXCEPT ![o].unregistering = TRUE]
    /\ removeRequested' = removeRequested \cup {o}

\* erase the table entry found for the event and doUnregister() the object
Unregister(o) ==
    /\ registrationsById' = [registrationsById EXCEPT ![reg[o].id] = None]
    /\ reg' = [reg EXCEPT ![o].unregistering = TRUE]
    /\ removeRequested' = removeRequested \cup {o}

\* mutant: the handle entry is erased at once, before the unregister ends
OnRemoveRegistrationByHandleErase ==
    LET h == Head(evq).key IN
    /\ Pending("rem") /\ ~Head(evq).isId
    /\ IF registrations[h] = None
       THEN UNCHANGED <<registrations, registrationsById, reg, removeRequested>>
       ELSE /\ Unregister(registrations[h])
            /\ registrations' = [registrations EXCEPT ![h] = None]
    /\ evq' = Tail(evq)
    /\ UNCHANGED <<created, postVars, answered, stopFired, running, freedRead, flushed>>

\* onRemoveRegistration by handle; an unknown handle is ignored
OnRemoveRegistrationByHandle ==
    LET h == Head(evq).key IN
    /\ Pending("rem") /\ ~Head(evq).isId
    /\ IF registrations[h] = None
       THEN UNCHANGED <<registrationsById, reg, removeRequested>>
       ELSE Unregister(registrations[h])
    /\ evq' = Tail(evq)
    /\ UNCHANGED <<registrations, created, postVars, answered, stopFired, running,
                   freedRead, flushed>>

\* onRemoveRegistration by id: an unknown id is ignored; the handle is read
\* from the object found in registrations_by_id, and read from a deleted
\* object it may be any handle
OnRemoveRegistrationById ==
    LET i == Head(evq).key
        o == registrationsById[i]
    IN
    /\ Pending("rem") /\ Head(evq).isId
    /\ IF o = None
       THEN UNCHANGED <<registrationsById, reg, removeRequested, freedRead>>
       ELSE /\ freedRead' = (freedRead \/ Deref(o))
            /\ \E h \in (IF Deref(o) THEN Handles ELSE {reg[o].handle}) :
                 IF registrations[h] = None
                 THEN \* "inconsistence": drop the by-id entry
                      /\ registrationsById' = [registrationsById EXCEPT ![i] = None]
                      /\ UNCHANGED <<reg, removeRequested>>
                 ELSE Unregister(registrations[h])
    /\ evq' = Tail(evq)
    /\ UNCHANGED <<registrations, created, postVars, answered, stopFired, running,
                   flushed>>

\* onSipReplyEvent: get_reg(from-tag), then the registration's dialog
\* handles the reply; the answer to its unregister marks it for removal
OnSipReplyEvent ==
    LET o == registrations[Head(evq).h] IN
    /\ Pending("reply")
    /\ IF o # None /\ reg[o].unregistering
       THEN reg' = [reg EXCEPT ![o].remove = TRUE]
       ELSE UNCHANGED reg
    /\ freedRead' = (freedRead \/ (o # None /\ Deref(o)))
    /\ evq' = Tail(evq)
    /\ UNCHANGED <<registrations, registrationsById, created, postVars, answered,
                   stopFired, running, removeRequested, flushed>>

\* processAmArgRegistration "flush": doUnregister every registration and
\* clear both indexes
FlushTable ==
    /\ reg' = [o \in Objs |-> IF \E h \in Handles : registrations[h] = o
                              THEN [reg[o] EXCEPT !.unregistering = TRUE]
                              ELSE reg[o]]
    /\ registrations' = [h \in Handles |-> None]
    /\ registrationsById' = [i \in Ids |-> None]
    /\ flushed' = flushed \cup ({registrations[h] : h \in Handles} \ {None})

\* the events processAmArgRegistration posts back to the client's own
\* queue: a create as a SIPNewRegistrationEvent, a remove through
\* removeRegistrationById
Reposted(ops) ==
    LET q == SelectSeq(ops, LAMBDA op : op.act # "flush") IN
    [k \in DOMAIN q |-> IF q[k].act = "create" THEN NewEv(q[k].h, q[k].i)
                                                ELSE RemEv(q[k].i, TRUE)]

\* onBusEvent: processAmArgRegistration for every item of the payload; the
\* creates and removes are queued behind everything already queued, a
\* flush is done at once
OnBusEvent ==
    LET ops == Head(evq).ops IN
    /\ Pending("bus")
    /\ evq' = Tail(evq) \o Reposted(ops)
    /\ IF \E k \in DOMAIN ops : ops[k].act = "flush"
       THEN FlushTable
       ELSE UNCHANGED <<registrations, registrationsById, reg, flushed>>
    /\ UNCHANGED <<created, postVars, answered, stopFired, running, freedRead,
                   removeRequested>>

\* AmSystemEvent ServerShutdown: stop_event.fire()
OnSystemEvent ==
    /\ Pending("sys")
    /\ stopFired' = TRUE
    /\ evq' = Tail(evq)
    /\ UNCHANGED <<registrations, registrationsById, reg, created, postVars,
                   answered, running, histVars>>

\* mutant: the objects are deleted but left in registrations
CheckTimeoutsKeepEntry ==
    /\ running
    /\ LET gone == {h \in Handles : registrations[h] # None /\ reg[registrations[h]].remove}
           objs == {registrations[h] : h \in gone}
       IN /\ gone # {}
          /\ reg' = [o \in Objs |-> IF o \in objs THEN [reg[o] EXCEPT !.st = "deleted"] ELSE reg[o]]
    /\ UNCHANGED <<registrations, registrationsById, evq, created, postVars, answered,
                   stopFired, running, histVars>>

\* checkTimeouts: every registration marked remove is taken out of
\* registrations (remove_reg_unsafe) and deleted
CheckTimeouts ==
    /\ running
    /\ LET gone == {h \in Handles : registrations[h] # None /\ reg[registrations[h]].remove}
           objs == {registrations[h] : h \in gone}
       IN /\ gone # {}
          /\ registrations' = [h \in Handles |-> IF h \in gone THEN None ELSE registrations[h]]
          /\ reg' = [o \in Objs |-> IF o \in objs THEN [reg[o] EXCEPT !.st = "deleted"] ELSE reg[o]]
    /\ UNCHANGED <<registrationsById, evq, created, postVars, answered, stopFired,
                   running, histVars>>

\* the stop_event is read: run() leaves its loop and onServerShutdown
\* unregisters and deletes every registration; events still queued are
\* never processed
Stop ==
    /\ running /\ stopFired
    /\ running' = FALSE
    /\ reg' = [o \in Objs |-> IF \E h \in Handles : registrations[h] = o
                              THEN [reg[o] EXCEPT !.unregistering = TRUE, !.st = "deleted"]
                              ELSE reg[o]]
    /\ UNCHANGED <<registrations, registrationsById, evq, created, postVars, answered,
                   stopFired, histVars>>

\* an RPC thread: showRegistrationById / showRegistration /
\* getRegistrationState read the object an index points to, under reg_mut
ShowRegistrationById(i) ==
    /\ running
    /\ registrationsById[i] # None
    /\ freedRead' = (freedRead \/ Deref(registrationsById[i]))
    /\ UNCHANGED <<registrations, registrationsById, reg, evq, created, postVars,
                   answered, stopFired, running, removeRequested, flushed>>

GetRegistrationState(h) ==
    /\ running
    /\ registrations[h] # None
    /\ freedRead' = (freedRead \/ Deref(registrations[h]))
    /\ UNCHANGED <<registrations, registrationsById, reg, evq, created, postVars,
                   answered, stopFired, running, removeRequested, flushed>>

\* invoke: the DI entry point.  Both forms of createRegistration post a
\* new-registration event (the struct form without calling
\* createRegistration); an argument that fails validation throws before
\* anything is posted.  removeRegistration(ById), getRegistrationState and
\* showRegistrationById call the functions of the same names;
\* listRegistrations, showRegistration and getRegistrationsCount only read
\* under reg_mut.
Invoke ==
    \/ \E h \in Handles, i \in Ids : CreateRegistration(h, i)
    \/ \E h \in Handles : RemoveRegistration(h, FALSE)
    \/ \E i \in Ids : RemoveRegistration(i, TRUE)
    \/ \E h \in Handles : GetRegistrationState(h)
    \/ \E i \in Ids : ShowRegistrationById(i)

Next ==
    \/ Invoke
    \/ \E sh \in BusShapes, h \in Handles, i \in Ids : PostBusEvent(sh, h, i)
    \/ \E o \in Objs : OnSipReply(o)
    \/ PostShutdown \/ OnStop
    \/ OnNewRegistration \/ OnRemoveRegistrationByHandle \/ OnRemoveRegistrationById
    \/ OnSipReplyEvent \/ OnBusEvent \/ OnSystemEvent
    \/ CheckTimeouts \/ Stop

(* run() drains its queue whenever the queue fd is readable, checkTimeouts *)
(* runs every TIMEOUT_CHECKING_INTERVAL and a fired stop_event is read; an *)
(* unregister REGISTER is eventually answered (or times out, which the     *)
(* registration reports the same way).  Callers and the shutdown are not   *)
(* fair.                                                                   *)
Fairness ==
    /\ WF_vars(OnNewRegistration) /\ WF_vars(OnRemoveRegistrationByHandle)
    /\ WF_vars(OnRemoveRegistrationById) /\ WF_vars(OnSipReplyEvent)
    /\ WF_vars(OnBusEvent) /\ WF_vars(OnSystemEvent)
    /\ WF_vars(CheckTimeouts) /\ WF_vars(Stop)
    /\ \A o \in Objs : WF_vars(OnSipReply(o))

Spec == Init /\ [][Next]_vars /\ Fairness

-----------------------------------------------------------------------------
(* Properties                                                              *)

(* No thread ever reads a deleted AmSIPRegistration: the remove-by-id       *)
(* lookup, the reply routing and the RPC readers only reach live objects   *)
(* through the two indexes, across removal, flush and checkTimeouts.  A    *)
(* create that reuses a handle (add_reg's replacement) breaks it.          *)
NoUseAfterFree == ~freedRead

(* The two indexes agree: an entry of registrations_by_id names a live      *)
(* object with that id, and that object is still registrations[handle].    *)
ByIdMatchesRegistrations ==
    running =>
      \A i \in Ids : registrationsById[i] # None =>
          LET o == registrationsById[i]
          IN reg[o].st = "live" /\ reg[o].id = i /\ registrations[reg[o].handle] = o

(* A registration removed with onRemoveRegistration is eventually deleted: *)
(* the SIP stack answers its unregister, onSipReply finds it by handle and *)
(* queues the reply, onSipReplyEvent marks it and checkTimeouts takes it   *)
(* out of the table (a flush that drops it first is the leak              *)
(* NoLeakedRegistration is about).                                         *)
RemovedEventuallyDeleted ==
    \A o \in Objs : o \in removeRequested ~> (reg[o].st = "deleted" \/ o \in flushed)

(* No registration object is leaked: a live one is still reachable from     *)
(* registrations, so checkTimeouts, a replacement or the shutdown deletes  *)
(* it.                                                                     *)
NoLeakedRegistration ==
    \A o \in Objs : reg[o].st = "live" => \E h \in Handles : registrations[h] = o

==============================================================================
