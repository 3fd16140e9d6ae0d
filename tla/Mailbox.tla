------------------------------ MODULE Mailbox ------------------------------
(* What an AmEventQueue promises its owner: events posted to it are handed *)
(* to the event handler one at a time, in the order they were posted, each *)
(* exactly once, and every posted event is eventually handled.             *)
EXTENDS Sequences

CONSTANT Msgs

VARIABLES mailbox,  \* events posted and not yet handled, oldest first
          handled   \* events whose handler has run, in handling order

Init == mailbox = <<>> /\ handled = <<>>

Post(m) == /\ mailbox' = Append(mailbox, m)
           /\ UNCHANGED handled

Handle == /\ mailbox # <<>>
          /\ handled' = Append(handled, Head(mailbox))
          /\ mailbox' = Tail(mailbox)

Next == (\E m \in Msgs : Post(m)) \/ Handle

Spec == Init /\ [][Next]_<<mailbox, handled>> /\ WF_<<mailbox, handled>>(Handle)

==============================================================================
