---------------------------- MODULE EventChannel ----------------------------
(* What a context's event queue promises its clients, with no locks and no   *)
(* condition variable: events leave in the order they were sent, each goes   *)
(* to one client, and a client blocked in vxWaitEvent is served as long as   *)
(* an event stays available.  EventSystem is shown to implement it.          *)
EXTENDS Sequences

CONSTANTS Clients, Event

VARIABLES pending,   \* events sent and not yet delivered, oldest first
          waiting    \* clients inside a blocking vxWaitEvent

vars == <<pending, waiting>>

Init == pending = <<>> /\ waiting = {}

Send(e) == pending' = Append(pending, e) /\ UNCHANGED waiting

StartWait(c) == /\ c \notin waiting
                /\ waiting' = waiting \cup {c}
                /\ UNCHANGED pending

Poll == pending # <<>> /\ pending' = Tail(pending) /\ UNCHANGED waiting

Deliver(c) == /\ c \in waiting
              /\ pending # <<>>
              /\ pending' = Tail(pending)
              /\ waiting' = waiting \ {c}

Next == \/ \E e \in Event : Send(e)
        \/ Poll
        \/ \E c \in Clients : StartWait(c) \/ Deliver(c)

Spec == Init /\ [][Next]_vars /\ WF_vars(\E c \in Clients : Deliver(c))
=============================================================================
