---------------------------- MODULE ClosableFifo ----------------------------
(***************************************************************************)
(* What util/queue.hpp promises to its callers, without its mutex, its     *)
(* condition variables and its notifications: a bounded FIFO whose calls   *)
(* take effect at one instant, which can be closed, and whose blocked      *)
(* calls give up when a stop is requested.                                 *)
(***************************************************************************)
EXTENDS Naturals, Sequences

CONSTANTS
    Producers,  \* threads that append
    Consumers,  \* threads that remove
    Capacity,   \* items the queue holds at most
    Item        \* what may be appended

VARIABLES
    fifo,       \* the items inside, oldest first
    closed,     \* no more items will be accepted
    stopped,    \* the stop token was triggered
    inCall      \* threads whose Push or Pop has not taken effect yet

vars == <<fifo, closed, stopped, inCall>>

Init ==
    /\ fifo = <<>>
    /\ closed = FALSE
    /\ stopped = FALSE
    /\ inCall = {}

Begin(t) ==
    /\ t \notin inCall
    /\ inCall' = inCall \union {t}
    /\ UNCHANGED <<fifo, closed, stopped>>

Return(t) == inCall' = inCall \ {t}

\* The item goes to the back of a queue that is open and has room.
Put(p) ==
    /\ p \in inCall
    /\ ~closed
    /\ Len(fifo) < Capacity
    /\ \E i \in Item : fifo' = Append(fifo, i)
    /\ Return(p)
    /\ UNCHANGED <<closed, stopped>>

\* The item is discarded: closed, stopped, or (a timed push) full for too long.
Refuse(p) ==
    /\ p \in inCall
    /\ closed \/ stopped \/ Len(fifo) = Capacity
    /\ Return(p)
    /\ UNCHANGED <<fifo, closed, stopped>>

Take(c) ==
    /\ c \in inCall
    /\ fifo # <<>>
    /\ fifo' = Tail(fifo)
    /\ Return(c)
    /\ UNCHANGED <<closed, stopped>>

\* Pop without an item: nothing is left and nothing more is expected.
Finish(c) ==
    /\ c \in inCall
    /\ fifo = <<>>
    /\ closed \/ stopped
    /\ Return(c)
    /\ UNCHANGED <<fifo, closed, stopped>>

Close ==
    /\ closed' = TRUE
    /\ UNCHANGED <<fifo, stopped, inCall>>

RequestStop ==
    /\ stopped' = TRUE
    /\ UNCHANGED <<fifo, closed, inCall>>

Next ==
    \/ \E t \in Producers \union Consumers : Begin(t)
    \/ \E p \in Producers : Put(p) \/ Refuse(p)
    \/ \E c \in Consumers : Take(c) \/ Finish(c)
    \/ Close
    \/ RequestStop

\* A push may rest on a full queue for ever, and only on a full queue.
Room == Len(fifo) < Capacity

Fairness ==
    /\ \A p \in Producers :
         WF_vars(/\ closed \/ stopped \/ Room
                 /\ Put(p) \/ Refuse(p))
    /\ \A c \in Consumers : WF_vars(Take(c) \/ Finish(c))

Safety == Init /\ [][Next]_vars

Spec == Safety /\ Fairness
=============================================================================
