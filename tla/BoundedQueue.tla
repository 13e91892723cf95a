---------------------------- MODULE BoundedQueue ----------------------------
(***************************************************************************)
(* src/util/queue.hpp: the blocking queue between the stages of the        *)
(* pipeline, one action per critical section and one per notification.     *)
(*                                                                         *)
(* Everything a thread does between acquiring m_mutex and releasing it, or *)
(* going to sleep, is one step.  Notifications come after the unlock, so   *)
(* they are steps of their own, and any thread may run in between.  The    *)
(* condition variables are std::condition_variable_any with a stop token:  *)
(* the predicate is tested first, then the token, and only then does the   *)
(* thread sleep, atomically with respect to every notification.  Wakeups   *)
(* may be spurious, and notify_one may pick any sleeper.                   *)
(***************************************************************************)
EXTENDS Integers, Sequences, FiniteSets

CONSTANTS
    Producers,          \* threads that call Push or PushFor
    Timed,              \* those of them that call PushFor
    Consumers,          \* threads that call Pop until it returns nothing
    Closers,            \* threads that call Close
    RequestedCapacity,  \* the constructor's argument
    MaxCalls            \* bound: pushes each producer makes

ASSUME QueueAssumption ==
    /\ IsFiniteSet(Producers) /\ IsFiniteSet(Consumers) /\ IsFiniteSet(Closers)
    /\ Timed \subseteq Producers
    /\ Producers \cap Consumers = {}
    /\ Closers \cap (Producers \union Consumers) = {}
    /\ RequestedCapacity \in Nat
    /\ MaxCalls \in [Producers -> Nat]

VARIABLES
    m_items,    \* the deque, oldest item first
    m_closed,
    stop,       \* the state of the shared stop token
    callbacks,  \* condition variables the stop request has yet to notify
    pc,         \* where each thread is
    calls,      \* pushes each producer has begun: names its next item
    accepted,   \* history: every item appended, in order
    delivered   \* history: every item Pop returned, in order

vars == <<m_items, m_closed, stop, callbacks, pc, calls, accepted, delivered>>

Threads == Producers \union Consumers
m_capacity == IF RequestedCapacity = 0 THEN 1 ELSE RequestedCapacity
Item == UNION {{p} \X (1..MaxCalls[p]) : p \in Producers}

PC == {"idle", "locking", "asleep", "woken", "expired", "notify", "done"}
CloserPC == {"idle", "wakeConsumers", "wakeProducers", "done"}

Init ==
    /\ m_items = <<>>
    /\ m_closed = FALSE
    /\ stop = FALSE
    /\ callbacks = {}
    /\ pc = [t \in Threads \union Closers |-> "idle"]
    /\ calls = [p \in Producers |-> 0]
    /\ accepted = <<>>
    /\ delivered = <<>>

-----------------------------------------------------------------------------
\* The wait set of m_not_full holds producers, that of m_not_empty consumers.

Asleep(S) == {t \in S : pc[t] = "asleep"}

\* The thread holds or is about to take the mutex, and tests its predicate.
AtPredicate(t) == pc[t] \in {"locking", "woken"}

\* Fault: one item too many.
OffByOneMayPush == m_closed \/ Len(m_items) <= m_capacity
MayPush == m_closed \/ Len(m_items) < m_capacity
MayPop == m_closed \/ m_items # <<>>

GoTo(t, place) == pc' = [pc EXCEPT ![t] = place]

WakeAll(S) == [t \in DOMAIN pc |-> IF t \in Asleep(S) THEN "woken" ELSE pc[t]]

\* notify_one on the wait set S by thread t, which goes on to `place`.
NotifyOne(t, S, place) ==
    /\ IF Asleep(S) = {}
       THEN GoTo(t, place)
       ELSE \E s \in Asleep(S) : pc' = [pc EXCEPT ![t] = place, ![s] = "woken"]
    /\ UNCHANGED <<m_items, m_closed, stop, callbacks, calls, accepted,
                   delivered>>

Called(t) ==
    /\ GoTo(t, "locking")
    /\ UNCHANGED <<m_items, m_closed, stop, callbacks, accepted, delivered>>

Sleep(t) ==
    /\ GoTo(t, "asleep")
    /\ UNCHANGED <<m_items, m_closed, stop, callbacks, calls, accepted,
                   delivered>>

Return(t, place) ==
    /\ GoTo(t, place)
    /\ UNCHANGED <<m_items, m_closed, stop, callbacks, calls, accepted,
                   delivered>>
-----------------------------------------------------------------------------
CallPush(p) ==
    /\ pc[p] = "idle"
    /\ calls[p] < MaxCalls[p]
    /\ calls' = [calls EXCEPT ![p] = @ + 1]
    /\ Called(p)

PushSleeps(p) ==
    /\ AtPredicate(p)
    /\ ~MayPush /\ ~stop
    /\ Sleep(p)

\* push_back and unlock; the notification is still to come.
Store(p) ==
    /\ m_items' = Append(m_items, <<p, calls[p]>>)
    /\ accepted' = Append(accepted, <<p, calls[p]>>)
    /\ GoTo(p, "notify")
    /\ UNCHANGED <<m_closed, stop, callbacks, calls, delivered>>

\* Push appends whenever the predicate holds and the queue is open, whatever
\* the stop token says by then.
PushStores(p) ==
    /\ p \notin Timed
    /\ AtPredicate(p)
    /\ MayPush /\ ~m_closed
    /\ Store(p)

PushFails(p) ==
    /\ p \notin Timed
    /\ AtPredicate(p)
    /\ m_closed \/ (stop /\ ~MayPush)
    /\ Return(p, "idle")

\* PushFor looks at the token again after its wait.
PushForStores(p) ==
    /\ p \in Timed
    /\ AtPredicate(p) \/ pc[p] = "expired"
    /\ MayPush /\ ~m_closed /\ ~stop
    /\ Store(p)

\* Fault: a producer whose time is up gives up without looking at the room again, also
\* when it was notified before.
GivesUpUnlooked(p) ==
    /\ p \in Timed
    /\ AtPredicate(p) \/ pc[p] = "expired"
    /\ m_closed \/ stop \/ pc[p] \in {"woken", "expired"}
    /\ Return(p, "idle")

PushForFails(p) ==
    /\ p \in Timed
    /\ AtPredicate(p) \/ pc[p] = "expired"
    /\ m_closed \/ stop \/ (pc[p] = "expired" /\ ~MayPush)
    /\ Return(p, "idle")

\* Fault: notify only when the queue was empty before.
NotifiesOnFirstOnly(p) ==
    /\ pc[p] = "notify"
    /\ IF Len(m_items) = 1 THEN NotifyOne(p, Consumers, "idle") ELSE Return(p, "idle")

PushNotifies(p) ==
    /\ pc[p] = "notify"
    /\ NotifyOne(p, Consumers, "idle")
-----------------------------------------------------------------------------
CallPop(c) ==
    /\ pc[c] = "idle"
    /\ Called(c)
    /\ UNCHANGED calls

PopSleeps(c) ==
    /\ AtPredicate(c)
    /\ ~MayPop /\ ~stop
    /\ Sleep(c)

\* Fault: the newest item instead of the oldest.
PopTakesBack(c) ==
    /\ AtPredicate(c)
    /\ m_items # <<>>
    /\ m_items' = SubSeq(m_items, 1, Len(m_items) - 1)
    /\ delivered' = Append(delivered, m_items[Len(m_items)])
    /\ GoTo(c, "notify")
    /\ UNCHANGED <<m_closed, stop, callbacks, calls, accepted>>

PopTakes(c) ==
    /\ AtPredicate(c)
    /\ m_items # <<>>
    /\ m_items' = Tail(m_items)
    /\ delivered' = Append(delivered, Head(m_items))
    /\ GoTo(c, "notify")
    /\ UNCHANGED <<m_closed, stop, callbacks, calls, accepted>>

\* Fault: an if around the wait, so that a spurious wakeup ends the stream.
PopEndsWhenWoken(c) ==
    /\ AtPredicate(c)
    /\ m_items = <<>>
    /\ m_closed \/ stop \/ pc[c] = "woken"
    /\ Return(c, "done")

\* Fault: a closed queue is not drained.
PopEndsUndrained(c) ==
    /\ AtPredicate(c)
    /\ m_closed \/ (stop /\ m_items = <<>>)
    /\ Return(c, "done")

\* std::nullopt ends the loop of every caller in the program.
PopEnds(c) ==
    /\ AtPredicate(c)
    /\ m_items = <<>>
    /\ m_closed \/ stop
    /\ Return(c, "done")

PopNotifies(c) ==
    /\ pc[c] = "notify"
    /\ NotifyOne(c, Producers, "idle")
-----------------------------------------------------------------------------
CloseMarks(k) ==
    /\ pc[k] = "idle"
    /\ m_closed' = TRUE
    /\ GoTo(k, "wakeConsumers")
    /\ UNCHANGED <<m_items, stop, callbacks, calls, accepted, delivered>>

\* Fault: notify_one in Close.
CloseWakesOneConsumer(k) ==
    /\ pc[k] = "wakeConsumers"
    /\ NotifyOne(k, Consumers, "wakeProducers")

CloseWakesConsumers(k) ==
    /\ pc[k] = "wakeConsumers"
    /\ pc' = [WakeAll(Consumers) EXCEPT ![k] = "wakeProducers"]
    /\ UNCHANGED <<m_items, m_closed, stop, callbacks, calls, accepted,
                   delivered>>

CloseWakesProducers(k) ==
    /\ pc[k] = "wakeProducers"
    /\ pc' = [WakeAll(Producers) EXCEPT ![k] = "done"]
    /\ UNCHANGED <<m_items, m_closed, stop, callbacks, calls, accepted,
                   delivered>>
-----------------------------------------------------------------------------
\* The token: the flag first, then the callbacks the waits registered, each a
\* notify_all on its condition variable.
RequestStop ==
    /\ ~stop
    /\ stop' = TRUE
    /\ callbacks' = {"not_full", "not_empty"}
    /\ UNCHANGED <<m_items, m_closed, pc, calls, accepted, delivered>>

\* Fault: the wait for an item does not watch the token.
StopCallbackForPush(cv) ==
    /\ cv \in callbacks
    /\ callbacks' = callbacks \ {cv}
    /\ IF cv = "not_full" THEN pc' = WakeAll(Producers) ELSE UNCHANGED pc
    /\ UNCHANGED <<m_items, m_closed, stop, calls, accepted, delivered>>

StopCallback(cv) ==
    /\ cv \in callbacks
    /\ callbacks' = callbacks \ {cv}
    /\ pc' = WakeAll(IF cv = "not_full" THEN Producers ELSE Consumers)
    /\ UNCHANGED <<m_items, m_closed, stop, calls, accepted, delivered>>

\* A condition variable may wake a sleeper for no reason.
SpuriousWake(t) ==
    /\ pc[t] = "asleep"
    /\ Return(t, "woken")

\* The timeout of PushFor.
Expire(p) ==
    /\ p \in Timed
    /\ pc[p] = "asleep"
    /\ Return(p, "expired")

ProducerStep(p) ==
    \/ PushSleeps(p)
    \/ PushStores(p)
    \/ PushFails(p)
    \/ PushForStores(p)
    \/ PushForFails(p)
    \/ PushNotifies(p)

ConsumerStep(c) ==
    \/ PopSleeps(c)
    \/ PopTakes(c)
    \/ PopEnds(c)
    \/ PopNotifies(c)

CloseNotifies(k) == CloseWakesConsumers(k) \/ CloseWakesProducers(k)

Next ==
    \/ \E p \in Producers : CallPush(p) \/ ProducerStep(p) \/ Expire(p)
    \/ \E c \in Consumers : CallPop(c) \/ ConsumerStep(c)
    \/ \E k \in Closers : CloseMarks(k) \/ CloseNotifies(k)
    \/ RequestStop
    \/ \E cv \in callbacks : StopCallback(cv)
    \/ \E t \in Threads : SpuriousWake(t)

\* A thread inside a call gets the mutex and the processor eventually, a timeout
\* expires, and the loops of the program call Pop again.  Nothing makes a
\* producer push, a closer close or anyone request a stop.
Fairness ==
    /\ \A p \in Producers : WF_vars(ProducerStep(p)) /\ WF_vars(Expire(p))
    /\ \A c \in Consumers : WF_vars(CallPop(c) \/ ConsumerStep(c))
    /\ \A k \in Closers : WF_vars(CloseNotifies(k))
    /\ \A cv \in {"not_full", "not_empty"} : WF_vars(StopCallback(cv))

Safety == Init /\ [][Next]_vars

Spec == Safety /\ Fairness
-----------------------------------------------------------------------------
\* Types, and the queue never holds more than its capacity.
TypeOK ==
    /\ m_items \in Seq(Item)
    /\ Len(m_items) <= m_capacity
    /\ m_closed \in BOOLEAN
    /\ stop \in BOOLEAN
    /\ callbacks \subseteq {"not_full", "not_empty"}
    /\ pc \in [Threads \union Closers -> PC \union CloserPC]
    /\ \A t \in Threads : pc[t] \in PC
    /\ \A k \in Closers : pc[k] \in CloserPC
    /\ calls \in [Producers -> Nat]
    /\ \A p \in Producers : calls[p] <= MaxCalls[p]
    /\ accepted \in Seq(Item)
    /\ delivered \in Seq(Item)

\* Every appended item is either still inside or was returned, exactly once,
\* and in the order in which it was appended (push_back, front, pop_front).
FifoOrder == accepted = delivered \o m_items

Awake(S) == {t \in S : AtPredicate(t)}
Notifying(S) == {t \in S : pc[t] = "notify"}

\* While a consumer sleeps, each item inside has a consumer on its way to it or
\* a notification that is still to be sent: notify_one after every push, never
\* only on the change from empty, is enough.
NoLostItem ==
    Asleep(Consumers) # {} =>
        Len(m_items) <= Cardinality(Awake(Consumers))
                        + Cardinality(Notifying(Producers))

\* Producers that will look at the room again without another notification.
Returning == Awake(Producers) \union {p \in Producers : pc[p] = "expired"}

\* The dual: while a producer sleeps in an open queue, each free place has a
\* producer on its way to it or a notification still to be sent, also where the
\* notification went to a timed producer whose time was up by then.
NoLostRoom ==
    (Asleep(Producers) # {} /\ ~m_closed /\ ~stop) =>
        m_capacity - Len(m_items) <=
            Cardinality(Returning) + Cardinality(Notifying(Consumers))

\* Nobody sleeps through Close or through a stop request: whoever is asleep
\* then will still be reached by a notify_all of Close or by a stop callback.
EndReachesSleepers ==
    /\ (m_closed /\ Asleep(Consumers) # {}) =>
           \E k \in Closers : pc[k] = "wakeConsumers"
    /\ (m_closed /\ Asleep(Producers) # {}) =>
           \E k \in Closers : pc[k] \in {"wakeConsumers", "wakeProducers"}
    /\ (stop /\ Asleep(Consumers) # {}) => "not_empty" \in callbacks
    /\ (stop /\ Asleep(Producers) # {}) => "not_full" \in callbacks

InCall == {t \in Threads : pc[t] \in {"locking", "asleep", "woken", "expired"}}

\* The queue implements the abstract one, fairness included: a call that can
\* take effect does so, whatever the notifications did in between.
Fifo == INSTANCE ClosableFifo WITH
            Capacity <- m_capacity,
            fifo <- m_items,
            closed <- m_closed,
            stopped <- stop,
            inCall <- InCall

ImplementsFifo == Fifo!Spec

\* Once the queue is closed or a stop is requested, every call returns and
\* every consumer leaves its loop.
EveryoneLeaves ==
    (m_closed \/ stop) ~> \A t \in Threads :
        pc[t] \in (IF t \in Consumers THEN {"done"} ELSE {"idle"})

\* Without a stop request an accepted item is delivered.
AcceptedIsDelivered ==
    \A i \in Item :
        (i \in {accepted[n] : n \in 1..Len(accepted)}) ~>
            (stop \/ i \in {delivered[n] : n \in 1..Len(delivered)})
=============================================================================
