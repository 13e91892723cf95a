------------------------- MODULE BoundedQueueProofs -------------------------
(***************************************************************************)
(* Theorems about BoundedQueue, for any finite sets of threads, any        *)
(* requested capacity and any number of calls.                             *)
(***************************************************************************)
EXTENDS BoundedQueue, FiniteSetTheorems, SequenceTheorems, TLAPS

\* A producer inside a call has begun one: its item has a number from 1 on.
Begun == \A p \in Producers : pc[p] # "idle" => calls[p] >= 1

TInv == TypeOK /\ Begun

LEMMA CapacityPositive == m_capacity \in Nat /\ m_capacity >= 1
BY QueueAssumption DEF m_capacity

LEMMA RolesDisjoint ==
    /\ \A p \in Producers : p \in Threads /\ p \notin Consumers /\ p \notin Closers
    /\ \A c \in Consumers : c \in Threads /\ c \notin Producers /\ c \notin Closers
    /\ \A k \in Closers : k \notin Threads /\ k \notin Producers /\ k \notin Consumers
BY QueueAssumption DEF Threads

\* Waking the sleepers of a role changes nothing but "asleep" into "woken".
LEMMA WakeAllTypes ==
    ASSUME TypeOK, NEW S \in SUBSET Threads
    PROVE  /\ WakeAll(S) \in [Threads \union Closers -> PC \union CloserPC]
           /\ \A t \in Threads : WakeAll(S)[t] \in PC
           /\ \A k \in Closers : WakeAll(S)[k] = pc[k]
           /\ \A t \in Threads : (WakeAll(S)[t] = "idle") <=> (pc[t] = "idle")
BY RolesDisjoint DEF TypeOK, WakeAll, Asleep, PC, CloserPC

LEMMA NotifyOneTypes ==
    ASSUME TInv, NEW t \in Threads, NEW S \in SUBSET Threads, t \notin S,
           NEW place \in PC, NotifyOne(t, S, place),
           t \in Producers => place = "idle"
    PROVE  TInv'
BY RolesDisjoint
DEF TInv, TypeOK, Begun, NotifyOne, GoTo, Asleep, PC, CloserPC, Item, m_capacity, Threads

LEMMA TypesHold == TInv /\ [Next]_vars => TInv'
<1> SUFFICES ASSUME TInv, [Next]_vars
             PROVE  TInv'
    OBVIOUS
<1> USE CapacityPositive, RolesDisjoint, QueueAssumption
<1> USE DEF TInv, TypeOK, Begun, PC, CloserPC
<1>1. ASSUME NEW p \in Producers, CallPush(p)
      PROVE  TInv'
    BY <1>1 DEF CallPush, Called, GoTo, Threads
<1>2. ASSUME NEW p \in Producers, PushSleeps(p) \/ PushFails(p) \/ PushForFails(p) \/ Expire(p)
      PROVE  TInv'
    BY <1>2 DEF PushSleeps, PushFails, PushForFails, Expire, AtPredicate, Sleep, Return, GoTo
<1>3. ASSUME NEW p \in Producers, PushStores(p) \/ PushForStores(p)
      PROVE  TInv'
    <2>1. Store(p) /\ pc[p] # "idle" /\ Len(m_items) < m_capacity
        BY <1>3 DEF PushStores, PushForStores, AtPredicate, MayPush
    <2>2. <<p, calls[p]>> \in Item
        BY <2>1, QueueAssumption DEF Item
    <2>3. m_items' \in Seq(Item) /\ Len(m_items') <= m_capacity /\ accepted' \in Seq(Item)
        BY <2>1, <2>2 DEF Store
    <2>4. QED
        BY <2>1, <2>3 DEF Store, GoTo
<1>4. ASSUME NEW p \in Producers, PushNotifies(p)
      PROVE  TInv'
    BY <1>4, NotifyOneTypes, Consumers \in SUBSET Threads, "idle" \in PC
    DEF PushNotifies, Threads
<1>5. ASSUME NEW c \in Consumers, CallPop(c)
      PROVE  TInv'
    BY <1>5 DEF CallPop, Called, GoTo
<1>6. ASSUME NEW c \in Consumers, PopSleeps(c) \/ PopEnds(c)
      PROVE  TInv'
    BY <1>6 DEF PopSleeps, PopEnds, Sleep, Return, GoTo
<1>7. ASSUME NEW c \in Consumers, PopTakes(c)
      PROVE  TInv'
    <2>1. /\ Head(m_items) \in Item
          /\ m_items' \in Seq(Item)
          /\ Len(m_items') <= m_capacity
        BY <1>7, HeadTailProperties DEF PopTakes
    <2>2. QED
        BY <1>7, <2>1 DEF PopTakes, GoTo
<1>8. ASSUME NEW c \in Consumers, PopNotifies(c)
      PROVE  TInv'
    BY <1>8, NotifyOneTypes, Producers \in SUBSET Threads, "idle" \in PC
    DEF PopNotifies, Threads
<1>9. ASSUME NEW k \in Closers, CloseMarks(k)
      PROVE  TInv'
    BY <1>9 DEF CloseMarks, GoTo
<1>10. ASSUME NEW k \in Closers, CloseNotifies(k)
       PROVE  TInv'
    <2>1. \A S \in {Producers, Consumers} : S \in SUBSET Threads
        BY DEF Threads
    <2>2. CASE CloseWakesConsumers(k)
        <3>1. \A p \in Producers : pc'[p] = pc[p] \/ (pc[p] = "asleep" /\ pc'[p] = "woken")
            BY <2>2 DEF CloseWakesConsumers, WakeAll, Asleep, Threads
        <3> DEFINE w == WakeAll(Consumers)
        <3> HIDE DEF w
        <3>2. /\ w \in [Threads \union Closers -> PC \union CloserPC]
              /\ \A t \in Threads : w[t] \in PC
              /\ \A j \in Closers : w[j] = pc[j]
            BY <2>1, WakeAllTypes DEF w
        <3>3. pc' = [w EXCEPT ![k] = "wakeProducers"]
            BY <2>2 DEF CloseWakesConsumers, w
        <3>4. pc' \in [Threads \union Closers -> PC \union CloserPC]
            BY <3>2, <3>3
        <3>5. /\ \A t \in Threads : pc'[t] \in PC
              /\ \A j \in Closers : pc'[j] \in CloserPC
            BY <3>2, <3>3
        <3>6. UNCHANGED <<m_items, m_closed, stop, callbacks, calls, accepted, delivered>>
            BY <2>2 DEF CloseWakesConsumers
        <3>7. Begun'
            <4>1. ASSUME NEW p \in Producers, pc'[p] # "idle"
                  PROVE  calls'[p] >= 1
                <5>1. pc[p] # "idle"
                    BY ONLY <4>1, <3>1
                <5>2. calls[p] >= 1
                    BY ONLY <5>1, TInv, p \in Producers DEF TInv, Begun
                <5>3. QED
                    BY ONLY <5>2, <3>6
            <4>2. QED
                BY ONLY <4>1 DEF Begun
        <3>8. TypeOK'
            BY <3>4, <3>5, <3>6
        <3>9. QED
            BY <3>7, <3>8
    <2>3. CASE CloseWakesProducers(k)
        <3>1. \A p \in Producers : pc'[p] = pc[p] \/ (pc[p] = "asleep" /\ pc'[p] = "woken")
            BY <2>3 DEF CloseWakesProducers, WakeAll, Asleep, Threads
        <3> DEFINE w == WakeAll(Producers)
        <3> HIDE DEF w
        <3>2. /\ w \in [Threads \union Closers -> PC \union CloserPC]
              /\ \A t \in Threads : w[t] \in PC
              /\ \A j \in Closers : w[j] = pc[j]
            BY <2>1, WakeAllTypes DEF w
        <3>3. pc' = [w EXCEPT ![k] = "done"]
            BY <2>3 DEF CloseWakesProducers, w
        <3>4. pc' \in [Threads \union Closers -> PC \union CloserPC]
            BY <3>2, <3>3
        <3>5. /\ \A t \in Threads : pc'[t] \in PC
              /\ \A j \in Closers : pc'[j] \in CloserPC
            BY <3>2, <3>3
        <3>6. QED
            BY <2>3, <3>1, <3>4, <3>5 DEF CloseWakesProducers
    <2>4. QED
        BY <1>10, <2>2, <2>3 DEF CloseNotifies
<1>11. ASSUME RequestStop
       PROVE  TInv'
    BY <1>11 DEF RequestStop
<1>12. ASSUME NEW cv \in callbacks, StopCallback(cv)
       PROVE  TInv'
    <2> DEFINE S == IF cv = "not_full" THEN Producers ELSE Consumers
    <2>1. S \in SUBSET Threads
        BY DEF Threads
    <2>2. pc' = WakeAll(S)
        BY <1>12 DEF StopCallback
    <2>3. /\ pc' \in [Threads \union Closers -> PC \union CloserPC]
          /\ \A t \in Threads : pc'[t] \in PC
          /\ \A k \in Closers : pc'[k] \in CloserPC
          /\ \A t \in Threads : (pc'[t] = "idle") <=> (pc[t] = "idle")
        <3> HIDE DEF S
        <3> QED
            BY <2>1, <2>2, WakeAllTypes
    <2>4. QED
        BY <1>12, <2>3 DEF StopCallback
<1>13. ASSUME NEW t \in Threads, SpuriousWake(t)
       PROVE  TInv'
    BY <1>13 DEF SpuriousWake, Return, GoTo
<1>14. ASSUME UNCHANGED vars
       PROVE  TInv'
    BY <1>14 DEF vars
<1>15. QED
    <2> HIDE DEF TInv
    <2> QED
        BY ONLY [Next]_vars, <1>1, <1>2, <1>3, <1>4, <1>5, <1>6, <1>7, <1>8, <1>9, <1>10, <1>11, <1>12,
           <1>13, <1>14
        DEF Next, ProducerStep, ConsumerStep

LEMMA InitTypes == Init => TInv
<1> SUFFICES ASSUME Init PROVE TInv
    OBVIOUS
<1>1. m_items \in Seq(Item) /\ Len(m_items) = 0 /\ accepted \in Seq(Item) /\ delivered \in Seq(Item)
    BY DEF Init
<1>2. calls \in [Producers -> Nat] /\ \A p \in Producers : calls[p] <= MaxCalls[p]
    BY QueueAssumption DEF Init
<1>3. pc \in [Threads \union Closers -> PC \union CloserPC]
    BY DEF Init, PC, CloserPC
<1>4. \A t \in Threads \union Closers : pc[t] = "idle"
    BY DEF Init
<1>5. Begun
    BY <1>4 DEF Begun, Threads
<1>6. TypeOK
    <2>1. Len(m_items) <= m_capacity
        BY <1>1, CapacityPositive
    <2>2. m_closed \in BOOLEAN /\ stop \in BOOLEAN /\ callbacks \subseteq {"not_full", "not_empty"}
        BY DEF Init
    <2>3. (\A t \in Threads : pc[t] \in PC) /\ (\A k \in Closers : pc[k] \in CloserPC)
        BY <1>4 DEF PC, CloserPC
    <2>4. QED
        BY <1>1, <1>2, <1>3, <2>1, <2>2, <2>3 DEF TypeOK
<1>7. QED
    BY <1>5, <1>6 DEF TInv

\* Types, and a queue that is never over its capacity (queue.hpp:37-86).
THEOREM TypeCorrect == Safety => []TypeOK
<1>1. TInv => TypeOK
    BY DEF TInv
<1>2. QED
    BY <1>1, InitTypes, TypesHold, PTL DEF Safety
-----------------------------------------------------------------------------
\* Arithmetic of the sets of threads.

LEMMA SomeThreads ==
    ASSUME NEW S, S \subseteq Producers \/ S \subseteq Consumers
    PROVE  IsFiniteSet(S) /\ Cardinality(S) \in Nat
BY QueueAssumption, FS_Subset, FS_CardinalityType

LEMMA MoreThreads ==
    ASSUME NEW S, NEW T, S \subseteq T, T \subseteq Producers \/ T \subseteq Consumers
    PROVE  Cardinality(S) <= Cardinality(T)
BY SomeThreads, FS_Subset

LEMMA OneMoreThread ==
    ASSUME NEW S, NEW t, t \notin S, S \subseteq Producers \/ S \subseteq Consumers
    PROVE  Cardinality(S \union {t}) = Cardinality(S) + 1
BY SomeThreads, FS_AddElement

LEMMA OneThreadLess ==
    ASSUME NEW S, NEW t \in S, S \subseteq Producers \/ S \subseteq Consumers
    PROVE  Cardinality(S \ {t}) = Cardinality(S) - 1
BY SomeThreads, FS_RemoveElement

LEMMA RolesOfSets ==
    /\ Awake(Consumers) \subseteq Consumers
    /\ Notifying(Consumers) \subseteq Consumers
    /\ Awake(Producers) \subseteq Producers
    /\ Notifying(Producers) \subseteq Producers
BY DEF Awake, Notifying

\* A step that leaves the items alone and takes nobody from the two sets.
LEMMA ItemCreditGrows ==
    ASSUME NoLostItem, m_items' = m_items,
           Asleep(Consumers)' # {} => Asleep(Consumers) # {},
           Awake(Consumers) \subseteq Awake(Consumers)',
           Notifying(Producers) \subseteq Notifying(Producers)'
    PROVE  NoLostItem'
<1> DEFINE A == Cardinality(Awake(Consumers))
           N == Cardinality(Notifying(Producers))
<1>1. /\ Awake(Consumers)' \subseteq Consumers
      /\ Notifying(Producers)' \subseteq Producers
    BY DEF Awake, Notifying
<1>2. A <= A' /\ N <= N' /\ A \in Nat /\ N \in Nat /\ A' \in Nat /\ N' \in Nat
    BY <1>1, RolesOfSets, MoreThreads, SomeThreads
<1>3. QED
    BY <1>2 DEF NoLostItem

LEMMA ItemCreditKept == TInv /\ NoLostItem /\ [Next]_vars => NoLostItem'
<1> SUFFICES ASSUME TInv, NoLostItem, [Next]_vars
             PROVE  NoLostItem'
    OBVIOUS
<1> USE RolesDisjoint
<1> USE DEF TInv, TypeOK, AtPredicate, Threads
<1>0. /\ Len(m_items) \in Nat
      /\ Cardinality(Awake(Consumers)) \in Nat
      /\ Cardinality(Notifying(Producers)) \in Nat
    BY RolesOfSets, SomeThreads
<1>1. ASSUME NEW p \in Producers,
             CallPush(p) \/ PushSleeps(p) \/ PushFails(p) \/ PushForFails(p) \/ Expire(p)
      PROVE  NoLostItem'
    <2>1. /\ \A c \in Consumers : pc'[c] = pc[c]
          /\ pc[p] # "notify" /\ \A q \in Producers : q # p => pc'[q] = pc[q]
          /\ m_items' = m_items
        BY <1>1 DEF CallPush, Called, PushSleeps, PushFails, PushForFails, Expire, Sleep,
                    Return, GoTo
    <2>2. QED
        BY <2>1, ItemCreditGrows DEF Awake, Notifying, Asleep
<1>2. ASSUME NEW p \in Producers, PushStores(p) \/ PushForStores(p)
      PROVE  NoLostItem'
    <2>1. /\ pc[p] # "notify" /\ pc' = [pc EXCEPT ![p] = "notify"]
          /\ Len(m_items') = Len(m_items) + 1
        BY <1>2 DEF PushStores, PushForStores, Store, GoTo
    <2>2. /\ Awake(Consumers)' = Awake(Consumers)
          /\ Asleep(Consumers)' = Asleep(Consumers)
          /\ Notifying(Producers)' = Notifying(Producers) \union {p}
          /\ p \notin Notifying(Producers)
        BY <2>1 DEF Awake, Asleep, Notifying
    <2>3. Cardinality(Notifying(Producers))' = Cardinality(Notifying(Producers)) + 1
        BY <2>2, OneMoreThread, RolesOfSets
    <2>4. QED
        BY <1>0, <2>1, <2>2, <2>3 DEF NoLostItem
<1>3. ASSUME NEW p \in Producers, PushNotifies(p)
      PROVE  NoLostItem'
    <2>1. CASE Asleep(Consumers) = {}
        BY <1>3, <2>1 DEF PushNotifies, NotifyOne, GoTo, Asleep, NoLostItem
    <2>2. ASSUME NEW s \in Asleep(Consumers),
                 pc' = [pc EXCEPT ![p] = "idle", ![s] = "woken"]
          PROVE  NoLostItem'
        <3>1. /\ Awake(Consumers)' = Awake(Consumers) \union {s}
              /\ s \notin Awake(Consumers)
              /\ Notifying(Producers)' = Notifying(Producers) \ {p}
              /\ p \in Notifying(Producers)
            BY <1>3, <2>2 DEF PushNotifies, Awake, Asleep, Notifying
        <3>2. Cardinality(Awake(Consumers))' = Cardinality(Awake(Consumers)) + 1
            BY <3>1, OneMoreThread, RolesOfSets
        <3>3. Cardinality(Notifying(Producers))' = Cardinality(Notifying(Producers)) - 1
            BY <3>1, OneThreadLess, RolesOfSets
        <3>4. m_items' = m_items
            BY <1>3 DEF PushNotifies, NotifyOne
        <3>5. QED
            BY <1>0, <2>2, <3>2, <3>3, <3>4 DEF NoLostItem
    <2>3. QED
        BY <1>3, <2>1, <2>2 DEF PushNotifies, NotifyOne
<1>4. ASSUME NEW c \in Consumers, CallPop(c)
      PROVE  NoLostItem'
    BY <1>4, ItemCreditGrows DEF CallPop, Called, GoTo, Awake, Notifying, Asleep
<1>5. ASSUME NEW c \in Consumers, PopSleeps(c) \/ PopEnds(c)
      PROVE  NoLostItem'
    <2>1. m_items' = <<>>
        BY <1>5 DEF PopSleeps, PopEnds, MayPop, Sleep, Return
    <2>2. /\ Awake(Consumers)' \subseteq Consumers
          /\ Notifying(Producers)' \subseteq Producers
        BY DEF Awake, Notifying
    <2>3. QED
        BY <2>1, <2>2, SomeThreads DEF NoLostItem
<1>6. ASSUME NEW c \in Consumers, PopTakes(c)
      PROVE  NoLostItem'
    <2>1. /\ pc' = [pc EXCEPT ![c] = "notify"]
          /\ Len(m_items') = Len(m_items) - 1
          /\ c \in Awake(Consumers)
        BY <1>6, HeadTailProperties DEF PopTakes, GoTo, Awake
    <2>2. /\ Awake(Consumers)' = Awake(Consumers) \ {c}
          /\ Asleep(Consumers)' = Asleep(Consumers)
          /\ Notifying(Producers)' = Notifying(Producers)
        BY <2>1 DEF Awake, Asleep, Notifying
    <2>3. Cardinality(Awake(Consumers))' = Cardinality(Awake(Consumers)) - 1
        BY <2>1, <2>2, OneThreadLess, RolesOfSets
    <2>4. QED
        BY <1>0, <2>1, <2>2, <2>3 DEF NoLostItem
<1>7. ASSUME NEW c \in Consumers, PopNotifies(c)
      PROVE  NoLostItem'
    <2>1. /\ m_items' = m_items
          /\ pc[c] = "notify" /\ pc'[c] = "idle"
          /\ \A d \in Consumers : d # c => pc'[d] = pc[d]
          /\ \A q \in Producers : pc'[q] = pc[q] \/ (pc[q] = "asleep" /\ pc'[q] = "woken")
        BY <1>7 DEF PopNotifies, NotifyOne, GoTo, Asleep
    <2>2. QED
        BY <2>1, ItemCreditGrows DEF Awake, Notifying, Asleep
<1>8. ASSUME NEW k \in Closers, CloseMarks(k) \/ CloseWakesProducers(k)
      PROVE  NoLostItem'
    <2>1. /\ m_items' = m_items
          /\ \A c \in Consumers : pc'[c] = pc[c]
          /\ \A q \in Producers : pc'[q] = pc[q] \/ (pc[q] = "asleep" /\ pc'[q] = "woken")
        BY <1>8 DEF CloseMarks, CloseWakesProducers, GoTo, WakeAll, Asleep
    <2>2. QED
        BY <2>1, ItemCreditGrows DEF Awake, Notifying, Asleep
<1>9. ASSUME NEW k \in Closers, CloseWakesConsumers(k)
      PROVE  NoLostItem'
    <2>1. Asleep(Consumers)' = {}
        BY <1>9 DEF CloseWakesConsumers, WakeAll, Asleep
    <2>2. QED
        BY <2>1 DEF NoLostItem
<1>10. ASSUME NEW cv \in callbacks, StopCallback(cv)
       PROVE  NoLostItem'
    <2>1. CASE cv = "not_full"
        <3>1. /\ m_items' = m_items
              /\ \A c \in Consumers : pc'[c] = pc[c]
              /\ \A q \in Producers : pc'[q] = pc[q] \/ (pc[q] = "asleep" /\ pc'[q] = "woken")
            BY <1>10, <2>1 DEF StopCallback, WakeAll, Asleep
        <3>2. QED
            BY <3>1, ItemCreditGrows DEF Awake, Notifying, Asleep
    <2>2. CASE cv # "not_full"
        <3>1. Asleep(Consumers)' = {}
            BY <1>10, <2>2 DEF StopCallback, WakeAll, Asleep
        <3>2. QED
            BY <3>1 DEF NoLostItem
    <2>3. QED
        BY <2>1, <2>2
<1>11. ASSUME NEW t \in Threads, SpuriousWake(t)
       PROVE  NoLostItem'
    BY <1>11, ItemCreditGrows DEF SpuriousWake, Return, GoTo, Awake, Notifying, Asleep
<1>12. ASSUME RequestStop \/ UNCHANGED vars
       PROVE  NoLostItem'
    BY <1>12, ItemCreditGrows DEF RequestStop, vars, Awake, Notifying, Asleep
<1>13. QED
    BY ONLY [Next]_vars, <1>1, <1>2, <1>3, <1>4, <1>5, <1>6, <1>7, <1>8, <1>9, <1>10,
            <1>11, <1>12
    DEF Next, ProducerStep, ConsumerStep, CloseNotifies

\* No lost wakeup for consumers: while one sleeps, every item inside has a
\* consumer or a notification on its way (notify_one after unlock, queue.hpp:44-46).
THEOREM NoItemIsLost == Safety => []NoLostItem
<1>1. Init => NoLostItem
    BY DEF Init, NoLostItem, Asleep, Threads
<1>2. Init => TInv
    BY InitTypes
<1>3. QED
    BY <1>1, <1>2, TypesHold, ItemCreditKept, PTL DEF Safety
-----------------------------------------------------------------------------
LEMMA OrderKept == TInv /\ FifoOrder /\ [Next]_vars => FifoOrder'
<1> SUFFICES ASSUME TInv, FifoOrder, [Next]_vars
             PROVE  FifoOrder'
    OBVIOUS
<1> USE DEF FifoOrder
<1>1. m_items \in Seq(Item) /\ delivered \in Seq(Item)
    BY DEF TInv, TypeOK
<1>2. ASSUME NEW p \in Producers, PushStores(p) \/ PushForStores(p)
      PROVE  FifoOrder'
    <2> DEFINE new == <<p, calls[p]>>
    <2>1. /\ new \in Item
          /\ m_items' = Append(m_items, new)
          /\ accepted' = Append(accepted, new)
          /\ delivered' = delivered
        BY <1>2, QueueAssumption
        DEF PushStores, PushForStores, Store, Item, TInv, TypeOK, Begun, AtPredicate
    <2> HIDE DEF new
    <2>2. accepted \in Seq(Item) /\ <<new>> \in Seq(Item)
        BY <1>1, <2>1, ConcatProperties
    <2>3. /\ accepted' = (delivered \o m_items) \o <<new>>
          /\ m_items' = m_items \o <<new>>
        BY <1>1, <2>1, <2>2, AppendIsConcat
    <2>4. QED
        BY <1>1, <2>1, <2>2, <2>3, ConcatAssociative
<1>3. ASSUME NEW c \in Consumers, PopTakes(c)
      PROVE  FifoOrder'
    <2>1. /\ m_items # <<>>
          /\ m_items' = Tail(m_items)
          /\ delivered' = Append(delivered, Head(m_items))
          /\ accepted' = accepted
        BY <1>3 DEF PopTakes
    <2>2. /\ Head(m_items) \in Item
          /\ Tail(m_items) \in Seq(Item)
        BY <1>1, <2>1, HeadTailProperties
    <2>3. <<Head(m_items)>> \in Seq(Item)
        BY <2>2
    <2>4. m_items = <<Head(m_items)>> \o Tail(m_items)
        <3>1. /\ Len(Tail(m_items)) = Len(m_items) - 1
              /\ \A n \in 1..Len(Tail(m_items)) : Tail(m_items)[n] = m_items[n + 1]
            BY <1>1, <2>1, HeadTailProperties
        <3>2. Len(m_items) \in Nat /\ Len(m_items) >= 1 /\ Head(m_items) = m_items[1]
            BY <1>1, <2>1
        <3> DEFINE joined == <<Head(m_items)>> \o Tail(m_items)
        <3>3. /\ joined \in Seq(Item)
              /\ Len(joined) = Len(m_items)
              /\ \A n \in 1..Len(m_items) : joined[n] = m_items[n]
            BY <2>2, <2>3, <3>1, <3>2, ConcatProperties
        <3> HIDE DEF joined
        <3>4. joined = m_items
            BY <1>1, <3>3, SeqEqual
        <3>5. QED
            BY <3>4 DEF joined
    <2>5. delivered' = delivered \o <<Head(m_items)>>
        BY <1>1, <2>1, <2>2, AppendIsConcat
    <2>6. QED
        BY <1>1, <2>1, <2>2, <2>3, <2>4, <2>5, ConcatAssociative
<1>4. ASSUME UNCHANGED <<m_items, accepted, delivered>>
      PROVE  FifoOrder'
    BY <1>4
<1>5. QED
    BY ONLY [Next]_vars, <1>2, <1>3, <1>4
    DEF Next, ProducerStep, ConsumerStep, CloseNotifies, vars, CallPush, CallPop, Called,
        PushSleeps, PushFails, PushForFails, PushNotifies, Expire, PopSleeps, PopEnds,
        PopNotifies, NotifyOne, Sleep, Return, CloseMarks, CloseWakesConsumers,
        CloseWakesProducers, RequestStop, StopCallback, SpuriousWake

\* First in, first out, nothing lost and nothing twice (queue.hpp:44, 81-82).
THEOREM OrderIsKept == Safety => []FifoOrder
<1>1. Init => FifoOrder
    BY DEF Init, FifoOrder
<1>2. QED
    BY <1>1, InitTypes, TypesHold, OrderKept, PTL DEF Safety
-----------------------------------------------------------------------------
\* A step of a thread after which nobody new is asleep.
LEMMA NobodyNewAsleep ==
    ASSUME EndReachesSleepers,
           m_closed' = m_closed, stop' = stop, callbacks' = callbacks,
           \A k \in Closers : pc'[k] = pc[k],
           \A t \in Threads : pc'[t] = "asleep" => pc[t] = "asleep"
    PROVE  EndReachesSleepers'
<1>1. /\ Asleep(Consumers)' \subseteq Asleep(Consumers)
      /\ Asleep(Producers)' \subseteq Asleep(Producers)
    BY DEF Asleep, Threads
<1>2. QED
    BY <1>1 DEF EndReachesSleepers

LEMMA EndIsAnnounced == TInv /\ EndReachesSleepers /\ [Next]_vars => EndReachesSleepers'
<1> SUFFICES ASSUME TInv, EndReachesSleepers, [Next]_vars
             PROVE  EndReachesSleepers'
    OBVIOUS
<1> USE RolesDisjoint
<1> USE DEF TInv, TypeOK
<1>1. ASSUME NEW p \in Producers,
             CallPush(p) \/ PushStores(p) \/ PushFails(p) \/ PushForStores(p) \/ PushForFails(p)
                 \/ PushNotifies(p) \/ Expire(p)
      PROVE  EndReachesSleepers'
    BY <1>1, NobodyNewAsleep
    DEF CallPush, Called, PushStores, PushFails, PushForStores, PushForFails, PushNotifies,
        Expire, Store, Return, NotifyOne, Asleep, GoTo
<1>2. ASSUME NEW p \in Producers, PushSleeps(p)
      PROVE  EndReachesSleepers'
    <2>1. /\ ~m_closed' /\ ~stop'
        BY <1>2 DEF PushSleeps, MayPush, Sleep
    <2>2. QED
        BY <2>1 DEF EndReachesSleepers
<1>3. ASSUME NEW c \in Consumers, CallPop(c) \/ PopTakes(c) \/ PopEnds(c) \/ PopNotifies(c)
      PROVE  EndReachesSleepers'
    BY <1>3, NobodyNewAsleep
    DEF CallPop, Called, PopTakes, PopEnds, PopNotifies, Return, NotifyOne, Asleep, GoTo
<1>4. ASSUME NEW c \in Consumers, PopSleeps(c)
      PROVE  EndReachesSleepers'
    <2>1. /\ ~m_closed' /\ ~stop'
        BY <1>4 DEF PopSleeps, MayPop, Sleep
    <2>2. QED
        BY <2>1 DEF EndReachesSleepers
<1>5. ASSUME NEW k \in Closers, CloseMarks(k)
      PROVE  EndReachesSleepers'
    <2>1. /\ pc'[k] = "wakeConsumers"
          /\ Asleep(Consumers)' = Asleep(Consumers)
          /\ Asleep(Producers)' = Asleep(Producers)
        BY <1>5 DEF CloseMarks, GoTo, Asleep
    <2>2. QED
        BY <1>5, <2>1 DEF EndReachesSleepers, CloseMarks
<1>6. ASSUME NEW k \in Closers, CloseWakesConsumers(k)
      PROVE  EndReachesSleepers'
    <2>1. /\ pc'[k] = "wakeProducers"
          /\ Asleep(Consumers)' = {}
          /\ Asleep(Producers)' = Asleep(Producers)
        BY <1>6 DEF CloseWakesConsumers, WakeAll, Asleep
    <2>2. QED
        BY <1>6, <2>1 DEF EndReachesSleepers, CloseWakesConsumers
<1>7. ASSUME NEW k \in Closers, CloseWakesProducers(k)
      PROVE  EndReachesSleepers'
    <2>1. /\ Asleep(Consumers)' = Asleep(Consumers)
          /\ Asleep(Producers)' = {}
          /\ pc[k] = "wakeProducers"
          /\ \A j \in Closers : j # k => pc'[j] = pc[j]
        BY <1>7 DEF CloseWakesProducers, WakeAll, Asleep
    <2>2. QED
        BY <1>7, <2>1 DEF EndReachesSleepers, CloseWakesProducers
<1>8. ASSUME RequestStop
      PROVE  EndReachesSleepers'
    BY <1>8 DEF RequestStop, EndReachesSleepers, Asleep
<1>9. ASSUME NEW cv \in callbacks, StopCallback(cv)
      PROVE  EndReachesSleepers'
    <2>1. /\ \A k \in Closers : pc'[k] = pc[k]
          /\ Asleep(Consumers)' \subseteq Asleep(Consumers)
          /\ Asleep(Producers)' \subseteq Asleep(Producers)
          /\ cv = "not_full" => Asleep(Producers)' = {}
          /\ cv = "not_empty" => Asleep(Consumers)' = {}
        BY <1>9 DEF StopCallback, WakeAll, Asleep
    <2>2. QED
        BY <1>9, <2>1 DEF EndReachesSleepers, StopCallback
<1>10. ASSUME NEW t \in Threads, SpuriousWake(t)
       PROVE  EndReachesSleepers'
    BY <1>10, NobodyNewAsleep DEF SpuriousWake, Return, GoTo
<1>11. ASSUME UNCHANGED vars
       PROVE  EndReachesSleepers'
    BY <1>11, NobodyNewAsleep DEF vars
<1>12. QED
    BY ONLY [Next]_vars, <1>1, <1>2, <1>3, <1>4, <1>5, <1>6, <1>7, <1>8, <1>9, <1>10, <1>11
    DEF Next, ProducerStep, ConsumerStep, CloseNotifies

\* Nobody sleeps through Close or a stop request (queue.hpp:91-98 and the waits'
\* stop tokens).
THEOREM EndReachesEveryone == Safety => []EndReachesSleepers
<1>1. Init => EndReachesSleepers
    BY DEF Init, EndReachesSleepers
<1>2. QED
    BY <1>1, InitTypes, TypesHold, EndIsAnnounced, PTL DEF Safety
-----------------------------------------------------------------------------
\* A step that leaves the items alone and takes nobody from the two sets.
LEMMA RoomCreditGrows ==
    ASSUME NoLostRoom, TypeOK, m_items' = m_items, m_closed' = m_closed, stop' = stop,
           Asleep(Producers)' # {} => Asleep(Producers) # {},
           Returning \subseteq Returning',
           Notifying(Consumers) \subseteq Notifying(Consumers)'
    PROVE  NoLostRoom'
<1> DEFINE A == Cardinality(Returning)
           N == Cardinality(Notifying(Consumers))
<1>1. /\ Returning' \subseteq Producers
      /\ Notifying(Consumers)' \subseteq Consumers
    BY DEF Returning, Awake, Notifying
<1>2. A <= A' /\ N <= N' /\ A \in Nat /\ N \in Nat /\ A' \in Nat /\ N' \in Nat
    BY <1>1, MoreThreads, SomeThreads, Returning \subseteq Producers,
       Notifying(Consumers) \subseteq Consumers
<1>3. m_capacity' = m_capacity /\ Len(m_items) \in Nat
    BY DEF m_capacity, TypeOK
<1>4. QED
    BY <1>2, <1>3, CapacityPositive DEF NoLostRoom

LEMMA RoomCreditKept == TInv /\ NoLostRoom /\ [Next]_vars => NoLostRoom'
<1> SUFFICES ASSUME TInv, NoLostRoom, [Next]_vars
             PROVE  NoLostRoom'
    OBVIOUS
<1> USE RolesDisjoint, CapacityPositive
<1> USE DEF TInv, TypeOK, AtPredicate, Threads
<1>0. /\ Len(m_items) \in Nat
      /\ Returning \subseteq Producers
      /\ Notifying(Consumers) \subseteq Consumers
      /\ Cardinality(Returning) \in Nat
      /\ Cardinality(Notifying(Consumers)) \in Nat
    <2>1. Returning \subseteq Producers /\ Notifying(Consumers) \subseteq Consumers
        BY DEF Returning, Awake, Notifying
    <2>2. QED
        BY <2>1, SomeThreads
<1>1. ASSUME NEW p \in Producers, CallPush(p) \/ Expire(p)
      PROVE  NoLostRoom'
    <2>1. /\ \A c \in Consumers : pc'[c] = pc[c]
          /\ pc[p] \in {"idle", "asleep"} /\ pc'[p] \in {"locking", "expired"}
          /\ \A q \in Producers : q # p => pc'[q] = pc[q]
          /\ m_items' = m_items /\ m_closed' = m_closed /\ stop' = stop
        BY <1>1 DEF CallPush, Called, Expire, Return, GoTo
    <2>2. QED
        BY <2>1, RoomCreditGrows DEF Returning, Awake, Notifying, Asleep
<1>2. ASSUME NEW p \in Producers, PushSleeps(p) \/ PushFails(p) \/ PushForFails(p)
      PROVE  NoLostRoom'
    <2>1. \/ m_closed' \/ stop'
          \/ Len(m_items') = m_capacity
        BY <1>2 DEF PushSleeps, PushFails, PushForFails, MayPush, Sleep, Return
    <2>2. /\ Returning' \subseteq Producers
          /\ Notifying(Consumers)' \subseteq Consumers
        BY DEF Returning, Awake, Notifying
    <2>3. /\ Cardinality(Returning)' \in Nat
          /\ Cardinality(Notifying(Consumers))' \in Nat
        BY <2>2, SomeThreads
    <2>4. m_capacity' = m_capacity
        BY DEF m_capacity
    <2>5. QED
        BY <2>1, <2>3, <2>4 DEF NoLostRoom
<1>3. ASSUME NEW p \in Producers, PushStores(p) \/ PushForStores(p)
      PROVE  NoLostRoom'
    <2>1. /\ p \in Returning
          /\ pc' = [pc EXCEPT ![p] = "notify"]
          /\ Len(m_items') = Len(m_items) + 1
          /\ m_closed' = m_closed /\ stop' = stop
        BY <1>3 DEF PushStores, PushForStores, Store, GoTo, Returning, Awake
    <2>2. /\ Returning' = Returning \ {p}
          /\ Asleep(Producers)' = Asleep(Producers)
          /\ Notifying(Consumers)' = Notifying(Consumers)
        BY <2>1 DEF Returning, Awake, Asleep, Notifying
    <2>3. Cardinality(Returning)' = Cardinality(Returning) - 1
        BY <1>0, <2>1, <2>2, OneThreadLess
    <2>4. QED
        BY <1>0, <2>1, <2>2, <2>3 DEF NoLostRoom, m_capacity
<1>4. ASSUME NEW p \in Producers, PushNotifies(p)
      PROVE  NoLostRoom'
    <2>1. /\ m_items' = m_items /\ m_closed' = m_closed /\ stop' = stop
          /\ pc[p] = "notify" /\ pc'[p] = "idle"
          /\ \A q \in Producers : q # p => pc'[q] = pc[q]
          /\ \A c \in Consumers : pc'[c] = pc[c] \/ (pc[c] = "asleep" /\ pc'[c] = "woken")
        BY <1>4 DEF PushNotifies, NotifyOne, GoTo, Asleep
    <2>2. QED
        BY <2>1, RoomCreditGrows DEF Returning, Awake, Notifying, Asleep
<1>5. ASSUME NEW c \in Consumers, CallPop(c) \/ PopSleeps(c) \/ PopEnds(c)
      PROVE  NoLostRoom'
    <2>1. /\ m_items' = m_items /\ m_closed' = m_closed /\ stop' = stop
          /\ pc[c] # "notify"
          /\ \A t \in Threads : t # c => pc'[t] = pc[t]
        BY <1>5 DEF CallPop, Called, PopSleeps, PopEnds, Sleep, Return, GoTo
    <2>2. QED
        BY <2>1, RoomCreditGrows DEF Returning, Awake, Notifying, Asleep
<1>6. ASSUME NEW c \in Consumers, PopTakes(c)
      PROVE  NoLostRoom'
    <2>1. /\ pc' = [pc EXCEPT ![c] = "notify"]
          /\ Len(m_items') = Len(m_items) - 1
          /\ m_closed' = m_closed /\ stop' = stop
          /\ c \notin Notifying(Consumers)
        BY <1>6, HeadTailProperties DEF PopTakes, GoTo, Notifying
    <2>2. /\ Returning' = Returning
          /\ Asleep(Producers)' = Asleep(Producers)
          /\ Notifying(Consumers)' = Notifying(Consumers) \union {c}
        BY <2>1 DEF Returning, Awake, Asleep, Notifying
    <2>3. Cardinality(Notifying(Consumers))' = Cardinality(Notifying(Consumers)) + 1
        BY <1>0, <2>1, <2>2, OneMoreThread
    <2>4. QED
        BY <1>0, <2>1, <2>2, <2>3 DEF NoLostRoom, m_capacity
<1>7. ASSUME NEW c \in Consumers, PopNotifies(c)
      PROVE  NoLostRoom'
    <2>1. CASE Asleep(Producers) = {}
        BY <1>7, <2>1 DEF PopNotifies, NotifyOne, GoTo, Asleep, NoLostRoom
    <2>2. ASSUME NEW s \in Asleep(Producers),
                 pc' = [pc EXCEPT ![c] = "idle", ![s] = "woken"]
          PROVE  NoLostRoom'
        <3>1. /\ Returning' = Returning \union {s}
              /\ s \notin Returning
              /\ Notifying(Consumers)' = Notifying(Consumers) \ {c}
              /\ c \in Notifying(Consumers)
            BY <1>7, <2>2 DEF PopNotifies, Returning, Awake, Asleep, Notifying
        <3>2. Cardinality(Returning)' = Cardinality(Returning) + 1
            BY <1>0, <3>1, OneMoreThread
        <3>3. Cardinality(Notifying(Consumers))' = Cardinality(Notifying(Consumers)) - 1
            BY <1>0, <3>1, OneThreadLess
        <3>4. m_items' = m_items /\ m_closed' = m_closed /\ stop' = stop
            BY <1>7 DEF PopNotifies, NotifyOne
        <3>5. QED
            BY <1>0, <2>2, <3>2, <3>3, <3>4 DEF NoLostRoom, m_capacity
    <2>3. QED
        BY <1>7, <2>1, <2>2 DEF PopNotifies, NotifyOne
<1>8. ASSUME NEW k \in Closers, CloseMarks(k)
      PROVE  NoLostRoom'
    BY <1>8 DEF CloseMarks, NoLostRoom
<1>9. ASSUME NEW k \in Closers, CloseWakesConsumers(k)
      PROVE  NoLostRoom'
    <2>1. /\ m_items' = m_items /\ m_closed' = m_closed /\ stop' = stop
          /\ \A q \in Producers : pc'[q] = pc[q]
          /\ \A c \in Consumers : pc'[c] = pc[c] \/ (pc[c] = "asleep" /\ pc'[c] = "woken")
        BY <1>9 DEF CloseWakesConsumers, WakeAll, Asleep
    <2>2. QED
        BY <2>1, RoomCreditGrows DEF Returning, Awake, Notifying, Asleep
<1>10. ASSUME NEW k \in Closers, CloseWakesProducers(k)
      PROVE  NoLostRoom'
    <2>1. Asleep(Producers)' = {}
        BY <1>10 DEF CloseWakesProducers, WakeAll, Asleep
    <2>2. QED
        BY <2>1 DEF NoLostRoom
<1>11. ASSUME NEW cv \in callbacks, StopCallback(cv)
       PROVE  NoLostRoom'
    <2>1. CASE cv = "not_full"
        <3>1. Asleep(Producers)' = {}
            BY <1>11, <2>1 DEF StopCallback, WakeAll, Asleep
        <3>2. QED
            BY <3>1 DEF NoLostRoom
    <2>2. CASE cv # "not_full"
        <3>1. /\ m_items' = m_items /\ m_closed' = m_closed /\ stop' = stop
              /\ \A q \in Producers : pc'[q] = pc[q]
              /\ \A c \in Consumers : pc'[c] = pc[c] \/ (pc[c] = "asleep" /\ pc'[c] = "woken")
            BY <1>11, <2>2 DEF StopCallback, WakeAll, Asleep
        <3>2. QED
            BY <3>1, RoomCreditGrows DEF Returning, Awake, Notifying, Asleep
    <2>3. QED
        BY <2>1, <2>2
<1>12. ASSUME NEW t \in Threads, SpuriousWake(t)
       PROVE  NoLostRoom'
    BY <1>12, RoomCreditGrows DEF SpuriousWake, Return, GoTo, Returning, Awake, Notifying, Asleep
<1>13. CASE RequestStop
    BY <1>13 DEF RequestStop, NoLostRoom
<1>14. CASE UNCHANGED vars
    BY <1>14, RoomCreditGrows DEF vars, Returning, Awake, Notifying, Asleep
<1>15. QED
    BY ONLY [Next]_vars, <1>1, <1>2, <1>3, <1>4, <1>5, <1>6, <1>7, <1>8, <1>9, <1>10,
            <1>11, <1>12, <1>13, <1>14
    DEF Next, ProducerStep, ConsumerStep, CloseNotifies

\* No lost wakeup for producers, timed ones included (queue.hpp:57-68, 81-85).
THEOREM NoRoomIsLost == Safety => []NoLostRoom
<1>1. Init => NoLostRoom
    BY DEF Init, NoLostRoom, Asleep, Threads
<1>2. QED
    BY <1>1, InitTypes, TypesHold, RoomCreditKept, PTL DEF Safety
-----------------------------------------------------------------------------
\* The monitor implements the abstract queue: initial states to initial states...
LEMMA InitRefines == Init => Fifo!Init
BY DEF Init, Fifo!Init, InCall, Threads

\* ...and every step to a step or to a stutter.
LEMMA StepRefines == TInv /\ [Next]_vars => [Fifo!Next]_Fifo!vars
<1> SUFFICES ASSUME TInv, [Next]_vars
             PROVE  [Fifo!Next]_Fifo!vars
    OBVIOUS
<1> USE RolesDisjoint
<1> USE DEF Threads, AtPredicate
<1>0. /\ pc \in [Threads \union Closers -> PC \union CloserPC]
      /\ Len(m_items) <= m_capacity /\ Len(m_items) \in Nat
    BY DEF TInv, TypeOK
<1>1. ASSUME NEW t \in Threads, pc[t] = "idle", pc' = [pc EXCEPT ![t] = "locking"],
             UNCHANGED <<m_items, m_closed, stop>>
      PROVE  Fifo!Begin(t)
    BY <1>0, <1>1 DEF Fifo!Begin, InCall
<1>2. ASSUME NEW p \in Producers, PushStores(p) \/ PushForStores(p)
      PROVE  Fifo!Put(p)
    <2>1. /\ pc[p] \in {"locking", "woken", "expired"} /\ pc' = [pc EXCEPT ![p] = "notify"]
          /\ ~m_closed /\ Len(m_items) < m_capacity
          /\ m_items' = Append(m_items, <<p, calls[p]>>)
          /\ UNCHANGED <<m_closed, stop>>
        BY <1>2 DEF PushStores, PushForStores, Store, GoTo, MayPush
    <2>2. <<p, calls[p]>> \in Item
        BY <2>1, QueueAssumption DEF TInv, TypeOK, Begun, Item
    <2>3. p \in InCall /\ InCall' = InCall \ {p}
        BY <1>0, <2>1 DEF InCall
    <2>4. QED
        BY <2>1, <2>2, <2>3 DEF Fifo!Put, Fifo!Return
<1>3. ASSUME NEW p \in Producers, PushFails(p) \/ PushForFails(p)
      PROVE  Fifo!Refuse(p)
    <2>1. /\ pc[p] \in {"locking", "woken", "expired"} /\ pc' = [pc EXCEPT ![p] = "idle"]
          /\ m_closed \/ stop \/ ~(Len(m_items) < m_capacity)
          /\ UNCHANGED <<m_items, m_closed, stop>>
        BY <1>3 DEF PushFails, PushForFails, Return, GoTo, MayPush
    <2>2. p \in InCall /\ InCall' = InCall \ {p}
        BY <1>0, <2>1 DEF InCall
    <2>3. QED
        BY <1>0, <2>1, <2>2, CapacityPositive DEF Fifo!Refuse, Fifo!Return
<1>4. ASSUME NEW c \in Consumers, PopTakes(c)
      PROVE  Fifo!Take(c)
    <2>1. c \in InCall /\ InCall' = InCall \ {c}
        BY <1>0, <1>4 DEF PopTakes, GoTo, InCall
    <2>2. QED
        BY <1>4, <2>1 DEF PopTakes, Fifo!Take, Fifo!Return
<1>5. ASSUME NEW c \in Consumers, PopEnds(c)
      PROVE  Fifo!Finish(c)
    <2>1. c \in InCall /\ InCall' = InCall \ {c}
        BY <1>0, <1>5 DEF PopEnds, Return, GoTo, InCall
    <2>2. QED
        BY <1>5, <2>1 DEF PopEnds, Return, Fifo!Finish, Fifo!Return
<1>6. ASSUME NEW k \in Closers, CloseMarks(k)
      PROVE  Fifo!Close
    BY <1>0, <1>6 DEF CloseMarks, GoTo, Fifo!Close, InCall
<1>7. ASSUME RequestStop
      PROVE  Fifo!RequestStop
    BY <1>7 DEF RequestStop, Fifo!RequestStop, InCall
<1>8. ASSUME UNCHANGED <<m_items, m_closed, stop>>, InCall' = InCall
      PROVE  UNCHANGED Fifo!vars
    BY <1>8 DEF Fifo!vars
<1>9. ASSUME NEW t \in Threads, SpuriousWake(t) \/ Expire(t) \/ PushSleeps(t) \/ PopSleeps(t)
      PROVE  UNCHANGED Fifo!vars
    <2>1. /\ UNCHANGED <<m_items, m_closed, stop>>
          /\ pc[t] \in {"locking", "asleep", "woken"}
          /\ \/ pc' = [pc EXCEPT ![t] = "asleep"]
             \/ pc' = [pc EXCEPT ![t] = "woken"]
             \/ pc' = [pc EXCEPT ![t] = "expired"]
        BY <1>9 DEF SpuriousWake, Expire, PushSleeps, PopSleeps, Sleep, Return, GoTo
    <2>2. /\ pc'[t] \in {"asleep", "woken", "expired"}
          /\ \A u \in Threads : u # t => pc'[u] = pc[u]
        BY <1>0, <2>1
    <2>3. InCall' = InCall
        BY <2>1, <2>2 DEF InCall
    <2>4. QED
        BY <1>8, <2>1, <2>3
<1>10. ASSUME NEW t \in Threads, PushNotifies(t) \/ PopNotifies(t)
       PROVE  UNCHANGED Fifo!vars
    <2>1. /\ UNCHANGED <<m_items, m_closed, stop>>
          /\ pc[t] = "notify" /\ pc'[t] = "idle"
          /\ \A u \in Threads : u # t => pc'[u] = pc[u] \/ (pc[u] = "asleep" /\ pc'[u] = "woken")
        BY <1>0, <1>10 DEF PushNotifies, PopNotifies, NotifyOne, GoTo, Asleep
    <2>2. InCall' = InCall
        BY <2>1 DEF InCall
    <2>3. QED
        BY <1>8, <2>1, <2>2
<1>11. ASSUME NEW k \in Closers, CloseNotifies(k)
       PROVE  UNCHANGED Fifo!vars
    <2>1. /\ UNCHANGED <<m_items, m_closed, stop>>
          /\ \A u \in Threads : pc'[u] = pc[u] \/ (pc[u] = "asleep" /\ pc'[u] = "woken")
        BY <1>0, <1>11
        DEF CloseNotifies, CloseWakesConsumers, CloseWakesProducers, WakeAll, Asleep
    <2>2. InCall' = InCall
        BY <2>1 DEF InCall
    <2>3. QED
        BY <1>8, <2>1, <2>2
<1>12. ASSUME NEW cv \in callbacks, StopCallback(cv)
       PROVE  UNCHANGED Fifo!vars
    <2>1. /\ UNCHANGED <<m_items, m_closed, stop>>
          /\ \A u \in Threads : pc'[u] = pc[u] \/ (pc[u] = "asleep" /\ pc'[u] = "woken")
        BY <1>0, <1>12 DEF StopCallback, WakeAll, Asleep
    <2>2. InCall' = InCall
        BY <2>1 DEF InCall
    <2>3. QED
        BY <1>8, <2>1, <2>2
<1>13. ASSUME NEW p \in Producers, CallPush(p)
       PROVE  Fifo!Next
    BY <1>1, <1>13 DEF CallPush, Called, GoTo, Fifo!Next
<1>14. ASSUME NEW c \in Consumers, CallPop(c)
       PROVE  Fifo!Next
    BY <1>1, <1>14 DEF CallPop, Called, GoTo, Fifo!Next
<1>15. ASSUME UNCHANGED vars
       PROVE  UNCHANGED Fifo!vars
    BY <1>8, <1>15 DEF vars, InCall
<1>16. QED
    BY ONLY [Next]_vars, <1>2, <1>3, <1>4, <1>5, <1>6, <1>7, <1>9, <1>10, <1>11, <1>12,
            <1>13, <1>14, <1>15
    DEF Next, ProducerStep, ConsumerStep, Fifo!Next, Threads

\* Safety of the whole class: each call takes effect once, at one instant, as a
\* closable FIFO of the same capacity prescribes.
THEOREM ImplementsFifoSafety == Safety => Fifo!Safety
BY InitTypes, TypesHold, InitRefines, StepRefines, PTL DEF Safety, Fifo!Safety
=============================================================================
